--------------------------- MODULE MosqWireProofs ---------------------------
(***************************************************************************)
(* Proofs about MosqWire: the options of a client, in whatever order they   *)
(* are set, and what comes over its socket, however the bytes are cut: the   *)
(* answers of a SOCKS5 proxy and behind them the packets of the broker.      *)
(***************************************************************************)
EXTENDS MosqWire, TLAPS, SequenceTheorems

\* Every call of mosquitto_lib_cleanup that finds a user takes one away.
UsersInv ==
  /\ init_refcount \in 0 .. MaxUsers /\ users = init_refcount
  /\ netUp \in BOOLEAN /\ (netUp <=> init_refcount > 0)

\* The pair is a client's, and is the zeros of memset only where an identifier was refused.
PairInv ==
  /\ sockpair \in {"open", "invalid", "zero"} /\ pairs = (IF sockpair = "open" THEN 1 ELSE 0)
  /\ ~alive => sockpair = "invalid"
  /\ stray => refused
  /\ sockpair = "zero" => refused
  /\ alive \in BOOLEAN /\ stray \in BOOLEAN /\ refused \in BOOLEAN

\* What TLS goes by has been there since it was asked for.
TlsInv ==
  /\ DOMAIN mosq = DOMAIN Fresh /\ mosq.protocol \in {3, 4, 5}
  /\ DOMAIN mosq.tls = DOMAIN NoTls /\ asked \in BOOLEAN
  /\ asked => BeginsTls(mosq.tls)

\* The options have values that a CONNECT can be built from.
ValuesOf(o) ==
  /\ o.clean \in {0, 1} /\ o.id \in Nat \cup {None}
  /\ o.username \in Nat \cup {None} /\ o.password \in Nat \cup {None}
  /\ o.will.topic \in Nat \cup {None} /\ o.will.qos \in {0, 2}
  /\ o.will.topic # None => o.will.payloadlen \in Nat /\ Proplen(o.will.properties) \in Nat
ValuesInv == ValuesOf(mosq)

OptionsIInv == UsersInv /\ PairInv /\ TlsInv /\ ValuesInv

\* While it negotiates with the proxy, the client has sent one message of each state,
\* and what it has read, what has arrived and what is to come are the one answer to it.
Messages == {"greeting", "userpass", "request", "connect"}
Waiting  == {"socks5_start", "socks5_userpass_reply", "socks5_request"}
MessageOf ==
  [socks5_start |-> "greeting", socks5_userpass_reply |-> "userpass", socks5_request |-> "request"]

Answer == in_packet.payload \o (arrived \o toCome)

\* The answer to a request, all of it.
AnswerInv ==
  /\ Len(Answer) > 5 /\ (granted <=> Answer[2] = 0)
  /\ (reply = "name") <=> (Answer[4] = 3)
  /\ Answer[4] = 1 => Len(Answer) = 10
  /\ Answer[4] = 4 => Len(Answer) = 22
  /\ Answer[4] = 3 => Len(Answer) = 7 + Answer[5]
  /\ in_packet.packet_length = 5
       \/ (Answer[4] \in {1, 3, 4} /\ in_packet.packet_length = 5 + MoreOf(Answer))

ProxyInv ==
  /\ state = "closed" => arrived = <<>> /\ toCome = <<>>
  /\ state \in Waiting =>
       /\ {"payload", "to_process", "packet_length"} \subseteq DOMAIN in_packet
       /\ in_packet.payload \in Seq(Nat) /\ arrived \in Seq(Nat) /\ toCome \in Seq(Nat)
       /\ in_packet.to_process \in Nat
       /\ in_packet.packet_length = Len(in_packet.payload) + in_packet.to_process
       /\ sent \in Seq(Messages) /\ sent # <<>> /\ Last(sent) = MessageOf[state]
  /\ state = "socks5_start" =>
       /\ in_packet.packet_length = 2
       /\ (reply = "none" /\ Len(Answer) = 0) \/ (reply = "method" /\ Len(Answer) = 2)
  /\ state = "socks5_userpass_reply" =>
       /\ in_packet.packet_length = 2
       /\ (reply = "method" /\ Len(Answer) = 0) \/ (reply = "userpass" /\ Len(Answer) = 2)
  /\ state = "socks5_request" =>
       \/ reply \in {"method", "userpass"} /\ Len(Answer) = 0 /\ in_packet.packet_length = 5
       \/ reply \in {"name", "address"} /\ AnswerInv

StreamIInv == ProxyInv /\ GrantedFirst

-----------------------------------------------------------------------------
(* Options *)

\* A client that was just made has no will and no names.
LEMMA FreshValues ==
  ASSUME NEW id \in Nat \cup {None}, NEW clean \in {0, 1}
  PROVE  /\ ValuesOf(Fresh) /\ ValuesOf([Fresh EXCEPT !.clean = clean])
         /\ ValuesOf([Fresh EXCEPT !.clean = clean, !.id = id])
<1>1. NoWill.topic = None /\ NoWill.qos = 0
  BY DEF NoWill
<1>2. /\ DOMAIN Fresh = {"id", "clean", "protocol", "username", "password", "will", "tls"}
      /\ Fresh.id = None /\ Fresh.clean = 0 /\ Fresh.username = None /\ Fresh.password = None
      /\ Fresh.will = NoWill
  BY DEF Fresh
<1>3. ValuesOf(Fresh)
  BY <1>1, <1>2 DEF ValuesOf
<1> DEFINE a == [Fresh EXCEPT !.clean = clean]
<1> DEFINE b == [Fresh EXCEPT !.clean = clean, !.id = id]
<1>4. /\ a.id = None /\ a.clean = clean /\ a.username = None /\ a.password = None /\ a.will = NoWill
      /\ b.id = id /\ b.clean = clean /\ b.username = None /\ b.password = None /\ b.will = NoWill
  BY <1>2
<1> HIDE DEF a, b
<1>5. ValuesOf(a) /\ ValuesOf(b)
  BY <1>1, <1>4 DEF ValuesOf
<1> QED
  BY <1>3, <1>5 DEF a, b

\* Nothing is set at the start.
LEMMA OptionsBegin == OptionsInit => OptionsIInv
<1> SUFFICES ASSUME OptionsInit PROVE OptionsIInv
  OBVIOUS
<1>1. UsersInv /\ PairInv
  <2>1. /\ init_refcount = 0 /\ users = 0 /\ netUp = FALSE
        /\ alive = FALSE /\ sockpair = "invalid" /\ pairs = 0 /\ stray = FALSE /\ refused = FALSE
    BY DEF OptionsInit
  <2>2. UsersInv
    <3>1. netUp \in BOOLEAN /\ ~netUp
      BY <2>1
    <3>2. init_refcount \in 0 .. MaxUsers /\ users = init_refcount /\ ~(init_refcount > 0)
      BY <2>1, OptionsAssumption
    <3> QED
      BY <3>1, <3>2 DEF UsersInv
  <2> QED
    BY <2>1, <2>2 DEF PairInv
<1>2. DOMAIN Fresh.tls = DOMAIN NoTls /\ Fresh.protocol \in {3, 4, 5}
  BY DEF Fresh
<1>3. ValuesInv
  <2>1. mosq = Fresh /\ None \in Nat \cup {None} /\ 0 \in {0, 1}
    BY DEF OptionsInit
  <2> QED
    BY <2>1, FreshValues, Zenon DEF ValuesInv
<1> QED
  BY <1>1, <1>2, <1>3 DEF OptionsInit, OptionsIInv, TlsInv

\* One less, and no less than none.
LEMMA OneLess ==
  ASSUME NEW n \in Nat
  PROVE  Max({n - 1, 0}) = IF n = 0 THEN 0 ELSE n - 1
<1> DEFINE m == IF n = 0 THEN 0 ELSE n - 1
<1>1. m \in {n - 1, 0} /\ \A x \in {n - 1, 0} : m >= x
  OBVIOUS
<1>2. ASSUME NEW y \in {n - 1, 0}, \A x \in {n - 1, 0} : y >= x PROVE y = m
  BY <1>2
<1> HIDE DEF m
<1>3. (CHOOSE y \in {n - 1, 0} : \A x \in {n - 1, 0} : y >= x) = m
  BY <1>1, <1>2
<1> QED
  BY <1>3 DEF Max, m

\* Setting an option leaves everything but the options alone.
LEMMA OptionSets ==
  UsernamePwSet \/ WillSet \/ WillClear \/ IntOption \/ TlsSet \/ TlsPskSet
    => UNCHANGED <<init_refcount, netUp, users, alive, sockpair, pairs, stray, refused>>
BY Zenon DEF UsernamePwSet, WillSet, WillClear, IntOption, TlsSet, TlsPskSet, Sets

\* Users and the count of them go up and down together.
LEMMA UsersNext ==
  ASSUME UsersInv, OptionsNext
  PROVE  UsersInv'
<1>1. CASE lib_init
  <2>1. /\ init_refcount \in Nat /\ users = init_refcount /\ init_refcount' = init_refcount + 1
        /\ users' = users + 1 /\ users < MaxUsers
    BY <1>1, OptionsAssumption DEF lib_init, UsersInv
  <2>2. netUp' \in BOOLEAN
    BY <1>1, Zenon DEF lib_init
  <2>3. netUp'
    <3>1. netUp' <=> netUp \/ init_refcount = 0
      BY <1>1 DEF lib_init
    <3> QED
      BY <2>1, <3>1 DEF UsersInv
  <2> QED
    BY <2>1, <2>2, <2>3, OptionsAssumption DEF UsersInv
<1>2. CASE lib_cleanup
  <2>1. init_refcount \in Nat /\ users = init_refcount /\ init_refcount <= MaxUsers
    BY OptionsAssumption DEF UsersInv
  <2>2. /\ users' = (IF users = 0 THEN 0 ELSE users - 1)
        /\ init_refcount' = (IF users = 0 THEN 0 ELSE users - 1)
    BY <1>2, <2>1, OneLess DEF lib_cleanup
  <2>3. netUp' \in BOOLEAN
    BY <1>2, Zenon DEF lib_cleanup
  <2>4. netUp' <=> netUp /\ init_refcount # 1
    BY <1>2 DEF lib_cleanup, EndsNet
  <2> QED
    BY <2>1, <2>2, <2>3, <2>4, OptionsAssumption DEF UsersInv
<1>3. CASE UNCHANGED <<init_refcount, netUp, users>>
  BY <1>3 DEF UsersInv
<1>4. New \/ Reinitialise \/ Destroy => UNCHANGED <<init_refcount, netUp, users>>
  BY DEF New, Reinitialise, Destroy
<1> QED
  BY <1>1, <1>2, <1>3, <1>4, OptionSets DEF OptionsNext, Sets

\* What a client and its pair become with an identifier: only a refused one leaves zeros.
LEMMA PairsReinitialised ==
  ASSUME NEW id, NEW clean, NEW pair \in {"open", "invalid", "zero"}, NEW count,
         count = (IF pair = "open" THEN 1 ELSE 0), Reinitialised(id, clean, pair, count)
  PROVE  /\ sockpair' \in {"open", "invalid", "zero"} /\ pairs' = (IF sockpair' = "open" THEN 1 ELSE 0)
         /\ sockpair' = "zero" => id \in {0, Bad}
BY DEF Reinitialised, PairsAfterDestroy

\* The pair that is opened for a client is closed with it.
LEMMA PairsNext ==
  ASSUME PairInv, OptionsNext
  PROVE  PairInv'
<1> USE DEF PairInv
<1>1. CASE UNCHANGED <<alive, sockpair, pairs, stray, refused>>
  BY <1>1
<1>2. CASE New
  <2>1. PICK id \in Texts \cup {0, Bad}, clean \in {0, 1}, first \in {"open", "invalid"} :
          \/ /\ id \in {0, Bad}
             /\ stray' = TRUE /\ refused' = TRUE
             /\ pairs' = PairsAfterDestroy(first, IF first = "open" THEN pairs + 1 ELSE pairs)
             /\ sockpair' = "invalid" /\ UNCHANGED <<alive, mosq>>
          \/ /\ id \notin {0, Bad} /\ alive' = TRUE
             /\ Reinitialised(id, clean, first, IF first = "open" THEN pairs + 1 ELSE pairs)
             /\ UNCHANGED <<stray, refused>>
    BY <1>2 DEF New
  <2>2. ~alive /\ pairs = 0
    BY <1>2 DEF New
  <2>3. CASE id \in {0, Bad}
    <3>1. pairs' = 0 /\ sockpair' = "invalid" /\ UNCHANGED alive
      BY <2>1, <2>2, <2>3 DEF PairsAfterDestroy, Reinitialised
    <3>2. stray' = TRUE /\ refused' = TRUE
      BY <2>1, <2>3
    <3>3. stray' \in BOOLEAN /\ refused' \in BOOLEAN /\ refused'
      BY <3>2
    <3> QED
      BY <3>1, <3>3
  <2>4. CASE id \notin {0, Bad}
    <3>1. Reinitialised(id, clean, first, IF first = "open" THEN 1 ELSE 0)
      BY <2>1, <2>2, <2>4
    <3>2. /\ sockpair' \in {"open", "invalid", "zero"} /\ pairs' = (IF sockpair' = "open" THEN 1 ELSE 0)
          /\ sockpair' = "zero" => id \in {0, Bad}
      BY <3>1, PairsReinitialised
    <3>3. alive' = TRUE /\ UNCHANGED <<stray, refused>>
      BY <2>1, <2>4
    <3>4. alive' \in BOOLEAN /\ alive'
      BY <3>3
    <3> QED
      BY <2>4, <3>2, <3>3, <3>4
  <2> QED
    BY <2>3, <2>4
<1>3. CASE Reinitialise
  <2>1. PICK id \in Texts \cup {0, Bad}, clean \in {0, 1} :
          Reinitialised(id, clean, sockpair, pairs) /\ refused' = (refused \/ id \in {0, Bad})
    BY <1>3 DEF Reinitialise
  <2>2. /\ sockpair' \in {"open", "invalid", "zero"} /\ pairs' = (IF sockpair' = "open" THEN 1 ELSE 0)
        /\ sockpair' = "zero" => id \in {0, Bad}
    BY <2>1, PairsReinitialised
  <2>3. alive /\ UNCHANGED alive /\ stray' = (stray \/ sockpair = "zero")
    BY <1>3 DEF Reinitialise
  <2>4. (stray' <=> stray \/ sockpair = "zero") /\ (refused' <=> refused \/ id \in {0, Bad})
    BY <2>1, <2>3
  <2>5. stray' \in BOOLEAN /\ refused' \in BOOLEAN
    BY <2>1, <2>3, Zenon
  <2>6. (stray' => refused') /\ (sockpair' = "zero" => refused')
    BY <2>2, <2>4
  <2> QED
    BY <2>2, <2>3, <2>5, <2>6
<1>4. CASE Destroy
  <2>1. alive' = FALSE /\ pairs' = 0 /\ sockpair' = "invalid" /\ UNCHANGED refused
    BY <1>4 DEF Destroy, PairsAfterDestroy
  <2>2. stray' \in BOOLEAN
    BY <1>4, Zenon DEF Destroy
  <2>3. stray' <=> stray \/ sockpair = "zero"
    BY <1>4 DEF Destroy
  <2>4. stray' => refused'
    BY <2>1, <2>3
  <2>5. refused' \in BOOLEAN
    BY <2>1
  <2> QED
    BY <2>1, <2>2, <2>4, <2>5
<1>5. lib_init \/ lib_cleanup => UNCHANGED <<alive, sockpair, pairs, stray, refused>>
  BY DEF lib_init, lib_cleanup
<1> QED
  BY <1>1, <1>2, <1>3, <1>4, <1>5, OptionSets DEF OptionsNext, Sets

\* Options are records of the same fields, and other options leave those of TLS alone.
LEMMA TlsNext ==
  ASSUME TlsInv, OptionsNext
  PROVE  TlsInv'
<1> USE DEF TlsInv
<1>1. /\ DOMAIN Fresh = {"id", "clean", "protocol", "username", "password", "will", "tls"}
      /\ DOMAIN NoTls = {"cafile", "capath", "certfile", "keyfile", "psk"}
      /\ Fresh.protocol = 4 /\ Fresh.tls = NoTls
  BY DEF Fresh, NoTls
<1>2. CASE UNCHANGED <<mosq, asked>>
  BY <1>2
<1>3. lib_init \/ lib_cleanup => UNCHANGED <<mosq, asked>>
  BY DEF lib_init, lib_cleanup
<1>4. New \/ Reinitialise \/ Destroy => asked' = FALSE
  BY DEF New, Reinitialise, Destroy
<1>5. ASSUME NEW id, NEW clean, NEW pair, NEW count, Reinitialised(id, clean, pair, count)
      PROVE  DOMAIN mosq' = DOMAIN Fresh /\ mosq'.protocol = 4 /\ mosq'.tls = NoTls
  <2>1. CASE mosq' = [Fresh EXCEPT !.clean = clean]
    BY <1>1, <2>1
  <2>2. CASE mosq' = [Fresh EXCEPT !.clean = clean, !.id = id]
    BY <1>1, <2>2
  <2> QED
    BY <1>5, <2>1, <2>2 DEF Reinitialised
<1>6. CASE New
  <2>1. mosq' = mosq \/ \E id, clean, pair, count : Reinitialised(id, clean, pair, count)
    BY <1>6, Zenon DEF New
  <2>2. CASE mosq' = mosq
    BY <1>4, <1>6, <2>2
  <2>3. CASE \E id, clean, pair, count : Reinitialised(id, clean, pair, count)
    <3>1. DOMAIN mosq' = DOMAIN Fresh /\ mosq'.protocol = 4 /\ mosq'.tls = NoTls
      BY <1>5, <2>3
    <3> QED
      BY <1>4, <1>6, <3>1
  <2> QED
    BY <2>1, <2>2, <2>3
<1>7. CASE Reinitialise
  <2>1. \E id, clean : Reinitialised(id, clean, sockpair, pairs)
    BY <1>7, Zenon DEF Reinitialise
  <2>2. DOMAIN mosq' = DOMAIN Fresh /\ mosq'.protocol = 4 /\ mosq'.tls = NoTls
    BY <1>5, <2>1
  <2> QED
    BY <1>4, <1>7, <2>2
<1>8. CASE Destroy
  BY <1>1, <1>4, <1>8 DEF Destroy
<1>9. CASE UsernamePwSet
  <2>1. PICK username, password : mosq' = username_pw_set(mosq, username, password) /\ UNCHANGED asked
    BY <1>9, Zenon DEF UsernamePwSet, Sets
  <2>2. DOMAIN mosq' = DOMAIN mosq /\ mosq'.protocol = mosq.protocol /\ mosq'.tls = mosq.tls
    BY <1>1, <2>1 DEF username_pw_set
  <2> QED
    BY <2>1, <2>2
<1>10. CASE WillSet \/ WillClear
  <2>1. PICK will : mosq' = [mosq EXCEPT !.will = will] /\ UNCHANGED asked
    BY <1>10, Zenon DEF WillSet, WillClear, Sets
  <2>2. DOMAIN mosq' = DOMAIN mosq /\ mosq'.protocol = mosq.protocol /\ mosq'.tls = mosq.tls
    BY <1>1, <2>1
  <2> QED
    BY <2>1, <2>2
<1>11. CASE IntOption
  <2>1. PICK protocol \in {3, 4, 5} : mosq' = [mosq EXCEPT !.protocol = protocol] /\ UNCHANGED asked
    BY <1>11 DEF IntOption, Sets
  <2>2. DOMAIN mosq' = DOMAIN mosq /\ mosq'.protocol = protocol /\ mosq'.tls = mosq.tls
    BY <1>1, <2>1
  <2> QED
    BY <2>1, <2>2
<1>12. ASSUME NEW tls, mosq' = [mosq EXCEPT !.tls = tls]
       PROVE  DOMAIN mosq' = DOMAIN mosq /\ mosq'.protocol = mosq.protocol /\ mosq'.tls = tls
  BY <1>1, <1>12
<1>13. CASE TlsSet
  <2>1. PICK cafile \in {None, 1, Bad}, certfile \in {None, 1, Bad}, keyfile \in {None, 1, Bad},
             capath \in {None, 1} :
          /\ cafile # None \/ capath # None
          /\ Sets([mosq EXCEPT !.tls = tls_set(@, cafile, capath, certfile, keyfile)])
          /\ asked' = (Bad \notin {cafile, certfile, keyfile})
    BY <1>13, ZenonT(60) DEF TlsSet
  <2> DEFINE tls == tls_set(mosq.tls, cafile, capath, certfile, keyfile)
  <2>2. DOMAIN tls = DOMAIN NoTls
    BY <1>1 DEF tls_set
  <2>3. asked' => BeginsTls(tls)
    <3>1. SUFFICES ASSUME asked' PROVE BeginsTls(tls)
      OBVIOUS
    <3>2. cafile # Bad /\ certfile # Bad /\ keyfile # Bad
      BY <2>1, <3>1
    <3>3. tls.cafile = cafile /\ tls.capath = capath
      BY <1>1, <3>2 DEF tls_set
    <3> QED
      BY <2>1, <3>3 DEF BeginsTls
  <2>4. mosq' = [mosq EXCEPT !.tls = tls]
    BY <2>1 DEF Sets
  <2> HIDE DEF tls
  <2>5. DOMAIN mosq' = DOMAIN mosq /\ mosq'.protocol = mosq.protocol /\ mosq'.tls = tls
    BY <1>12, <2>4
  <2>6. asked' \in BOOLEAN
    BY <2>1, Zenon
  <2> QED
    BY <2>2, <2>3, <2>5, <2>6
<1>14. CASE TlsPskSet
  <2> DEFINE tls == [mosq.tls EXCEPT !.psk = 1]
  <2>1. mosq' = [mosq EXCEPT !.tls = tls] /\ asked' = TRUE
    BY <1>14 DEF TlsPskSet, Sets
  <2>2. DOMAIN tls = DOMAIN NoTls /\ tls.psk = 1
    BY <1>1
  <2> HIDE DEF tls
  <2>3. DOMAIN mosq' = DOMAIN mosq /\ mosq'.protocol = mosq.protocol /\ mosq'.tls = tls
    BY <1>12, <2>1
  <2> QED
    BY <2>1, <2>2, <2>3 DEF BeginsTls, None
<1> QED
  BY <1>2, <1>3, <1>6, <1>7, <1>8, <1>9, <1>10, <1>11, <1>13, <1>14 DEF OptionsNext

\* Lengths are numbers.
LEMMA LengthsNat == Texts \subseteq Nat \cup {None} /\ Unchecked \subseteq Nat
<1>1. Texts \subseteq 0 .. MaxText \cup {None} /\ Unchecked \subseteq 0 .. MaxVarint
  BY OptionsAssumption, Zenon
<1>2. 0 .. MaxText \subseteq Nat /\ 0 .. MaxVarint \subseteq Nat
  OBVIOUS
<1> QED
  BY <1>1, <1>2

\* Values stay values, whatever is set.
LEMMA ValuesNext ==
  ASSUME TlsInv, ValuesInv, OptionsNext
  PROVE  ValuesInv'
<1>1. /\ DOMAIN Fresh = {"id", "clean", "protocol", "username", "password", "will", "tls"}
      /\ DOMAIN mosq = DOMAIN Fresh /\ ValuesOf(mosq)
  BY DEF Fresh, TlsInv, ValuesInv
<1>2. mosq' = mosq => ValuesInv'
  BY <1>1 DEF ValuesInv
<1>3. lib_init \/ lib_cleanup => ValuesInv'
  BY <1>2, Zenon DEF lib_init, lib_cleanup
<1>4. ASSUME NEW id \in Texts \cup {0, Bad}, NEW clean \in {0, 1}, NEW pair, NEW count,
             Reinitialised(id, clean, pair, count)
      PROVE  ValuesInv'
  <2>1. CASE id \in {0, Bad}
    <3>1. mosq' = [Fresh EXCEPT !.clean = clean]
      BY <1>4, <2>1, Zenon DEF Reinitialised
    <3>2. None \in Nat \cup {None}
      OBVIOUS
    <3> QED
      BY <3>1, <3>2, FreshValues, Zenon DEF ValuesInv
  <2>2. CASE id \notin {0, Bad}
    <3>1. mosq' = [Fresh EXCEPT !.clean = clean, !.id = id]
      BY <1>4, <2>2, Zenon DEF Reinitialised
    <3>2. id \in Nat \cup {None}
      BY <2>2, LengthsNat
    <3> QED
      BY <3>1, <3>2, FreshValues, Zenon DEF ValuesInv
  <2> QED
    BY <2>1, <2>2
<1>5. CASE New
  <2>1. \/ mosq' = mosq
        \/ \E id \in Texts \cup {0, Bad}, clean \in {0, 1} :
             \E pair, count : Reinitialised(id, clean, pair, count)
    BY <1>5, ZenonT(60) DEF New
  <2> QED
    BY <1>2, <1>4, <2>1, Zenon
<1>6. CASE Reinitialise
  <2>1. \E id \in Texts \cup {0, Bad}, clean \in {0, 1} : Reinitialised(id, clean, sockpair, pairs)
    BY <1>6, Zenon DEF Reinitialise
  <2> QED
    BY <1>4, <2>1, Zenon
<1>7. CASE Destroy
  <2>1. mosq' = Fresh /\ 0 \in {0, 1} /\ None \in Nat \cup {None}
    BY <1>7 DEF Destroy
  <2> QED
    BY <2>1, FreshValues, Zenon DEF ValuesInv
<1>8. CASE UsernamePwSet
  <2>1. PICK username \in Texts \cup {Bad}, password \in Unchecked \cup {None} :
          mosq' = username_pw_set(mosq, username, password)
    BY <1>8, ZenonT(60) DEF UsernamePwSet, Sets
  <2> DEFINE a == IF username = Bad THEN None ELSE username
  <2> DEFINE c == IF username = Bad THEN None ELSE password
  <2>2. a \in Nat \cup {None} /\ c \in Nat \cup {None}
    BY LengthsNat
  <2>3. mosq' = [mosq EXCEPT !.username = a, !.password = c]
    BY <2>1, Zenon DEF username_pw_set
  <2> HIDE DEF a, c
  <2>4. /\ mosq'.clean = mosq.clean /\ mosq'.id = mosq.id /\ mosq'.will = mosq.will
        /\ mosq'.username = a /\ mosq'.password = c
    BY <1>1, <2>3
  <2> QED
    BY <1>1, <2>2, <2>4 DEF ValuesInv, ValuesOf
<1>9. CASE WillSet \/ WillClear
  <2>1. PICK will : /\ mosq' = [mosq EXCEPT !.will = will]
                    /\ will.topic \in Nat \cup {None} /\ will.qos \in {0, 2}
                    /\ will.topic # None => will.payloadlen \in Nat /\ Proplen(will.properties) \in Nat
    <3>1. CASE WillSet
      <4>1. PICK topic \in Texts \ {None}, payloadlen \in Unchecked, qos \in {0, 2}, properties \in WillProperties :
              mosq' = [mosq EXCEPT !.will = [topic |-> topic, payloadlen |-> payloadlen, qos |-> qos,
                                             properties |-> properties]]
        BY <3>1, ZenonT(60) DEF WillSet, Sets
      <4> DEFINE will == [topic |-> topic, payloadlen |-> payloadlen, qos |-> qos, properties |-> properties]
      <4>2. /\ will.topic = topic /\ will.payloadlen = payloadlen /\ will.qos = qos
            /\ will.properties = properties
        OBVIOUS
      <4>3. topic \in Nat /\ payloadlen \in Nat /\ Proplen(properties) \in Nat
        BY OptionsAssumption, LengthsNat
      <4>4. mosq' = [mosq EXCEPT !.will = will]
        BY <4>1, Zenon
      <4> HIDE DEF will
      <4>5. will.topic \in Nat \cup {None} /\ will.qos \in {0, 2}
        BY <4>2, <4>3
      <4> QED
        BY <4>2, <4>3, <4>4, <4>5, Zenon
    <3>2. CASE WillClear
      <4>1. mosq' = [mosq EXCEPT !.will = NoWill]
        BY <3>2, Zenon DEF WillClear, Sets
      <4>2. NoWill.topic = None /\ NoWill.qos = 0
        BY DEF NoWill
      <4> QED
        BY <4>1, <4>2
    <3> QED
      BY <1>9, <3>1, <3>2, Zenon
  <2>2. /\ mosq'.clean = mosq.clean /\ mosq'.id = mosq.id /\ mosq'.will = will
        /\ mosq'.username = mosq.username /\ mosq'.password = mosq.password
    BY <1>1, <2>1
  <2> QED
    BY <1>1, <2>1, <2>2 DEF ValuesInv, ValuesOf
<1>10. ASSUME \/ \E protocol : mosq' = [mosq EXCEPT !.protocol = protocol]
              \/ \E tls : mosq' = [mosq EXCEPT !.tls = tls]
       PROVE  ValuesInv'
  <2>1. /\ mosq'.clean = mosq.clean /\ mosq'.id = mosq.id /\ mosq'.will = mosq.will
        /\ mosq'.username = mosq.username /\ mosq'.password = mosq.password
    BY <1>1, <1>10
  <2> QED
    BY <1>1, <2>1 DEF ValuesInv, ValuesOf
<1>11. CASE IntOption
  <2>1. \E protocol : mosq' = [mosq EXCEPT !.protocol = protocol]
    BY <1>11, Zenon DEF IntOption, Sets
  <2> QED
    BY <1>10, <2>1, Zenon
<1>12. CASE TlsSet \/ TlsPskSet
  <2>1. \E tls : mosq' = [mosq EXCEPT !.tls = tls]
    BY <1>12 DEF TlsSet, TlsPskSet, Sets
  <2> QED
    BY <1>10, <2>1, Zenon
<1> QED
  BY <1>3, <1>5, <1>6, <1>7, <1>8, <1>9, <1>11, <1>12, Zenon DEF OptionsNext

-----------------------------------------------------------------------------
(* The proxy *)

\* A sequence, with another behind it.
LEMMA Cat ==
  ASSUME NEW S, NEW s \in Seq(S), NEW t \in Seq(S)
  PROVE  /\ s \o t \in Seq(S) /\ Len(s \o t) = Len(s) + Len(t)
         /\ \A i \in 1 .. Len(s) : (s \o t)[i] = s[i]
         /\ \A i \in 1 .. Len(t) : (s \o t)[i + Len(s)] = t[i]
OBVIOUS

\* A sequence is its first elements and the others behind them.
LEMMA Cut ==
  ASSUME NEW S, NEW s \in Seq(S), NEW n \in 0 .. Len(s)
  PROVE  /\ SubSeq(s, 1, n) \in Seq(S) /\ Len(SubSeq(s, 1, n)) = n
         /\ SubSeq(s, n + 1, Len(s)) \in Seq(S) /\ Len(SubSeq(s, n + 1, Len(s))) = Len(s) - n
         /\ SubSeq(s, 1, n) \o SubSeq(s, n + 1, Len(s)) = s
<1> DEFINE a == SubSeq(s, 1, n)
<1> DEFINE b == SubSeq(s, n + 1, Len(s))
<1>1. Len(s) \in Nat /\ n \in Nat /\ n <= Len(s)
  BY LenProperties
<1>2. a \in Seq(S) /\ Len(a) = n /\ \A i \in 1 .. n : a[i] = s[i]
  OBVIOUS
<1>3. b \in Seq(S) /\ Len(b) = Len(s) - n /\ \A i \in 1 .. Len(s) - n : b[i] = s[i + n]
  OBVIOUS
<1> HIDE DEF a, b
<1>4. /\ a \o b \in Seq(S) /\ Len(a \o b) = Len(a) + Len(b)
      /\ \A i \in 1 .. Len(a) : (a \o b)[i] = a[i]
      /\ \A i \in 1 .. Len(b) : (a \o b)[i + Len(a)] = b[i]
  BY <1>2, <1>3, Cat
<1> DEFINE c == a \o b
<1>5. c \in Seq(S) /\ Len(c) = Len(s)
  BY <1>1, <1>2, <1>3, <1>4
<1>6. \A i \in 1 .. n : c[i] = s[i]
  BY <1>2, <1>4
<1>7. \A i \in 1 .. Len(s) - n : c[i + n] = s[i + n]
  BY <1>1, <1>2, <1>3, <1>4
<1> HIDE DEF c
<1>8. \A i \in 1 .. Len(s) : c[i] = s[i]
  <2> SUFFICES ASSUME NEW i \in 1 .. Len(s) PROVE c[i] = s[i]
    OBVIOUS
  <2>1. CASE i <= n
    BY <1>1, <1>6, <2>1
  <2>2. CASE i > n
    <3>1. i - n \in 1 .. Len(s) - n /\ (i - n) + n = i
      BY <1>1, <2>2
    <3>2. c[(i - n) + n] = s[(i - n) + n]
      BY <1>7, <3>1
    <3> QED
      BY <3>1, <3>2
  <2> QED
    BY <1>1, <2>1, <2>2
<1>9. c = s
  BY <1>5, <1>8, SeqEqual
<1> QED
  BY <1>2, <1>3, <1>9 DEF a, b, c

\* Three sequences joined in either way are the same.
LEMMA Regroup ==
  ASSUME NEW S, NEW s \in Seq(S), NEW a \in Seq(S), NEW b \in Seq(S), NEW u \in Seq(S)
  PROVE  (s \o a) \o (b \o u) = s \o ((a \o b) \o u)
<1>1. s \o a \in Seq(S) /\ b \o u \in Seq(S)
  BY Cat
<1>2. (s \o a) \o (b \o u) = s \o (a \o (b \o u))
  BY <1>1, ConcatAssociative, SMTT(30)
<1>3. a \o (b \o u) = (a \o b) \o u
  BY ConcatAssociative, SMTT(30)
<1> QED
  BY <1>2, <1>3

\* A client that has closed has nothing of the proxy's left.
LEMMA ClosedProxy ==
  ASSUME GrantedFirst, state' = "closed", arrived' = <<>>, toCome' = <<>>,
         UNCHANGED <<proxy, sent, granted>>
  PROVE  ProxyInv' /\ GrantedFirst'
BY DEF ProxyInv, GrantedFirst, Waiting

\* What has been waited for is taken from what has arrived.
LEMMA WholeRead ==
  ASSUME ProxyInv, state \in Waiting, in_packet.to_process <= Len(arrived)
  PROVE  /\ DOMAIN Whole = DOMAIN in_packet /\ Whole.packet_length = in_packet.packet_length
         /\ Whole.payload \in Seq(Nat) /\ Len(Whole.payload) = in_packet.packet_length
         /\ Rest \in Seq(Nat) /\ Len(Rest) = Len(arrived) - in_packet.to_process
         /\ Whole.payload \o (Rest \o toCome) = Answer
<1> DEFINE n == in_packet.to_process
<1> DEFINE p == in_packet.payload
<1>1. /\ {"payload", "to_process", "packet_length"} \subseteq DOMAIN in_packet
      /\ p \in Seq(Nat) /\ arrived \in Seq(Nat) /\ toCome \in Seq(Nat)
      /\ n \in Nat /\ in_packet.packet_length = Len(p) + n
  BY DEF ProxyInv
<1>2. /\ DOMAIN Whole = DOMAIN in_packet /\ Whole.payload = p \o SubSeq(arrived, 1, n)
      /\ Whole.packet_length = in_packet.packet_length
  BY <1>1 DEF Whole, Taking
<1> HIDE DEF n, p
<1>3. n \in 0 .. Len(arrived)
  <2>1. n <= Len(arrived) /\ Len(arrived) \in Nat
    BY <1>1, LenProperties DEF n
  <2> QED
    BY <1>1, <2>1
<1> DEFINE first  == SubSeq(arrived, 1, n)
<1> DEFINE second == SubSeq(arrived, n + 1, Len(arrived))
<1>4. /\ first \in Seq(Nat) /\ Len(first) = n /\ second \in Seq(Nat) /\ Len(second) = Len(arrived) - n
      /\ first \o second = arrived
  BY <1>1, <1>3, Cut
<1> HIDE DEF first, second
<1>5. /\ p \o first \in Seq(Nat) /\ Len(p \o first) = Len(p) + n
      /\ (p \o first) \o (second \o toCome) = p \o (arrived \o toCome)
  <2>1. p \in Seq(Nat) /\ first \in Seq(Nat) /\ second \in Seq(Nat) /\ toCome \in Seq(Nat)
    BY <1>1, <1>4
  <2>2. (p \o first) \o (second \o toCome) = p \o (arrived \o toCome)
    <3> DEFINE S == Nat
    <3>1. /\ p \in Seq(S) /\ first \in Seq(S) /\ second \in Seq(S) /\ toCome \in Seq(S)
          /\ arrived = first \o second
      BY <1>4, <2>1
    <3> HIDE DEF S, p
    <3>2. (p \o first) \o (second \o toCome) = p \o ((first \o second) \o toCome)
      BY <3>1, Regroup, SMTT(60)
    <3> QED
      BY <3>1, <3>2, Zenon
  <2>3. p \o first \in Seq(Nat) /\ Len(p \o first) = Len(p) + Len(first)
    BY <2>1, Cat
  <2> QED
    BY <1>4, <2>2, <2>3
<1>6. Rest = second /\ Answer = p \o (arrived \o toCome) /\ Whole.payload = p \o first
  BY <1>2 DEF Rest, Answer, n, p, first, second
<1>7. Whole.payload \in Seq(Nat) /\ Len(Whole.payload) = in_packet.packet_length
  BY <1>1, <1>5, <1>6
<1>8. Rest \in Seq(Nat) /\ Len(Rest) = Len(arrived) - in_packet.to_process
  BY <1>4, <1>6 DEF n
<1>9. Whole.payload \o (Rest \o toCome) = Answer
  BY <1>5, <1>6
<1> QED
  BY <1>2, <1>7, <1>8, <1>9

\* The length of the answer.
LEMMA AnswerLength ==
  ASSUME ProxyInv, state \in Waiting
  PROVE  /\ Len(Answer) = Len(in_packet.payload) + Len(arrived) + Len(toCome)
         /\ Answer \in Seq(Nat)
         /\ Len(in_packet.payload) \in Nat /\ Len(arrived) \in Nat /\ Len(toCome) \in Nat
<1>1. in_packet.payload \in Seq(Nat) /\ arrived \in Seq(Nat) /\ toCome \in Seq(Nat)
  BY DEF ProxyInv
<1>2. arrived \o toCome \in Seq(Nat) /\ Len(arrived \o toCome) = Len(arrived) + Len(toCome)
  BY <1>1, Cat
<1>3. Answer \in Seq(Nat) /\ Len(Answer) = Len(in_packet.payload) + Len(arrived \o toCome)
  BY <1>1, <1>2, Cat DEF Answer
<1>4. Len(in_packet.payload) \in Nat /\ Len(arrived) \in Nat /\ Len(toCome) \in Nat
  BY <1>1, LenProperties
<1>5. Len(Answer) = Len(in_packet.payload) + Len(arrived) + Len(toCome)
  <2> DEFINE a == Len(in_packet.payload)
  <2> DEFINE b == Len(arrived)
  <2> DEFINE c == Len(toCome)
  <2>1. Len(Answer) = a + (b + c) /\ a \in Nat /\ b \in Nat /\ c \in Nat
    BY <1>2, <1>3, <1>4
  <2> HIDE DEF a, b, c
  <2>2. Len(Answer) = a + b + c
    BY <2>1
  <2> QED
    BY <2>2 DEF a, b, c
<1> QED
  BY <1>3, <1>4, <1>5

\* The next message goes out when the answer to the last one is read, all of it.
LEMMA GoesProxy ==
  ASSUME ProxyInv, GrantedFirst, NEW next, NEW message, NEW n, Goes(next, message, n),
         state \in {"socks5_start", "socks5_userpass_reply"}, ReadsWhole(state),
         \/ next = "socks5_request" /\ message = "request" /\ n = 5
         \/ state = "socks5_start" /\ next = "socks5_userpass_reply" /\ message = "userpass" /\ n = 2
  PROVE  ProxyInv' /\ GrantedFirst'
<1>1. state \in Waiting /\ in_packet.to_process <= Len(arrived)
  BY DEF Waiting, ReadsWhole
<1>2. /\ {"payload", "to_process", "packet_length"} \subseteq DOMAIN in_packet
      /\ toCome \in Seq(Nat) /\ sent \in Seq(Messages) /\ in_packet.packet_length = 2
      /\ in_packet.to_process \in Nat
      /\ in_packet.packet_length = Len(in_packet.payload) + in_packet.to_process
  BY <1>1 DEF ProxyInv
<1>3. /\ Len(Answer) = Len(in_packet.payload) + Len(arrived) + Len(toCome)
      /\ Len(in_packet.payload) \in Nat /\ Len(arrived) \in Nat /\ Len(toCome) \in Nat
  BY <1>1, AnswerLength
<1>4. /\ Len(Answer) = 2
      /\ \/ state = "socks5_start" /\ reply = "method"
         \/ state = "socks5_userpass_reply" /\ reply = "userpass"
  BY <1>1, <1>2, <1>3 DEF ProxyInv
<1>5. Rest \in Seq(Nat) /\ Len(Rest) = Len(arrived) - in_packet.to_process
  BY <1>1, WholeRead
<1>6. Len(Rest) = 0 /\ Len(toCome) = 0
  <2> DEFINE a == Len(in_packet.payload)
  <2> DEFINE b == Len(arrived)
  <2> DEFINE c == Len(toCome)
  <2> DEFINE d == Len(Rest)
  <2> DEFINE n0 == in_packet.to_process
  <2>1. d \in Nat
    BY <1>5, LenProperties
  <2>2. a \in Nat /\ b \in Nat /\ c \in Nat /\ 2 = a + b + c
    BY <1>3, <1>4
  <2>3. n0 \in Nat /\ 2 = a + n0 /\ d = b - n0
    BY <1>2, <1>5
  <2> HIDE DEF a, b, c, d, n0
  <2>4. d = 0 /\ c = 0
    BY <2>1, <2>2, <2>3
  <2> QED
    BY <2>4 DEF c, d
<1>7. Rest = <<>> /\ toCome = <<>>
  BY <1>2, <1>5, <1>6, EmptySeq
<1>8. /\ state' = next /\ sent' = Append(sent, message) /\ arrived' = <<>> /\ toCome' = <<>>
      /\ UNCHANGED <<proxy, reply, granted>>
      /\ in_packet' = Expecting(packet__cleanup(in_packet), n)
  BY <1>7 DEF Goes
<1>9. /\ {"payload", "to_process", "packet_length"} \subseteq DOMAIN in_packet'
      /\ in_packet'.payload = <<>> /\ in_packet'.to_process = n /\ in_packet'.packet_length = n
  BY <1>8 DEF Expecting, packet__cleanup
<1>10. sent' \in Seq(Messages) /\ sent' # <<>> /\ Last(sent') = message
  <2>1. message \in Messages
    BY DEF Messages
  <2>2. /\ Append(sent, message) \in Seq(Messages) /\ Len(Append(sent, message)) = Len(sent) + 1
        /\ Append(sent, message)[Len(sent) + 1] = message
    BY <1>2, <2>1, AppendProperties
  <2> QED
    BY <1>2, <1>8, <2>2 DEF Last
<1>11. Answer' = <<>> /\ <<>> \in Seq(Nat) /\ Len(<<>>) = 0
  BY <1>8, <1>9 DEF Answer
<1>12. message = MessageOf[next] /\ message # "connect" /\ next \in Waiting /\ n \in Nat
  BY DEF MessageOf, Waiting
<1>13. GrantedFirst'
  BY <1>10, <1>12 DEF GrantedFirst
<1>14. ProxyInv'
  BY <1>4, <1>8, <1>9, <1>10, <1>11, <1>12 DEF ProxyInv
<1> QED
  BY <1>13, <1>14

\* A client goes on waiting while bytes move towards it.
LEMMA StillWaiting ==
  ASSUME ProxyInv, GrantedFirst, state \in Waiting, UNCHANGED <<proxy, state, sent, reply, granted>>,
         Answer' = Answer, in_packet'.packet_length = in_packet.packet_length,
         {"payload", "to_process", "packet_length"} \subseteq DOMAIN in_packet',
         in_packet'.payload \in Seq(Nat), arrived' \in Seq(Nat), toCome' \in Seq(Nat),
         in_packet'.to_process \in Nat,
         in_packet'.packet_length = Len(in_packet'.payload) + in_packet'.to_process
  PROVE  ProxyInv' /\ GrantedFirst'
<1>1. GrantedFirst'
  BY DEF GrantedFirst
<1>2. state \in {"socks5_start", "socks5_userpass_reply", "socks5_request"} /\ state # "closed"
  BY DEF Waiting
<1>3. AnswerInv => AnswerInv'
  BY DEF AnswerInv
<1> QED
  BY <1>1, <1>2, <1>3 DEF ProxyInv

\* Some of the bytes that are waited for are read, or the stream has ended.
LEMMA PartProxy ==
  ASSUME ProxyInv, GrantedFirst, NEW waiting \in Waiting, ReadsPart(waiting)
  PROVE  ProxyInv' /\ GrantedFirst'
<1>1. CASE arrived = <<>> /\ toCome = <<>> /\ ended /\ Closes
  BY <1>1, ClosedProxy DEF ReadsPart, Closes
<1>2. CASE /\ arrived # <<>> /\ arrived' = <<>> /\ in_packet' = Taking(in_packet, Len(arrived))
           /\ UNCHANGED <<state, toCome, ended>>
  <2>1. state \in Waiting /\ in_packet.to_process > Len(arrived)
        /\ UNCHANGED <<proxy, state, sent, reply, granted>>
    BY <1>2 DEF ReadsPart
  <2> DEFINE tp == in_packet.to_process
  <2> DEFINE p  == in_packet.payload
  <2>2. /\ {"payload", "to_process", "packet_length"} \subseteq DOMAIN in_packet
        /\ p \in Seq(Nat) /\ arrived \in Seq(Nat) /\ toCome \in Seq(Nat)
        /\ tp \in Nat /\ in_packet.packet_length = Len(p) + tp
    BY <2>1 DEF ProxyInv
  <2>3. SubSeq(arrived, 1, Len(arrived)) = arrived
    BY <2>2, SubSeqFull
  <2>4. /\ DOMAIN in_packet' = DOMAIN in_packet /\ in_packet'.payload = p \o arrived
        /\ in_packet'.to_process = tp - Len(arrived)
        /\ in_packet'.packet_length = in_packet.packet_length
    BY <1>2, <2>2, <2>3 DEF Taking
  <2>5. Len(arrived) \in Nat /\ Len(p) \in Nat /\ tp > Len(arrived)
    BY <2>1, <2>2, LenProperties
  <2> HIDE DEF tp, p
  <2>6. p \o arrived \in Seq(Nat) /\ Len(p \o arrived) = Len(p) + Len(arrived)
    <3>1. p \in Seq(Nat) /\ arrived \in Seq(Nat)
      BY <2>2
    <3> QED
      BY <3>1, Cat
  <2>7. (p \o arrived) \o toCome = p \o (arrived \o toCome)
    <3>1. p \in Seq(Nat) /\ arrived \in Seq(Nat) /\ toCome \in Seq(Nat)
      BY <2>2
    <3> QED
      BY <3>1, ConcatAssociative, SMTT(30)
  <2>8. <<>> \o toCome = toCome /\ <<>> \in Seq(Nat)
    BY <2>2, ConcatEmptySeq
  <2>9. Answer' = Answer
    <3>1. Answer' = in_packet'.payload \o (arrived' \o toCome')
      BY DEF Answer
    <3>2. arrived' = <<>> /\ toCome' = toCome
      BY <1>2
    <3>3. Answer' = (p \o arrived) \o toCome
      BY <2>4, <2>8, <3>1, <3>2
    <3>4. Answer = p \o (arrived \o toCome)
      BY DEF Answer, p
    <3> QED
      BY <2>7, <3>3, <3>4
  <2>10. tp - Len(arrived) \in Nat /\ Len(p) + tp = (Len(p) + Len(arrived)) + (tp - Len(arrived))
    BY <2>2, <2>5
  <2>11. /\ in_packet'.payload \in Seq(Nat) /\ in_packet'.to_process \in Nat
         /\ in_packet'.packet_length = Len(in_packet'.payload) + in_packet'.to_process
    BY <2>2, <2>4, <2>6, <2>10
  <2>12. arrived' \in Seq(Nat) /\ toCome' \in Seq(Nat)
    BY <1>2, <2>2, <2>8
  <2> QED
    BY <2>1, <2>2, <2>4, <2>9, <2>11, <2>12, StillWaiting
<1> QED
  BY <1>1, <1>2 DEF ReadsPart

\* Bytes arrive.
LEMMA ArriveProxy ==
  ASSUME ProxyInv, GrantedFirst, Arrive
  PROVE  ProxyInv' /\ GrantedFirst'
<1>1. CASE state \notin Waiting
  BY <1>1 DEF Arrive, ProxyInv, GrantedFirst, Waiting
<1>2. CASE state \in Waiting
  <2>1. /\ {"payload", "to_process", "packet_length"} \subseteq DOMAIN in_packet
        /\ in_packet.payload \in Seq(Nat) /\ arrived \in Seq(Nat) /\ toCome \in Seq(Nat)
        /\ in_packet.to_process \in Nat
        /\ in_packet.packet_length = Len(in_packet.payload) + in_packet.to_process
    BY <1>2 DEF ProxyInv
  <2>2. PICK n : /\ n = Len(toCome) \/ n = 1
                 /\ arrived' = arrived \o SubSeq(toCome, 1, n)
                 /\ toCome' = SubSeq(toCome, n + 1, Len(toCome))
                 /\ UNCHANGED <<proxy, state, in_packet, sent, ended, reply, granted, said, handled,
                                connections>>
    BY DEF Arrive
  <2>3. n \in 0 .. Len(toCome)
    <3>1. toCome # <<>>
      BY DEF Arrive
    <3>2. Len(toCome) \in Nat /\ Len(toCome) # 0
      BY <2>1, <3>1, LenProperties, EmptySeq
    <3> QED
      BY <2>2, <3>2
  <2> DEFINE first  == SubSeq(toCome, 1, n)
  <2> DEFINE second == SubSeq(toCome, n + 1, Len(toCome))
  <2>4. first \in Seq(Nat) /\ second \in Seq(Nat) /\ first \o second = toCome
    BY <2>1, <2>3, Cut
  <2>5. arrived' = arrived \o first /\ toCome' = second
    BY <2>2
  <2> HIDE DEF first, second
  <2>6. arrived \o first \in Seq(Nat) /\ (arrived \o first) \o second = arrived \o (first \o second)
    <3>1. arrived \in Seq(Nat) /\ first \in Seq(Nat) /\ second \in Seq(Nat)
      BY <2>1, <2>4
    <3>2. arrived \o first \in Seq(Nat)
      BY <3>1, Cat
    <3>3. (arrived \o first) \o second = arrived \o (first \o second)
      BY <3>1, ConcatAssociative, SMTT(30)
    <3> QED
      BY <3>2, <3>3
  <2>7. arrived' \o toCome' = arrived \o toCome
    BY <2>4, <2>5, <2>6
  <2>8. Answer' = Answer
    BY <2>2, <2>7 DEF Answer
  <2>9. in_packet' = in_packet /\ UNCHANGED <<proxy, state, sent, reply, granted>>
    BY <2>2
  <2>10. arrived' \in Seq(Nat) /\ toCome' \in Seq(Nat)
    BY <2>4, <2>5, <2>6
  <2> QED
    BY <1>2, <2>1, <2>8, <2>9, <2>10, StillWaiting
<1> QED
  BY <1>1, <1>2

\* The method and the verdict on the password let the next message go out, or end it.
LEMMA MethodProxy ==
  ASSUME ProxyInv, GrantedFirst, ReadMethod \/ ReadUserpass
  PROVE  ProxyInv' /\ GrantedFirst'
<1>1. CASE GivesUp
  BY <1>1, ClosedProxy DEF GivesUp, Closes
<1>2. CASE ReadMethod /\ Goes("socks5_request", "request", 5)
  BY <1>2, GoesProxy DEF ReadMethod, ReadsWhole
<1>3. CASE ReadMethod /\ Goes("socks5_userpass_reply", "userpass", 2)
  BY <1>3, GoesProxy DEF ReadMethod, ReadsWhole
<1>4. CASE ReadUserpass /\ Goes("socks5_request", "request", 5)
  BY <1>4, GoesProxy DEF ReadUserpass, ReadsWhole
<1> QED
  BY <1>1, <1>2, <1>3, <1>4 DEF ReadMethod, ReadUserpass

\* What has been read of the reply is the beginning of it, and there is a reply.
LEMMA ReplyRead ==
  ASSUME ProxyInv, ReadsWhole("socks5_request")
  PROVE  /\ AnswerInv /\ reply \in {"name", "address"}
         /\ Whole.payload \in Seq(Nat) /\ Len(Whole.payload) = in_packet.packet_length
         /\ \A i \in 1 .. Len(Whole.payload) : Whole.payload[i] = Answer[i]
<1>1. state \in Waiting /\ state = "socks5_request" /\ in_packet.to_process <= Len(arrived)
  BY DEF ReadsWhole, Waiting
<1>2. /\ Whole.payload \in Seq(Nat) /\ Len(Whole.payload) = in_packet.packet_length
      /\ Rest \in Seq(Nat) /\ Whole.payload \o (Rest \o toCome) = Answer
  BY <1>1, WholeRead
<1>3. ~(Len(Answer) = 0 /\ in_packet.packet_length = 5)
  <2>1. /\ Len(Answer) = Len(in_packet.payload) + Len(arrived) + Len(toCome)
        /\ Len(in_packet.payload) \in Nat /\ Len(arrived) \in Nat /\ Len(toCome) \in Nat
    BY <1>1, AnswerLength
  <2>2. /\ in_packet.to_process \in Nat
        /\ in_packet.packet_length = Len(in_packet.payload) + in_packet.to_process
    BY <1>1 DEF ProxyInv
  <2> QED
    BY <1>1, <2>1, <2>2
<1>4. AnswerInv /\ reply \in {"name", "address"}
  BY <1>1, <1>3 DEF ProxyInv
<1> DEFINE w == Whole.payload
<1> DEFINE r == Rest \o toCome
<1>5. r \in Seq(Nat) /\ w \in Seq(Nat)
  <2>1. toCome \in Seq(Nat) /\ Rest \in Seq(Nat)
    BY <1>1, <1>2 DEF ProxyInv
  <2> QED
    BY <1>2, <2>1, Cat
<1>6. w \o r = Answer
  BY <1>2
<1> HIDE DEF w, r
<1>7. \A i \in 1 .. Len(w) : (w \o r)[i] = w[i]
  BY <1>5, Cat
<1>8. \A i \in 1 .. Len(w) : w[i] = Answer[i]
  BY <1>6, <1>7
<1> QED
  BY <1>2, <1>4, <1>8 DEF w

\* How much more of the reply there is.
LEMMA MoreNat ==
  ASSUME NEW s \in Seq(Nat), Len(s) >= 5, s[4] \in {1, 3, 4}
  PROVE  MoreOf(s) \in Nat
<1>1. s[5] \in Nat
  BY ElementOfSeq
<1>2. CASE s[4] = 1
  BY <1>2 DEF MoreOf
<1>3. CASE s[4] = 3
  BY <1>1, <1>3 DEF MoreOf
<1>4. CASE s[4] = 4
  BY <1>4 DEF MoreOf
<1> QED
  BY <1>2, <1>3, <1>4

\* How many bytes the client waits for when the first five of a reply are read.
LEMMA ReplyLeft ==
  ASSUME ProxyInv, state = "socks5_request", in_packet.packet_length > 5
  PROVE  in_packet.to_process = Len(arrived) + Len(toCome) - (IF reply = "name" THEN 2 ELSE 0)
<1>1. state \in Waiting
  BY DEF Waiting
<1> DEFINE p == Len(in_packet.payload)
<1> DEFINE a == Len(arrived)
<1> DEFINE c == Len(toCome)
<1> DEFINE n == in_packet.to_process
<1> DEFINE s == Answer
<1>2. Len(s) = p + a + c /\ p \in Nat /\ a \in Nat /\ c \in Nat /\ s \in Seq(Nat)
  BY <1>1, AnswerLength
<1>3. in_packet.packet_length = p + n /\ n \in Nat
  BY <1>1 DEF ProxyInv
<1>4. AnswerInv
  BY DEF ProxyInv
<1>5. /\ s[4] \in {1, 3, 4} /\ p + n = 5 + MoreOf(s) /\ ((reply = "name") <=> (s[4] = 3))
      /\ Len(s) > 5
      /\ s[4] = 1 => Len(s) = 10
      /\ s[4] = 4 => Len(s) = 22
      /\ s[4] = 3 => Len(s) = 7 + s[5]
  BY <1>3, <1>4 DEF AnswerInv
<1>6. s[5] \in Nat
  BY <1>2, <1>5, ElementOfSeq
<1> HIDE DEF p, a, c, n, s
<1>7. p + n = Len(s) - (IF reply = "name" THEN 2 ELSE 0)
  <2>1. CASE s[4] = 1
    BY <1>5, <2>1 DEF MoreOf
  <2>2. CASE s[4] = 3
    BY <1>5, <1>6, <2>2 DEF MoreOf
  <2>3. CASE s[4] = 4
    <3>1. MoreOf(s) = 17
      BY <2>3 DEF MoreOf
    <3> QED
      BY <1>5, <2>3, <3>1, SMTT(30)
  <2> QED
    BY <1>5, <2>1, <2>2, <2>3
<1>8. n = a + c - (IF reply = "name" THEN 2 ELSE 0)
  BY <1>2, <1>3, <1>7
<1> QED
  BY <1>8 DEF a, c, n

\* More of the reply is waited for than its first five bytes.
LEMMA ReplyLonger ==
  ASSUME ProxyInv, ReadsWhole("socks5_request"), in_packet.packet_length # 5
  PROVE  in_packet.packet_length > 5
<1>1. Answer[4] \in {1, 3, 4} /\ in_packet.packet_length = 5 + MoreOf(Answer) /\ Len(Answer) > 5
  BY ReplyRead DEF AnswerInv
<1>2. Answer \in Seq(Nat)
  <2>1. state \in Waiting
    BY DEF ReadsWhole, Waiting
  <2> QED
    BY <2>1, AnswerLength
<1> DEFINE a == Answer
<1>3. a \in Seq(Nat) /\ Len(a) >= 5 /\ a[4] \in {1, 3, 4}
  BY <1>1, <1>2, LenProperties
<1> HIDE DEF a
<1>4. MoreOf(a) \in Nat
  BY <1>3, MoreNat
<1>5. MoreOf(Answer) \in Nat
  BY <1>4 DEF a
<1> QED
  BY <1>1, <1>5

\* The first bytes of the reply say how many there are.
LEMMA HeaderProxy ==
  ASSUME ProxyInv, GrantedFirst, ReadReplyHeader
  PROVE  ProxyInv' /\ GrantedFirst'
<1>1. CASE GivesUp
  BY <1>1, ClosedProxy DEF GivesUp, Closes
<1>2. CASE ~GivesUp
  <2> DEFINE w == Whole.payload
  <2>1. /\ ReadsWhole("socks5_request") /\ in_packet.packet_length = 5 /\ w[4] \in {1, 3, 4}
        /\ in_packet' = [Whole EXCEPT !.to_process = MoreOf(w), !.packet_length = 5 + MoreOf(w)]
        /\ arrived' = Rest
        /\ UNCHANGED <<proxy, state, sent, toCome, ended, reply, granted, said, handled, connections>>
    BY <1>2 DEF ReadReplyHeader
  <2>2. /\ AnswerInv /\ reply \in {"name", "address"} /\ w \in Seq(Nat) /\ Len(w) = 5
        /\ \A i \in 1 .. 5 : w[i] = Answer[i]
    <3>1. /\ AnswerInv /\ reply \in {"name", "address"}
          /\ Whole.payload \in Seq(Nat) /\ Len(Whole.payload) = in_packet.packet_length
          /\ \A i \in 1 .. Len(Whole.payload) : Whole.payload[i] = Answer[i]
      BY <2>1, ReplyRead
    <3> QED
      BY <2>1, <3>1
  <2>3. state \in Waiting /\ state = "socks5_request" /\ in_packet.to_process <= Len(arrived)
    BY <2>1 DEF ReadsWhole, Waiting
  <2>4. /\ DOMAIN Whole = DOMAIN in_packet /\ Rest \in Seq(Nat)
        /\ w \o (Rest \o toCome) = Answer
        /\ {"payload", "to_process", "packet_length"} \subseteq DOMAIN in_packet
        /\ toCome \in Seq(Nat)
    <3>1. {"payload", "to_process", "packet_length"} \subseteq DOMAIN in_packet /\ toCome \in Seq(Nat)
      BY <2>3 DEF ProxyInv
    <3> QED
      BY <2>3, <3>1, WholeRead
  <2>5. MoreOf(w) = MoreOf(Answer) /\ MoreOf(w) \in Nat
    <3>1. w[4] = Answer[4] /\ w[5] = Answer[5]
      BY <2>2
    <3>2. w \in Seq(Nat) /\ Len(w) >= 5 /\ w[4] \in {1, 3, 4}
      BY <2>1, <2>2
    <3> HIDE DEF w
    <3>3. MoreOf(w) \in Nat
      BY <3>2, MoreNat
    <3> QED
      BY <3>1, <3>3 DEF MoreOf
  <2>6. /\ {"payload", "to_process", "packet_length"} \subseteq DOMAIN in_packet'
        /\ in_packet'.payload = w /\ in_packet'.to_process = MoreOf(w)
        /\ in_packet'.packet_length = 5 + MoreOf(w)
    BY <2>1, <2>4
  <2>7. Answer' = Answer
    BY <2>1, <2>4, <2>6 DEF Answer
  <2>8. w[4] = Answer[4] /\ Answer[4] \in {1, 3, 4}
    BY <2>1, <2>2
  <2> HIDE DEF w
  <2>9. in_packet'.packet_length = 5 + MoreOf(Answer)
    BY <2>5, <2>6
  <2>10. AnswerInv'
    <3>1. UNCHANGED <<reply, granted>>
      BY <2>1
    <3>2. MoreOf(Answer') = MoreOf(Answer)
      BY <2>7
    <3> QED
      BY <2>2, <2>7, <2>8, <2>9, <3>1, <3>2 DEF AnswerInv
  <2>11. GrantedFirst'
    BY <2>1 DEF GrantedFirst
  <2>12. sent \in Seq(Messages) /\ sent # <<>> /\ Last(sent) = MessageOf[state]
    BY <2>3 DEF ProxyInv
  <2>13. /\ in_packet'.payload \in Seq(Nat) /\ arrived' \in Seq(Nat) /\ toCome' \in Seq(Nat)
         /\ in_packet'.to_process \in Nat
         /\ in_packet'.packet_length = Len(in_packet'.payload) + in_packet'.to_process
    BY <2>1, <2>2, <2>4, <2>5, <2>6
  <2>14. state' = "socks5_request" /\ reply' \in {"name", "address"} /\ sent' = sent /\ state' = state
    BY <2>1, <2>2, <2>3
  <2> QED
    BY <2>6, <2>10, <2>11, <2>12, <2>13, <2>14 DEF ProxyInv
<1> QED
  BY <1>1, <1>2

\* CONNECT goes out when the reply says that the connection is granted.
LEMMA ReplyProxy ==
  ASSUME ProxyInv, GrantedFirst, ReadReply
  PROVE  ProxyInv' /\ GrantedFirst'
<1>1. CASE GivesUp
  BY <1>1, ClosedProxy DEF GivesUp, Closes
<1>2. CASE ~GivesUp
  <2> DEFINE w == Whole.payload
  <2>1. /\ ReadsWhole("socks5_request") /\ in_packet.packet_length # 5 /\ IsGranted(w)
        /\ state' = "new" /\ UNCHANGED granted
    BY <1>2 DEF ReadReply
  <2>2. /\ AnswerInv /\ w \in Seq(Nat) /\ Len(w) = in_packet.packet_length
        /\ \A i \in 1 .. Len(w) : w[i] = Answer[i]
    BY <2>1, ReplyRead
  <2>3. in_packet.packet_length >= 5
    <3>1. in_packet.packet_length > 5
      BY <2>1, ReplyLonger
    <3> QED
      BY <2>2, <3>1, LenProperties
  <2>4. w[2] = Answer[2] /\ w[2] = 0
    <3>1. 2 \in 1 .. Len(w)
      BY <2>2, <2>3
    <3> QED
      BY <2>1, <2>2, <3>1 DEF IsGranted
  <2>5. granted
    BY <2>2, <2>4 DEF AnswerInv
  <2> QED
    BY <2>1, <2>5 DEF GrantedFirst, ProxyInv, Waiting
<1> QED
  BY <1>1, <1>2

\* The client connects, to a broker or to a proxy.
LEMMA ConnectsProxy ==
  ASSUME ProxyInv, GrantedFirst, Connects
  PROVE  ProxyInv' /\ GrantedFirst'
<1>1. CASE proxy = "none"
  <2>1. state' = "connected" /\ proxy' = "none"
    BY <1>1 DEF Connects
  <2> QED
    BY <2>1 DEF ProxyInv, GrantedFirst, Waiting
<1>2. CASE proxy # "none"
  <2>1. /\ state' = "socks5_start" /\ sent' = <<"greeting">> /\ reply' = "none"
        /\ in_packet' = Expecting(packet__cleanup(in_packet), 2) /\ UNCHANGED <<arrived, toCome>>
    BY <1>2 DEF Connects
  <2>2. /\ {"payload", "to_process", "packet_length"} \subseteq DOMAIN in_packet'
        /\ in_packet'.payload = <<>> /\ in_packet'.to_process = 2 /\ in_packet'.packet_length = 2
    BY <2>1 DEF Expecting, packet__cleanup
  <2>3. arrived' = <<>> /\ toCome' = <<>>
    BY <2>1 DEF Connects, ProxyInv
  <2>4. <<>> \in Seq(Nat) /\ Len(<<>>) = 0 /\ <<>> \o <<>> = <<>>
    OBVIOUS
  <2>5. Answer' = <<>>
    BY <2>2, <2>3, <2>4 DEF Answer
  <2>6. sent' \in Seq(Messages) /\ sent' # <<>> /\ Last(sent') = "greeting"
    BY <2>1 DEF Messages, Last
  <2>7. MessageOf["socks5_start"] = "greeting"
    BY DEF MessageOf
  <2>8. GrantedFirst'
    BY <2>6 DEF GrantedFirst
  <2>9. /\ in_packet'.payload \in Seq(Nat) /\ arrived' \in Seq(Nat) /\ toCome' \in Seq(Nat)
        /\ in_packet'.to_process \in Nat
        /\ in_packet'.packet_length = Len(in_packet'.payload) + in_packet'.to_process
    BY <2>2, <2>3, <2>4
  <2>10. Len(Answer') = 0
    BY <2>4, <2>5
  <2>11. Last(sent') = MessageOf[state'] /\ state' # "closed"
    BY <2>1, <2>6, <2>7
  <2> QED
    BY <2>1, <2>2, <2>6, <2>8, <2>9, <2>10, <2>11 DEF ProxyInv
<1> QED
  BY <1>1, <1>2

\* The proxy's answer is all there is then.
LEMMA SaidAnswer ==
  ASSUME ProxyInv, state \in Waiting, Len(Answer) = 0, NEW bytes \in Seq(Nat),
         toCome' = toCome \o bytes, UNCHANGED <<in_packet, arrived>>
  PROVE  Answer' = bytes /\ toCome' \in Seq(Nat)
<1>1. in_packet.payload \in Seq(Nat) /\ arrived \in Seq(Nat) /\ toCome \in Seq(Nat)
  BY DEF ProxyInv
<1>2. Len(in_packet.payload) = 0 /\ Len(arrived) = 0 /\ Len(toCome) = 0
  <2> DEFINE a == Len(in_packet.payload)
  <2> DEFINE b == Len(arrived)
  <2> DEFINE c == Len(toCome)
  <2>1. a + b + c = 0 /\ a \in Nat /\ b \in Nat /\ c \in Nat
    BY AnswerLength
  <2> HIDE DEF a, b, c
  <2>2. a = 0 /\ b = 0 /\ c = 0
    BY <2>1
  <2> QED
    BY <2>2 DEF a, b, c
<1>3. in_packet.payload = <<>> /\ arrived = <<>> /\ toCome = <<>>
  BY <1>1, <1>2, EmptySeq
<1>4. <<>> \o bytes = bytes
  BY ConcatEmptySeq
<1>5. in_packet'.payload = <<>> /\ arrived' = <<>> /\ toCome' = bytes
  BY <1>3, <1>4
<1> QED
  BY <1>4, <1>5 DEF Answer

\* While the proxy is asked, the state is the one in which its answer is waited for.
LEMMA AskedState ==
  ASSUME ProxyInv, NEW message, Asked(message), state \in Waiting
  PROVE  MessageOf[state] = message
BY DEF ProxyInv, Asked

\* Two bytes are the answer to a greeting and to a password.
LEMMA TwoBytesProxy ==
  ASSUME ProxyInv, GrantedFirst, NEW message, NEW k \in Nat, NEW m \in Nat,
         Asked(message), toCome' = toCome \o <<k, m>>,
         UNCHANGED <<proxy, state, in_packet, sent, arrived>>,
         \/ message = "greeting" /\ reply = "none" /\ reply' = "method"
         \/ message = "userpass" /\ reply = "method" /\ reply' = "userpass"
  PROVE  ProxyInv' /\ GrantedFirst'
<1> DEFINE bytes == <<k, m>>
<1>1. /\ toCome' = toCome \o bytes
      /\ UNCHANGED <<proxy, state, in_packet, sent, arrived>>
  OBVIOUS
<1>2. bytes \in Seq(Nat) /\ Len(bytes) = 2
  OBVIOUS
<1> HIDE DEF bytes
<1>3. GrantedFirst'
  BY <1>1 DEF GrantedFirst, Asked
<1>4. CASE state \notin Waiting
  BY <1>1, <1>3, <1>4 DEF ProxyInv, Waiting, Asked, Silent
<1>5. CASE state \in Waiting
  <2>1. MessageOf[state] = message
    BY <1>5, AskedState
  <2>2. \/ state = "socks5_start" /\ message = "greeting"
        \/ state = "socks5_userpass_reply" /\ message = "userpass"
    BY <1>5, <2>1 DEF MessageOf, Waiting
  <2>3. Len(Answer) = 0 /\ in_packet.packet_length = 2
    BY <2>2 DEF ProxyInv
  <2>4. Answer' = bytes /\ toCome' \in Seq(Nat)
    BY <1>1, <1>2, <1>5, <2>3, SaidAnswer
  <2>5. Len(Answer') = 2
    BY <1>2, <2>4
  <2>6. /\ {"payload", "to_process", "packet_length"} \subseteq DOMAIN in_packet
        /\ in_packet.payload \in Seq(Nat) /\ arrived \in Seq(Nat) /\ in_packet.to_process \in Nat
        /\ in_packet.packet_length = Len(in_packet.payload) + in_packet.to_process
        /\ sent \in Seq(Messages) /\ sent # <<>> /\ Last(sent) = MessageOf[state]
    BY <1>5 DEF ProxyInv
  <2> QED
    BY <1>1, <1>3, <2>2, <2>3, <2>4, <2>5, <2>6 DEF ProxyInv
<1> QED
  BY <1>4, <1>5

\* The proxy chooses a method or judges the password.
LEMMA ChoosesProxy ==
  ASSUME ProxyInv, GrantedFirst, ChoosesMethod \/ AnswersUserpass
  PROVE  ProxyInv' /\ GrantedFirst'
<1>1. CASE ChoosesMethod
  <2>1. /\ Asked("greeting") /\ reply = "none" /\ reply' = "method"
        /\ \E m \in {0, 255} \cup (IF proxy = "user" THEN {2} ELSE {}) : Says(<<5, m>>, FALSE)
    BY <1>1 DEF ChoosesMethod
  <2>2. PICK k \in Nat, m \in Nat : toCome' = toCome \o <<k, m>>
    <3>1. PICK m \in {0, 255, 2} : toCome' = toCome \o <<5, m>>
      BY <2>1 DEF Says
    <3>2. 5 \in Nat /\ m \in Nat
      OBVIOUS
    <3> QED
      BY <3>1, <3>2, Zenon
  <2>3. UNCHANGED <<proxy, state, in_packet, sent, arrived>>
    BY <2>1 DEF Says
  <2> QED
    BY <2>1, <2>2, <2>3, TwoBytesProxy
<1>2. CASE AnswersUserpass
  <2>1. /\ Asked("userpass") /\ reply = "method" /\ reply' = "userpass"
        /\ \E status \in {0, 1} : Says(<<1, status>>, FALSE)
    BY <1>2 DEF AnswersUserpass
  <2>2. PICK k \in Nat, m \in Nat : toCome' = toCome \o <<k, m>>
    BY <2>1 DEF Says
  <2>3. UNCHANGED <<proxy, state, in_packet, sent, arrived>>
    BY <2>1 DEF Says
  <2> QED
    BY <2>1, <2>2, <2>3, TwoBytesProxy
<1> QED
  BY <1>1, <1>2

\* A reply is as long as the address in it.
Reply(rep, a) == <<5, rep, 0, a[1]>> \o Address(a[1], a[2])

\* Its length, and the bytes that the client looks at.
LEMMA ReplyBytes ==
  ASSUME NEW rep \in {0, 1, 4}, NEW a \in {<<1, 4>>, <<4, 16>>, <<3, 0>>, <<3, 2>>, <<9, 1>>}
  PROVE  /\ Reply(rep, a) \in Seq(Nat) /\ Reply(rep, a)[2] = rep /\ Reply(rep, a)[4] = a[1]
         /\ Len(Reply(rep, a)) > 5
         /\ a[1] = 1 => Len(Reply(rep, a)) = 10
         /\ a[1] = 4 => Len(Reply(rep, a)) = 22
         /\ a[1] = 3 => Len(Reply(rep, a)) = 7 + Reply(rep, a)[5]
<1> DEFINE bytes == Reply(rep, a)
<1> DEFINE name  == IF a[1] = 3 THEN <<a[2]>> ELSE <<>>
<1> DEFINE chars == [i \in 1 .. a[2] |-> 7]
<1> DEFINE port  == <<7, 91>>
<1> DEFINE head  == <<5, rep, 0, a[1]>>
<1>1. /\ a[1] \in {1, 4, 3, 9} /\ a[2] \in Nat
      /\ a[1] = 1 => a[2] = 4
      /\ a[1] = 4 => a[2] = 16
      /\ a[1] = 9 => a[2] = 1
  OBVIOUS
<1>2. /\ head \in Seq(Nat) /\ Len(head) = 4 /\ head[2] = rep /\ head[4] = a[1]
      /\ port \in Seq(Nat) /\ Len(port) = 2
  BY <1>1
<1>3. chars \in Seq(Nat) /\ Len(chars) = a[2]
  BY <1>1
<1>4. /\ name \in Seq(Nat) /\ Len(name) = (IF a[1] = 3 THEN 1 ELSE 0)
      /\ a[1] = 3 => name[1] = a[2]
  BY <1>1
<1>5. bytes = head \o (name \o chars \o port)
  BY DEF Address, Reply
<1> HIDE DEF name, chars, port, head, bytes
<1>6. name \o chars \in Seq(Nat) /\ Len(name \o chars) = Len(name) + Len(chars)
      /\ (a[1] = 3 => (name \o chars)[1] = a[2])
  <2>1. /\ name \o chars \in Seq(Nat) /\ Len(name \o chars) = Len(name) + Len(chars)
        /\ \A i \in 1 .. Len(name) : (name \o chars)[i] = name[i]
    BY <1>3, <1>4, Cat, ZenonT(60)
  <2> QED
    BY <1>4, <2>1
<1> DEFINE nc == name \o chars
<1>7. nc \in Seq(Nat) /\ Len(nc) = (IF a[1] = 3 THEN 1 ELSE 0) + a[2] /\ (a[1] = 3 => nc[1] = a[2])
  BY <1>3, <1>4, <1>6
<1>8. bytes = head \o (nc \o port)
  BY <1>5
<1> HIDE DEF nc
<1>9. /\ nc \o port \in Seq(Nat) /\ Len(nc \o port) = Len(nc) + 2
      /\ (a[1] = 3 => (nc \o port)[1] = a[2])
  <2>1. /\ nc \o port \in Seq(Nat) /\ Len(nc \o port) = Len(nc) + Len(port)
        /\ \A i \in 1 .. Len(nc) : (nc \o port)[i] = nc[i]
    BY <1>2, <1>7, Cat, ZenonT(60)
  <2>2. a[1] = 3 => 1 \in 1 .. Len(nc)
    BY <1>1, <1>7
  <2> QED
    BY <1>2, <1>7, <2>1, <2>2
<1> DEFINE tail == nc \o port
<1>10. tail \in Seq(Nat) /\ Len(tail) = Len(nc) + 2 /\ (a[1] = 3 => tail[1] = a[2])
  BY <1>9
<1>11. bytes = head \o tail
  BY <1>8
<1> HIDE DEF tail
<1>12. /\ bytes \in Seq(Nat) /\ Len(bytes) = 4 + Len(tail)
       /\ \A i \in 1 .. 4 : bytes[i] = head[i]
       /\ \A i \in 1 .. Len(tail) : bytes[i + 4] = tail[i]
  <2>1. /\ head \o tail \in Seq(Nat) /\ Len(head \o tail) = Len(head) + Len(tail)
        /\ \A i \in 1 .. Len(head) : (head \o tail)[i] = head[i]
        /\ \A i \in 1 .. Len(tail) : (head \o tail)[i + Len(head)] = tail[i]
    <3>1. head \in Seq(Nat) /\ tail \in Seq(Nat)
      BY <1>2, <1>10
    <3> QED
      BY <3>1, Cat
  <2> QED
    BY <1>2, <1>11, <2>1
<1>13. Len(bytes) = 6 + (IF a[1] = 3 THEN 1 ELSE 0) + a[2]
  BY <1>1, <1>7, <1>10, <1>12, SMTT(30)
<1>14. bytes[2] = rep /\ bytes[4] = a[1]
  BY <1>2, <1>12
<1>15. a[1] = 3 => bytes[5] = a[2]
  <2> SUFFICES ASSUME a[1] = 3 PROVE bytes[5] = a[2]
    OBVIOUS
  <2>1. 1 \in 1 .. Len(tail)
    BY <1>1, <1>7, <1>10
  <2>2. bytes[1 + 4] = tail[1]
    BY <1>12, <2>1
  <2>3. tail[1] = a[2] /\ 1 + 4 = 5
    BY <1>10
  <2> QED
    BY <2>2, <2>3
<1>16. Len(bytes) > 5
  BY <1>1, <1>13
<1>17. /\ a[1] = 1 => Len(bytes) = 10
       /\ a[1] = 4 => Len(bytes) = 22
       /\ a[1] = 3 => Len(bytes) = 7 + a[2]
  BY <1>1, <1>13
<1>18. bytes = Reply(rep, a)
  BY DEF bytes
<1> QED
  BY <1>12, <1>14, <1>15, <1>16, <1>17, <1>18

\* The proxy replies.
LEMMA RepliesProxy ==
  ASSUME ProxyInv, GrantedFirst, Replies
  PROVE  ProxyInv' /\ GrantedFirst'
<1>1. Asked("request") /\ reply \in {"method", "userpass"}
  BY DEF Replies
<1>2. PICK rep \in {0, 1, 4}, a \in {<<1, 4>>, <<4, 16>>, <<3, 0>>, <<3, 2>>, <<9, 1>>} :
        /\ reply' = (IF a[1] = 3 THEN "name" ELSE "address")
        /\ Says(<<5, rep, 0, a[1]>> \o Address(a[1], a[2]), rep = 0)
  BY DEF Replies
<1> DEFINE bytes == Reply(rep, a)
<1>3. /\ bytes \in Seq(Nat) /\ bytes[2] = rep /\ bytes[4] = a[1] /\ Len(bytes) > 5
      /\ a[1] = 1 => Len(bytes) = 10
      /\ a[1] = 4 => Len(bytes) = 22
      /\ a[1] = 3 => Len(bytes) = 7 + bytes[5]
  BY ReplyBytes, ZenonT(60)
<1>4. /\ toCome' = toCome \o bytes /\ (granted' <=> rep = 0)
      /\ UNCHANGED <<proxy, state, in_packet, sent, arrived>>
  BY <1>2 DEF Says, Reply
<1> HIDE DEF bytes
<1>5. GrantedFirst'
  BY <1>1, <1>4 DEF GrantedFirst, Asked
<1>6. CASE state \notin Waiting
  BY <1>1, <1>4, <1>5, <1>6 DEF ProxyInv, Waiting, Asked, Silent
<1>7. CASE state \in Waiting
  <2>1. state = "socks5_request"
    BY <1>1, <1>7, AskedState DEF MessageOf, Waiting
  <2>2. Len(Answer) = 0 /\ in_packet.packet_length = 5
    BY <1>1, <2>1 DEF ProxyInv
  <2>3. Answer' = bytes /\ toCome' \in Seq(Nat)
    BY <1>3, <1>4, <1>7, <2>2, SaidAnswer
  <2>4. AnswerInv'
    <3>1. (reply' = "name") <=> (a[1] = 3)
      BY <1>2
    <3> QED
      BY <1>3, <1>4, <2>2, <2>3, <3>1 DEF AnswerInv
  <2>5. /\ {"payload", "to_process", "packet_length"} \subseteq DOMAIN in_packet
        /\ in_packet.payload \in Seq(Nat) /\ arrived \in Seq(Nat) /\ in_packet.to_process \in Nat
        /\ in_packet.packet_length = Len(in_packet.payload) + in_packet.to_process
        /\ sent \in Seq(Messages) /\ sent # <<>> /\ Last(sent) = MessageOf[state]
    BY <1>7 DEF ProxyInv
  <2>6. reply' \in {"name", "address"}
    BY <1>2
  <2> QED
    BY <1>4, <1>5, <2>1, <2>3, <2>4, <2>5, <2>6 DEF ProxyInv
<1> QED
  BY <1>6, <1>7

\* The broker speaks to a client that has sent CONNECT, to no other.
LEMMA BrokerProxy ==
  ASSUME ProxyInv, GrantedFirst, BrokerSays \/ BrokerGarbles
  PROVE  ProxyInv' /\ GrantedFirst'
<1>1. /\ state # "closed" /\ Last(sent) = "connect" /\ UNCHANGED <<proxy, state, sent, granted>>
  BY Zenon DEF BrokerSays, BrokerGarbles
<1>2. state \notin Waiting
  BY <1>1 DEF ProxyInv, MessageOf, Waiting
<1> QED
  BY <1>1, <1>2 DEF ProxyInv, GrantedFirst, Waiting

\* A client that speaks with the broker has no more to do with the proxy.
LEMMA PacketProxy ==
  ASSUME ProxyInv, GrantedFirst, ReadPacket
  PROVE  ProxyInv' /\ GrantedFirst'
<1>1. CASE GivesUp
  BY <1>1, ClosedProxy DEF GivesUp, Closes
<1>2. CASE UNCHANGED <<proxy, state, sent, granted>>
  BY <1>2 DEF ReadPacket, ProxyInv, GrantedFirst, Waiting
<1> QED
  BY <1>1, <1>2, Zenon DEF ReadPacket

\* No connection at the start, and each step of the stream is one of those above.
LEMMA StreamBegin == StreamInit => StreamIInv
BY DEF StreamInit, StreamIInv, ProxyInv, GrantedFirst, Waiting

\* Every step of the stream.
LEMMA StreamStep ==
  ASSUME StreamIInv, StreamNext
  PROVE  StreamIInv'
<1> USE DEF StreamIInv
<1>1. CASE \E waiting \in Waiting : ReadsPart(waiting)
  BY <1>1, PartProxy
<1>2. CASE ReadEnd
  BY <1>2, ClosedProxy DEF ReadEnd, GivesUp, Closes
<1>3. CASE PeerCloses
  <2>1. UNCHANGED <<proxy, state, in_packet, sent, toCome, arrived, reply, granted>>
    BY <1>3 DEF PeerCloses
  <2> QED
    BY <2>1 DEF ProxyInv, GrantedFirst, Answer, AnswerInv
<1> QED
  BY <1>1, <1>2, <1>3, ConnectsProxy, MethodProxy, HeaderProxy, ReplyProxy, PacketProxy, ChoosesProxy,
     RepliesProxy, BrokerProxy, ArriveProxy DEF StreamNext, Waiting

-----------------------------------------------------------------------------
(* The digits of a remaining length *)

\* Sequences of bytes are joined in any order.
LEMMA Associate ==
  ASSUME NEW s \in Seq(Nat), NEW t \in Seq(Nat), NEW u \in Seq(Nat)
  PROVE  (s \o t) \o u = s \o (t \o u)
BY ConcatAssociative, SMTT(30)

\* The digits of a length, the lowest first: 128 is added to all but the last.
VarintOf(n) ==
  IF n < 128 THEN <<n>>
  ELSE IF n < 16384 THEN <<128 + (n % 128), n \div 128>>
  ELSE IF n < 2097152 THEN <<128 + (n % 128), 128 + ((n \div 128) % 128), n \div 16384>>
  ELSE <<128 + (n % 128), 128 + ((n \div 128) % 128), 128 + ((n \div 16384) % 128), n \div 2097152>>

\* An element and a sequence behind it.
LEMMA Before ==
  ASSUME NEW S, NEW a \in S, NEW s \in Seq(S), NEW t \in Seq(S), Len(t) = 1 + Len(s),
         t[1] = a, \A i \in 1 .. Len(s) : t[i + 1] = s[i]
  PROVE  <<a>> \o s = t
<1> DEFINE h == <<a>>
<1>1. h \in Seq(S) /\ Len(h) = 1 /\ h[1] = a
  OBVIOUS
<1> HIDE DEF h
<1>2. /\ h \o s \in Seq(S) /\ Len(h \o s) = Len(h) + Len(s)
      /\ \A i \in 1 .. Len(h) : (h \o s)[i] = h[i]
      /\ \A i \in 1 .. Len(s) : (h \o s)[i + Len(h)] = s[i]
  <2>1. h \in Seq(S) /\ s \in Seq(S)
    BY <1>1
  <2> QED
    BY <2>1, Cat
<1>3. Len(s) \in Nat
  OBVIOUS
<1>4. ASSUME NEW i \in 1 .. Len(t) PROVE (h \o s)[i] = t[i]
  <2>1. CASE i = 1
    BY <1>1, <1>2, <2>1
  <2>2. CASE i # 1
    <3>1. i - 1 \in 1 .. Len(s) /\ (i - 1) + 1 = i
      BY <1>3, <2>2
    <3>2. t[(i - 1) + 1] = s[i - 1] /\ (h \o s)[(i - 1) + 1] = s[i - 1]
      BY <1>1, <1>2, <3>1
    <3> QED
      BY <3>1, <3>2
  <2> QED
    BY <2>1, <2>2
<1>5. h \o s = t
  <2>1. h \o s \in Seq(S) /\ Len(h \o s) = Len(t)
    BY <1>1, <1>2
  <2> DEFINE c == h \o s
  <2>2. c \in Seq(S) /\ Len(c) = Len(t) /\ \A i \in 1 .. Len(t) : c[i] = t[i]
    BY <1>4, <2>1
  <2> HIDE DEF c
  <2>3. c = t
    BY <2>2, SeqEqual
  <2> QED
    BY <2>3 DEF c
<1> QED
  BY <1>5 DEF h

\* Dividing by 128 twice and three times,
LEMMA DivDiv ==
  ASSUME NEW n \in Nat
  PROVE  /\ n \div 128 \in Nat /\ (n \div 128) \div 128 = n \div 16384
         /\ (n \div 128) \div 16384 = n \div 2097152
BY SMT

\* and what it leaves.
LEMMA DivLess ==
  ASSUME NEW n \in Nat
  PROVE  /\ (n \div 128 < 128) <=> (n < 16384)
         /\ (n \div 128 < 16384) <=> (n < 2097152)
         /\ (n \div 128 < 2097152) <=> (n < 268435456)
BY SMT

\* The largest length that four bytes hold.
LEMMA Largest == MaxVarint = 268435455 /\ MaxVarint \in Nat
BY SMT DEF MaxVarint

\* It is a number, however large.
LEMMA LargestNat == MaxVarint \in Nat
BY SMT, Largest

\* The lowest digit comes before the digits of the rest,
LEMMA VarintMore ==
  ASSUME NEW n \in Nat, n >= 128, n <= MaxVarint
  PROVE  VarintOf(n) = <<128 + (n % 128)>> \o VarintOf(n \div 128)
<1> DEFINE m == n \div 128
<1> DEFINE a == 128 + (n % 128)
<1>1. n \in Nat /\ n >= 128 /\ n < 268435456
  BY SMT, Largest
<1>2. /\ m \in Nat /\ m < 2097152 /\ ((m < 128) <=> (n < 16384))
      /\ ((m < 16384) <=> (n < 2097152))
      /\ m \div 128 = n \div 16384 /\ m \div 16384 = n \div 2097152
  BY SMT, <1>1, DivDiv, DivLess
<1>3. a \in Nat
  BY SMT, <1>1
<1>4. VarintOf(n) = IF n < 16384 THEN <<a, m>>
                  ELSE IF n < 2097152 THEN <<a, 128 + (m % 128), m \div 128>>
                  ELSE <<a, 128 + (m % 128), 128 + ((m \div 128) % 128), m \div 16384>>
  BY SMT, <1>1, <1>2 DEF VarintOf
<1>5. VarintOf(m) = IF m < 128 THEN <<m>>
                  ELSE IF m < 16384 THEN <<128 + (m % 128), m \div 128>>
                  ELSE <<128 + (m % 128), 128 + ((m \div 128) % 128), m \div 16384>>
  BY SMT, <1>2 DEF VarintOf
<1> HIDE DEF m, a
<1>6. VarintOf(n) \in Seq(Nat) /\ VarintOf(m) \in Seq(Nat)
  BY SMT, <1>1, <1>2, <1>3, <1>4, <1>5
<1>7. /\ Len(VarintOf(n)) = 1 + Len(VarintOf(m)) /\ VarintOf(n)[1] = a
      /\ \A i \in 1 .. Len(VarintOf(m)) : VarintOf(n)[i + 1] = VarintOf(m)[i]
  <2>1. CASE m < 128
    BY SMT, <1>2, <1>4, <1>5, <2>1
  <2>2. CASE m >= 128 /\ m < 16384
    BY SMT, <1>2, <1>4, <1>5, <2>2
  <2>3. CASE m >= 16384
    BY SMT, <1>2, <1>4, <1>5, <2>3
  <2> QED
    BY SMT, <1>2, <2>1, <2>2, <2>3
<1>8. VarintOf(n) = <<a>> \o VarintOf(m)
  BY <1>3, <1>6, <1>7, Before
<1> QED
  BY <1>8 DEF a, m

\* and so packet__write_varint writes them all: its recursion is followed from the lengths of
\* one byte to those of four.
LEMMA VarintWritten ==
  ASSUME NEW n \in Nat, n <= MaxVarint
  PROVE  packet__write_varint(n) = VarintOf(n)
<1> DEFINE F(f) == f = [w \in 0 .. n |-> IF w < 128 THEN <<w>> ELSE <<128 + (w % 128)>> \o f[w \div 128]]
<1> DEFINE g == [w \in 0 .. n |-> VarintOf(w)]
<1>1. F(g)
  <2> SUFFICES ASSUME NEW w \in 0 .. n
               PROVE  VarintOf(w) = IF w < 128 THEN <<w>> ELSE <<128 + (w % 128)>> \o g[w \div 128]
    OBVIOUS
  <2>1. CASE w < 128
    BY SMT, <2>1 DEF VarintOf
  <2>2. CASE w >= 128
    <3>1. w \in Nat /\ w <= MaxVarint /\ w \div 128 \in 0 .. n
      BY SMT, Largest, <2>2
    <3>2. g[w \div 128] = VarintOf(w \div 128)
      BY <3>1
    <3>3. VarintOf(w) = <<128 + (w % 128)>> \o VarintOf(w \div 128)
      BY <2>2, <3>1, VarintMore
    <3> QED
      BY <2>2, <3>2, <3>3
  <2> QED
    BY <2>1, <2>2
<1> DEFINE b == CHOOSE f : F(f)
<1>2. F(b)
  BY <1>1
<1>3. packet__write_varint(n) = b[n]
  BY DEF packet__write_varint
<1>4. \A w \in 0 .. n : /\ w < 128 => b[w] = <<w>>
                        /\ ~(w < 128) => b[w] = <<128 + (w % 128)>> \o b[w \div 128]
  BY <1>2, Zenon
<1> HIDE DEF b
<1>5. ASSUME NEW w \in 0 .. n, w < 128 PROVE b[w] = VarintOf(w)
  <2>1. b[w] = <<w>>
    BY Zenon, <1>4, <1>5
  <2>2. VarintOf(w) = <<w>>
    BY SMT, <1>5 DEF VarintOf
  <2> QED
    BY <2>1, <2>2
<1>6. ASSUME NEW w \in 0 .. n, w >= 128, b[w \div 128] = VarintOf(w \div 128) PROVE b[w] = VarintOf(w)
  <2>1. w \in Nat /\ w >= 128 /\ w <= MaxVarint
    BY SMT, Largest, <1>6
  <2>2. b[w] = <<128 + (w % 128)>> \o b[w \div 128]
    <3>1. ~(w < 128)
      BY SMT, <1>6
    <3> QED
      BY Zenon, <1>4, <3>1
  <2> QED
    BY <1>6, <2>1, <2>2, VarintMore
<1>7. \A w \in 0 .. n : w \div 128 \in 0 .. n
  BY SMT
<1>8. \A w \in 0 .. n : w < 16384 => b[w] = VarintOf(w)
  BY SMT, <1>5, <1>6, <1>7, DivLess
<1>9. \A w \in 0 .. n : w < 2097152 => b[w] = VarintOf(w)
  BY SMT, <1>6, <1>7, <1>8, DivLess
<1>10. b[n] = VarintOf(n)
  <2>1. n < 268435456
    BY SMT, Largest
  <2> QED
    BY SMT, <1>6, <1>7, <1>9, <2>1, DivLess
<1> QED
  BY <1>3, <1>10

\* in_packet, and a packet of the broker with n bytes behind its header.
InPacket ==
  [command : Nat, remaining_count : -4 .. 4, remaining_mult : Nat, remaining_length : Nat,
   packet_length : Nat, to_process : Nat, payload : Seq(Nat)]

PacketOf(n) == <<32>> \o VarintOf(n) \o [i \in 1 .. n |-> 7]
PacketSize(n) == 1 + packet__varint_bytes(n) + n

\* What a digit of the remaining length counts for, and the digit.
Place(i) ==
  IF i = 1 THEN 1 ELSE IF i = 2 THEN 128 ELSE IF i = 3 THEN 16384 ELSE IF i = 4 THEN 2097152
  ELSE 268435456
Digit(n, i) ==
  IF i < packet__varint_bytes(n) THEN 128 + ((n \div Place(i)) % 128) ELSE n \div Place(i)

\* The digits before the i-th, and with it.
LEMMA Digits ==
  ASSUME NEW n \in Nat, NEW i \in 1 .. 4
  PROVE  /\ Place(i) \in Nat /\ (n % Place(i)) + ((n \div Place(i)) % 128) * Place(i) = n % Place(i + 1)
         /\ (n % Place(i)) + (n \div Place(i)) * Place(i) = n
         /\ n % Place(i) \in Nat /\ n \div Place(i) \in Nat /\ Place(i) * 128 = Place(i + 1)
<1>1. CASE i = 1
  <2>1. Place(i) = 1 /\ Place(i + 1) = 128
    BY SMT, <1>1 DEF Place
  <2> QED
    BY SMT, <2>1
<1>2. CASE i = 2
  <2>1. Place(i) = 128 /\ Place(i + 1) = 16384
    BY SMT, <1>2 DEF Place
  <2> QED
    BY SMT, <2>1
<1>3. CASE i = 3
  <2>1. Place(i) = 16384 /\ Place(i + 1) = 2097152
    BY SMT, <1>3 DEF Place
  <2> QED
    BY SMT, <2>1
<1>4. CASE i = 4
  <2>1. Place(i) = 2097152 /\ Place(i + 1) = 268435456
    BY SMT, <1>4 DEF Place
  <2> QED
    BY SMT, <2>1
<1> QED
  BY SMT, <1>1, <1>2, <1>3, <1>4

\* A byte of the remaining length says its digit, and whether it is the last.
LEMMA DigitByte ==
  ASSUME NEW n \in Nat, n <= MaxVarint, NEW i \in 1 .. packet__varint_bytes(n)
  PROVE  /\ i \in 1 .. 4 /\ packet__varint_bytes(n) \in 1 .. 4 /\ Digit(n, i) \in Nat
         /\ (Digit(n, i) < 128) <=> (i = packet__varint_bytes(n))
         /\ i < packet__varint_bytes(n) => Digit(n, i) % 128 = (n \div Place(i)) % 128
         /\ i = packet__varint_bytes(n) => Digit(n, i) % 128 = n \div Place(i)
<1> DEFINE d == packet__varint_bytes(n)
<1>1. n < 268435456
  BY SMT, Largest
<1>2. /\ d \in 1 .. 4 /\ (d = 1 => n < 128) /\ (d = 2 => n < 16384) /\ (d = 3 => n < 2097152)
  BY SMT DEF packet__varint_bytes
<1>3. i \in 1 .. 4
  BY SMT, <1>2
<1>4. Place(i) \in Nat /\ n \div Place(i) \in Nat
  BY <1>3, Digits
<1>5. CASE i < d
  <2>1. Digit(n, i) = 128 + ((n \div Place(i)) % 128)
    BY <1>5 DEF Digit
  <2> DEFINE q == n \div Place(i)
  <2>2. q \in Nat
    BY <1>4
  <2> HIDE DEF q
  <2>3. 128 + (q % 128) \in Nat /\ ~(128 + (q % 128) < 128) /\ (128 + (q % 128)) % 128 = q % 128
    BY SMT, <2>2
  <2> HIDE DEF d
  <2> QED
    BY SMT, <1>2, <1>3, <1>5, <2>1, <2>3 DEF q, d
<1>6. CASE i = d
  <2>1. Digit(n, i) = n \div Place(i)
    BY SMT, <1>6, <1>2 DEF Digit
  <2>2. n \div Place(i) < 128
    <3>1. CASE i = 1
      BY SMT, <1>2, <1>6, <3>1 DEF Place
    <3>2. CASE i = 2
      BY SMT, <1>2, <1>6, <3>2 DEF Place
    <3>3. CASE i = 3
      BY SMT, <1>2, <1>6, <3>3 DEF Place
    <3>4. CASE i = 4
      BY SMT, <1>1, <1>6, <3>4 DEF Place
    <3> QED
      BY SMT, <1>3, <3>1, <3>2, <3>3, <3>4
  <2> DEFINE q == n \div Place(i)
  <2>3. q \in Nat /\ q < 128
    BY <1>4, <2>2
  <2> HIDE DEF q
  <2>4. q % 128 = q
    BY SMT, <2>3
  <2> QED
    BY SMT, <1>2, <1>3, <1>6, <2>1, <2>3, <2>4 DEF q
<1> QED
  BY SMT, <1>2, <1>5, <1>6

\* Up to four bytes, one by one.
LEMMA FewBytes ==
  ASSUME NEW w \in Nat, NEW x \in Nat, NEW y \in Nat, NEW z \in Nat
  PROVE  /\ <<w>> \in Seq(Nat) /\ Len(<<w>>) = 1 /\ <<w>>[1] = w
         /\ <<w, x>> \in Seq(Nat) /\ Len(<<w, x>>) = 2 /\ <<w, x>>[1] = w /\ <<w, x>>[2] = x
         /\ <<w, x, y>> \in Seq(Nat) /\ Len(<<w, x, y>>) = 3 /\ <<w, x, y>>[1] = w
         /\ <<w, x, y>>[2] = x /\ <<w, x, y>>[3] = y
         /\ <<w, x, y, z>> \in Seq(Nat) /\ Len(<<w, x, y, z>>) = 4 /\ <<w, x, y, z>>[1] = w
         /\ <<w, x, y, z>>[2] = x /\ <<w, x, y, z>>[3] = y /\ <<w, x, y, z>>[4] = z
OBVIOUS

\* The bytes of the header.
LEMMA VarintBytes ==
  ASSUME NEW n \in Nat, n <= MaxVarint
  PROVE  /\ VarintOf(n) \in Seq(Nat) /\ Len(VarintOf(n)) = packet__varint_bytes(n)
         /\ \A i \in 1 .. packet__varint_bytes(n) : VarintOf(n)[i] = Digit(n, i)
<1> DEFINE a == n \div 128
<1> DEFINE b == n \div 16384
<1> DEFINE c == n \div 2097152
<1>1. n % 128 \in Nat /\ a \in Nat /\ a % 128 \in Nat /\ b \in Nat /\ b % 128 \in Nat /\ c \in Nat
  <2>1. a \in Nat /\ b \in Nat /\ c \in Nat /\ n % 128 \in Nat
    BY SMT
  <2> HIDE DEF a, b, c
  <2> QED
    BY SMT, <2>1
<1>2. /\ n < 128 => VarintOf(n) = <<n>>
      /\ n >= 128 /\ n < 16384 => VarintOf(n) = <<128 + (n % 128), a>>
      /\ n >= 16384 /\ n < 2097152 => VarintOf(n) = <<128 + (n % 128), 128 + (a % 128), b>>
      /\ n >= 2097152 => VarintOf(n) = <<128 + (n % 128), 128 + (a % 128), 128 + (b % 128), c>>
  BY SMT DEF VarintOf
<1>3. /\ n \div Place(1) = n /\ n \div Place(2) = a /\ n \div Place(3) = b /\ n \div Place(4) = c
  BY SMT DEF Place
<1> DEFINE k == 128 + (n % 128)
<1> DEFINE l == 128 + (a % 128)
<1> DEFINE m == 128 + (b % 128)
<1> HIDE DEF a, b, c
<1>4. k \in Nat /\ l \in Nat /\ m \in Nat
  BY SMT, <1>1
<1>5. /\ n >= 128 /\ n < 16384 => VarintOf(n) = <<k, a>>
      /\ n >= 16384 /\ n < 2097152 => VarintOf(n) = <<k, l, b>>
      /\ n >= 2097152 => VarintOf(n) = <<k, l, m, c>>
  BY <1>2
<1>6. CASE n < 128
  <2>1. packet__varint_bytes(n) = 1
    BY SMT, <1>6 DEF packet__varint_bytes
  <2>2. Digit(n, 1) = n
    BY SMT, <1>3, <2>1 DEF Digit
  <2>3. VarintOf(n) = <<n>>
    BY SMT, <1>2, <1>6
  <2>4. VarintOf(n) \in Seq(Nat) /\ Len(VarintOf(n)) = 1 /\ VarintOf(n)[1] = Digit(n, 1)
    BY <2>2, <2>3, FewBytes
  <2> QED
    BY SMT, <2>1, <2>4
<1>7. CASE n >= 128 /\ n < 16384
  <2>1. packet__varint_bytes(n) = 2
    BY SMT, <1>7 DEF packet__varint_bytes
  <2>2. Digit(n, 1) = k /\ Digit(n, 2) = a
    BY SMT, <1>3, <2>1 DEF Digit, k, l, m
  <2>3. VarintOf(n) = <<k, a>>
    BY <1>5, <1>7
  <2> HIDE DEF k, l, m
  <2>4. /\ VarintOf(n) \in Seq(Nat) /\ Len(VarintOf(n)) = 2
        /\ VarintOf(n)[1] = Digit(n, 1) /\ VarintOf(n)[2] = Digit(n, 2)
    BY <1>1, <1>4, <2>2, <2>3, FewBytes
  <2> QED
    BY SMT, <2>1, <2>4
<1>8. CASE n >= 16384 /\ n < 2097152
  <2>1. packet__varint_bytes(n) = 3
    BY SMT, <1>8 DEF packet__varint_bytes
  <2>2. Digit(n, 1) = k /\ Digit(n, 2) = l /\ Digit(n, 3) = b
    BY SMT, <1>3, <2>1 DEF Digit, k, l, m
  <2>3. VarintOf(n) = <<k, l, b>>
    BY <1>5, <1>8
  <2> HIDE DEF k, l, m
  <2>4. /\ VarintOf(n) \in Seq(Nat) /\ Len(VarintOf(n)) = 3
        /\ VarintOf(n)[1] = Digit(n, 1) /\ VarintOf(n)[2] = Digit(n, 2) /\ VarintOf(n)[3] = Digit(n, 3)
    BY <1>1, <1>4, <2>2, <2>3, FewBytes
  <2> QED
    BY SMT, <2>1, <2>4
<1>9. CASE n >= 2097152
  <2>1. packet__varint_bytes(n) = 4
    BY SMT, <1>9 DEF packet__varint_bytes
  <2>2. /\ Digit(n, 1) = k /\ Digit(n, 2) = l
        /\ Digit(n, 3) = m /\ Digit(n, 4) = c
    BY SMT, <1>3, <2>1 DEF Digit, k, l, m
  <2>3. VarintOf(n) = <<k, l, m, c>>
    BY <1>5, <1>9
  <2> HIDE DEF k, l, m
  <2>4. /\ VarintOf(n) \in Seq(Nat) /\ Len(VarintOf(n)) = 4
        /\ VarintOf(n)[1] = Digit(n, 1) /\ VarintOf(n)[2] = Digit(n, 2)
        /\ VarintOf(n)[3] = Digit(n, 3) /\ VarintOf(n)[4] = Digit(n, 4)
    BY <1>1, <1>4, <2>2, <2>3, FewBytes
  <2> QED
    BY SMT, <2>1, <2>4
<1>10. n < 128 \/ (n >= 128 /\ n < 16384) \/ (n >= 16384 /\ n < 2097152) \/ n >= 2097152
  BY SMT
<1> HIDE DEF k, l, m
<1> QED
  BY SMTT(30), <1>6, <1>7, <1>8, <1>9, <1>10

\* A packet begins with its command and the digits of its length.
LEMMA SentBytes ==
  ASSUME NEW n \in Nat, n <= MaxVarint
  PROVE  /\ PacketOf(n) \in Seq(Nat) /\ Len(PacketOf(n)) = PacketSize(n) /\ PacketOf(n)[1] = 32
         /\ \A i \in 1 .. packet__varint_bytes(n) : PacketOf(n)[i + 1] = Digit(n, i)
<1> DEFINE d == packet__varint_bytes(n)
<1> DEFINE v == VarintOf(n)
<1> DEFINE h == <<32>>
<1> DEFINE b == [i \in 1 .. n |-> 7]
<1>1. v \in Seq(Nat) /\ Len(v) = d /\ d \in Nat /\ \A i \in 1 .. d : v[i] = Digit(n, i)
  BY VarintBytes, LenProperties
<1>2. h \in Seq(Nat) /\ Len(h) = 1 /\ h[1] = 32 /\ b \in Seq(Nat) /\ Len(b) = n
  OBVIOUS
<1>3. PacketOf(n) = (h \o v) \o b /\ PacketSize(n) = 1 + d + n
  BY DEF PacketOf, PacketSize
<1> HIDE DEF d, v, h, b
<1>4. /\ h \o v \in Seq(Nat) /\ Len(h \o v) = 1 + d
      /\ (h \o v)[1] = h[1]
      /\ \A i \in 1 .. d : (h \o v)[i + 1] = v[i]
  <2>1. h \in Seq(Nat) /\ v \in Seq(Nat)
    BY <1>1, <1>2
  <2>2. /\ h \o v \in Seq(Nat) /\ Len(h \o v) = Len(h) + Len(v)
        /\ \A i \in 1 .. Len(h) : (h \o v)[i] = h[i]
        /\ \A i \in 1 .. Len(v) : (h \o v)[i + Len(h)] = v[i]
    BY <2>1, Cat
  <2> QED
    BY <1>1, <1>2, <2>2
<1> DEFINE c == h \o v
<1>5. /\ c \in Seq(Nat) /\ Len(c) = 1 + d /\ c[1] = 32
      /\ \A i \in 1 .. d : c[i + 1] = Digit(n, i)
  BY <1>1, <1>2, <1>4
<1> HIDE DEF c
<1>6. c \in Seq(Nat) /\ b \in Seq(Nat)
  BY <1>2, <1>5
<1>7. /\ c \o b \in Seq(Nat) /\ Len(c \o b) = Len(c) + Len(b)
      /\ \A i \in 1 .. Len(c) : (c \o b)[i] = c[i]
  BY <1>6, Cat
<1>8. /\ c \o b \in Seq(Nat) /\ Len(c \o b) = 1 + d + n
      /\ \A i \in 1 .. 1 + d : (c \o b)[i] = c[i]
  BY <1>2, <1>5, <1>7
<1>9. PacketOf(n) = c \o b
  BY <1>3 DEF c
<1>10. \A i \in 1 .. d : PacketOf(n)[i + 1] = Digit(n, i)
  <2> SUFFICES ASSUME NEW i \in 1 .. d PROVE PacketOf(n)[i + 1] = Digit(n, i)
    OBVIOUS
  <2>1. i + 1 \in 1 .. 1 + d
    BY <1>1
  <2> QED
    BY <1>5, <1>8, <1>9, <2>1
<1> QED
  BY <1>1, <1>3, <1>5, <1>8, <1>9, <1>10 DEF d

-----------------------------------------------------------------------------
(* packet__read, byte by byte *)

\* The largest of a few small numbers.
LEMMA LargestOf ==
  ASSUME NEW S \in SUBSET (1 .. 6), S # {}
  PROVE  Max(S) \in S /\ \A y \in S : Max(S) >= y
<1>1. \E x \in S : \A y \in S : x >= y
  <2>1. PICK z : z \in S
    OBVIOUS
  <2>2. CASE 6 \in S
    BY <2>2
  <2>3. CASE 6 \notin S /\ 5 \in S
    BY <2>3
  <2>4. CASE {6, 5} \cap S = {} /\ 4 \in S
    BY <2>4
  <2>5. CASE {6, 5, 4} \cap S = {} /\ 3 \in S
    BY <2>5
  <2>6. CASE {6, 5, 4, 3} \cap S = {} /\ 2 \in S
    BY <2>6
  <2>7. CASE {6, 5, 4, 3, 2} \cap S = {} /\ 1 \in S
    BY <2>7
  <2>8. z \in 1 .. 6
    BY <2>1
  <2> QED
    BY <2>1, <2>2, <2>3, <2>4, <2>5, <2>6, <2>7, <2>8
<1> QED
  BY <1>1 DEF Max

\* The header, byte by byte.
FeedAll(base, s) == FoldLeft(Feed, base, s)

\* It is a sequence of steps, one for a byte.
LEMMA Folded ==
  ASSUME NEW base, NEW s, NEW n \in Nat, n <= 6, DOMAIN s = 1 .. n
  PROVE  \E r : /\ r[0] = base /\ FeedAll(base, s) = r[n]
                /\ \A k \in 1 .. n : r[k] = Feed(r[k - 1], s[k])
<1> DEFINE Step(k, S, r) == IF k \in S THEN Feed(r, s[k]) ELSE r
<1> DEFINE All(S) ==
      Step(6, S, Step(5, S, Step(4, S, Step(3, S, Step(2, S, Step(1, S, base))))))
<1> DEFINE F(f) == f = [S \in SUBSET (1 .. n) |-> IF S = {} THEN base ELSE Feed(f[S \ {Max(S)}], s[Max(S)])]
<1> DEFINE g == [S \in SUBSET (1 .. n) |-> All(S)]
<1>1. F(g)
  <2> DEFINE h == [S \in SUBSET (1 .. n) |-> IF S = {} THEN base ELSE Feed(g[S \ {Max(S)}], s[Max(S)])]
  <2> SUFFICES ASSUME NEW S \in SUBSET (1 .. n)
               PROVE  All(S) = IF S = {} THEN base ELSE Feed(g[S \ {Max(S)}], s[Max(S)])
    <3> HIDE DEF All
    <3>1. g = [S \in SUBSET (1 .. n) |-> g[S]] /\ \A S \in SUBSET (1 .. n) : g[S] = All(S)
      OBVIOUS
    <3> HIDE DEF g
    <3>2. /\ h = [S \in SUBSET (1 .. n) |-> h[S]]
          /\ \A S \in SUBSET (1 .. n) :
               h[S] = IF S = {} THEN base ELSE Feed(g[S \ {Max(S)}], s[Max(S)])
      OBVIOUS
    <3>3. (g = h) => F(g)
      OBVIOUS
    <3> HIDE DEF h, F
    <3>4. \A S \in SUBSET (1 .. n) : g[S] = h[S]
      BY <3>1, <3>2
    <3> QED
      BY <3>1, <3>2, <3>3, <3>4
  <2>1. CASE S = {}
    BY <2>1
  <2>2. CASE S # {}
    <3> DEFINE m == Max(S)
    <3> DEFINE T == S \ {m}
    <3>1. S \in SUBSET (1 .. 6)
      OBVIOUS
    <3>2. m \in S /\ \A y \in S : m >= y
      BY <2>2, <3>1, LargestOf
    <3> HIDE DEF m
    <3>3. g[T] = All(T)
      OBVIOUS
    <3>4. m \in 1 .. 6 /\ \A k \in 1 .. 6 : /\ k > m => k \notin S /\ k \notin T
                                            /\ k = m => k \in S /\ k \notin T
                                            /\ k < m => (k \in S <=> k \in T)
      BY <3>1, <3>2
    <3> HIDE DEF T
    <3>5. All(S) = Feed(All(T), s[m])
      <4>1. CASE m = 1
        BY <3>4, <4>1
      <4>2. CASE m = 2
        BY <3>4, <4>2
      <4>3. CASE m = 3
        BY <3>4, <4>3
      <4>4. CASE m = 4
        BY <3>4, <4>4
      <4>5. CASE m = 5
        BY <3>4, <4>5
      <4>6. CASE m = 6
        BY <3>4, <4>6
      <4>7. m = 1 \/ m = 2 \/ m = 3 \/ m = 4 \/ m = 5 \/ m = 6
        BY <3>4
      <4> HIDE DEF All, Feed
      <4> QED
        BY <4>1, <4>2, <4>3, <4>4, <4>5, <4>6, <4>7
    <3> QED
      BY <2>2, <3>3, <3>5 DEF T, m
  <2> QED
    BY <2>1, <2>2
<1> DEFINE b == CHOOSE f : F(f)
<1>2. F(b)
  BY <1>1
<1>3. FeedAll(base, s) = b[1 .. n]
  BY DEF FeedAll, FoldLeft, MapThenFoldSet
<1> HIDE DEF b, g
<1>4. \A S \in SUBSET (1 .. n) : /\ S = {} => b[S] = base
                                 /\ S # {} => b[S] = Feed(b[S \ {Max(S)}], s[Max(S)])
  BY <1>2, Zenon
<1> DEFINE r == [k \in 0 .. n |-> b[1 .. k]]
<1>5. ASSUME NEW k \in 1 .. n PROVE r[k] = Feed(r[k - 1], s[k])
  <2>1. 1 .. k \in SUBSET (1 .. 6) /\ 1 .. k \in SUBSET (1 .. n) /\ 1 .. k # {} /\ k \in 1 .. k
    OBVIOUS
  <2>2. Max(1 .. k) = k
    <3>1. Max(1 .. k) \in 1 .. k /\ Max(1 .. k) >= k
      BY <2>1, LargestOf
    <3> QED
      BY <3>1
  <2>3. (1 .. k) \ {k} = 1 .. k - 1
    OBVIOUS
  <2>4. b[1 .. k] = Feed(b[(1 .. k) \ {k}], s[k])
    BY <1>4, <2>1, <2>2, Zenon
  <2>5. r[k] = b[1 .. k] /\ r[k - 1] = b[1 .. k - 1]
    OBVIOUS
  <2> QED
    BY <2>3, <2>4, <2>5
<1>6. r[0] = base
  <2>1. 1 .. 0 = {} /\ {} \in SUBSET (1 .. n)
    OBVIOUS
  <2>2. r[0] = b[1 .. 0]
    OBVIOUS
  <2> QED
    BY <1>4, <2>1, <2>2
<1>7. r[n] = b[1 .. n]
  OBVIOUS
<1> QED
  BY <1>3, <1>5, <1>6, <1>7

\* c bytes of the header are read, and there are digits to come; and the header and x
\* bytes in all.
HeadAt(p, n, c) ==
  /\ p.command = (IF c = 0 THEN 0 ELSE 32) /\ p.to_process = 0
  /\ p.remaining_count = (IF c = 0 THEN 0 ELSE 1 - c)
  /\ p.remaining_mult = (IF c = 0 THEN 1 ELSE Place(c))
  /\ p.remaining_length = (IF c = 0 THEN 0 ELSE n % Place(c))
BodyAt(p, n, x) ==
  /\ p.remaining_count > 0 /\ p.remaining_length = n
  /\ x \in 0 .. PacketSize(n) /\ p.to_process = PacketSize(n) - x

Feeding == [p : InPacket, used : Nat, rc : {"header", "PROTOCOL"}]

\* The two fields that reading a byte may change.
LEMMA FeedingMade ==
  ASSUME NEW r \in Feeding, NEW t \in InPacket, NEW u \in Nat
  PROVE  /\ [r EXCEPT !.used = u, !.p = t] \in Feeding
         /\ [r EXCEPT !.used = u, !.p = t].rc = r.rc /\ [r EXCEPT !.used = u, !.p = t].used = u
         /\ [r EXCEPT !.used = u, !.p = t].p = t
<1> DEFINE S == InPacket
<1>1. r \in [p : S, used : Nat, rc : {"header", "PROTOCOL"}] /\ t \in S
  BY DEF Feeding
<1> HIDE DEF S
<1> QED
  BY <1>1 DEF Feeding, S

\* What one byte more makes of in_packet.
LEMMA FeedCases ==
  ASSUME NEW r \in Feeding, NEW byte \in Nat
  PROVE  /\ Feed(r, byte) \in Feeding
         /\ r.rc # "header" \/ r.p.remaining_count > 0 => Feed(r, byte) = r
         /\ r.rc = "header" /\ ~(r.p.remaining_count > 0) /\ r.p.command = 0 =>
              /\ Feed(r, byte).rc = "header" /\ Feed(r, byte).used = r.used + 1
              /\ Feed(r, byte).p = [r.p EXCEPT !.command = byte]
         /\ r.rc = "header" /\ ~(r.p.remaining_count > 0) /\ r.p.command # 0 =>
              IF r.p.remaining_count - 1 < -4
              THEN Feed(r, byte) = [r EXCEPT !.rc = "PROTOCOL"]
              ELSE /\ Feed(r, byte).rc = "header" /\ Feed(r, byte).used = r.used + 1
                   /\ Feed(r, byte).p =
                        [r.p EXCEPT
                           !.remaining_length = r.p.remaining_length + (byte % 128) * r.p.remaining_mult,
                           !.remaining_mult = r.p.remaining_mult * 128,
                           !.remaining_count = IF byte < 128 THEN -(r.p.remaining_count - 1)
                                               ELSE r.p.remaining_count - 1,
                           !.to_process = IF byte < 128
                                          THEN r.p.remaining_length + (byte % 128) * r.p.remaining_mult
                                          ELSE 0]
<1> DEFINE p == r.p
<1> DEFINE length == p.remaining_length + (byte % 128) * p.remaining_mult
<1> DEFINE count == p.remaining_count - 1
<1>1. p \in InPacket /\ r.used \in Nat /\ r.rc \in {"header", "PROTOCOL"}
  BY DEF Feeding
<1>2. length \in Nat
  <2>1. p.remaining_length \in Nat /\ p.remaining_mult \in Nat /\ byte % 128 \in Nat
    BY <1>1 DEF InPacket
  <2> QED
    BY <2>1
<1>3. p.remaining_mult * 128 \in Nat /\ p.remaining_count \in -4 .. 4
  BY <1>1 DEF InPacket
<1>4. CASE r.rc # "header" \/ r.p.remaining_count > 0
  BY <1>4 DEF Feed
<1>5. CASE r.rc = "header" /\ ~(r.p.remaining_count > 0) /\ r.p.command = 0
  <2> DEFINE q == [r EXCEPT !.p.command = byte, !.used = @ + 1]
  <2>1. Feed(r, byte) = q
    BY <1>5 DEF Feed
  <2>2. q.rc = r.rc /\ q.used = r.used + 1 /\ q.p = [r.p EXCEPT !.command = byte]
    BY DEF Feeding
  <2>3. q \in Feeding
    <3> DEFINE t == [p EXCEPT !.command = byte]
    <3>1. t \in InPacket
      BY <1>1 DEF InPacket
    <3>2. q = [r EXCEPT !.used = r.used + 1, !.p = t]
      BY DEF Feeding
    <3> HIDE DEF t, q
    <3>3. r.used + 1 \in Nat
      BY <1>1
    <3> QED
      BY <3>1, <3>2, <3>3, FeedingMade
  <2> QED
    BY <1>5, <2>1, <2>2, <2>3
<1>6. CASE r.rc = "header" /\ ~(r.p.remaining_count > 0) /\ r.p.command # 0
  <2>1. CASE count < -4
    <3>1. Feed(r, byte) = [r EXCEPT !.rc = "PROTOCOL"]
      BY <1>6, <2>1 DEF Feed
    <3>2. [r EXCEPT !.rc = "PROTOCOL"] \in Feeding
      BY DEF Feeding
    <3> QED
      BY <1>6, <2>1, <3>1, <3>2
  <2>2. CASE ~(count < -4)
    <3> DEFINE t == [p EXCEPT !.remaining_length = length, !.remaining_mult = p.remaining_mult * 128,
                       !.remaining_count = IF byte < 128 THEN -count ELSE count,
                       !.to_process = IF byte < 128 THEN length ELSE 0]
    <3> DEFINE q == [r EXCEPT !.used = @ + 1, !.p = t]
    <3>1. Feed(r, byte) = q
      BY <1>6, <2>2 DEF Feed
    <3>2. t \in InPacket
      <4>1. count \in -4 .. 4 /\ -count \in -4 .. 4
        BY <1>3, <1>6, <2>2
      <4> HIDE DEF length, count
      <4>2. p.remaining_mult * 128 \in Nat
        BY <1>3
      <4> DEFINE mult == p.remaining_mult * 128
      <4> HIDE DEF mult
      <4> QED
        BY <1>1, <1>2, <4>1, <4>2 DEF InPacket, mult
    <3> HIDE DEF t
    <3>3. q.rc = r.rc /\ q.used = r.used + 1 /\ q.p = t /\ q \in Feeding
      <4>1. q.rc = r.rc /\ q.used = r.used + 1 /\ q.p = t
        BY DEF Feeding
      <4>2. q = [r EXCEPT !.used = r.used + 1, !.p = t] /\ r.used + 1 \in Nat
        BY <1>1
      <4> HIDE DEF q
      <4>3. q \in Feeding
        BY <3>2, <4>2, FeedingMade
      <4> QED
        BY <4>1, <4>3
    <3> QED
      BY <1>6, <2>2, <3>1, <3>3 DEF t
  <2> QED
    BY <2>1, <2>2
<1> QED
  BY <1>4, <1>5, <1>6

\* The first byte of a packet is its command.
LEMMA FeedCommand ==
  ASSUME NEW r \in Feeding, NEW byte \in Nat, r.rc = "header", r.p.command = 0,
         ~(r.p.remaining_count > 0)
  PROVE  /\ Feed(r, byte) \in Feeding /\ Feed(r, byte).rc = "header"
         /\ Feed(r, byte).used = r.used + 1
         /\ Feed(r, byte).p.command = byte
         /\ Feed(r, byte).p.to_process = r.p.to_process
         /\ Feed(r, byte).p.remaining_count = r.p.remaining_count
         /\ Feed(r, byte).p.remaining_mult = r.p.remaining_mult
         /\ Feed(r, byte).p.remaining_length = r.p.remaining_length
<1> DEFINE p == r.p
<1> DEFINE q == Feed(r, byte)
<1>1. /\ q \in Feeding /\ q.rc = "header" /\ q.used = r.used + 1
      /\ q.p = [p EXCEPT !.command = byte] /\ p \in InPacket
  BY FeedCases, ZenonT(60) DEF Feeding
<1>2. p \in InPacket
  BY DEF Feeding
<1> HIDE DEF p, q
<1>3. /\ q.p.command = byte /\ q.p.to_process = p.to_process
      /\ q.p.remaining_count = p.remaining_count /\ q.p.remaining_mult = p.remaining_mult
      /\ q.p.remaining_length = p.remaining_length
  BY <1>1, <1>2 DEF InPacket
<1> QED
  BY <1>1, <1>3 DEF p, q

\* q is r behind one more digit of the length.
DigitFed(q, r, byte) ==
  /\ q \in Feeding /\ q.rc = "header" /\ q.used = r.used + 1
  /\ q.p.command = r.p.command
  /\ q.p.remaining_length = r.p.remaining_length + (byte % 128) * r.p.remaining_mult
  /\ q.p.remaining_mult = r.p.remaining_mult * 128
  /\ byte < 128 => q.p.remaining_count = -(r.p.remaining_count - 1)
  /\ ~(byte < 128) => q.p.remaining_count = r.p.remaining_count - 1
  /\ byte < 128 => q.p.to_process = r.p.remaining_length + (byte % 128) * r.p.remaining_mult
  /\ ~(byte < 128) => q.p.to_process = 0

\* The bytes behind the command are taken for digits.
LEMMA FeedDigit ==
  ASSUME NEW r \in Feeding, NEW byte \in Nat, r.rc = "header", r.p.command # 0,
         ~(r.p.remaining_count > 0), ~(r.p.remaining_count - 1 < -4)
  PROVE  DigitFed(Feed(r, byte), r, byte)
<1> DEFINE p == r.p
<1> DEFINE q == Feed(r, byte)
<1> DEFINE length == p.remaining_length + (byte % 128) * p.remaining_mult
<1> DEFINE mult == p.remaining_mult * 128
<1> DEFINE count == IF byte < 128 THEN -(p.remaining_count - 1) ELSE p.remaining_count - 1
<1> DEFINE to == IF byte < 128 THEN length ELSE 0
<1>1. /\ q \in Feeding /\ q.rc = "header" /\ q.used = r.used + 1
      /\ q.p = [p EXCEPT !.remaining_length = length, !.remaining_mult = mult,
                         !.remaining_count = count, !.to_process = to]
  BY FeedCases, ZenonT(60)
<1>2. p \in InPacket
  BY DEF Feeding
<1> HIDE DEF p, q, length, mult, count, to
<1>3. /\ q.p.command = p.command /\ q.p.to_process = to
      /\ q.p.remaining_count = count /\ q.p.remaining_mult = mult
      /\ q.p.remaining_length = length
  BY <1>1, <1>2 DEF InPacket
<1> QED
  BY <1>1, <1>3 DEF DigitFed, p, q, length, mult, count, to

\* A fifth digit is one too many.
LEMMA FeedRefused ==
  ASSUME NEW r \in Feeding, NEW byte \in Nat, r.rc = "header", r.p.command # 0,
         ~(r.p.remaining_count > 0), r.p.remaining_count - 1 < -4
  PROVE  Feed(r, byte).rc = "PROTOCOL"
<1>1. Feed(r, byte) = [r EXCEPT !.rc = "PROTOCOL"]
  BY FeedCases, ZenonT(60)
<1> QED
  BY <1>1 DEF Feeding

\* A byte of the header takes in_packet to its next digit, and the last to the body.
LEMMA FeedHead ==
  ASSUME NEW r \in Feeding, NEW n \in Nat, n <= MaxVarint, NEW c \in 0 .. packet__varint_bytes(n),
         r.rc = "header", HeadAt(r.p, n, c), NEW byte, byte = (IF c = 0 THEN 32 ELSE Digit(n, c))
  PROVE  /\ Feed(r, byte) \in Feeding /\ Feed(r, byte).rc = "header" /\ Feed(r, byte).used = r.used + 1
         /\ c < packet__varint_bytes(n) => HeadAt(Feed(r, byte).p, n, c + 1)
         /\ c = packet__varint_bytes(n) => BodyAt(Feed(r, byte).p, n, c + 1)
<1> DEFINE d == packet__varint_bytes(n)
<1> DEFINE p == r.p
<1> DEFINE q == Feed(r, byte)
<1>1. d \in 1 .. 4
  BY SMT DEF packet__varint_bytes
<1>2. p \in InPacket
  BY DEF Feeding
<1>3. ~(p.remaining_count > 0)
  <2>1. c \in 0 .. 4
    BY <1>1
  <2> QED
    BY <2>1 DEF HeadAt
<1>4. CASE c = 0
  <2>1. byte = 32 /\ p.command = 0
    BY <1>4 DEF HeadAt
  <2>2. /\ q \in Feeding /\ q.rc = "header" /\ q.used = r.used + 1
        /\ q.p.command = byte /\ q.p.to_process = p.to_process
        /\ q.p.remaining_count = p.remaining_count /\ q.p.remaining_mult = p.remaining_mult
        /\ q.p.remaining_length = p.remaining_length
    <3>1. byte \in Nat
      BY <2>1
    <3> QED
      BY <1>3, <2>1, <3>1, FeedCommand
  <2>3. HeadAt(q.p, n, 1)
    <3>1. /\ p.to_process = 0 /\ p.remaining_count = 0 /\ p.remaining_mult = 1
          /\ p.remaining_length = 0
      BY <1>4 DEF HeadAt
    <3>2. n % Place(1) = 0 /\ Place(1) = 1
      BY SMT DEF Place
    <3> HIDE DEF p, q
    <3> QED
      BY <2>1, <2>2, <3>1, <3>2 DEF HeadAt
  <2> QED
    BY <1>1, <1>4, <2>2, <2>3
<1>5. CASE c # 0
  <2>1. c \in 1 .. d /\ c \in 1 .. 4 /\ byte = Digit(n, c)
    BY <1>1, <1>5
  <2>2. /\ byte \in Nat
        /\ (byte < 128) <=> (c = d)
        /\ c < d => byte % 128 = (n \div Place(c)) % 128
        /\ c = d => byte % 128 = n \div Place(c)
    BY <2>1, DigitByte
  <2>3. /\ p.command = 32 /\ p.to_process = 0 /\ p.remaining_count = 1 - c
        /\ p.remaining_mult = Place(c) /\ p.remaining_length = n % Place(c)
    BY <1>5 DEF HeadAt
  <2>4. ~(p.remaining_count - 1 < -4) /\ -(p.remaining_count - 1) = c /\ p.remaining_count - 1 = -c
    BY <2>1, <2>3
  <2>5. /\ q \in Feeding /\ q.rc = "header" /\ q.used = r.used + 1
        /\ q.p.command = p.command
        /\ q.p.remaining_length = p.remaining_length + (byte % 128) * p.remaining_mult
        /\ q.p.remaining_mult = p.remaining_mult * 128
        /\ byte < 128 => /\ q.p.remaining_count = -(p.remaining_count - 1)
                         /\ q.p.to_process = q.p.remaining_length
        /\ ~(byte < 128) => q.p.remaining_count = p.remaining_count - 1 /\ q.p.to_process = 0
    <3>1. p.command # 0
      BY <2>3
    <3>2. DigitFed(q, r, byte)
      <4>1. r.p.command # 0 /\ byte \in Nat
        BY <2>2, <3>1
      <4>2. ~(r.p.remaining_count - 1 < -4) /\ ~(r.p.remaining_count > 0)
        BY <1>3, <2>4
      <4> QED
        BY <4>1, <4>2, FeedDigit
    <3> QED
      BY <3>2, ZenonT(60) DEF DigitFed
  <2>6. /\ q.p.command = 32 /\ q.p.remaining_length = IF c = d THEN n ELSE n % Place(c + 1)
        /\ q.p.remaining_mult = Place(c + 1)
        /\ q.p.remaining_count = (IF c = d THEN c ELSE -c)
        /\ q.p.to_process = (IF c = d THEN n ELSE 0)
    <3>1. /\ (n % Place(c)) + ((n \div Place(c)) % 128) * Place(c) = n % Place(c + 1)
          /\ (n % Place(c)) + (n \div Place(c)) * Place(c) = n /\ Place(c) * 128 = Place(c + 1)
      BY <2>1, Digits
    <3> HIDE DEF p, q, d
    <3>2. CASE c = d
      <4>1. q.p.remaining_length = (n % Place(c)) + (n \div Place(c)) * Place(c)
        BY <2>2, <2>3, <2>5, <3>2
      <4>2. q.p.remaining_length = n
        BY <3>1, <4>1
      <4> QED
        BY <2>2, <2>3, <2>4, <2>5, <3>1, <3>2, <4>2
    <3>3. CASE c < d
      <4>1. q.p.remaining_length = (n % Place(c)) + ((n \div Place(c)) % 128) * Place(c)
        BY <2>2, <2>3, <2>5, <3>3
      <4>2. q.p.remaining_length = n % Place(c + 1) /\ c # d /\ ~(byte < 128)
        <5>1. c # d
          BY <1>1, <2>1, <3>3
        <5> QED
          BY <2>2, <3>1, <4>1, <5>1
      <4> QED
        BY <2>3, <2>4, <2>5, <3>1, <4>2
    <3> QED
      BY <1>1, <2>1, <3>2, <3>3
  <2> HIDE DEF p, q
  <2>7. CASE c < d
    <3>1. HeadAt(q.p, n, c + 1)
      BY <1>1, <2>1, <2>6, <2>7 DEF HeadAt
    <3> QED
      BY <1>1, <2>1, <2>5, <2>7, <3>1 DEF p, q
  <2>8. CASE c = d
    <3>1. q.p.remaining_count > 0 /\ q.p.remaining_length = n /\ q.p.to_process = n
      BY <1>1, <2>1, <2>6, <2>8
    <3>2. PacketSize(n) = c + 1 + n
      BY <1>1, <2>1, <2>8 DEF PacketSize
    <3>3. c + 1 \in 0 .. PacketSize(n) /\ n = PacketSize(n) - (c + 1)
      BY <2>1, <3>2
    <3>4. BodyAt(q.p, n, c + 1)
      BY <3>1, <3>3 DEF BodyAt
    <3> QED
      BY <1>1, <2>1, <2>5, <2>8, <3>4 DEF p, q
  <2> QED
    BY <1>1, <2>1, <2>7, <2>8
<1> QED
  BY <1>4, <1>5

\* The bytes of a remaining length of five digits.
Garbled == <<32, 129, 128, 128, 128, 1>>
GarbledAt(p, c) ==
  /\ c \in 0 .. 5 /\ p.to_process = 0 /\ p.command = (IF c = 0 THEN 0 ELSE 32)
  /\ p.remaining_count = (IF c = 0 THEN 0 ELSE 1 - c)

\* They are refused with the sixth and not before it.
LEMMA FeedGarbled ==
  ASSUME NEW r \in Feeding, NEW c \in 0 .. 5, r.rc = "header", GarbledAt(r.p, c)
  PROVE  /\ Feed(r, Garbled[c + 1]) \in Feeding
         /\ c < 5 => /\ Feed(r, Garbled[c + 1]).rc = "header"
                     /\ Feed(r, Garbled[c + 1]).used = r.used + 1
                     /\ GarbledAt(Feed(r, Garbled[c + 1]).p, c + 1)
         /\ c = 5 => Feed(r, Garbled[c + 1]).rc = "PROTOCOL"
<1> DEFINE byte == Garbled[c + 1]
<1> DEFINE p == r.p
<1> DEFINE q == Feed(r, byte)
<1>1. byte \in Nat /\ (c = 0 => byte = 32) /\ (c > 0 /\ c < 5 => ~(byte < 128))
  BY DEF Garbled
<1> HIDE DEF byte
<1>2. p \in InPacket /\ ~(p.remaining_count > 0)
  BY DEF Feeding, GarbledAt
<1>3. q \in Feeding
  BY <1>1, FeedCases
<1>4. CASE c = 0
  <2>1. byte = 32 /\ p.command = 0 /\ p.to_process = 0 /\ p.remaining_count = 0
    BY <1>1, <1>4 DEF GarbledAt
  <2>2. /\ q.rc = "header" /\ q.used = r.used + 1
        /\ q.p.command = byte /\ q.p.to_process = p.to_process
        /\ q.p.remaining_count = p.remaining_count
    BY <1>1, <1>2, <2>1, FeedCommand
  <2> HIDE DEF p, q
  <2>3. GarbledAt(q.p, c + 1)
    BY <1>4, <2>1, <2>2 DEF GarbledAt
  <2> QED
    BY <1>3, <1>4, <2>2, <2>3 DEF q, byte
<1>5. CASE c > 0 /\ c < 5
  <2>1. p.command = 32 /\ p.to_process = 0 /\ p.remaining_count = 1 - c
    BY <1>5 DEF GarbledAt
  <2>2. ~(p.remaining_count - 1 < -4) /\ p.remaining_count - 1 = -c /\ ~(byte < 128)
    BY <1>1, <1>5, <2>1
  <2>3. /\ q.rc = "header" /\ q.used = r.used + 1
        /\ q.p.command = p.command
        /\ q.p.remaining_count = p.remaining_count - 1 /\ q.p.to_process = 0
    <3>1. p.command # 0
      BY <2>1
    <3> QED
      BY <1>1, <1>2, <2>2, <3>1, FeedDigit DEF DigitFed
  <2> HIDE DEF p, q
  <2>4. GarbledAt(q.p, c + 1)
    BY <1>5, <2>1, <2>2, <2>3 DEF GarbledAt
  <2> QED
    BY <1>3, <1>5, <2>3, <2>4 DEF q, byte
<1>6. CASE c = 5
  <2>1. p.command = 32 /\ p.remaining_count - 1 < -4
    BY <1>6 DEF GarbledAt
  <2>2. p.command # 0
    BY <2>1
  <2>3. q.rc = "PROTOCOL"
    BY <1>1, <1>2, <2>1, <2>2, FeedRefused
  <2> QED
    BY <1>3, <1>6, <2>3 DEF q, byte
<1>7. c = 0 \/ (c > 0 /\ c < 5) \/ c = 5
  OBVIOUS
<1> QED
  BY <1>4, <1>5, <1>6, <1>7 DEF byte, q

\* The lesser of two numbers.
LEMMA Lesser ==
  ASSUME NEW a \in Int, NEW b \in Int
  PROVE  Min({a, b}) = IF a <= b THEN a ELSE b
<1>1. \E x \in {a, b} : \A y \in {a, b} : x <= y
  OBVIOUS
<1>2. Min({a, b}) \in {a, b} /\ \A y \in {a, b} : Min({a, b}) <= y
  BY <1>1 DEF Min
<1> QED
  BY <1>2

\* What holds at the start of a few steps, and is kept by each, holds after all.
LEMMA FewSteps ==
  ASSUME NEW m \in 0 .. 6, NEW G, 0 \in G, \A k \in 1 .. m : k - 1 \in G => k \in G
  PROVE  \A k \in 0 .. m : k \in G
<1>1. m >= 1 => 1 \in G
  BY SMT
<1>2. m >= 2 => 2 \in G
  BY SMT, <1>1
<1>3. m >= 3 => 3 \in G
  BY SMT, <1>2
<1>4. m >= 4 => 4 \in G
  BY SMT, <1>3
<1>5. m >= 5 => 5 \in G
  BY SMT, <1>4
<1>6. m >= 6 => 6 \in G
  BY SMT, <1>5
<1> QED
  BY SMT, <1>1, <1>2, <1>3, <1>4, <1>5, <1>6

\* No more than six of what has arrived are looked at.
LEMMA UpToSix ==
  ASSUME NEW a \in Nat
  PROVE  (IF a < 6 THEN a ELSE 6) \in 0 .. 6 /\ (IF a < 6 THEN a ELSE 6) <= a
<1>1. CASE a < 6
  BY <1>1
<1>2. CASE ~(a < 6)
  BY <1>2
<1> QED
  BY <1>1, <1>2

\* n bytes more of the payload are there.
PayloadRead(r, n) == [r EXCEPT !.p.to_process = @ - n, !.used = @ + n]

ReadSteps(r, m) ==
  /\ r[0] = [p |-> in_packet, used |-> 0, rc |-> "header"]
  /\ \A k \in 1 .. m : r[k] = Feed(r[k - 1], arrived[k])

\* The header is read in at most six steps, and then what there is of the payload.
LEMMA FedSteps ==
  ASSUME in_packet \in InPacket, arrived \in Seq(Nat)
  PROVE  \E m, r :
           /\ m \in 0 .. 6 /\ m = (IF Len(arrived) < 6 THEN Len(arrived) ELSE 6)
           /\ ReadSteps(r, m) /\ \A k \in 0 .. m : r[k] \in Feeding /\ r[k].used <= k
           /\ \E q \in Nat :
                /\ q = (IF r[m].p.to_process <= Len(arrived) - r[m].used THEN r[m].p.to_process
                        ELSE Len(arrived) - r[m].used)
                /\ Fed = PayloadRead(r[m], q)
<1> DEFINE m == IF Len(arrived) < 6 THEN Len(arrived) ELSE 6
<1> DEFINE s == SubSeq(arrived, 1, m)
<1> DEFINE base == [p |-> in_packet, used |-> 0, rc |-> "header"]
<1>1. Len(arrived) \in Nat /\ m \in 0 .. 6 /\ m <= Len(arrived)
  <2>1. Len(arrived) \in Nat
    BY LenProperties
  <2> QED
    BY <2>1, UpToSix
<1>2. Min({6, Len(arrived)}) = m
  BY <1>1, Lesser
<1> HIDE DEF m
<1>3. DOMAIN s = 1 .. m /\ \A k \in 1 .. m : s[k] = arrived[k]
  BY <1>1
<1> HIDE DEF s
<1>4. PICK r : /\ r[0] = base /\ FeedAll(base, s) = r[m]
               /\ \A k \in 1 .. m : r[k] = Feed(r[k - 1], s[k])
  <2> HIDE DEF base
  <2>1. m \in Nat /\ m <= 6 /\ DOMAIN s = 1 .. m
    BY <1>1, <1>3
  <2> QED
    BY <2>1, Folded
<1>5. ReadSteps(r, m)
  BY <1>3, <1>4 DEF ReadSteps
<1>6. \A k \in 0 .. m : r[k] \in Feeding /\ r[k].used <= k
  <2> DEFINE G == {k \in 0 .. m : r[k] \in Feeding /\ r[k].used <= k}
  <2>1. 0 \in G
    <3>1. base \in Feeding /\ base.used = 0
      BY DEF Feeding
    <3>2. 0 \in 0 .. m
      BY <1>1
    <3> QED
      BY <1>4, <3>1, <3>2
  <2>2. ASSUME NEW k \in 1 .. m, k - 1 \in G PROVE k \in G
    <3>1. r[k - 1] \in Feeding /\ r[k - 1].used <= k - 1 /\ k \in 0 .. m /\ k \in 1 .. Len(arrived)
      BY <1>1, <2>2
    <3>2. arrived[k] \in Nat /\ r[k] = Feed(r[k - 1], arrived[k])
      BY <3>1, <1>5, ElementOfSeq DEF ReadSteps
    <3> DEFINE a == r[k - 1]
    <3> DEFINE b == r[k]
    <3>3. a \in Feeding /\ b = Feed(a, arrived[k])
      BY <3>1, <3>2
    <3> HIDE DEF a, b
    <3>4. b \in Feeding
      BY <3>2, <3>3, FeedCases
    <3>5. b.used = a.used \/ b.used = a.used + 1
      <4>1. a.rc \in {"header", "PROTOCOL"} /\ a.p \in InPacket
        BY <3>3 DEF Feeding
      <4>2. CASE a.rc # "header" \/ a.p.remaining_count > 0
        <5>1. b = a
          BY <3>2, <3>3, <4>2, FeedCases, ZenonT(60)
        <5> QED
          BY <5>1
      <4>3. CASE a.rc = "header" /\ ~(a.p.remaining_count > 0) /\ a.p.command = 0
        BY <3>2, <3>3, <4>3, FeedCommand
      <4>4. CASE a.rc = "header" /\ ~(a.p.remaining_count > 0) /\ a.p.command # 0
        <5>1. CASE a.p.remaining_count - 1 < -4
          <6>1. b = [a EXCEPT !.rc = "PROTOCOL"]
            BY <3>2, <3>3, <4>4, <5>1, FeedCases, ZenonT(60)
          <6> QED
            BY <3>3, <6>1 DEF Feeding
        <5>2. CASE ~(a.p.remaining_count - 1 < -4)
          BY <3>2, <3>3, <4>4, <5>2, FeedDigit DEF DigitFed
        <5> QED
          BY <5>1, <5>2
      <4> QED
        BY <4>2, <4>3, <4>4
    <3>6. a.used \in Nat /\ b.used \in Nat /\ a.used <= k - 1
      BY <3>1, <3>3, <3>4 DEF Feeding, a
    <3>7. b.used <= k
      BY <3>5, <3>6
    <3> QED
      BY <3>1, <3>4, <3>7 DEF b
  <2> HIDE DEF G
  <2>3. \A k \in 0 .. m : k \in G
    BY <1>1, <2>1, <2>2, FewSteps
  <2> QED
    BY <2>3 DEF G
<1>7. \E q \in Nat :
        /\ q = (IF r[m].p.to_process <= Len(arrived) - r[m].used THEN r[m].p.to_process
                ELSE Len(arrived) - r[m].used)
        /\ Fed = PayloadRead(r[m], q)
  <2> DEFINE f == r[m]
  <2>1. f \in Feeding /\ f.used <= m
    BY <1>1, <1>6
  <2>2. FeedAll([p |-> in_packet, used |-> 0, rc |-> "header"],
                 SubSeq(arrived, 1, Min({6, Len(arrived)}))) = f
    BY <1>2, <1>4 DEF s
  <2> DEFINE q == Min({f.p.to_process, Len(arrived) - f.used})
  <2>3. Fed = PayloadRead(f, q)
    BY <2>2, Zenon DEF Fed, FeedAll, PayloadRead
  <2> HIDE DEF f
  <2>4. f.p.to_process \in Nat /\ Len(arrived) - f.used \in Nat
    BY <1>1, <2>1 DEF Feeding, InPacket
  <2> DEFINE a == f.p.to_process
  <2> DEFINE b == Len(arrived) - f.used
  <2>5. a \in Int /\ b \in Int /\ a \in Nat /\ b \in Nat
    BY <2>4
  <2>6. q = (IF a <= b THEN a ELSE b)
    <3>1. q = Min({a, b})
      OBVIOUS
    <3> HIDE DEF a, b, q
    <3>2. Min({a, b}) = (IF a <= b THEN a ELSE b)
      BY <2>5, Lesser
    <3> QED
      BY <3>1, <3>2
  <2>7. q \in Nat
    BY <2>5, <2>6
  <2> HIDE DEF q
  <2> QED
    BY <2>3, <2>6, <2>7 DEF f
<1> QED
  BY <1>1, <1>5, <1>6, <1>7 DEF m

\* What reading the payload changes.
LEMMA FedFields ==
  ASSUME NEW r \in Feeding, NEW q \in Nat, q <= r.p.to_process
  PROVE  /\ PayloadRead(r, q) \in Feeding /\ PayloadRead(r, q).rc = r.rc
         /\ PayloadRead(r, q).used = r.used + q
         /\ PayloadRead(r, q).p.to_process = r.p.to_process - q
         /\ PayloadRead(r, q).p.command = r.p.command
         /\ PayloadRead(r, q).p.remaining_count = r.p.remaining_count
         /\ PayloadRead(r, q).p.remaining_mult = r.p.remaining_mult
         /\ PayloadRead(r, q).p.remaining_length = r.p.remaining_length
<1> DEFINE f == PayloadRead(r, q)
<1> DEFINE p == r.p
<1> DEFINE t == [p EXCEPT !.to_process = p.to_process - q]
<1> DEFINE u == r.used + q
<1>1. p \in InPacket /\ r.used \in Nat
  BY DEF Feeding
<1>2. p.to_process - q \in Nat
  BY <1>1 DEF InPacket
<1>3. t \in InPacket
  BY <1>1, <1>2 DEF InPacket
<1>4. /\ t.to_process = p.to_process - q
      /\ t.command = p.command /\ t.remaining_count = p.remaining_count
      /\ t.remaining_mult = p.remaining_mult /\ t.remaining_length = p.remaining_length
  <2> HIDE DEF p
  <2> QED
    BY <1>1 DEF InPacket
<1>5. f.rc = r.rc /\ f.used = u /\ f.p = t
  BY DEF Feeding, PayloadRead
<1>6. f = [r EXCEPT !.used = u, !.p = t]
  BY DEF Feeding, PayloadRead
<1>7. u \in Nat
  BY <1>1
<1> HIDE DEF t, u, f
<1>8. f \in Feeding
  <2>1. [r EXCEPT !.used = u, !.p = t] \in Feeding
    BY <1>3, <1>7, FeedingMade
  <2> QED
    BY <1>6, <2>1
<1> QED
  BY <1>4, <1>5, <1>8 DEF p, u, f

\* x bytes of a packet with n behind its header are read.
PacketAt(p, n, x) ==
  \/ x \in 0 .. packet__varint_bytes(n) /\ HeadAt(p, n, x)
  \/ BodyAt(p, n, x)

\* The bytes of one packet, of which x are read, are read on from there: to its end, or
\* as far as bytes have arrived.
LEMMA FedPacket ==
  ASSUME in_packet \in InPacket, arrived \in Seq(Nat), NEW n \in Nat, n <= MaxVarint,
         NEW x \in Nat, PacketAt(in_packet, n, x), NEW s,
         \A i \in 1 .. Len(arrived) : arrived[i] = s[x + i],
         s[1] = 32, \A j \in 1 .. packet__varint_bytes(n) : s[j + 1] = Digit(n, j)
  PROVE  /\ Fed \in Feeding /\ Fed.rc = "header" /\ Fed.used <= Len(arrived)
         /\ \/ /\ Fed.p.remaining_count > 0 /\ Fed.p.to_process = 0
               /\ Fed.p.remaining_length = n /\ x + Fed.used = PacketSize(n)
            \/ /\ Fed.p.remaining_count <= 0 \/ Fed.p.to_process > 0
               /\ Fed.used = Len(arrived) /\ PacketAt(Fed.p, n, x + Fed.used)
<1> DEFINE d == packet__varint_bytes(n)
<1>1. d \in 1 .. 4 /\ PacketSize(n) = 1 + d + n /\ PacketSize(n) \in Nat
  BY SMT DEF packet__varint_bytes, PacketSize
<1>2. PICK m, r :
        /\ m \in 0 .. 6 /\ m = (IF Len(arrived) < 6 THEN Len(arrived) ELSE 6)
        /\ ReadSteps(r, m) /\ \A k \in 0 .. m : r[k] \in Feeding /\ r[k].used <= k
        /\ \E q \in Nat :
             /\ q = (IF r[m].p.to_process <= Len(arrived) - r[m].used THEN r[m].p.to_process
                     ELSE Len(arrived) - r[m].used)
             /\ Fed = PayloadRead(r[m], q)
  BY FedSteps, Zenon
<1>3. PICK q \in Nat :
        /\ q = (IF r[m].p.to_process <= Len(arrived) - r[m].used THEN r[m].p.to_process
                ELSE Len(arrived) - r[m].used)
        /\ Fed = PayloadRead(r[m], q)
  BY <1>2, Zenon
<1>4. Len(arrived) \in Nat
  BY LenProperties
<1>5. m <= Len(arrived) /\ (m < 6 => m = Len(arrived))
  BY <1>2, <1>4
<1> DEFINE Good(f, k) ==
      /\ f.rc = "header" /\ f.used <= k
      /\ \/ f.used = k /\ x + k \in 0 .. d /\ HeadAt(f.p, n, x + k)
         \/ BodyAt(f.p, n, x + f.used)
<1>6. \A k \in 0 .. m : Good(r[k], k)
  <2> DEFINE G == {k \in 0 .. m : Good(r[k], k)}
  <2>1. 0 \in G
    <3>1. r[0].p = in_packet /\ r[0].used = 0 /\ r[0].rc = "header" /\ x + 0 = x
      BY <1>2 DEF ReadSteps
    <3>2. Good(r[0], 0)
      <4> HIDE DEF d
      <4> QED
        BY <3>1 DEF PacketAt, d
    <3>3. 0 \in 0 .. m
      BY <1>2
    <3> HIDE DEF Good
    <3> QED
      BY <3>2, <3>3
  <2>2. ASSUME NEW k \in 1 .. m, k - 1 \in G PROVE k \in G
    <3> DEFINE f == r[k - 1]
    <3> DEFINE g == r[k]
    <3>1. k - 1 \in 0 .. m /\ k \in 0 .. m /\ k \in 1 .. Len(arrived) /\ Good(f, k - 1)
      BY <1>2, <1>5, <2>2
    <3>2. f \in Feeding /\ g = Feed(f, arrived[k]) /\ arrived[k] = s[x + k] /\ arrived[k] \in Nat
      BY <1>2, <3>1, ElementOfSeq DEF ReadSteps
    <3> HIDE DEF f, g
    <3>3. CASE f.used = k - 1 /\ x + (k - 1) \in 0 .. d /\ HeadAt(f.p, n, x + (k - 1))
      <4> DEFINE c == x + (k - 1)
      <4>1. c \in 0 .. d /\ HeadAt(f.p, n, c) /\ c + 1 = x + k
        BY <3>1, <3>3
      <4>2. arrived[k] = (IF c = 0 THEN 32 ELSE Digit(n, c))
        <5>1. arrived[k] = s[c + 1]
          BY <3>2, <4>1
        <5> HIDE DEF c
        <5>2. CASE c = 0
          BY <5>1, <5>2
        <5>3. CASE c # 0
          <6>1. c \in 1 .. d
            BY <1>1, <4>1, <5>3
          <6> QED
            BY <5>1, <5>3, <6>1
        <5> QED
          BY <5>2, <5>3
      <4>3. f.rc = "header"
        BY <3>1
      <4> HIDE DEF c
      <4>4. /\ g.rc = "header" /\ g.used = f.used + 1
            /\ c < d => HeadAt(g.p, n, c + 1)
            /\ c = d => BodyAt(g.p, n, c + 1)
        BY <3>2, <4>1, <4>2, <4>3, FeedHead
      <4>5. g.used = k /\ k <= k
        BY <3>3, <3>1, <4>4
      <4>6. CASE c < d
        <5>1. HeadAt(g.p, n, x + k) /\ x + k \in 0 .. d
          BY <1>1, <4>1, <4>4, <4>6
        <5> QED
          BY <3>1, <4>4, <4>5, <5>1 DEF g
      <4>7. CASE c = d
        <5>1. BodyAt(g.p, n, x + g.used)
          BY <4>1, <4>4, <4>5, <4>7
        <5> QED
          BY <3>1, <4>4, <4>5, <5>1 DEF g
      <4> QED
        BY <1>1, <4>1, <4>6, <4>7
    <3>4. CASE BodyAt(f.p, n, x + f.used)
      <4>1. f.p.remaining_count > 0
        BY <3>4 DEF BodyAt
      <4>2. g = f
        BY <3>2, <4>1, FeedCases, ZenonT(60)
      <4>3. f.used \in Nat /\ f.used <= k - 1
        BY <3>1, <3>2 DEF Feeding
      <4>4. f.used <= k
        BY <3>1, <4>3
      <4> QED
        BY <3>1, <3>4, <4>2, <4>4 DEF g
    <3> QED
      BY <3>1, <3>3, <3>4
  <2> HIDE DEF G
  <2>3. \A k \in 0 .. m : k \in G
    BY <1>2, <2>1, <2>2, FewSteps
  <2> QED
    BY <2>3 DEF G
<1> DEFINE f == r[m]
<1>7. f \in Feeding /\ Good(f, m) /\ m \in 0 .. m
  BY <1>2, <1>6
<1>8. /\ q = (IF f.p.to_process <= Len(arrived) - f.used THEN f.p.to_process
              ELSE Len(arrived) - f.used)
      /\ Fed = PayloadRead(f, q)
  BY <1>3
<1> HIDE DEF f
<1>9. f.p.to_process \in Nat /\ f.used \in Nat /\ f.used <= m
  BY <1>7 DEF Feeding, InPacket
<1>10. q <= f.p.to_process /\ f.used + q <= Len(arrived)
  BY <1>4, <1>5, <1>8, <1>9
<1> DEFINE e == Fed
<1>11. e = PayloadRead(f, q)
  BY <1>8, Zenon
<1> HIDE DEF e
<1>12. /\ Fed \in Feeding /\ Fed.rc = f.rc /\ Fed.used = f.used + q
       /\ Fed.p.to_process = f.p.to_process - q
       /\ Fed.p.command = f.p.command /\ Fed.p.remaining_count = f.p.remaining_count
       /\ Fed.p.remaining_mult = f.p.remaining_mult /\ Fed.p.remaining_length = f.p.remaining_length
  <2>1. /\ e \in Feeding /\ e.rc = f.rc /\ e.used = f.used + q
        /\ e.p.to_process = f.p.to_process - q
        /\ e.p.command = f.p.command /\ e.p.remaining_count = f.p.remaining_count
        /\ e.p.remaining_mult = f.p.remaining_mult /\ e.p.remaining_length = f.p.remaining_length
    <3>1. f \in Feeding /\ q \in Nat /\ q <= f.p.to_process
      BY <1>3, <1>7, <1>10
    <3> QED
      BY <1>11, <3>1, FedFields
  <2> QED
    BY <2>1, Zenon DEF e
<1>13. CASE f.used = m /\ x + m \in 0 .. d /\ HeadAt(f.p, n, x + m)
  <2>1. f.p.to_process = 0 /\ f.p.remaining_count <= 0
    BY <1>1, <1>13 DEF HeadAt
  <2>2. m = Len(arrived)
    BY <1>1, <1>2, <1>5, <1>13
  <2>3. q = 0
    BY <1>10, <2>1
  <2>4. e.used = m /\ HeadAt(e.p, n, x + m) /\ e.p.remaining_count <= 0
    <3>1. /\ e.p.to_process = 0 /\ f.p.to_process = 0 /\ e.used = m
          /\ e.p.command = f.p.command /\ e.p.remaining_count = f.p.remaining_count
          /\ e.p.remaining_mult = f.p.remaining_mult /\ e.p.remaining_length = f.p.remaining_length
      <4>1. f.used = m /\ m \in Nat
        BY <1>13, <1>7
      <4> QED
        BY <1>12, <2>1, <2>3, <4>1 DEF e
    <3>2. HeadAt(e.p, n, x + m)
      BY <1>13, <3>1, Zenon DEF HeadAt
    <3> QED
      BY <2>1, <3>1, <3>2
  <2> QED
    BY <1>7, <1>12, <1>13, <2>2, <2>4 DEF PacketAt, e
<1>14. CASE BodyAt(f.p, n, x + f.used)
  <2>1. /\ f.p.remaining_count > 0 /\ f.p.remaining_length = n
        /\ f.p.to_process = PacketSize(n) - (x + f.used)
    BY <1>14 DEF BodyAt
  <2>2. /\ e.p.remaining_count > 0 /\ e.p.remaining_length = n /\ e.used = f.used + q
        /\ e.p.to_process = PacketSize(n) - (x + e.used) /\ e.p.to_process \in Nat
    BY <1>1, <1>9, <1>10, <1>12, <2>1 DEF e
  <2>3. CASE e.p.to_process = 0
    <3>1. x + e.used = PacketSize(n)
      <4>1. e.used \in Nat /\ x + e.used \in Nat
        BY <1>9, <2>2
      <4> DEFINE y == x + e.used
      <4>2. PacketSize(n) - y = 0
        BY <2>2, <2>3
      <4> HIDE DEF y
      <4>3. y = PacketSize(n)
        BY <1>1, <4>1, <4>2 DEF y
      <4> QED
        BY <4>3 DEF y
    <3> QED
      BY <1>7, <1>10, <1>12, <2>2, <2>3, <3>1 DEF e
  <2>4. CASE e.p.to_process # 0
    <3>1. e.p.to_process > 0
      BY <2>2, <2>4
    <3>2. e.used = Len(arrived)
      BY <1>4, <1>8, <1>9, <1>12, <2>2, <2>4 DEF e
    <3>3. x + e.used \in 0 .. PacketSize(n)
      BY <1>1, <1>9, <2>2
    <3>4. BodyAt(e.p, n, x + e.used)
      BY <2>2, <3>3 DEF BodyAt
    <3> QED
      BY <1>4, <1>7, <1>12, <3>1, <3>2, <3>4 DEF PacketAt, e
  <2> QED
    BY <2>3, <2>4
<1> QED
  BY <1>7, <1>13, <1>14

\* Whatever the bytes are, in_packet keeps its form and no more is used than has arrived.
LEMMA FedTypes ==
  ASSUME in_packet \in InPacket, arrived \in Seq(Nat)
  PROVE  Fed \in Feeding /\ Fed.used <= Len(arrived)
<1>1. PICK m, r :
        /\ m \in 0 .. 6 /\ m = (IF Len(arrived) < 6 THEN Len(arrived) ELSE 6)
        /\ ReadSteps(r, m) /\ \A k \in 0 .. m : r[k] \in Feeding /\ r[k].used <= k
        /\ \E q \in Nat :
             /\ q = (IF r[m].p.to_process <= Len(arrived) - r[m].used THEN r[m].p.to_process
                     ELSE Len(arrived) - r[m].used)
             /\ Fed = PayloadRead(r[m], q)
  BY FedSteps, Zenon
<1>2. PICK q \in Nat :
        /\ q = (IF r[m].p.to_process <= Len(arrived) - r[m].used THEN r[m].p.to_process
                ELSE Len(arrived) - r[m].used)
        /\ Fed = PayloadRead(r[m], q)
  BY <1>1, Zenon
<1> DEFINE f == r[m]
<1>3. Len(arrived) \in Nat
  BY LenProperties
<1>4. f \in Feeding /\ f.used <= m /\ m <= Len(arrived)
  <2>1. m \in 0 .. m
    BY <1>1
  <2>2. m <= Len(arrived)
    BY <1>1, <1>3
  <2> QED
    BY <1>1, <2>1, <2>2
<1>5. /\ q = (IF f.p.to_process <= Len(arrived) - f.used THEN f.p.to_process
              ELSE Len(arrived) - f.used)
      /\ Fed = PayloadRead(f, q)
  BY <1>2
<1> HIDE DEF f
<1>6. f.p.to_process \in Nat /\ f.used \in Nat
  BY <1>4 DEF Feeding, InPacket
<1>7. q \in Nat /\ q <= f.p.to_process /\ f.used + q <= Len(arrived)
  BY <1>2, <1>3, <1>4, <1>5, <1>6
<1>8. PayloadRead(f, q) \in Feeding /\ PayloadRead(f, q).used = f.used + q
  BY <1>4, <1>7, FedFields
<1> QED
  BY <1>5, <1>7, <1>8

\* A remaining length of five digits is read as far as it has come, or refused.
LEMMA FedGarbled ==
  ASSUME in_packet \in InPacket, arrived \in Seq(Nat), NEW x \in 0 .. 5, GarbledAt(in_packet, x),
         x + Len(arrived) <= 6, \A i \in 1 .. Len(arrived) : arrived[i] = Garbled[x + i]
  PROVE  /\ Fed \in Feeding
         /\ \/ Fed.rc = "PROTOCOL"
            \/ /\ Fed.rc = "header" /\ Fed.used = Len(arrived) /\ Fed.p.remaining_count <= 0
               /\ GarbledAt(Fed.p, x + Len(arrived))
<1>1. PICK m, r :
        /\ m \in 0 .. 6 /\ m = (IF Len(arrived) < 6 THEN Len(arrived) ELSE 6)
        /\ ReadSteps(r, m) /\ \A k \in 0 .. m : r[k] \in Feeding /\ r[k].used <= k
        /\ \E q \in Nat :
             /\ q = (IF r[m].p.to_process <= Len(arrived) - r[m].used THEN r[m].p.to_process
                     ELSE Len(arrived) - r[m].used)
             /\ Fed = PayloadRead(r[m], q)
  BY FedSteps, Zenon
<1>2. PICK q \in Nat :
        /\ q = (IF r[m].p.to_process <= Len(arrived) - r[m].used THEN r[m].p.to_process
                ELSE Len(arrived) - r[m].used)
        /\ Fed = PayloadRead(r[m], q)
  BY <1>1, Zenon
<1>3. Len(arrived) \in Nat /\ m = Len(arrived)
  <2>1. Len(arrived) \in Nat
    BY LenProperties
  <2> DEFINE a == Len(arrived)
  <2>2. m = (IF a < 6 THEN a ELSE 6)
    BY <1>1
  <2>3. a \in Nat /\ x \in Nat /\ x + a <= 6
    BY <2>1
  <2> HIDE DEF a
  <2>4. a <= 6
    BY <2>3
  <2>5. CASE a < 6
    <3>1. m = a
      BY <2>2, <2>5
    <3> QED
      BY <2>3, <3>1 DEF a
  <2>6. CASE a = 6
    <3>1. ~(a < 6)
      BY <2>6
    <3>2. m = a
      BY <2>2, <2>6, <3>1
    <3> QED
      BY <2>3, <3>2 DEF a
  <2>7. a < 6 \/ a = 6
    BY <2>3, <2>4
  <2> QED
    BY <2>5, <2>6, <2>7
<1> DEFINE Good(f, k) == f.rc = "PROTOCOL" \/ (f.rc = "header" /\ f.used = k /\ GarbledAt(f.p, x + k))
<1>4. \A k \in 0 .. m : Good(r[k], k)
  <2> DEFINE G == {k \in 0 .. m : Good(r[k], k)}
  <2>1. 0 \in G
    <3>1. r[0].p = in_packet /\ r[0].used = 0 /\ r[0].rc = "header" /\ x + 0 = x /\ 0 \in 0 .. m
      BY <1>1 DEF ReadSteps
    <3>2. Good(r[0], 0)
      BY <3>1
    <3> HIDE DEF Good
    <3> QED
      BY <3>1, <3>2
  <2>2. ASSUME NEW k \in 1 .. m, k - 1 \in G PROVE k \in G
    <3> DEFINE f == r[k - 1]
    <3> DEFINE g == r[k]
    <3>1. k - 1 \in 0 .. m /\ k \in 0 .. m /\ k \in 1 .. Len(arrived) /\ Good(f, k - 1)
      BY <1>1, <1>3, <2>2
    <3>2. f \in Feeding /\ g = Feed(f, arrived[k]) /\ arrived[k] = Garbled[x + k] /\ arrived[k] \in Nat
      BY <1>1, <3>1, ElementOfSeq DEF ReadSteps
    <3> HIDE DEF f, g
    <3>3. CASE f.rc = "PROTOCOL"
      <4>1. f.rc # "header"
        BY <3>3
      <4>2. g = f
        BY <3>2, <4>1, FeedCases, ZenonT(60)
      <4> QED
        BY <3>1, <3>3, <4>2 DEF g
    <3>4. CASE f.rc = "header" /\ f.used = k - 1 /\ GarbledAt(f.p, x + (k - 1))
      <4> DEFINE c == x + (k - 1)
      <4>1. c \in 0 .. 5 /\ c + 1 = x + k
        BY <1>3, <3>1
      <4>2. g = Feed(f, Garbled[c + 1]) /\ GarbledAt(f.p, c) /\ f.rc = "header"
        BY <3>2, <3>4, <4>1
      <4> HIDE DEF c
      <4>3. /\ c < 5 => g.rc = "header" /\ g.used = f.used + 1 /\ GarbledAt(g.p, c + 1)
            /\ c = 5 => g.rc = "PROTOCOL"
        BY <3>2, <4>1, <4>2, FeedGarbled
      <4>4. Good(g, k)
        <5>1. CASE c < 5
          <6>1. g.used = k
            BY <3>1, <3>4, <4>3, <5>1
          <6> QED
            BY <4>1, <4>3, <5>1, <6>1
        <5>2. CASE c = 5
          BY <4>3, <5>2
        <5> QED
          BY <4>1, <5>1, <5>2
      <4> HIDE DEF Good
      <4> QED
        BY <3>1, <4>4 DEF g
    <3> QED
      BY <3>1, <3>3, <3>4
  <2> HIDE DEF G
  <2>3. \A k \in 0 .. m : k \in G
    BY <1>1, <2>1, <2>2, FewSteps
  <2> QED
    BY <2>3 DEF G
<1> DEFINE f == r[m]
<1>5. f \in Feeding /\ Good(f, m)
  <2>1. m \in 0 .. m
    BY <1>1
  <2> QED
    BY <1>1, <1>4, <2>1
<1>6. /\ q = (IF f.p.to_process <= Len(arrived) - f.used THEN f.p.to_process
              ELSE Len(arrived) - f.used)
      /\ Fed = PayloadRead(f, q) /\ f.used <= m
  <2>1. m \in 0 .. m
    BY <1>1
  <2> QED
    BY <1>1, <1>2, <2>1
<1> HIDE DEF f
<1>7. f.p.to_process \in Nat /\ f.used \in Nat
  BY <1>5 DEF Feeding, InPacket
<1>8. q \in Nat /\ q <= f.p.to_process
  BY <1>2, <1>3, <1>6, <1>7
<1>9. /\ Fed \in Feeding /\ Fed.rc = f.rc /\ Fed.used = f.used + q
      /\ Fed.p.to_process = f.p.to_process - q
      /\ Fed.p.command = f.p.command /\ Fed.p.remaining_count = f.p.remaining_count
  <2>1. /\ PayloadRead(f, q) \in Feeding /\ PayloadRead(f, q).rc = f.rc /\ PayloadRead(f, q).used = f.used + q
        /\ PayloadRead(f, q).p.to_process = f.p.to_process - q
        /\ PayloadRead(f, q).p.command = f.p.command
        /\ PayloadRead(f, q).p.remaining_count = f.p.remaining_count
    BY <1>5, <1>8, FedFields
  <2> QED
    BY <1>6, <2>1, Zenon
<1> DEFINE e == Fed
<1> HIDE DEF e
<1>10. CASE f.rc = "PROTOCOL"
  BY <1>9, <1>10
<1>11. CASE f.rc = "header" /\ f.used = m /\ GarbledAt(f.p, x + m)
  <2>1. f.p.to_process = 0 /\ f.p.remaining_count <= 0
    BY <1>11 DEF GarbledAt
  <2>2. q = 0
    BY <1>8, <2>1
  <2>3. e.used = m /\ e.p.to_process = 0
    <3>1. e.used = f.used + q /\ e.p.to_process = f.p.to_process - q
      BY <1>9, Zenon DEF e
    <3>2. e.used = m + 0 /\ e.p.to_process = 0 - 0
      BY <1>11, <2>1, <2>2, <3>1, Zenon
    <3> QED
      BY <1>1, <3>2
  <2>4. GarbledAt(e.p, x + m)
    BY <1>9, <1>11, <2>1, <2>3, Zenon DEF GarbledAt, e
  <2> QED
    BY <1>3, <1>9, <1>11, <2>1, <2>3, <2>4 DEF e
<1> QED
  BY <1>5, <1>10, <1>11

-----------------------------------------------------------------------------
(* The stream of packets *)

\* u is what is left of s behind its first x elements.
Behind(u, s, x) ==
  /\ u \in Seq(Nat) /\ x \in Nat /\ x + Len(u) = Len(s)
  /\ \A i \in 1 .. Len(u) : u[i] = s[x + i]

\* More at the end of a stream is more at the end of what is left.
LEMMA BehindMore ==
  ASSUME NEW s \in Seq(Nat), NEW b \in Seq(Nat), NEW u, NEW x, Behind(u, s, x)
  PROVE  Behind(u \o b, s \o b, x)
<1>1. u \in Seq(Nat) /\ x \in Nat /\ x + Len(u) = Len(s) /\ \A i \in 1 .. Len(u) : u[i] = s[x + i]
  BY DEF Behind
<1> DEFINE v == u \o b
<1> DEFINE t == s \o b
<1>2. /\ v \in Seq(Nat) /\ Len(v) = Len(u) + Len(b)
      /\ \A i \in 1 .. Len(u) : v[i] = u[i]
      /\ \A i \in 1 .. Len(b) : v[i + Len(u)] = b[i]
  BY <1>1, Cat
<1>3. /\ t \in Seq(Nat) /\ Len(t) = Len(s) + Len(b)
      /\ \A i \in 1 .. Len(s) : t[i] = s[i]
      /\ \A i \in 1 .. Len(b) : t[i + Len(s)] = b[i]
  BY Cat
<1>4. Len(u) \in Nat /\ Len(b) \in Nat /\ Len(s) \in Nat
  BY <1>1, LenProperties
<1> HIDE DEF v, t
<1>5. ASSUME NEW i \in 1 .. Len(v) PROVE v[i] = t[x + i]
  <2>1. CASE i <= Len(u)
    <3>1. i \in 1 .. Len(u) /\ x + i \in 1 .. Len(s)
      BY <1>1, <1>4, <2>1
    <3> QED
      BY <1>1, <1>2, <1>3, <3>1
  <2>2. CASE i > Len(u)
    <3> DEFINE j == i - Len(u)
    <3>1. j \in 1 .. Len(b) /\ j + Len(u) = i /\ j + Len(s) = x + i
      <4> DEFINE lu == Len(u)
      <4> DEFINE lb == Len(b)
      <4> DEFINE ls == Len(s)
      <4>1. /\ lu \in Nat /\ lb \in Nat /\ ls \in Nat /\ x \in Nat /\ x + lu = ls
            /\ i \in 1 .. lu + lb /\ i > lu
        BY <1>1, <1>2, <1>4, <2>2
      <4> HIDE DEF lu, lb, ls
      <4>2. (i - lu) \in 1 .. lb /\ (i - lu) + lu = i /\ (i - lu) + ls = x + i
        BY <4>1
      <4> QED
        BY <4>2 DEF lu, lb, ls
    <3> HIDE DEF j
    <3>2. v[j + Len(u)] = b[j] /\ t[j + Len(s)] = b[j]
      BY <1>2, <1>3, <3>1
    <3> QED
      BY <3>1, <3>2
  <2>3. i <= Len(u) \/ i > Len(u)
    BY <1>4
  <2> QED
    BY <2>1, <2>2, <2>3
<1>6. x + Len(v) = Len(t)
  <2> DEFINE lu == Len(u)
  <2> DEFINE lb == Len(b)
  <2> DEFINE ls == Len(s)
  <2>1. /\ lu \in Nat /\ lb \in Nat /\ ls \in Nat /\ x \in Nat /\ x + lu = ls
        /\ Len(v) = lu + lb /\ Len(t) = ls + lb
    BY <1>1, <1>2, <1>3, <1>4
  <2> HIDE DEF lu, lb, ls
  <2> QED
    BY <2>1
<1> QED
  BY <1>1, <1>2, <1>5, <1>6 DEF Behind, v, t

\* Of what is left, the part that has arrived, and what remains when n of it are read.
LEMMA BehindRead ==
  ASSUME NEW a \in Seq(Nat), NEW c \in Seq(Nat), NEW s, NEW x, Behind(a \o c, s, x), Len(s) \in Nat
  PROVE  /\ \A i \in 1 .. Len(a) : a[i] = s[x + i]
         /\ x \in Nat /\ x + Len(a) + Len(c) = Len(s)
         /\ \A n \in 0 .. Len(a) : Behind(SubSeq(a, n + 1, Len(a)) \o c, s, x + n)
<1> DEFINE u == a \o c
<1>1. /\ u \in Seq(Nat) /\ Len(u) = Len(a) + Len(c)
      /\ \A i \in 1 .. Len(a) : u[i] = a[i]
      /\ \A i \in 1 .. Len(c) : u[i + Len(a)] = c[i]
  BY Cat
<1>2. x \in Nat /\ x + Len(u) = Len(s) /\ \A i \in 1 .. Len(u) : u[i] = s[x + i]
  BY DEF Behind
<1>3. Len(a) \in Nat /\ Len(c) \in Nat
  BY LenProperties
<1> HIDE DEF u
<1>4. \A i \in 1 .. Len(a) : a[i] = s[x + i]
  <2> SUFFICES ASSUME NEW i \in 1 .. Len(a) PROVE a[i] = s[x + i]
    OBVIOUS
  <2>1. i \in 1 .. Len(u)
    BY <1>1, <1>3
  <2> QED
    BY <1>1, <1>2, <2>1
<1>5. x + Len(a) + Len(c) = Len(s)
  BY <1>1, <1>2, <1>3
<1>6. ASSUME NEW n \in 0 .. Len(a) PROVE Behind(SubSeq(a, n + 1, Len(a)) \o c, s, x + n)
  <2> DEFINE b == SubSeq(a, n + 1, Len(a))
  <2>1. b \in Seq(Nat) /\ Len(b) = Len(a) - n /\ \A i \in 1 .. Len(a) - n : b[i] = a[i + n]
    BY <1>3
  <2> HIDE DEF b
  <2> DEFINE v == b \o c
  <2>2. /\ v \in Seq(Nat) /\ Len(v) = Len(b) + Len(c)
        /\ \A i \in 1 .. Len(b) : v[i] = b[i]
        /\ \A i \in 1 .. Len(c) : v[i + Len(b)] = c[i]
    <3>1. b \in Seq(Nat) /\ c \in Seq(Nat)
      BY <2>1
    <3> QED
      BY <3>1, Cat
  <2> HIDE DEF v
  <2>3. n \in Nat /\ n <= Len(a) /\ Len(b) \in Nat /\ Len(b) = Len(a) - n
    BY <1>3, <2>1
  <2>4. ASSUME NEW i \in 1 .. Len(v) PROVE v[i] = s[x + n + i]
    <3>1. CASE i <= Len(b)
      <4>1. i \in 1 .. Len(b) /\ i + n \in 1 .. Len(a) /\ x + (i + n) = x + n + i /\ i \in 1 .. Len(a) - n
        BY <1>2, <1>3, <2>3, <3>1
      <4> DEFINE k == i + n
      <4>2. a[k] = s[x + k] /\ v[i] = a[k] /\ k \in 1 .. Len(a)
        BY <1>4, <2>1, <2>2, <4>1
      <4> QED
        BY <4>1, <4>2
    <3>2. CASE i > Len(b)
      <4> DEFINE j == i - Len(b)
      <4> DEFINE k == j + Len(a)
      <4>1. j \in 1 .. Len(c) /\ j + Len(b) = i /\ k \in 1 .. Len(u) /\ x + k = x + n + i
        BY <1>1, <1>2, <1>3, <2>2, <2>3, <3>2
      <4>2. u[k] = c[j] /\ u[k] = s[x + k]
        BY <1>1, <1>2, <4>1
      <4> HIDE DEF j, k
      <4>3. v[j + Len(b)] = c[j]
        BY <2>2, <4>1
      <4> QED
        BY <4>1, <4>2, <4>3
    <3>3. i <= Len(b) \/ i > Len(b)
      BY <2>3
    <3> QED
      BY <3>1, <3>2, <3>3
  <2>5. x + n \in Nat /\ (x + n) + Len(v) = Len(s)
    <3> DEFINE la == Len(a)
    <3> DEFINE lb == Len(b)
    <3> DEFINE lc == Len(c)
    <3>1. /\ la \in Nat /\ lb \in Nat /\ lc \in Nat /\ x \in Nat /\ x + la + lc = Len(s)
          /\ Len(v) = lb + lc /\ lb = la - n /\ n \in Nat
      BY <1>2, <1>3, <1>5, <2>2, <2>3
    <3> HIDE DEF la, lb, lc
    <3> QED
      BY <3>1
  <2> QED
    BY <2>2, <2>4, <2>5 DEF Behind, v, b
<1> QED
  BY <1>2, <1>4, <1>5, <1>6

\* Behind all of a packet, the next one begins.
LEMMA BehindNext ==
  ASSUME NEW h \in Seq(Nat), NEW s \in Seq(Nat), NEW u, Behind(u, h \o s, Len(h))
  PROVE  Behind(u, s, 0)
<1> DEFINE t == h \o s
<1>1. /\ t \in Seq(Nat) /\ Len(t) = Len(h) + Len(s)
      /\ \A i \in 1 .. Len(s) : t[i + Len(h)] = s[i]
  BY Cat
<1>2. u \in Seq(Nat) /\ Len(h) + Len(u) = Len(t) /\ \A i \in 1 .. Len(u) : u[i] = t[Len(h) + i]
  BY DEF Behind
<1>3. Len(h) \in Nat /\ Len(s) \in Nat /\ Len(u) \in Nat
  BY <1>2, LenProperties
<1> HIDE DEF t
<1>4. Len(u) = Len(s)
  BY <1>1, <1>2, <1>3
<1>5. ASSUME NEW i \in 1 .. Len(u) PROVE u[i] = s[0 + i]
  <2>1. i \in 1 .. Len(s) /\ i + Len(h) = Len(h) + i /\ 0 + i = i
    BY <1>3, <1>4
  <2> QED
    BY <1>1, <1>2, <2>1
<1>6. 0 \in Nat /\ 0 + Len(u) = Len(s)
  BY <1>3, <1>4
<1> QED
  BY <1>2, <1>5, <1>6 DEF Behind

\* What follows the i-th of the broker's packets, all that it said from there on; and in
\* the last place what is no packet.
Layout(t, packets, over) ==
  /\ \A i \in 1 .. Len(packets) + 1 : t[i] \in Seq(Nat)
  /\ \A i \in 1 .. Len(packets) : t[i] = PacketOf(packets[i]) \o t[i + 1]
  /\ t[Len(packets) + 1] = <<>> \/ (over /\ t[Len(packets) + 1] = Garbled)

\* x bytes of the k-th are in in_packet p, and u is unread.
ReadTo(p, u, s, x, packets, k) ==
  /\ Behind(u, s, x)
  /\ k <= Len(packets) => PacketAt(p, packets[k], x)
  /\ ~(k <= Len(packets)) => IF s = <<>> THEN HeadAt(p, 0, 0) ELSE GarbledAt(p, x)

Followed(p, u, packets, got, over) ==
  \E t, x : Layout(t, packets, over) /\ ReadTo(p, u, t[Len(got) + 1], x, packets, Len(got) + 1)

\* Nothing of the next packet is read.
LEMMA CleanAt ==
  ASSUME NEW p, HeadAt(p, 0, 0), NEW n \in Nat
  PROVE  PacketAt(p, n, 0) /\ GarbledAt(p, 0)
<1>1. 0 \in 0 .. packet__varint_bytes(n)
  BY SMT DEF packet__varint_bytes
<1>2. HeadAt(p, n, 0)
  BY DEF HeadAt
<1>3. GarbledAt(p, 0)
  BY DEF HeadAt, GarbledAt
<1> QED
  BY <1>1, <1>2, <1>3 DEF PacketAt

\* A new connection.
LEMMA FollowedStart ==
  ASSUME NEW p, HeadAt(p, 0, 0), NEW over
  PROVE  Followed(p, <<>>, <<>>, <<>>, over)
<1> DEFINE t == [i \in {1} |-> <<>>]
<1>1. Layout(t, <<>>, over)
  BY DEF Layout
<1>2. Behind(<<>>, <<>>, 0)
  BY DEF Behind
<1>3. ReadTo(p, <<>>, t[1], 0, <<>>, 1)
  BY <1>2 DEF ReadTo
<1>4. Len(<<>>) + 1 = 1
  OBVIOUS
<1> HIDE DEF t
<1> QED
  BY <1>1, <1>3, <1>4 DEF Followed

\* The end of the stream changes nothing before it.
LEMMA FollowedOver ==
  ASSUME NEW p, NEW u, NEW packets, NEW got, NEW over, Followed(p, u, packets, got, over)
  PROVE  Followed(p, u, packets, got, TRUE)
BY DEF Followed, Layout

\* What is no packet,
GarbledSeq == Garbled \in Seq(Nat) /\ Len(Garbled) = 6 /\ Garbled # <<>>

\* and its bytes.
LEMMA GarbledBytes == GarbledSeq
<1>1. Len(Garbled) = 6 /\ \A i \in 1 .. 6 : Garbled[i] \in Nat
  BY DEF Garbled
<1>2. Garbled \in Seq(Nat)
  BY DEF Garbled
<1>3. Garbled # <<>>
  <2>1. Len(<<>>) # 6
    OBVIOUS
  <2> QED
    BY <1>1, <2>1, Zenon
<1> QED
  BY <1>1, <1>2, <1>3 DEF GarbledSeq

\* The lengths that the broker chooses from.
LEMMA LengthBounds ==
  ASSUME PacketLengths \subseteq 0 .. MaxVarint, NEW n \in PacketLengths
  PROVE  n \in Nat /\ n <= MaxVarint
<1>1. MaxVarint \in Nat
  BY LargestNat
<1> DEFINE l == MaxVarint
<1>2. n \in 0 .. l
  BY Zenon
<1> HIDE DEF l
<1>3. n <= l /\ n \in Nat
  BY <1>1, <1>2, SMT DEF l
<1> QED
  BY <1>3, Zenon DEF l

\* One packet more.
LEMMA FollowedSays ==
  ASSUME PacketLengths \subseteq 0 .. MaxVarint,
         NEW p, NEW u \in Seq(Nat), NEW packets \in Seq(PacketLengths), NEW got \in Seq(Nat),
         Len(got) <= Len(packets), NEW n \in PacketLengths, Followed(p, u, packets, got, FALSE)
  PROVE  Followed(p, u \o PacketOf(n), Append(packets, n), got, FALSE)
<1> DEFINE b == PacketOf(n)
<1> DEFINE more == Append(packets, n)
<1> DEFINE m == Len(packets)
<1> DEFINE k == Len(got) + 1
<1>1. m \in Nat /\ k \in 1 .. m + 1
  <2>1. Len(packets) \in Nat /\ Len(got) \in Nat
    BY LenProperties
  <2> QED
    BY <2>1
<1>2. Len(more) = m + 1 /\ more[m + 1] = n /\ \A i \in 1 .. m : more[i] = packets[i]
  OBVIOUS
<1>3. n \in Nat /\ n <= MaxVarint
  BY LengthBounds
<1>4. b \in Seq(Nat)
  BY <1>3, SentBytes
<1>5. PICK t, x : Layout(t, packets, FALSE) /\ ReadTo(p, u, t[k], x, packets, k)
  BY DEF Followed
<1> HIDE DEF b, more, m, k
<1>6. /\ \A i \in 1 .. m + 1 : t[i] \in Seq(Nat)
      /\ \A i \in 1 .. m : t[i] = PacketOf(packets[i]) \o t[i + 1]
      /\ t[m + 1] = <<>>
  BY <1>5 DEF Layout, m
<1> DEFINE w == [i \in 1 .. m + 2 |-> IF i <= m + 1 THEN t[i] \o b ELSE <<>>]
<1>7. /\ \A i \in 1 .. m + 1 : w[i] = t[i] \o b
      /\ w[m + 2] = <<>>
  BY <1>1
<1> HIDE DEF w
<1>8. \A i \in 1 .. m + 2 : w[i] \in Seq(Nat)
  <2> SUFFICES ASSUME NEW i \in 1 .. m + 2 PROVE w[i] \in Seq(Nat)
    OBVIOUS
  <2>1. CASE i \in 1 .. m + 1
    <3> DEFINE s == t[i]
    <3>1. s \in Seq(Nat) /\ w[i] = s \o b
      BY <1>6, <1>7, <2>1
    <3> HIDE DEF s
    <3>2. s \o b \in Seq(Nat)
      BY <1>4, <3>1, Cat
    <3> QED
      BY <3>1, <3>2
  <2>2. CASE i = m + 2
    <3>1. <<>> \in Seq(Nat)
      OBVIOUS
    <3> QED
      BY <1>7, <2>2, <3>1
  <2> QED
    BY <1>1, <2>1, <2>2
<1>9. \A i \in 1 .. m + 1 : w[i] = PacketOf(more[i]) \o w[i + 1]
  <2> SUFFICES ASSUME NEW i \in 1 .. m + 1 PROVE w[i] = PacketOf(more[i]) \o w[i + 1]
    OBVIOUS
  <2>1. CASE i \in 1 .. m
    <3> DEFINE h == PacketOf(packets[i])
    <3> DEFINE s == t[i + 1]
    <3>1. packets[i] \in Nat /\ packets[i] <= MaxVarint
      <4> DEFINE l == packets[i]
      <4>1. l \in PacketLengths
        BY <2>1, ElementOfSeq DEF m
      <4> HIDE DEF l
      <4>2. l \in Nat /\ l <= MaxVarint
        BY <4>1, LengthBounds
      <4> QED
        BY <4>2 DEF l
    <3>2. h \in Seq(Nat)
      BY <3>1, SentBytes
    <3>3. i + 1 \in 1 .. m + 1 /\ i \in 1 .. m + 1
      BY <1>1, <2>1
    <3>4. s \in Seq(Nat) /\ t[i] = h \o s /\ w[i] = t[i] \o b /\ w[i + 1] = s \o b
      BY <1>6, <1>7, <2>1, <3>3
    <3>5. more[i] = packets[i]
      BY <1>2, <2>1
    <3> HIDE DEF h, s
    <3>6. (h \o s) \o b = h \o (s \o b)
      <4>1. h \in Seq(Nat) /\ s \in Seq(Nat) /\ b \in Seq(Nat)
        BY <1>4, <3>2, <3>4
      <4> QED
        BY <4>1, Associate
    <3>7. w[i] = h \o w[i + 1]
      BY <3>4, <3>6
    <3> QED
      BY <3>5, <3>7 DEF h
  <2>2. CASE i = m + 1
    <3>1. w[m + 1] = <<>> \o b /\ w[(m + 1) + 1] = <<>> /\ more[m + 1] = n
      <4>1. (m + 1) + 1 = m + 2 /\ m + 1 \in 1 .. m + 1
        BY <1>1
      <4> QED
        BY <1>2, <1>6, <1>7, <4>1
    <3>2. <<>> \o b = b /\ b \o <<>> = b
      BY <1>4, ConcatEmptySeq
    <3>3. w[i] = b \o w[i + 1]
      BY <2>2, <3>1, <3>2
    <3>4. PacketOf(more[i]) = b
      <4>1. more[i] = n
        BY <2>2, <3>1
      <4> QED
        BY <4>1 DEF b
    <3> QED
      BY <3>3, <3>4, Zenon
  <2>3. i \in 1 .. m \/ i = m + 1
    BY <1>1
  <2> QED
    BY <2>1, <2>2, <2>3, Zenon
<1>10. Layout(w, more, FALSE)
  <2>1. m + 1 + 1 = m + 2
    BY <1>1
  <2> QED
    BY <1>2, <1>7, <1>8, <1>9, <2>1 DEF Layout
<1>11. Behind(u \o b, w[k], x)
  <2> DEFINE s == t[k]
  <2>1. s \in Seq(Nat) /\ w[k] = s \o b
    BY <1>1, <1>6, <1>7
  <2>2. Behind(u, s, x)
    BY <1>5 DEF ReadTo
  <2> HIDE DEF s
  <2>3. Behind(u \o b, s \o b, x)
    BY <1>4, <2>1, <2>2, BehindMore
  <2> QED
    BY <2>1, <2>3
<1>12. k <= Len(more) /\ PacketAt(p, more[k], x)
  <2>1. CASE k <= m
    <3>1. PacketAt(p, packets[k], x)
      BY <1>5, <2>1 DEF ReadTo, m
    <3>2. more[k] = packets[k] /\ k <= m + 1
      BY <1>1, <1>2, <2>1
    <3> QED
      BY <1>2, <3>1, <3>2
  <2>2. CASE ~(k <= m)
    <3>1. k = m + 1
      BY <1>1, <2>2
    <3>2. t[k] = <<>>
      BY <1>6, <3>1
    <3>3. HeadAt(p, 0, 0) /\ Behind(u, <<>>, x)
      BY <1>5, <2>2, <3>2 DEF ReadTo, m
    <3>4. x = 0
      <4>1. Len(u) \in Nat /\ x \in Nat /\ x + Len(u) = 0
        BY <3>3 DEF Behind
      <4> QED
        BY <4>1
    <3>5. PacketAt(p, n, 0)
      BY <1>3, <3>3, CleanAt
    <3> QED
      BY <1>1, <1>2, <3>1, <3>4, <3>5
  <2> QED
    BY <2>1, <2>2
<1>13. ReadTo(p, u \o b, w[k], x, more, k)
  BY <1>11, <1>12 DEF ReadTo
<1> QED
  BY <1>10, <1>13 DEF Followed, k, b, more

\* What is no packet.
LEMMA FollowedGarbles ==
  ASSUME PacketLengths \subseteq 0 .. MaxVarint,
         NEW p, NEW u \in Seq(Nat), NEW packets \in Seq(PacketLengths), NEW got \in Seq(Nat),
         Len(got) <= Len(packets), Followed(p, u, packets, got, FALSE)
  PROVE  Followed(p, u \o Garbled, packets, got, TRUE)
<1> DEFINE b == Garbled
<1> DEFINE m == Len(packets)
<1> DEFINE k == Len(got) + 1
<1>1. m \in Nat /\ k \in 1 .. m + 1
  <2>1. Len(packets) \in Nat /\ Len(got) \in Nat
    BY LenProperties
  <2> QED
    BY <2>1
<1>2. b \in Seq(Nat) /\ Len(b) = 6 /\ b # <<>>
  BY GarbledBytes DEF GarbledSeq
<1>3. PICK t, x : Layout(t, packets, FALSE) /\ ReadTo(p, u, t[k], x, packets, k)
  BY DEF Followed
<1> HIDE DEF b, m, k
<1>4. /\ \A i \in 1 .. m + 1 : t[i] \in Seq(Nat)
      /\ \A i \in 1 .. m : t[i] = PacketOf(packets[i]) \o t[i + 1]
      /\ t[m + 1] = <<>>
  BY <1>3 DEF Layout, m
<1> DEFINE w == [i \in 1 .. m + 1 |-> t[i] \o b]
<1>5. \A i \in 1 .. m + 1 : w[i] = t[i] \o b
  OBVIOUS
<1> HIDE DEF w
<1>6. \A i \in 1 .. m + 1 : w[i] \in Seq(Nat)
  <2> SUFFICES ASSUME NEW i \in 1 .. m + 1 PROVE w[i] \in Seq(Nat)
    OBVIOUS
  <2> DEFINE s == t[i]
  <2>1. s \in Seq(Nat) /\ w[i] = s \o b
    BY <1>4, <1>5
  <2> HIDE DEF s
  <2>2. s \o b \in Seq(Nat)
    BY <1>2, <2>1, Cat
  <2> QED
    BY <2>1, <2>2
<1>7. \A i \in 1 .. m : w[i] = PacketOf(packets[i]) \o w[i + 1]
  <2> SUFFICES ASSUME NEW i \in 1 .. m PROVE w[i] = PacketOf(packets[i]) \o w[i + 1]
    OBVIOUS
  <2> DEFINE h == PacketOf(packets[i])
  <2> DEFINE s == t[i + 1]
  <2>1. packets[i] \in Nat /\ packets[i] <= MaxVarint
    <3> DEFINE l == packets[i]
    <3>1. l \in PacketLengths
      BY ElementOfSeq DEF m
    <3> HIDE DEF l
    <3>2. l \in Nat /\ l <= MaxVarint
      BY <3>1, LengthBounds
    <3> QED
      BY <3>2 DEF l
  <2>2. h \in Seq(Nat)
    BY <2>1, SentBytes
  <2>3. i + 1 \in 1 .. m + 1 /\ i \in 1 .. m + 1
    BY <1>1
  <2>4. s \in Seq(Nat) /\ t[i] = h \o s /\ w[i] = t[i] \o b /\ w[i + 1] = s \o b
    BY <1>4, <1>5, <2>3
  <2> HIDE DEF h, s
  <2>5. (h \o s) \o b = h \o (s \o b)
    <3>1. h \in Seq(Nat) /\ s \in Seq(Nat) /\ b \in Seq(Nat)
      BY <1>2, <2>2, <2>4
    <3> QED
      BY <3>1, Associate
  <2>6. w[i] = h \o w[i + 1]
    BY <2>4, <2>5
  <2> QED
    BY <2>6 DEF h
<1>8. w[m + 1] = b
  <2>1. m + 1 \in 1 .. m + 1
    BY <1>1
  <2>2. <<>> \o b = b
    BY <1>2, ConcatEmptySeq
  <2> QED
    BY <1>4, <1>5, <2>1, <2>2
<1>9. Layout(w, packets, TRUE)
  BY <1>6, <1>7, <1>8 DEF Layout, m, b
<1>10. Behind(u \o b, w[k], x)
  <2> DEFINE s == t[k]
  <2>1. s \in Seq(Nat) /\ w[k] = s \o b
    BY <1>1, <1>4, <1>5
  <2>2. Behind(u, s, x)
    BY <1>3 DEF ReadTo
  <2> HIDE DEF s
  <2>3. Behind(u \o b, s \o b, x)
    BY <1>2, <2>1, <2>2, BehindMore
  <2> QED
    BY <2>1, <2>3
<1>11. ReadTo(p, u \o b, w[k], x, packets, k)
  <2>1. CASE k <= m
    <3>1. PacketAt(p, packets[k], x)
      BY <1>3, <2>1 DEF ReadTo, m
    <3> QED
      BY <1>10, <2>1, <3>1 DEF ReadTo, m
  <2>2. CASE ~(k <= m)
    <3>1. k = m + 1
      BY <1>1, <2>2
    <3>2. t[k] = <<>> /\ w[k] = b /\ b # <<>>
      BY <1>2, <1>4, <1>8, <3>1
    <3>3. HeadAt(p, 0, 0) /\ Behind(u, <<>>, x)
      BY <1>3, <2>2, <3>2 DEF ReadTo, m
    <3>4. x = 0
      <4>1. Len(u) \in Nat /\ x \in Nat /\ x + Len(u) = 0
        BY <3>3 DEF Behind
      <4> QED
        BY <4>1
    <3>5. GarbledAt(p, x)
      BY <3>3, <3>4, CleanAt
    <3> QED
      BY <1>10, <2>2, <3>2, <3>5 DEF ReadTo, m
  <2> QED
    BY <2>1, <2>2
<1> QED
  BY <1>9, <1>11 DEF Followed, k, b

\* What has arrived is read, all of it.
LEMMA BehindAll ==
  ASSUME NEW a \in Seq(Nat), NEW c \in Seq(Nat), NEW s, NEW x, Behind(a \o c, s, x), Len(s) \in Nat
  PROVE  Behind(c, s, x + Len(a))
<1> DEFINE n == Len(a)
<1> DEFINE b == SubSeq(a, n + 1, Len(a))
<1>1. n \in Nat /\ n \in 0 .. Len(a)
  BY LenProperties
<1>2. Behind(b \o c, s, x + n)
  BY <1>1, BehindRead
<1>3. b = <<>>
  OBVIOUS
<1>4. <<>> \o c = c
  BY ConcatEmptySeq
<1> HIDE DEF b
<1> QED
  BY <1>2, <1>3, <1>4

\* The bytes at the beginning of a packet.
Begins(s, n) == s[1] = 32 /\ \A j \in 1 .. packet__varint_bytes(n) : s[j + 1] = Digit(n, j)

\* A packet in front of others begins so.
LEMMA PacketBytes ==
  ASSUME NEW n \in Nat, n <= MaxVarint, NEW r \in Seq(Nat)
  PROVE  /\ Begins(PacketOf(n) \o r, n)
         /\ PacketOf(n) \in Seq(Nat) /\ Len(PacketOf(n)) = PacketSize(n) /\ PacketSize(n) \in Nat
<1> DEFINE h == PacketOf(n)
<1> DEFINE d == packet__varint_bytes(n)
<1> DEFINE l == PacketSize(n)
<1>1. /\ h \in Seq(Nat) /\ Len(h) = l /\ h[1] = 32
      /\ \A i \in 1 .. d : h[i + 1] = Digit(n, i)
  BY SentBytes
<1>2. d \in 1 .. 4 /\ l = 1 + d + n /\ l \in Nat
  BY SMT DEF packet__varint_bytes, PacketSize
<1> HIDE DEF h, d, l
<1> DEFINE s == h \o r
<1>3. s = h \o r
  OBVIOUS
<1> HIDE DEF s
<1>4. s \in Seq(Nat) /\ \A i \in 1 .. l : s[i] = h[i]
  BY <1>1, <1>3, Cat
<1>5. 1 \in 1 .. l /\ \A j \in 1 .. d : j + 1 \in 1 .. l
  BY <1>2
<1>6. s[1] = 32 /\ \A j \in 1 .. d : s[j + 1] = Digit(n, j)
  BY <1>1, <1>4, <1>5
<1> QED
  BY <1>1, <1>2, <1>6 DEF h, d, l, s, Begins

\* A packet is complete or it is not.
LEMMA CountsApart ==
  ASSUME NEW e \in Feeding
  PROVE  ~(e.p.remaining_count > 0 /\ e.p.to_process = 0)
           <=> (e.p.remaining_count <= 0 \/ e.p.to_process > 0)
<1>1. e.p.remaining_count \in -4 .. 4 /\ e.p.to_process \in Nat
  BY DEF Feeding, InPacket
<1> DEFINE c == e.p.remaining_count
<1> DEFINE n == e.p.to_process
<1>2. c \in Int /\ n \in Nat
  BY <1>1
<1> HIDE DEF c, n
<1>3. ~(c > 0 /\ n = 0) <=> (c <= 0 \/ n > 0)
  BY <1>2
<1> QED
  BY <1>3 DEF c, n

\* What packet__read makes of the bytes that have arrived.
LEMMA PacketRead ==
  ASSUME PacketLengths \subseteq 0 .. MaxVarint,
         in_packet \in InPacket, arrived \in Seq(Nat), toCome \in Seq(Nat), arrived # <<>>,
         said \in Seq(PacketLengths), handled \in Seq(Nat), Len(handled) <= Len(said),
         Followed(in_packet, arrived \o toCome, said, handled, ended)
  PROVE  /\ Fed.rc = "header" /\ Fed.p.remaining_count > 0 /\ Fed.p.to_process = 0 =>
              /\ Len(handled) + 1 <= Len(said) /\ Fed.p.remaining_length = said[Len(handled) + 1]
              /\ Followed(packet__cleanup(Fed.p), SubSeq(arrived, Fed.used + 1, Len(arrived)) \o toCome,
                          said, Append(handled, Fed.p.remaining_length), ended)
         /\ Fed.rc = "header" /\ (Fed.p.remaining_count <= 0 \/ Fed.p.to_process > 0) =>
              Followed(Fed.p, toCome, said, handled, ended)
<1> DEFINE m == Len(said)
<1> DEFINE k == Len(handled) + 1
<1> DEFINE u == arrived \o toCome
<1> DEFINE e == Fed
<1>1. m \in Nat /\ k \in 1 .. m + 1
  <2>1. Len(said) \in Nat /\ Len(handled) \in Nat
    BY LenProperties
  <2> QED
    BY <2>1
<1>2. PICK t, x : Layout(t, said, ended) /\ ReadTo(in_packet, u, t[k], x, said, k)
  BY DEF Followed
<1> HIDE DEF m, k, u, e
<1>3. /\ \A i \in 1 .. m + 1 : t[i] \in Seq(Nat)
      /\ \A i \in 1 .. m : t[i] = PacketOf(said[i]) \o t[i + 1]
      /\ t[m + 1] = <<>> \/ t[m + 1] = Garbled
  BY <1>2 DEF Layout, m
<1> DEFINE s == t[k]
<1>4. s \in Seq(Nat) /\ Len(s) \in Nat /\ Behind(arrived \o toCome, s, x)
  <2>1. s \in Seq(Nat)
    BY <1>1, <1>3
  <2>2. Len(s) \in Nat
    BY <2>1, LenProperties
  <2>3. Behind(u, s, x)
    BY <1>2 DEF ReadTo
  <2> QED
    BY <2>1, <2>2, <2>3 DEF u
<1> HIDE DEF s
<1>5. /\ \A i \in 1 .. Len(arrived) : arrived[i] = s[x + i]
      /\ x \in Nat /\ x + Len(arrived) + Len(toCome) = Len(s)
      /\ \A n \in 0 .. Len(arrived) : Behind(SubSeq(arrived, n + 1, Len(arrived)) \o toCome, s, x + n)
  BY <1>4, BehindRead
<1>6. Behind(toCome, s, x + Len(arrived))
  BY <1>4, BehindAll
<1>7. Len(arrived) \in Nat /\ Len(arrived) # 0 /\ Len(toCome) \in Nat
  BY LenProperties, EmptySeq
<1>8. CASE k <= m
  <2> DEFINE n == said[k]
  <2> DEFINE r == t[k + 1]
  <2> DEFINE l == PacketSize(n)
  <2>1. n \in Nat /\ n <= MaxVarint /\ n \in PacketLengths
    <3>1. k \in 1 .. Len(said)
      BY <1>1, <1>8 DEF m
    <3>2. n \in PacketLengths
      BY <3>1, ElementOfSeq
    <3> HIDE DEF n
    <3> QED
      BY <3>2, LengthBounds
  <2>2. r \in Seq(Nat) /\ s = PacketOf(n) \o r /\ PacketAt(in_packet, n, x)
    <3>1. k \in 1 .. m /\ k + 1 \in 1 .. m + 1
      BY <1>1, <1>8
    <3> QED
      BY <1>2, <1>3, <1>8, <3>1 DEF s, m, ReadTo
  <2> HIDE DEF n, r, l
  <2>3. /\ Begins(s, n)
        /\ PacketOf(n) \in Seq(Nat) /\ Len(PacketOf(n)) = PacketSize(n) /\ PacketSize(n) \in Nat
    <3>1. n \in Nat /\ n <= MaxVarint /\ r \in Seq(Nat)
      BY <2>1, <2>2
    <3>2. /\ Begins(PacketOf(n) \o r, n)
          /\ PacketOf(n) \in Seq(Nat) /\ Len(PacketOf(n)) = PacketSize(n) /\ PacketSize(n) \in Nat
      BY <3>1, PacketBytes
    <3> QED
      BY <2>2, <3>2
  <2>4. /\ e \in Feeding /\ e.rc = "header" /\ e.used <= Len(arrived)
        /\ \/ /\ e.p.remaining_count > 0 /\ e.p.to_process = 0
              /\ e.p.remaining_length = n /\ x + e.used = PacketSize(n)
           \/ /\ e.p.remaining_count <= 0 \/ e.p.to_process > 0
              /\ e.used = Len(arrived) /\ PacketAt(e.p, n, x + e.used)
    BY <1>5, <2>1, <2>2, <2>3, FedPacket DEF e, Begins
  <2>5. e.used \in Nat /\ e.used \in 0 .. Len(arrived)
    BY <1>7, <2>4 DEF Feeding
  <2>6. CASE /\ e.p.remaining_count > 0 /\ e.p.to_process = 0
             /\ e.p.remaining_length = n /\ x + e.used = PacketSize(n)
    <3> DEFINE v == SubSeq(arrived, e.used + 1, Len(arrived)) \o toCome
    <3> DEFINE c == packet__cleanup(e.p)
    <3> DEFINE got == Append(handled, n)
    <3>1. Behind(v, s, x + e.used)
      BY <1>5, <2>5
    <3> HIDE DEF v
    <3>2. Behind(v, r, 0)
      <4> DEFINE h == PacketOf(n)
      <4>1. h \in Seq(Nat) /\ Behind(v, h \o r, Len(h)) /\ r \in Seq(Nat)
        BY <2>2, <2>3, <2>6, <3>1
      <4> HIDE DEF h
      <4> QED
        BY <4>1, BehindNext
    <3>3. HeadAt(c, 0, 0)
      BY DEF packet__cleanup, HeadAt
    <3> HIDE DEF c
    <3>4. ReadTo(c, v, r, 0, said, k + 1)
      <4>1. CASE k + 1 <= m
        <5> DEFINE q == said[k + 1]
        <5>1. k + 1 \in 1 .. Len(said)
          BY <1>1, <4>1 DEF m
        <5>2. q \in PacketLengths
          BY <5>1, ElementOfSeq
        <5> HIDE DEF q
        <5>3. q \in Nat
          BY <5>2, LengthBounds
        <5>4. PacketAt(c, q, 0)
          BY <3>3, <5>3, CleanAt
        <5> QED
          BY <3>2, <4>1, <5>4 DEF ReadTo, q, m
      <4>2. CASE ~(k + 1 <= m)
        <5>1. GarbledAt(c, 0)
          <6>1. 0 \in Nat
            OBVIOUS
          <6> QED
            BY <3>3, <6>1, CleanAt
        <5> QED
          BY <3>2, <3>3, <4>2, <5>1 DEF ReadTo, m
      <4> QED
        BY <4>1, <4>2
    <3>5. Len(got) + 1 = k + 1
      BY DEF k
    <3> HIDE DEF got
    <3>6. Followed(c, v, said, got, ended)
      BY <1>2, <3>4, <3>5 DEF Followed, r
    <3>7. got = Append(handled, e.p.remaining_length)
      BY <2>6 DEF got
    <3>8. ~(e.p.remaining_count <= 0 \/ e.p.to_process > 0)
      BY <2>4, <2>6, CountsApart
    <3> QED
      BY <1>8, <2>6, <3>6, <3>7, <3>8 DEF c, v, e, n, k, m
  <2>7. CASE /\ e.p.remaining_count <= 0 \/ e.p.to_process > 0
             /\ e.used = Len(arrived) /\ PacketAt(e.p, n, x + e.used)
    <3>1. ReadTo(e.p, toCome, s, x + Len(arrived), said, k)
      BY <1>6, <1>8, <2>7 DEF ReadTo, n, m
    <3>2. Followed(e.p, toCome, said, handled, ended)
      BY <1>2, <3>1 DEF Followed, s, k
    <3>3. ~(e.p.remaining_count > 0 /\ e.p.to_process = 0)
      BY <2>4, <2>7, CountsApart
    <3> QED
      BY <3>2, <3>3 DEF e
  <2> QED
    BY <2>4, <2>6, <2>7
<1>9. CASE ~(k <= m)
  <2>1. k = m + 1
    BY <1>1, <1>9
  <2>2. s # <<>>
    <3>1. Len(s) # 0
      BY <1>5, <1>7
    <3>2. Len(<<>>) = 0
      OBVIOUS
    <3> QED
      BY <3>1, <3>2, Zenon
  <2>3. s = Garbled /\ GarbledAt(in_packet, x)
    BY <1>2, <1>3, <1>9, <2>1, <2>2 DEF s, m, ReadTo
  <2>4. x \in 0 .. 5 /\ x + Len(arrived) <= 6
    <3> DEFINE a == Len(arrived)
    <3> DEFINE c == Len(toCome)
    <3>1. Len(s) = 6
      BY <2>3, GarbledBytes DEF GarbledSeq
    <3>2. a \in Nat /\ a # 0 /\ c \in Nat /\ x \in Nat /\ x + a + c = 6
      BY <1>5, <1>7, <3>1
    <3> HIDE DEF a, c
    <3>3. x \in 0 .. 5 /\ x + a <= 6
      BY <3>2
    <3> QED
      BY <3>3 DEF a
  <2>5. /\ e \in Feeding
        /\ \/ e.rc = "PROTOCOL"
           \/ /\ e.rc = "header" /\ e.used = Len(arrived) /\ e.p.remaining_count <= 0
              /\ GarbledAt(e.p, x + Len(arrived))
    BY <1>5, <2>3, <2>4, FedGarbled DEF e
  <2>6. CASE e.rc = "PROTOCOL"
    BY <2>6 DEF e
  <2>7. CASE /\ e.rc = "header" /\ e.used = Len(arrived) /\ e.p.remaining_count <= 0
             /\ GarbledAt(e.p, x + Len(arrived))
    <3>1. ReadTo(e.p, toCome, s, x + Len(arrived), said, k)
      BY <1>6, <1>9, <2>2, <2>7 DEF ReadTo, m
    <3>2. Followed(e.p, toCome, said, handled, ended)
      BY <1>2, <3>1 DEF Followed, s, k
    <3>3. ~(e.p.remaining_count > 0 /\ e.p.to_process = 0)
      BY <2>5, <2>7, CountsApart
    <3> QED
      BY <3>2, <3>3 DEF e
  <2> QED
    BY <2>5, <2>6, <2>7
<1> QED
  BY <1>8, <1>9

-----------------------------------------------------------------------------
(* The packets that are handled *)

\* A client that speaks with the broker has sent CONNECT, and where the proxy's reply did
\* not name a host, in_packet and what is unread are what the broker said behind the
\* packets that were handled.
Talking == {"connected", "new"}

BytesInv ==
  /\ in_packet \in InPacket /\ arrived \in Seq(Nat) /\ toCome \in Seq(Nat)
  /\ said \in Seq(PacketLengths) /\ handled \in Seq(Nat)

HandledInv ==
  /\ state \in Waiting => said = <<>> /\ handled = <<>>
  /\ state \in Talking => sent # <<>> /\ Last(sent) = "connect"
  /\ reply # "name" =>
       /\ Len(handled) <= Len(said) /\ \A i \in 1 .. Len(handled) : handled[i] = said[i]
       /\ state \in Talking => Followed(in_packet, arrived \o toCome, said, handled, ended)

PacketsInv == StreamTypeOK /\ BytesInv /\ HandledInv

\* What StreamTypeOK says of in_packet.
LEMMA PacketFields ==
  ASSUME NEW p \in InPacket
  PROVE  p.to_process \in Nat /\ p.remaining_count \in -4 .. 4
BY DEF InPacket

\* Nothing is said before the client connects.
LEMMA PacketsBegin == StreamInit => PacketsInv
<1> SUFFICES ASSUME StreamInit PROVE PacketsInv
  OBVIOUS
<1>1. <<>> \in Seq(Nat) /\ <<>> \in Seq(PacketLengths) /\ Len(<<>>) = 0
  OBVIOUS
<1>2. in_packet \in InPacket
  BY <1>1 DEF StreamInit, InPacket
<1>3. StreamTypeOK
  <2>1. /\ proxy \in {"none", "open", "user"} /\ state = "closed" /\ connections = 0 /\ ended = FALSE
    BY DEF StreamInit
  <2>2. in_packet.to_process \in Nat /\ in_packet.remaining_count \in -4 .. 4
    BY <1>2, PacketFields
  <2>3. 0 \in 0 .. MaxConnections
    BY PacketsAssumption
  <2> QED
    BY <2>1, <2>2, <2>3 DEF StreamTypeOK
<1>4. BytesInv
  BY <1>1, <1>2 DEF StreamInit, BytesInv
<1>5. state = "closed" /\ said = <<>> /\ handled = <<>>
  BY DEF StreamInit
<1>6. HandledInv
  BY <1>1, <1>5 DEF HandledInv, Waiting, Talking
<1> QED
  BY <1>3, <1>4, <1>6 DEF PacketsInv

\* Closing leaves what was handled.
LEMMA ClosesPackets ==
  ASSUME PacketsInv, Closes, UNCHANGED <<proxy, sent, reply, granted, said, handled, connections>>
  PROVE  PacketsInv'
<1>1. /\ state' = "closed" /\ arrived' = <<>> /\ toCome' = <<>> /\ ended' = FALSE /\ in_packet' = in_packet
      /\ UNCHANGED <<proxy, reply, said, handled, connections>>
  BY DEF Closes
<1>2. <<>> \in Seq(Nat)
  OBVIOUS
<1>3. StreamTypeOK'
  BY <1>1 DEF PacketsInv, StreamTypeOK
<1>4. BytesInv'
  BY <1>1, <1>2 DEF PacketsInv, BytesInv
<1>5. HandledInv'
  BY <1>1 DEF PacketsInv, HandledInv, Waiting, Talking
<1> QED
  BY <1>3, <1>4, <1>5 DEF PacketsInv

\* While the client waits for the proxy, the broker has said nothing.
LEMMA WaitsPackets ==
  ASSUME PacketsInv, ProxyInv', state \in Waiting, state' \in Waiting, in_packet' \in InPacket,
         UNCHANGED <<proxy, ended, said, handled, connections>>
  PROVE  PacketsInv'
<1>1. StreamTypeOK'
  BY PacketFields DEF PacketsInv, StreamTypeOK, Waiting
<1>2. BytesInv'
  BY DEF PacketsInv, BytesInv, ProxyInv
<1>3. said' = <<>> /\ handled' = <<>>
  BY DEF PacketsInv, HandledInv
<1>4. Len(<<>>) = 0
  OBVIOUS
<1>5. state' \notin Talking
  BY DEF Waiting, Talking
<1>6. HandledInv'
  BY <1>3, <1>4, <1>5 DEF HandledInv
<1> QED
  BY <1>1, <1>2, <1>6 DEF PacketsInv

\* Some of the bytes of a proxy are read.
LEMMA PartPackets ==
  ASSUME PacketsInv, ProxyInv', NEW waiting \in Waiting, ReadsPart(waiting)
  PROVE  PacketsInv'
<1>1. CASE arrived = <<>> /\ toCome = <<>> /\ ended /\ Closes
  BY <1>1, ClosesPackets DEF ReadsPart
<1>2. CASE /\ arrived # <<>> /\ arrived' = <<>> /\ in_packet' = Taking(in_packet, Len(arrived))
           /\ UNCHANGED <<state, toCome, ended>>
  <2>1. /\ state \in Waiting /\ state' \in Waiting /\ in_packet.to_process > Len(arrived)
        /\ UNCHANGED <<proxy, ended, said, handled, connections>>
    BY <1>2 DEF ReadsPart
  <2>2. in_packet \in InPacket /\ arrived \in Seq(Nat) /\ Len(arrived) \in Nat
    BY LenProperties DEF PacketsInv, BytesInv
  <2> DEFINE b == in_packet.payload \o SubSeq(arrived, 1, Len(arrived))
  <2> DEFINE n == in_packet.to_process - Len(arrived)
  <2>3. b \in Seq(Nat)
    <3>1. SubSeq(arrived, 1, Len(arrived)) = arrived
      BY <2>2, SubSeqFull
    <3>2. in_packet.payload \in Seq(Nat)
      BY <2>2 DEF InPacket
    <3>3. in_packet.payload \o arrived \in Seq(Nat)
      BY <2>2, <3>2, Cat
    <3> QED
      BY <3>1, <3>3
  <2>4. n \in Nat
    <3>1. in_packet.to_process \in Nat
      BY <2>2, PacketFields
    <3> QED
      BY <2>1, <2>2, <3>1
  <2>5. in_packet' = [in_packet EXCEPT !.payload = b, !.to_process = n]
    BY <1>2, <2>2 DEF Taking, InPacket
  <2> HIDE DEF b, n
  <2>6. in_packet' \in InPacket
    BY <2>2, <2>3, <2>4, <2>5 DEF InPacket
  <2> QED
    BY <2>1, <2>6, WaitsPackets
<1> QED
  BY <1>1, <1>2 DEF ReadsPart

\* A packet that was cleaned up is one that was not begun.
LEMMA CleanPacket ==
  ASSUME NEW p \in InPacket
  PROVE  packet__cleanup(p) \in InPacket /\ HeadAt(packet__cleanup(p), 0, 0)
<1>1. p.packet_length \in Nat /\ <<>> \in Seq(Nat)
  BY DEF InPacket
<1> QED
  BY <1>1 DEF packet__cleanup, InPacket, HeadAt

\* Nor is one that waits for the proxy.
LEMMA ExpectingPacket ==
  ASSUME NEW p \in InPacket, NEW n \in Nat
  PROVE  Expecting(p, n) \in InPacket
<1>1. <<>> \in Seq(Nat)
  OBVIOUS
<1> QED
  BY <1>1 DEF Expecting, InPacket

\* The next message to the proxy.
LEMMA GoesPackets ==
  ASSUME PacketsInv, ProxyInv', state \in Waiting,
         NEW next \in Waiting, NEW message, NEW n \in Nat, Goes(next, message, n)
  PROVE  PacketsInv'
<1>1. in_packet \in InPacket
  BY DEF PacketsInv, BytesInv
<1>2. in_packet' = Expecting(packet__cleanup(in_packet), n)
  BY DEF Goes
<1>3. in_packet' \in InPacket
  BY <1>1, <1>2, CleanPacket, ExpectingPacket
<1>4. state' \in Waiting /\ UNCHANGED <<proxy, ended, said, handled, connections>>
  BY DEF Goes
<1> QED
  BY <1>3, <1>4, WaitsPackets

\* The method and the verdict on the password.
LEMMA MethodPackets ==
  ASSUME PacketsInv, ProxyInv', ReadMethod \/ ReadUserpass
  PROVE  PacketsInv'
<1>1. CASE GivesUp
  BY <1>1, ClosesPackets DEF GivesUp
<1>2. CASE Goes("socks5_request", "request", 5) \/ Goes("socks5_userpass_reply", "userpass", 2)
  <2>1. state \in Waiting
    BY DEF ReadMethod, ReadUserpass, ReadsWhole, Waiting
  <2>2. /\ "socks5_request" \in Waiting /\ "socks5_userpass_reply" \in Waiting
        /\ 5 \in Nat /\ 2 \in Nat
    BY DEF Waiting
  <2> QED
    BY <1>2, <2>1, <2>2, GoesPackets
<1> QED
  BY <1>1, <1>2 DEF ReadMethod, ReadUserpass

\* The first five bytes of a reply.
LEMMA HeaderPackets ==
  ASSUME PacketsInv, ProxyInv, ProxyInv', ReadReplyHeader
  PROVE  PacketsInv'
<1>1. CASE GivesUp
  BY <1>1, ClosesPackets DEF GivesUp
<1>2. CASE ~GivesUp
  <2> DEFINE w == Whole.payload
  <2>1. /\ ReadsWhole("socks5_request") /\ in_packet.packet_length = 5 /\ w[4] \in {1, 3, 4}
        /\ in_packet' = [Whole EXCEPT !.to_process = MoreOf(w), !.packet_length = 5 + MoreOf(w)]
        /\ UNCHANGED <<proxy, state, ended, said, handled, connections>>
    BY <1>2 DEF ReadReplyHeader
  <2>2. w \in Seq(Nat) /\ Len(w) = 5
    BY <2>1, ReplyRead
  <2>3. MoreOf(w) \in Nat
    <3>1. w \in Seq(Nat) /\ Len(w) >= 5 /\ w[4] \in {1, 3, 4}
      BY <2>1, <2>2
    <3> HIDE DEF w
    <3> QED
      BY <3>1, MoreNat
  <2>4. state \in Waiting /\ state' \in Waiting
    BY <2>1 DEF ReadsWhole, Waiting
  <2>5. in_packet \in InPacket
    BY DEF PacketsInv, BytesInv
  <2> DEFINE n == MoreOf(w)
  <2> DEFINE l == 5 + n
  <2> DEFINE q == Whole
  <2>6. q = [in_packet EXCEPT !.payload = w, !.to_process = in_packet.to_process - in_packet.to_process]
    BY <2>5 DEF Whole, Taking, InPacket
  <2>7. in_packet' = [q EXCEPT !.to_process = n, !.packet_length = l]
    BY <2>1
  <2>8. n \in Nat /\ l \in Nat
    BY <2>3
  <2> HIDE DEF q, n, l, w
  <2>9. in_packet' = [in_packet EXCEPT !.payload = w, !.to_process = n, !.packet_length = l]
    BY <2>5, <2>6, <2>7 DEF InPacket
  <2>10. in_packet' \in InPacket
    BY <2>2, <2>5, <2>8, <2>9 DEF InPacket
  <2> QED
    BY <2>1, <2>4, <2>10, WaitsPackets
<1> QED
  BY <1>1, <1>2

\* The client connects, to a broker or to a proxy.
LEMMA ConnectsPackets ==
  ASSUME PacketsInv, ProxyInv, Connects
  PROVE  PacketsInv'
<1>1. in_packet \in InPacket /\ state = "closed" /\ arrived = <<>> /\ toCome = <<>>
  BY DEF PacketsInv, BytesInv, Connects, ProxyInv
<1>2. /\ connections < MaxConnections /\ connections' = connections + 1
      /\ reply' = "none" /\ said' = <<>> /\ handled' = <<>>
      /\ proxy' = proxy /\ arrived' = <<>> /\ toCome' = <<>> /\ ended' = ended
  BY <1>1 DEF Connects
<1>3. <<>> \in Seq(Nat) /\ <<>> \in Seq(PacketLengths) /\ Len(<<>>) = 0 /\ <<>> \o <<>> = <<>>
  OBVIOUS
<1>4. connections' \in 0 .. MaxConnections
  BY <1>2, PacketsAssumption DEF PacketsInv, StreamTypeOK
<1>5. packet__cleanup(in_packet) \in InPacket /\ HeadAt(packet__cleanup(in_packet), 0, 0)
  BY <1>1, CleanPacket
<1>6. CASE proxy = "none"
  <2>1. /\ state' = "connected" /\ sent' = <<"connect">> /\ in_packet' = packet__cleanup(in_packet)
    BY <1>6 DEF Connects
  <2>2. in_packet' \in InPacket /\ HeadAt(in_packet', 0, 0)
    BY <1>5, <2>1, Zenon
  <2>3. StreamTypeOK'
    BY <1>2, <1>4, <2>1, <2>2, PacketFields DEF PacketsInv, StreamTypeOK
  <2>4. BytesInv'
    BY <1>2, <1>3, <2>2 DEF BytesInv
  <2>5. Followed(in_packet', arrived' \o toCome', said', handled', ended')
    <3>1. Followed(in_packet', <<>>, <<>>, <<>>, ended')
      BY <2>2, FollowedStart
    <3>2. arrived' \o toCome' = <<>>
      BY <1>2, <1>3
    <3> QED
      BY <1>2, <3>1, <3>2
  <2>6. sent' # <<>> /\ Last(sent') = "connect"
    BY <2>1 DEF Last
  <2>7. HandledInv'
    BY <1>2, <1>3, <2>1, <2>5, <2>6 DEF HandledInv, Waiting
  <2> QED
    BY <2>3, <2>4, <2>7 DEF PacketsInv
<1>7. CASE proxy # "none"
  <2>1. state' = "socks5_start" /\ in_packet' = Expecting(packet__cleanup(in_packet), 2)
    BY <1>7 DEF Connects
  <2>2. in_packet' \in InPacket
    BY <1>5, <2>1, ExpectingPacket
  <2>3. StreamTypeOK'
    BY <1>2, <1>4, <2>1, <2>2, PacketFields DEF PacketsInv, StreamTypeOK
  <2>4. BytesInv'
    BY <1>2, <1>3, <2>2 DEF BytesInv
  <2>5. HandledInv'
    BY <1>2, <1>3, <2>1 DEF HandledInv, Talking
  <2> QED
    BY <2>3, <2>4, <2>5 DEF PacketsInv
<1> QED
  BY <1>6, <1>7

\* CONNECT goes out: of a reply that named no host nothing is left unread.
LEMMA ReplyPackets ==
  ASSUME PacketsInv, ProxyInv, ReadReply
  PROVE  PacketsInv'
<1>1. CASE GivesUp
  BY <1>1, ClosesPackets DEF GivesUp
<1>2. CASE ~GivesUp
  <2>1. /\ ReadsWhole("socks5_request") /\ in_packet.packet_length # 5
        /\ state' = "new" /\ sent' = Append(sent, "connect")
        /\ in_packet' = packet__cleanup(in_packet) /\ arrived' = Rest
        /\ UNCHANGED <<proxy, toCome, ended, reply, granted, said, handled, connections>>
    BY <1>2 DEF ReadReply
  <2>2. state = "socks5_request" /\ state \in Waiting /\ in_packet.to_process <= Len(arrived)
    BY <2>1 DEF ReadsWhole, Waiting
  <2>3. Rest \in Seq(Nat) /\ Len(Rest) = Len(arrived) - in_packet.to_process
    BY <2>2, WholeRead
  <2>4. in_packet \in InPacket /\ toCome \in Seq(Nat) /\ arrived \in Seq(Nat)
    BY DEF PacketsInv, BytesInv
  <2>5. in_packet' \in InPacket /\ HeadAt(in_packet', 0, 0)
    BY <2>1, <2>4, CleanPacket, Zenon
  <2>6. said = <<>> /\ handled = <<>> /\ said' = <<>> /\ handled' = <<>>
    BY <2>1, <2>2 DEF PacketsInv, HandledInv
  <2>7. reply # "name" => Rest = <<>> /\ toCome = <<>>
    <3> SUFFICES ASSUME reply # "name" PROVE Rest = <<>> /\ toCome = <<>>
      OBVIOUS
    <3> DEFINE n == in_packet.to_process
    <3> DEFINE a == Len(arrived)
    <3> DEFINE c == Len(toCome)
    <3>1. n = a + c
      <4>1. in_packet.packet_length > 5
        BY <2>1, ReplyLonger
      <4>2. in_packet.to_process = Len(arrived) + Len(toCome) - (IF reply = "name" THEN 2 ELSE 0)
        BY <2>2, <4>1, ReplyLeft
      <4>3. Len(arrived) \in Nat /\ Len(toCome) \in Nat
        BY <2>4, LenProperties
      <4> QED
        BY <4>2, <4>3
    <3>2. a \in Nat /\ c \in Nat /\ n <= a
      BY <2>2, <2>4, LenProperties
    <3> HIDE DEF n, a, c
    <3>3. c = 0 /\ a - n = 0
      BY <3>1, <3>2
    <3>4. Len(toCome) = 0 /\ Len(Rest) = 0
      BY <2>3, <3>3 DEF n, a, c
    <3> QED
      BY <2>3, <2>4, <3>4, EmptySeq
  <2>8. StreamTypeOK'
    BY <2>1, <2>5, PacketFields DEF PacketsInv, StreamTypeOK
  <2>9. BytesInv'
    BY <2>1, <2>3, <2>4, <2>5 DEF PacketsInv, BytesInv
  <2>10. sent' # <<>> /\ Last(sent') = "connect"
    <3>1. sent \in Seq(Messages)
      BY <2>2 DEF ProxyInv
    <3>2. Len(sent) \in Nat
      BY <3>1, LenProperties
    <3>3. "connect" \in Messages
      BY DEF Messages
    <3> DEFINE m == "connect"
    <3>4. m \in Messages
      BY <3>3
    <3> HIDE DEF m
    <3>5. /\ Append(sent, m) \in Seq(Messages) /\ Len(Append(sent, m)) = Len(sent) + 1
          /\ Append(sent, m)[Len(sent) + 1] = m
      BY <3>1, <3>4
    <3>6. Append(sent, m) # <<>>
      BY <3>2, <3>5
    <3>7. sent' = Append(sent, m)
      BY <2>1 DEF m
    <3> QED
      BY <3>5, <3>6, <3>7 DEF Last, m
  <2>11. reply' # "name" => Followed(in_packet', arrived' \o toCome', said', handled', ended')
    <3> SUFFICES ASSUME reply' # "name"
                 PROVE  Followed(in_packet', arrived' \o toCome', said', handled', ended')
      OBVIOUS
    <3>1. arrived' = <<>> /\ toCome' = <<>>
      BY <2>1, <2>7
    <3>2. <<>> \o <<>> = <<>>
      OBVIOUS
    <3>3. arrived' \o toCome' = <<>>
      BY <3>1, <3>2
    <3>4. Followed(in_packet', <<>>, <<>>, <<>>, ended')
      BY <2>5, FollowedStart
    <3> QED
      BY <2>6, <3>3, <3>4
  <2>12. Len(<<>>) = 0
    OBVIOUS
  <2>13. HandledInv'
    BY <2>1, <2>6, <2>10, <2>11, <2>12 DEF HandledInv, Waiting
  <2> QED
    BY <2>8, <2>9, <2>13 DEF PacketsInv
<1> QED
  BY <1>1, <1>2

\* A byte that arrives, or the end of the stream, changes nothing of what was said.
LEMMA SamePackets ==
  ASSUME PacketsInv, arrived' \in Seq(Nat), toCome' \in Seq(Nat),
         arrived' \o toCome' = arrived \o toCome, ended' = ended \/ ended' = TRUE,
         UNCHANGED <<proxy, state, in_packet, sent, reply, said, handled, connections>>
  PROVE  PacketsInv'
<1>1. UNCHANGED <<proxy, state, in_packet, sent, reply, said, handled, connections>>
  OBVIOUS
<1>2. StreamTypeOK'
  BY DEF PacketsInv, StreamTypeOK
<1>3. BytesInv'
  BY DEF PacketsInv, BytesInv
<1>4. Followed(in_packet, arrived \o toCome, said, handled, ended)
        => Followed(in_packet', arrived' \o toCome', said', handled', ended')
  <2> DEFINE u == arrived \o toCome
  <2>1. arrived' \o toCome' = u
    OBVIOUS
  <2> HIDE DEF u
  <2>2. Followed(in_packet, u, said, handled, ended)
          => Followed(in_packet', u, said', handled', ended')
    BY FollowedOver
  <2> QED
    BY <2>1, <2>2 DEF u
<1>5. HandledInv'
  BY <1>1, <1>4 DEF PacketsInv, HandledInv
<1> QED
  BY <1>2, <1>3, <1>5 DEF PacketsInv

\* Bytes arrive.
LEMMA ArrivePackets ==
  ASSUME PacketsInv, Arrive
  PROVE  PacketsInv'
<1>1. PICK n : /\ n = Len(toCome) \/ n = 1
               /\ arrived' = arrived \o SubSeq(toCome, 1, n)
               /\ toCome' = SubSeq(toCome, n + 1, Len(toCome))
               /\ UNCHANGED <<proxy, state, in_packet, sent, ended, reply, granted, said, handled,
                              connections>>
  BY DEF Arrive
<1>2. arrived \in Seq(Nat) /\ toCome \in Seq(Nat)
  BY DEF PacketsInv, BytesInv
<1>3. n \in 0 .. Len(toCome)
  <2>1. toCome # <<>>
    BY DEF Arrive
  <2>2. Len(toCome) \in Nat /\ Len(toCome) # 0
    BY <1>2, <2>1, LenProperties, EmptySeq
  <2> QED
    BY <1>1, <2>2
<1> DEFINE first  == SubSeq(toCome, 1, n)
<1> DEFINE second == SubSeq(toCome, n + 1, Len(toCome))
<1>4. first \in Seq(Nat) /\ second \in Seq(Nat) /\ first \o second = toCome
  BY <1>2, <1>3, Cut
<1>5. arrived' = arrived \o first /\ toCome' = second
  BY <1>1
<1> HIDE DEF first, second
<1>6. arrived \o first \in Seq(Nat) /\ (arrived \o first) \o second = arrived \o (first \o second)
  <2>1. arrived \in Seq(Nat) /\ first \in Seq(Nat) /\ second \in Seq(Nat)
    BY <1>2, <1>4
  <2>2. arrived \o first \in Seq(Nat)
    BY <2>1, Cat
  <2>3. (arrived \o first) \o second = arrived \o (first \o second)
    BY <2>1, Associate
  <2> QED
    BY <2>2, <2>3
<1>7. arrived' \o toCome' = arrived \o toCome
  BY <1>4, <1>5, <1>6
<1>8. arrived' \in Seq(Nat) /\ toCome' \in Seq(Nat)
  BY <1>4, <1>5, <1>6
<1> QED
  BY <1>1, <1>7, <1>8, SamePackets

\* The other side closes.
LEMMA PeerPackets ==
  ASSUME PacketsInv, PeerCloses
  PROVE  PacketsInv'
<1>1. arrived \in Seq(Nat) /\ toCome \in Seq(Nat)
  BY DEF PacketsInv, BytesInv
<1> QED
  BY <1>1, SamePackets DEF PeerCloses

\* A proxy speaks only while the client waits for it.
LEMMA ProxyPackets ==
  ASSUME PacketsInv, ProxyInv, ProxyInv', ChoosesMethod \/ AnswersUserpass \/ Replies
  PROVE  PacketsInv'
<1>1. /\ Asked("greeting") \/ Asked("userpass") \/ Asked("request")
      /\ UNCHANGED <<proxy, state, in_packet, sent, ended, said, handled, connections>>
  BY Zenon DEF ChoosesMethod, AnswersUserpass, Replies, Says
<1>2. state # "closed" /\ Last(sent) # "connect"
  BY <1>1 DEF Asked, Silent
<1>3. state \in Waiting
  BY <1>2 DEF PacketsInv, HandledInv, StreamTypeOK, Talking, Waiting
<1>4. in_packet' \in InPacket /\ state' \in Waiting
  BY <1>1, <1>3 DEF PacketsInv, BytesInv
<1> QED
  BY <1>1, <1>3, <1>4, WaitsPackets

\* What the client reads of a packet, and when it has read all of it.
LEMMA ReadPackets ==
  ASSUME PacketsInv, ReadPacket
  PROVE  PacketsInv'
<1> DEFINE e == Fed
<1>1. /\ state \in Talking /\ arrived # <<>> /\ in_packet \in InPacket
      /\ arrived \in Seq(Nat) /\ toCome \in Seq(Nat)
      /\ said \in Seq(PacketLengths) /\ handled \in Seq(Nat)
      /\ PacketLengths \subseteq 0 .. MaxVarint
  BY PacketsAssumption DEF PacketsInv, BytesInv, ReadPacket, Talking
<1>2. e \in Feeding /\ e.used <= Len(arrived)
  BY <1>1, FedTypes
<1>3. reply # "name" /\ e.rc = "header" /\ e.p.remaining_count > 0 /\ e.p.to_process = 0 =>
        /\ Len(handled) + 1 <= Len(said) /\ e.p.remaining_length = said[Len(handled) + 1]
        /\ Followed(packet__cleanup(e.p), SubSeq(arrived, e.used + 1, Len(arrived)) \o toCome,
                    said, Append(handled, e.p.remaining_length), ended)
  BY <1>1, PacketRead DEF PacketsInv, HandledInv
<1>4. reply # "name" /\ e.rc = "header" /\ (e.p.remaining_count <= 0 \/ e.p.to_process > 0) =>
        Followed(e.p, toCome, said, handled, ended)
  BY <1>1, PacketRead DEF PacketsInv, HandledInv
<1>5. \/ /\ e.rc = "header" /\ e.p.remaining_count > 0 /\ e.p.to_process = 0
         /\ handled' = Append(handled, e.p.remaining_length)
         /\ in_packet' = packet__cleanup(e.p)
         /\ arrived' = SubSeq(arrived, e.used + 1, Len(arrived))
         /\ UNCHANGED <<proxy, state, sent, toCome, ended, reply, granted, said, connections>>
      \/ /\ e.rc = "header" /\ (e.p.remaining_count <= 0 \/ e.p.to_process > 0)
         /\ in_packet' = e.p /\ arrived' = <<>>
         /\ UNCHANGED <<proxy, state, sent, toCome, ended, reply, granted, said, handled, connections>>
      \/ GivesUp
  BY Zenon DEF ReadPacket
<1> HIDE DEF e
<1>6. e.p \in InPacket /\ e.used \in Nat /\ e.p.remaining_length \in Nat
  <2>1. e.p \in InPacket /\ e.used \in Nat
    BY <1>2 DEF Feeding
  <2> QED
    BY <2>1 DEF InPacket
<1>7. state \notin Waiting
  BY <1>1 DEF Talking, Waiting
<1>8. CASE GivesUp
  BY <1>8, ClosesPackets DEF GivesUp
<1>9. CASE /\ e.rc = "header" /\ e.p.remaining_count > 0 /\ e.p.to_process = 0
           /\ handled' = Append(handled, e.p.remaining_length)
           /\ in_packet' = packet__cleanup(e.p)
           /\ arrived' = SubSeq(arrived, e.used + 1, Len(arrived))
           /\ UNCHANGED <<proxy, state, sent, toCome, ended, reply, granted, said, connections>>
  <2> DEFINE l == e.p.remaining_length
  <2> DEFINE rest == SubSeq(arrived, e.used + 1, Len(arrived))
  <2> DEFINE c == packet__cleanup(e.p)
  <2>1. c \in InPacket
    BY <1>6, CleanPacket
  <2>2. rest \in Seq(Nat)
    <3>1. Len(arrived) \in Nat
      BY <1>1, LenProperties
    <3>2. e.used \in 0 .. Len(arrived)
      BY <1>2, <1>6, <3>1
    <3> QED
      BY <1>1, <3>2, Cut
  <2>3. l \in Nat
    BY <1>6
  <2>4. /\ handled' = Append(handled, l) /\ in_packet' = c /\ arrived' = rest
        /\ UNCHANGED <<proxy, state, sent, toCome, ended, reply, granted, said, connections>>
    BY <1>9
  <2>5. reply # "name" =>
          /\ Len(handled) + 1 <= Len(said) /\ l = said[Len(handled) + 1]
          /\ Followed(c, rest \o toCome, said, Append(handled, l), ended)
    BY <1>3, <1>9
  <2> HIDE DEF l, rest, c
  <2>6. StreamTypeOK'
    BY <2>1, <2>4, PacketFields DEF PacketsInv, StreamTypeOK
  <2>7. BytesInv'
    BY <1>1, <2>1, <2>2, <2>3, <2>4 DEF BytesInv
  <2>8. HandledInv'
    <3>1. state' = state /\ state' \notin Waiting /\ sent' = sent
      BY <1>7, <2>4
    <3>2. Len(handled) \in Nat
      BY <1>1, LenProperties
    <3>3. /\ Len(handled') = Len(handled) + 1 /\ handled'[Len(handled) + 1] = l
          /\ \A i \in 1 .. Len(handled) : handled'[i] = handled[i]
      BY <1>1, <2>3, <2>4
    <3>4. reply' # "name" =>
            /\ Len(handled') <= Len(said') /\ \A i \in 1 .. Len(handled') : handled'[i] = said'[i]
            /\ Followed(in_packet', arrived' \o toCome', said', handled', ended')
      <4> SUFFICES ASSUME reply' # "name"
                   PROVE  /\ Len(handled') <= Len(said')
                          /\ \A i \in 1 .. Len(handled') : handled'[i] = said'[i]
                          /\ Followed(in_packet', arrived' \o toCome', said', handled', ended')
        OBVIOUS
      <4>1. reply # "name"
        BY <2>4
      <4>2. /\ Len(handled) + 1 <= Len(said) /\ l = said[Len(handled) + 1]
            /\ Followed(c, rest \o toCome, said, Append(handled, l), ended)
        BY <2>5, <4>1
      <4>3. \A i \in 1 .. Len(handled) : handled[i] = said[i]
        BY <4>1 DEF PacketsInv, HandledInv
      <4>4. ASSUME NEW i \in 1 .. Len(handled') PROVE handled'[i] = said'[i]
        <5>1. i \in 1 .. Len(handled) \/ i = Len(handled) + 1
          BY <3>2, <3>3
        <5> QED
          BY <2>4, <3>3, <4>2, <4>3, <5>1
      <4>5. Followed(in_packet', arrived' \o toCome', said', handled', ended')
        BY <2>4, <4>2, Zenon
      <4> QED
        BY <2>4, <3>3, <4>2, <4>4, <4>5
    <3> QED
      BY <3>1, <3>4 DEF PacketsInv, HandledInv
  <2> QED
    BY <2>6, <2>7, <2>8 DEF PacketsInv
<1>10. CASE /\ e.rc = "header" /\ (e.p.remaining_count <= 0 \/ e.p.to_process > 0)
            /\ in_packet' = e.p /\ arrived' = <<>>
            /\ UNCHANGED <<proxy, state, sent, toCome, ended, reply, granted, said, handled, connections>>
  <2>1. <<>> \in Seq(Nat) /\ <<>> \o toCome = toCome
    BY <1>1, ConcatEmptySeq
  <2>2. StreamTypeOK'
    BY <1>6, <1>10, PacketFields DEF PacketsInv, StreamTypeOK
  <2>3. BytesInv'
    BY <1>1, <1>6, <1>10, <2>1 DEF BytesInv
  <2>4. reply' # "name" => Followed(in_packet', arrived' \o toCome', said', handled', ended')
    <3> SUFFICES ASSUME reply' # "name"
                 PROVE  Followed(in_packet', arrived' \o toCome', said', handled', ended')
      OBVIOUS
    <3>1. arrived' \o toCome' = toCome
      BY <1>10, <2>1
    <3>2. Followed(e.p, toCome, said, handled, ended)
      BY <1>4, <1>10
    <3> QED
      BY <1>10, <3>1, <3>2, Zenon
  <2>5. UNCHANGED <<state, sent, reply, said, handled>>
    BY <1>10
  <2>6. HandledInv'
    BY <1>7, <2>4, <2>5 DEF PacketsInv, HandledInv
  <2> QED
    BY <2>2, <2>3, <2>6 DEF PacketsInv
<1> QED
  BY <1>5, <1>8, <1>9, <1>10

\* What the broker says comes behind everything else.
LEMMA BrokerTalks ==
  ASSUME PacketsInv, ProxyInv, BrokerSays \/ BrokerGarbles
  PROVE  state \in Talking /\ state \notin Waiting /\ ended = FALSE
<1>1. state # "closed" /\ Last(sent) = "connect" /\ ~ended
  BY Zenon DEF BrokerSays, BrokerGarbles
<1>2. state \notin Waiting
  BY <1>1 DEF ProxyInv, MessageOf, Waiting
<1>3. state \in Talking /\ ended \in BOOLEAN
  BY <1>1, <1>2 DEF PacketsInv, StreamTypeOK, Talking, Waiting
<1> QED
  BY <1>1, <1>2, <1>3

\* The bytes of a packet.
LEMMA BytesSent ==
  ASSUME NEW n \in Nat, n <= MaxVarint, NEW s \in Seq(Nat)
  PROVE  s \o <<32>> \o packet__write_varint(n) \o [i \in 1 .. n |-> 7] = s \o PacketOf(n)
<1> DEFINE h == <<32>>
<1> DEFINE v == VarintOf(n)
<1> DEFINE b == [i \in 1 .. n |-> 7]
<1>1. h \in Seq(Nat) /\ v \in Seq(Nat)
  BY VarintBytes
<1>2. b \in Seq(Nat)
  OBVIOUS
<1>3. packet__write_varint(n) = v /\ PacketOf(n) = (h \o v) \o b
  BY VarintWritten DEF PacketOf
<1> HIDE DEF h, v, b
<1>4. h \o v \in Seq(Nat) /\ s \o h \in Seq(Nat)
  BY <1>1, Cat
<1>5. (s \o h) \o v = s \o (h \o v)
  BY <1>1, Associate
<1> DEFINE w == h \o v
<1>6. w \in Seq(Nat)
  BY <1>4
<1> HIDE DEF w
<1>7. (s \o w) \o b = s \o (w \o b)
  BY <1>2, <1>6, Associate
<1>8. ((s \o h) \o v) \o b = s \o PacketOf(n)
  BY <1>3, <1>5, <1>7 DEF w
<1> QED
  BY <1>3, <1>8 DEF h, b

\* The broker sends a packet,
LEMMA SaysPackets ==
  ASSUME PacketsInv, ProxyInv, BrokerSays
  PROVE  PacketsInv'
<1>1. state \in Talking /\ state \notin Waiting /\ ended = FALSE
  BY BrokerTalks
<1>2. PICK n \in PacketLengths :
        /\ said' = Append(said, n)
        /\ toCome' = toCome \o <<32>> \o packet__write_varint(n) \o [i \in 1 .. n |-> 7]
        /\ UNCHANGED <<proxy, state, in_packet, sent, arrived, ended, reply, granted, handled, connections>>
  BY DEF BrokerSays
<1>3. /\ in_packet \in InPacket /\ arrived \in Seq(Nat) /\ toCome \in Seq(Nat)
      /\ said \in Seq(PacketLengths) /\ handled \in Seq(Nat) /\ PacketLengths \subseteq 0 .. MaxVarint
  BY PacketsAssumption DEF PacketsInv, BytesInv
<1>4. n \in Nat /\ n <= MaxVarint
  BY <1>2, <1>3, LengthBounds
<1> DEFINE b == PacketOf(n)
<1>5. toCome' = toCome \o b
  BY <1>2, <1>3, <1>4, BytesSent, Zenon
<1>6. b \in Seq(Nat)
  BY <1>4, SentBytes
<1> HIDE DEF b
<1>7. toCome' \in Seq(Nat)
  BY <1>3, <1>5, <1>6, Cat
<1>8. /\ said' = Append(said, n)
      /\ UNCHANGED <<proxy, state, in_packet, sent, arrived, ended, reply, handled, connections>>
  BY <1>2
<1>9. StreamTypeOK'
  BY <1>8 DEF PacketsInv, StreamTypeOK
<1>10. /\ said' \in Seq(PacketLengths) /\ Len(said') = Len(said) + 1
       /\ \A i \in 1 .. Len(said) : said'[i] = said[i]
  <2>1. n \in PacketLengths
    BY <1>2
  <2> QED
    BY <1>3, <1>8, <2>1
<1>11. BytesInv'
  BY <1>3, <1>7, <1>8, <1>10 DEF BytesInv
<1>12. reply # "name" =>
         /\ Len(handled') <= Len(said') /\ \A i \in 1 .. Len(handled') : handled'[i] = said'[i]
         /\ Followed(in_packet', arrived' \o toCome', said', handled', ended')
  <2> SUFFICES ASSUME reply # "name"
               PROVE  /\ Len(handled') <= Len(said')
                      /\ \A i \in 1 .. Len(handled') : handled'[i] = said'[i]
                      /\ Followed(in_packet', arrived' \o toCome', said', handled', ended')
    OBVIOUS
  <2> DEFINE u == arrived \o toCome
  <2>1. /\ Len(handled) <= Len(said) /\ \A i \in 1 .. Len(handled) : handled[i] = said[i]
        /\ Followed(in_packet, u, said, handled, FALSE)
    BY <1>1 DEF PacketsInv, HandledInv
  <2>2. u \in Seq(Nat)
    BY <1>3, Cat
  <2>3. arrived' \o toCome' = u \o b
    <3>1. (arrived \o toCome) \o b = arrived \o (toCome \o b)
      BY <1>3, <1>6, Associate
    <3> QED
      BY <1>5, <1>8, <3>1
  <2> HIDE DEF u
  <2>4. Followed(in_packet, u \o PacketOf(n), Append(said, n), handled, FALSE)
    <3>1. n \in PacketLengths
      BY <1>2
    <3> QED
      BY <1>3, <2>1, <2>2, <3>1, FollowedSays
  <2>5. Followed(in_packet', arrived' \o toCome', said', handled', ended')
    BY <1>1, <1>8, <2>3, <2>4, Zenon DEF b
  <2>6. Len(handled) \in Nat /\ Len(said) \in Nat
    BY <1>3, LenProperties
  <2>7. Len(handled') <= Len(said') /\ \A i \in 1 .. Len(handled') : handled'[i] = said'[i]
    BY <1>8, <1>10, <2>1, <2>6
  <2> QED
    BY <2>5, <2>7
<1>13. HandledInv'
  BY <1>1, <1>8, <1>12 DEF PacketsInv, HandledInv
<1> QED
  BY <1>9, <1>11, <1>13 DEF PacketsInv

\* or what is none.
LEMMA GarblesPackets ==
  ASSUME PacketsInv, ProxyInv, BrokerGarbles
  PROVE  PacketsInv'
<1>1. state \in Talking /\ state \notin Waiting /\ ended = FALSE
  BY BrokerTalks
<1> DEFINE b == Garbled
<1>2. /\ toCome' = toCome \o b /\ ended' = TRUE
      /\ UNCHANGED <<proxy, state, in_packet, sent, arrived, reply, granted, said, handled, connections>>
  BY DEF BrokerGarbles, Garbled
<1>3. /\ in_packet \in InPacket /\ arrived \in Seq(Nat) /\ toCome \in Seq(Nat)
      /\ said \in Seq(PacketLengths) /\ handled \in Seq(Nat) /\ PacketLengths \subseteq 0 .. MaxVarint
  BY PacketsAssumption DEF PacketsInv, BytesInv
<1>4. b \in Seq(Nat)
  BY GarbledBytes DEF GarbledSeq
<1> HIDE DEF b
<1>5. toCome' \in Seq(Nat)
  BY <1>2, <1>3, <1>4, Cat
<1>6. StreamTypeOK'
  BY <1>2 DEF PacketsInv, StreamTypeOK
<1>7. BytesInv'
  BY <1>2, <1>3, <1>5 DEF BytesInv
<1>8. reply # "name" => Followed(in_packet', arrived' \o toCome', said', handled', ended')
  <2> SUFFICES ASSUME reply # "name"
               PROVE  Followed(in_packet', arrived' \o toCome', said', handled', ended')
    OBVIOUS
  <2> DEFINE u == arrived \o toCome
  <2>1. Len(handled) <= Len(said) /\ Followed(in_packet, u, said, handled, FALSE)
    BY <1>1 DEF PacketsInv, HandledInv
  <2>2. u \in Seq(Nat)
    BY <1>3, Cat
  <2>3. arrived' \o toCome' = u \o b
    <3>1. (arrived \o toCome) \o b = arrived \o (toCome \o b)
      BY <1>3, <1>4, Associate
    <3> QED
      BY <1>2, <3>1
  <2> HIDE DEF u
  <2>4. Followed(in_packet, u \o Garbled, said, handled, TRUE)
    BY <1>3, <2>1, <2>2, FollowedGarbles
  <2> QED
    BY <1>2, <2>3, <2>4, Zenon DEF b
<1>9. HandledInv'
  BY <1>1, <1>2, <1>8 DEF PacketsInv, HandledInv
<1> QED
  BY <1>6, <1>7, <1>9 DEF PacketsInv

\* Every step of the stream keeps what was handled to what was said.
LEMMA PacketsStep ==
  ASSUME PacketsInv, StreamIInv, StreamIInv', StreamNext
  PROVE  PacketsInv'
<1> USE DEF StreamIInv
<1>1. CASE \E waiting \in Waiting : ReadsPart(waiting)
  BY <1>1, PartPackets
<1>2. CASE ReadEnd
  BY <1>2, ClosesPackets DEF ReadEnd, GivesUp
<1> QED
  BY <1>1, <1>2, ConnectsPackets, MethodPackets, HeaderPackets, ReplyPackets, ReadPackets, ProxyPackets,
     SaysPackets, GarblesPackets, ArrivePackets, PeerPackets DEF StreamNext, Waiting

\* It is the beginning of it.
LEMMA HandledPrefix == PacketsInv => PacketsRight
<1> SUFFICES ASSUME PacketsInv, reply # "name" PROVE IsPrefix(handled, said)
  BY DEF PacketsRight
<1>1. /\ handled \in Seq(Nat) /\ said \in Seq(PacketLengths) /\ Len(handled) <= Len(said)
      /\ \A i \in 1 .. Len(handled) : handled[i] = said[i]
  BY DEF PacketsInv, BytesInv, HandledInv
<1>2. Len(handled) \in Nat /\ Len(said) \in Nat
  BY <1>1, LenProperties
<1> DEFINE s == SubSeq(said, 1, Len(handled))
<1>3. s \in Seq(PacketLengths) /\ Len(s) = Len(handled) /\ \A i \in 1 .. Len(handled) : s[i] = said[i]
  BY <1>1, <1>2
<1> HIDE DEF s
<1>4. \A i \in 1 .. Len(s) : s[i] = handled[i]
  BY <1>1, <1>3
<1>5. s = handled
  BY <1>1, <1>3, <1>4, SeqEqual
<1> QED
  BY <1>1, <1>5 DEF IsPrefix, s

-----------------------------------------------------------------------------
(* CONNECT *)

\* The largest of a few numbers.
LEMMA LargestField ==
  ASSUME NEW S \in SUBSET (1 .. 16), S # {}
  PROVE  Max(S) \in S /\ \A y \in S : Max(S) >= y
<1>1. \E x \in S : \A y \in S : x >= y
  <2> DEFINE Above(k) == \A y \in S : k >= y
  <2>1. Above(16) /\ ~Above(0)
    <3>1. PICK z : z \in S
      OBVIOUS
    <3>2. z \in 1 .. 16
      BY <3>1
    <3> QED
      BY <3>1, <3>2
  <2>2. ASSUME NEW k \in 1 .. 16, Above(k), k \notin S PROVE Above(k - 1)
    BY <2>2
  <2>3. ASSUME NEW k \in 1 .. 16, Above(k), k \in S PROVE \E x \in S : \A y \in S : x >= y
    BY <2>3
  <2> HIDE DEF Above
  <2> QED
    BY <2>1, <2>2, <2>3
<1> QED
  BY <1>1 DEF Max

\* The sum of a few numbers,
Quarter(x, i) == x[i + 1] + x[i + 2] + x[i + 3] + x[i + 4]
Total(x) == Quarter(x, 0) + Quarter(x, 4) + Quarter(x, 8) + Quarter(x, 12)

\* one of which may be more,
LEMMA QuarterMore ==
  ASSUME NEW x \in [1 .. 16 -> Nat], NEW y \in [1 .. 16 -> Nat], NEW m \in 1 .. 16, NEW e \in Nat,
         x[m] = y[m] + e, \A k \in 1 .. 16 : k # m => x[k] = y[k], NEW i \in 0 .. 12
  PROVE  /\ Quarter(x, i) \in Nat /\ Quarter(y, i) \in Nat
         /\ m - i \in 1 .. 4 => Quarter(x, i) = Quarter(y, i) + e
         /\ m - i \notin 1 .. 4 => Quarter(x, i) = Quarter(y, i)
<1> DEFINE a == x[i + 1]
<1> DEFINE b == x[i + 2]
<1> DEFINE c == x[i + 3]
<1> DEFINE d == x[i + 4]
<1> DEFINE aa == y[i + 1]
<1> DEFINE bb == y[i + 2]
<1> DEFINE cc == y[i + 3]
<1> DEFINE dd == y[i + 4]
<1>1. {i + 1, i + 2, i + 3, i + 4} \subseteq 1 .. 16
  OBVIOUS
<1>2. /\ a \in Nat /\ b \in Nat /\ c \in Nat /\ d \in Nat
      /\ aa \in Nat /\ bb \in Nat /\ cc \in Nat /\ dd \in Nat
  BY <1>1
<1>3. /\ m = i + 1 => a = aa + e
      /\ m = i + 2 => b = bb + e
      /\ m = i + 3 => c = cc + e
      /\ m = i + 4 => d = dd + e
      /\ m # i + 1 => a = aa
      /\ m # i + 2 => b = bb
      /\ m # i + 3 => c = cc
      /\ m # i + 4 => d = dd
  BY <1>1
<1>4. Quarter(x, i) = a + b + c + d /\ Quarter(y, i) = aa + bb + cc + dd
  BY DEF Quarter
<1> HIDE DEF a, b, c, d, aa, bb, cc, dd
<1>5. Quarter(x, i) \in Nat /\ Quarter(y, i) \in Nat
  BY <1>2, <1>4
<1>6. CASE m = i + 1
  BY <1>2, <1>3, <1>4, <1>5, <1>6
<1>7. CASE m = i + 2
  BY <1>2, <1>3, <1>4, <1>5, <1>7
<1>8. CASE m = i + 3
  BY <1>2, <1>3, <1>4, <1>5, <1>8
<1>9. CASE m = i + 4
  BY <1>2, <1>3, <1>4, <1>5, <1>9
<1>10. CASE m - i \notin 1 .. 4
  BY <1>2, <1>3, <1>4, <1>5, <1>10
<1>11. m = i + 1 \/ m = i + 2 \/ m = i + 3 \/ m = i + 4 \/ m - i \notin 1 .. 4
  OBVIOUS
<1> QED
  BY <1>6, <1>7, <1>8, <1>9, <1>10, <1>11

\* and with it the whole sum,
LEMMA TotalMore ==
  ASSUME NEW x \in [1 .. 16 -> Nat], NEW y \in [1 .. 16 -> Nat], NEW m \in 1 .. 16, NEW e \in Nat,
         x[m] = y[m] + e, \A k \in 1 .. 16 : k # m => x[k] = y[k]
  PROVE  Total(x) = Total(y) + e
<1>1. ASSUME NEW i \in 0 .. 12
      PROVE  /\ Quarter(x, i) \in Nat /\ Quarter(y, i) \in Nat
             /\ m - i \in 1 .. 4 => Quarter(x, i) = Quarter(y, i) + e
             /\ m - i \notin 1 .. 4 => Quarter(x, i) = Quarter(y, i)
  BY QuarterMore
<1>2. CASE m \in 1 .. 4
  BY <1>1, <1>2 DEF Total
<1>3. CASE m \in 5 .. 8
  BY <1>1, <1>3 DEF Total
<1>4. CASE m \in 9 .. 12
  BY <1>1, <1>4 DEF Total
<1>5. CASE m \in 13 .. 16
  BY <1>1, <1>5 DEF Total
<1>6. m \in 1 .. 4 \/ m \in 5 .. 8 \/ m \in 9 .. 12 \/ m \in 13 .. 16
  OBVIOUS
<1> QED
  BY <1>2, <1>3, <1>4, <1>5, <1>6

\* and step by step.
LEMMA TotalSteps ==
  ASSUME NEW x \in [1 .. 16 -> Nat], NEW q, q[0] = 0,
         \A k \in 1 .. 16 : q[k - 1] \in Nat => q[k] = q[k - 1] + x[k]
  PROVE  q[16] = Total(x)
<1>1. \A k \in 1 .. 16 : x[k] \in Nat
  OBVIOUS
<1>2. ASSUME NEW k \in 0 .. 15, q[k] \in Nat PROVE q[k + 1] = q[k] + x[k + 1] /\ q[k + 1] \in Nat
  <2>1. k + 1 \in 1 .. 16 /\ (k + 1) - 1 = k
    OBVIOUS
  <2>2. q[k + 1] = q[k] + x[k + 1]
    BY <1>2, <2>1
  <2> QED
    BY <1>1, <1>2, <2>1, <2>2
<1>3. ASSUME NEW i \in 0 .. 12, q[i] \in Nat
      PROVE  q[i + 4] \in Nat /\ q[i + 4] = q[i] + Quarter(x, i) /\ Quarter(x, i) \in Nat
  <2>1. q[i + 1] = q[i] + x[i + 1] /\ q[i + 1] \in Nat
    BY <1>2, <1>3
  <2>2. q[i + 2] = q[i + 1] + x[i + 2] /\ q[i + 2] \in Nat
    <3>1. i + 1 \in 0 .. 15 /\ (i + 1) + 1 = i + 2
      OBVIOUS
    <3> QED
      BY <1>2, <2>1, <3>1
  <2>3. q[i + 3] = q[i + 2] + x[i + 3] /\ q[i + 3] \in Nat
    <3>1. i + 2 \in 0 .. 15 /\ (i + 2) + 1 = i + 3
      OBVIOUS
    <3> QED
      BY <1>2, <2>2, <3>1
  <2>4. q[i + 4] = q[i + 3] + x[i + 4] /\ q[i + 4] \in Nat
    <3>1. i + 3 \in 0 .. 15 /\ (i + 3) + 1 = i + 4
      OBVIOUS
    <3> QED
      BY <1>2, <2>3, <3>1
  <2>5. x[i + 1] \in Nat /\ x[i + 2] \in Nat /\ x[i + 3] \in Nat /\ x[i + 4] \in Nat
    BY <1>1
  <2> QED
    BY <1>3, <2>1, <2>2, <2>3, <2>4, <2>5 DEF Quarter
<1>4. q[4] \in Nat /\ q[4] = Quarter(x, 0) /\ Quarter(x, 0) \in Nat
  <2>1. q[0] \in Nat /\ 0 \in 0 .. 12 /\ 0 + 4 = 4
    OBVIOUS
  <2> QED
    BY <1>3, <2>1
<1>5. q[8] \in Nat /\ q[8] = q[4] + Quarter(x, 4) /\ Quarter(x, 4) \in Nat
  BY <1>3, <1>4
<1>6. q[12] \in Nat /\ q[12] = q[8] + Quarter(x, 8) /\ Quarter(x, 8) \in Nat
  BY <1>3, <1>5
<1>7. q[16] \in Nat /\ q[16] = q[12] + Quarter(x, 12) /\ Quarter(x, 12) \in Nat
  BY <1>3, <1>6
<1> QED
  BY <1>4, <1>5, <1>6, <1>7 DEF Total

\* The fields of a packet.
FieldKinds == {"byte", "uint16", "varint", "string", "properties", "payload"}
FieldSet == {field \in [kind : FieldKinds, n : Nat] : field.kind = "varint" => field.n <= MaxVarint}

\* What is copied of a text is all of it if its length fits into 16 bits, and less if not.
LEMMA CarriedLess ==
  ASSUME NEW n \in Nat
  PROVE  Carried(n) \in Nat /\ Carried(n) <= n /\ (Carried(n) = n <=> In16Bits(n))
BY DEF Carried, In16Bits

\* Each has so many bytes,
LEMMA FieldBytes ==
  ASSUME NEW field \in FieldSet
  PROVE  Bytes(field) \in Nat
<1>1. field.kind \in FieldKinds /\ field.n \in Nat
  BY DEF FieldSet
<1>2. CASE field.kind = "varint"
  <2>1. field.n <= MaxVarint
    BY <1>2 DEF FieldSet
  <2>2. packet__write_varint(field.n) \in Seq(Nat)
    BY <1>1, <2>1, VarintWritten, VarintBytes
  <2>3. Len(packet__write_varint(field.n)) \in Nat
    BY <2>2, LenProperties
  <2>4. Bytes(field) = Len(packet__write_varint(field.n))
    BY <1>2, Zenon DEF Bytes
  <2> QED
    BY <2>3, <2>4
<1>3. CASE field.kind # "varint"
  <2>1. Carried(field.n) \in Nat
    BY <1>1, CarriedLess
  <2> QED
    BY <1>1, <1>3, <2>1 DEF Bytes, FieldKinds
<1> QED
  BY <1>2, <1>3

\* The bytes of the fields, each at its place.
Weights(s) == [k \in 1 .. 16 |-> IF k <= Len(s) THEN Bytes(s[k]) ELSE 0]

\* and they add up.
LEMMA FilledSum ==
  ASSUME NEW s \in Seq(FieldSet), Len(s) <= 16
  PROVE  Weights(s) \in [1 .. 16 -> Nat] /\ Filled(s) = Total(Weights(s))
<1> DEFINE n == Len(s)
<1> DEFINE v == Weights(s)
<1>1. n \in 0 .. 16 /\ DOMAIN s = 1 .. n /\ \A k \in 1 .. n : s[k] \in FieldSet
  <2>1. n \in Nat /\ DOMAIN s = 1 .. n
    BY LenProperties
  <2>2. s \in [1 .. n -> FieldSet]
    BY LenProperties
  <2>3. \A k \in 1 .. n : s[k] \in FieldSet
    <3> HIDE DEF n
    <3> QED
      BY <2>2
  <2>4. n <= 16
    OBVIOUS
  <2>5. n \in 0 .. 16
    <3> HIDE DEF n
    <3> QED
      BY <2>1, <2>4
  <2> QED
    BY <2>1, <2>3, <2>5
<1>2. v \in [1 .. 16 -> Nat]
  BY <1>1, FieldBytes DEF Weights
<1>3. \A k \in 1 .. 16 : /\ k <= n => v[k] = Bytes(s[k])
                         /\ k > n => v[k] = 0
  <2>1. v = [k \in 1 .. 16 |-> IF k <= n THEN Bytes(s[k]) ELSE 0]
    BY DEF Weights
  <2> HIDE DEF n, v
  <2> QED
    BY <1>1, <2>1
<1> HIDE DEF v, n
<1> DEFINE In(S) == [k \in 1 .. 16 |-> IF k \in S THEN v[k] ELSE 0]
<1> DEFINE All(S) == Total(In(S))
<1> DEFINE One(f, S) == f[S \ {Max(S)}] + Bytes(s[Max(S)])
<1> DEFINE F(f) == f = [S \in SUBSET (1 .. n) |-> IF S = {} THEN 0 ELSE One(f, S)]
<1> DEFINE g == [S \in SUBSET (1 .. n) |-> All(S)]
<1>4. F(g)
  <2>1. ASSUME NEW S \in SUBSET (1 .. n) PROVE All(S) = IF S = {} THEN 0 ELSE One(g, S)
    <3>1. CASE S = {}
      <4>1. \A k \in 1 .. 16 : In(S)[k] = 0
        BY <3>1
      <4> HIDE DEF In
      <4> QED
        BY <3>1, <4>1 DEF Total, Quarter
    <3>2. CASE S # {}
      <4> DEFINE m == Max(S)
      <4> DEFINE T == S \ {m}
      <4>1. S \in SUBSET (1 .. 16)
        BY <1>1
      <4>2. m \in S /\ \A y \in S : m >= y
        BY <3>2, <4>1, LargestField
      <4> HIDE DEF m
      <4>3. g[T] = All(T)
        OBVIOUS
      <4>4. m \in 1 .. 16 /\ v[m] = Bytes(s[m]) /\ v[m] \in Nat
        <5>1. m \in 1 .. n
          BY <4>2
        <5>2. m \in 1 .. 16 /\ m <= n
          BY <1>1, <5>1
        <5>3. v[m] = Bytes(s[m])
          BY <1>3, <5>2
        <5> QED
          BY <1>2, <5>2, <5>3
      <4>5. m \in S /\ m \notin T /\ \A k \in 1 .. 16 : k # m => (k \in S <=> k \in T)
        BY <4>2
      <4> HIDE DEF T, g
      <4> DEFINE x == In(S)
      <4> DEFINE y == In(T)
      <4>6. x \in [1 .. 16 -> Nat] /\ y \in [1 .. 16 -> Nat]
        BY <1>2
      <4>7. x[m] = y[m] + v[m] /\ \A k \in 1 .. 16 : k # m => x[k] = y[k]
        <5>1. x[m] = v[m] /\ y[m] = 0
          BY <4>4, <4>5
        <5>2. \A k \in 1 .. 16 : k # m => x[k] = y[k]
          BY <4>5
        <5> HIDE DEF x, y
        <5> QED
          BY <4>4, <5>1, <5>2
      <4>8. All(S) = Total(x) /\ All(T) = Total(y)
        OBVIOUS
      <4> HIDE DEF x, y, All, In
      <4>9. Total(x) = Total(y) + v[m]
        BY <4>4, <4>6, <4>7, TotalMore
      <4> QED
        BY <3>2, <4>3, <4>4, <4>8, <4>9 DEF T, m
    <3> QED
      BY <3>1, <3>2
  <2> HIDE DEF All, One
  <2> DEFINE h == [S \in SUBSET (1 .. n) |-> IF S = {} THEN 0 ELSE One(g, S)]
  <2>2. /\ g = [S \in SUBSET (1 .. n) |-> g[S]] /\ h = [S \in SUBSET (1 .. n) |-> h[S]]
        /\ \A S \in SUBSET (1 .. n) : g[S] = h[S]
    BY <2>1
  <2>3. (g = h) => F(g)
    OBVIOUS
  <2> HIDE DEF g, h, F
  <2>4. g = h
    BY <2>2
  <2> QED
    BY <2>3, <2>4
<1> DEFINE b == CHOOSE f : F(f)
<1>5. F(b)
  BY <1>4
<1>6. Filled(s) = b[1 .. n]
  BY <1>1 DEF Filled, FoldLeft, MapThenFoldSet
<1> HIDE DEF b, g
<1>7. \A S \in SUBSET (1 .. n) : /\ S = {} => b[S] = 0
                                 /\ S # {} => b[S] = b[S \ {Max(S)}] + Bytes(s[Max(S)])
  BY <1>5, ZenonT(60) DEF F, One
<1> HIDE DEF F, One
<1>8. ASSUME NEW k \in 1 .. n PROVE b[1 .. k] = b[1 .. k - 1] + v[k]
  <2> DEFINE U == 1 .. k
  <2>1. U \in SUBSET (1 .. 16) /\ U \in SUBSET (1 .. n) /\ k \in U /\ \A y \in U : k >= y
    BY <1>1
  <2>2. U \ {k} = 1 .. k - 1
    BY <1>1
  <2> HIDE DEF U
  <2>3. U # {}
    BY <2>1
  <2>4. Max(U) = k
    <3>1. Max(U) \in U /\ Max(U) >= k
      BY <2>1, <2>3, LargestField
    <3>2. k >= Max(U) /\ Max(U) \in 1 .. 16 /\ k \in 1 .. 16
      BY <2>1, <3>1
    <3> QED
      BY <3>1, <3>2
  <2>5. b[U] = b[U \ {Max(U)}] + Bytes(s[Max(U)])
    BY <1>7, <2>1, <2>3
  <2>6. v[k] = Bytes(s[k])
    BY <1>1, <1>3
  <2> QED
    BY <2>2, <2>4, <2>5, <2>6 DEF U
<1>9. b[1 .. 0] = 0
  <2>1. 1 .. 0 = {} /\ {} \in SUBSET (1 .. n)
    OBVIOUS
  <2> QED
    BY <1>7, <2>1
<1> DEFINE q == [k \in 0 .. 16 |-> IF k <= n THEN b[1 .. k] ELSE b[1 .. n]]
<1>10. q[0] = 0 /\ q[16] = b[1 .. n]
  <2>1. q[0] = b[1 .. 0]
    BY <1>1
  <2>2. q[16] = IF 16 <= n THEN b[1 .. 16] ELSE b[1 .. n]
    OBVIOUS
  <2>3. 16 <= n => n = 16
    BY <1>1
  <2> QED
    BY <1>9, <2>1, <2>2, <2>3
<1>11. ASSUME NEW k \in 1 .. 16, q[k - 1] \in Nat PROVE q[k] = q[k - 1] + v[k]
  <2>1. CASE k <= n
    <3>1. k \in 1 .. n /\ q[k] = b[1 .. k] /\ q[k - 1] = b[1 .. k - 1]
      <4>1. k \in 1 .. n /\ k \in 0 .. 16 /\ k - 1 \in 0 .. 16 /\ k - 1 <= n
        BY <1>1, <2>1
      <4> QED
        BY <2>1, <4>1, Zenon
    <3> QED
      BY <1>8, <3>1
  <2>2. CASE k > n
    <3>1. q[k] = b[1 .. n] /\ q[k - 1] = b[1 .. n]
      <4>1. k \in 0 .. 16 /\ k - 1 \in 0 .. 16 /\ ~(k <= n) /\ (k - 1 <= n => k - 1 = n)
        BY <1>1, <2>2
      <4>2. q[k] = b[1 .. n]
        BY <4>1, Zenon
      <4>3. q[k - 1] = IF k - 1 <= n THEN b[1 .. k - 1] ELSE b[1 .. n]
        BY <4>1, Zenon
      <4> QED
        BY <4>1, <4>2, <4>3, Zenon
    <3>2. v[k] = 0
      BY <1>3, <2>2
    <3> HIDE DEF q
    <3> QED
      BY <1>11, <3>1, <3>2
  <2> QED
    BY <1>1, <2>1, <2>2
<1> HIDE DEF q
<1>12. q[16] = Total(v)
  BY <1>2, <1>10, <1>11, TotalSteps
<1> QED
  BY <1>2, <1>6, <1>10, <1>12 DEF n, v

\* One field more.
LEMMA FilledMore ==
  ASSUME NEW s \in Seq(FieldSet), Len(s) <= 15, NEW a \in FieldSet
  PROVE  Filled(s \o <<a>>) = Filled(s) + Bytes(a)
<1> DEFINE t == s \o <<a>>
<1> DEFINE n == Len(s)
<1>1. /\ t \in Seq(FieldSet) /\ n \in 0 .. 15 /\ Len(t) = n + 1 /\ t[n + 1] = a
      /\ \A k \in 1 .. n : t[k] = s[k]
  <2> DEFINE h == <<a>>
  <2>1. h \in Seq(FieldSet) /\ Len(h) = 1 /\ h[1] = a
    OBVIOUS
  <2>2. n \in Nat
    BY LenProperties
  <2> HIDE DEF h
  <2>3. /\ s \o h \in Seq(FieldSet) /\ Len(s \o h) = Len(s) + Len(h)
        /\ \A i \in 1 .. Len(s) : (s \o h)[i] = s[i]
        /\ \A i \in 1 .. Len(h) : (s \o h)[i + Len(s)] = h[i]
    <3>1. s \in Seq(FieldSet) /\ h \in Seq(FieldSet)
      BY <2>1
    <3> HIDE DEF n
    <3> QED
      BY <3>1, Cat
  <2>4. t = s \o h
    BY DEF h
  <2> HIDE DEF t
  <2>5. t[1 + n] = a
    BY <2>1, <2>3, <2>4
  <2>6. n <= 15
    OBVIOUS
  <2> HIDE DEF n
  <2>7. 1 + n = n + 1 /\ n \in 0 .. 15
    BY <2>2, <2>6
  <2> QED
    BY <2>1, <2>3, <2>4, <2>5, <2>7 DEF n
<1>2. Bytes(a) \in Nat
  BY FieldBytes
<1> HIDE DEF t
<1> DEFINE x == Weights(t)
<1> DEFINE y == Weights(s)
<1>3. x \in [1 .. 16 -> Nat] /\ Filled(t) = Total(x)
  BY <1>1, FilledSum
<1>4. y \in [1 .. 16 -> Nat] /\ Filled(s) = Total(y)
  BY <1>1, FilledSum
<1>5. x[n + 1] = Bytes(a) /\ y[n + 1] = 0
  <2>1. n + 1 \in 1 .. 16 /\ n + 1 <= Len(t) /\ ~(n + 1 <= Len(s))
    BY <1>1
  <2>2. x[n + 1] = Bytes(t[n + 1])
    BY <2>1, Zenon DEF Weights
  <2>3. y[n + 1] = 0
    BY <2>1, Zenon DEF Weights
  <2> QED
    BY <1>1, <2>2, <2>3
<1>6. \A k \in 1 .. 16 : k # n + 1 => x[k] = y[k]
  <2> SUFFICES ASSUME NEW k \in 1 .. 16, k # n + 1 PROVE x[k] = y[k]
    OBVIOUS
  <2>1. CASE k <= n
    <3>1. t[k] = s[k] /\ k <= Len(t) /\ k <= Len(s)
      BY <1>1, <2>1
    <3> QED
      BY <3>1 DEF Weights
  <2>2. CASE ~(k <= n)
    <3>1. ~(k <= Len(t)) /\ ~(k <= Len(s))
      BY <1>1, <2>2
    <3> QED
      BY <3>1 DEF Weights
  <2> QED
    BY <2>1, <2>2
<1>7. n + 1 \in 1 .. 16
  BY <1>1
<1> HIDE DEF x, y, n
<1>8. Total(x) = Total(y) + Bytes(a)
  <2>1. x[n + 1] = y[n + 1] + Bytes(a)
    BY <1>2, <1>5
  <2> QED
    BY <1>2, <1>3, <1>4, <1>6, <1>7, <2>1, TotalMore
<1> QED
  BY <1>3, <1>4, <1>8 DEF t

\* No field.
LEMMA FilledNone == Filled(<<>>) = 0
<1>1. <<>> \in Seq(FieldSet) /\ Len(<<>>) = 0
  OBVIOUS
<1>2. Weights(<<>>) = [k \in 1 .. 16 |-> 0]
  BY <1>1 DEF Weights
<1>3. Filled(<<>>) = Total(Weights(<<>>))
  <2> DEFINE e == <<>>
  <2>1. e \in Seq(FieldSet) /\ Len(e) <= 16
    BY <1>1
  <2> HIDE DEF e
  <2>2. Filled(e) = Total(Weights(e))
    BY <2>1, FilledSum
  <2> QED
    BY <2>2 DEF e
<1> QED
  <2>1. \A k \in 1 .. 16 : Weights(<<>>)[k] = 0
    BY <1>2
  <2>2. Total(Weights(<<>>)) = 0
    BY <2>1 DEF Total, Quarter
  <2> QED
    BY <1>3, <2>2

\* s is the beginning of a CONNECT with the options o: its fields have b bytes, and behind the
\* header they are of the kinds k.
KindsOf(s) == [i \in 1 .. Len(s) - 4 |-> s[i + 4].kind]
Grown(s, o, b, k, m) ==
  /\ s \in Seq(FieldSet) /\ Len(s) \in 4 .. m /\ s[2].n = o.protocol /\ s[3].n = Flags(o)
  /\ Filled(s) = b /\ KindsOf(s) = k /\ k \in Seq(FieldKinds)

\* One field more,
LEMMA GrownOne ==
  ASSUME NEW s, NEW o, NEW b \in Nat, NEW k, NEW m \in 4 .. 15, Grown(s, o, b, k, m),
         NEW a \in FieldSet
  PROVE  Grown(s \o <<a>>, o, b + Bytes(a), k \o <<a.kind>>, m + 1)
<1> DEFINE t == s \o <<a>>
<1> DEFINE h == <<a>>
<1> DEFINE c == <<a.kind>>
<1> DEFINE l == Len(s)
<1>1. s \in Seq(FieldSet) /\ l \in 4 .. m /\ k \in Seq(FieldKinds) /\ k = KindsOf(s)
  BY DEF Grown
<1>2. h \in Seq(FieldSet) /\ Len(h) = 1 /\ h[1] = a
  OBVIOUS
<1>3. c \in Seq(FieldKinds) /\ Len(c) = 1 /\ c[1] = a.kind
  BY DEF FieldSet
<1>4. t = s \o h
  OBVIOUS
<1> HIDE DEF t, h
<1>5. /\ t \in Seq(FieldSet) /\ Len(t) = l + 1
      /\ \A i \in 1 .. l : t[i] = s[i]
      /\ t[1 + l] = a
  <2>1. s \in Seq(FieldSet) /\ h \in Seq(FieldSet)
    BY <1>1, <1>2
  <2>2. /\ s \o h \in Seq(FieldSet) /\ Len(s \o h) = Len(s) + Len(h)
        /\ \A i \in 1 .. Len(s) : (s \o h)[i] = s[i]
        /\ \A i \in 1 .. Len(h) : (s \o h)[i + Len(s)] = h[i]
    BY <2>1, Cat
  <2> QED
    BY <1>2, <1>4, <2>2
<1>6. Filled(t) = b + Bytes(a)
  <2>1. Len(s) <= 15
    BY <1>1
  <2>2. Filled(s \o <<a>>) = Filled(s) + Bytes(a)
    BY <1>1, <2>1, FilledMore
  <2> QED
    BY <2>2 DEF Grown, t
<1> DEFINE e == k \o c
<1>8. /\ e \in Seq(FieldKinds) /\ Len(e) = Len(k) + 1
      /\ \A i \in 1 .. Len(k) : e[i] = k[i]
      /\ e[1 + Len(k)] = a.kind
  <2> HIDE DEF c
  <2>1. k \in Seq(FieldKinds) /\ c \in Seq(FieldKinds)
    BY <1>1, <1>3
  <2>2. /\ k \o c \in Seq(FieldKinds) /\ Len(k \o c) = Len(k) + Len(c)
        /\ \A i \in 1 .. Len(k) : (k \o c)[i] = k[i]
        /\ \A i \in 1 .. Len(c) : (k \o c)[i + Len(k)] = c[i]
    BY <2>1, Cat
  <2> QED
    BY <1>3, <2>2
<1> HIDE DEF l
<1>9. Len(k) = l - 4 /\ \A i \in 1 .. l - 4 : k[i] = s[i + 4].kind
  <2>1. k = [i \in 1 .. l - 4 |-> s[i + 4].kind] /\ l - 4 \in Nat
    BY <1>1 DEF KindsOf, l
  <2>2. k \in Seq(FieldKinds) /\ DOMAIN k = 1 .. l - 4
    BY <1>1, <2>1
  <2>3. Len(k) \in Nat /\ DOMAIN k = 1 .. Len(k)
    BY <2>2, LenProperties
  <2>4. Len(k) = l - 4
    BY <2>1, <2>2, <2>3
  <2> QED
    BY <2>1, <2>4
<1> DEFINE f == KindsOf(t)
<1>10. f = [i \in 1 .. (l + 1) - 4 |-> t[i + 4].kind]
  BY <1>5 DEF KindsOf
<1>11. f \in Seq(FieldKinds) /\ Len(f) = l - 3 /\ \A i \in 1 .. l - 3 : f[i] = t[i + 4].kind
  <2>1. l - 3 \in Nat /\ (l + 1) - 4 = l - 3
    BY <1>1
  <2>2. f = [i \in 1 .. l - 3 |-> t[i + 4].kind]
    BY <1>10, <2>1
  <2> HIDE DEF f
  <2>3. \A i \in 1 .. l - 3 : t[i + 4].kind \in FieldKinds
    <3> SUFFICES ASSUME NEW i \in 1 .. l - 3 PROVE t[i + 4].kind \in FieldKinds
      OBVIOUS
    <3>1. i + 4 \in 1 .. Len(t)
      BY <1>1, <1>5
    <3>2. t[i + 4] \in FieldSet
      BY <1>5, <3>1
    <3> QED
      BY <3>2 DEF FieldSet
  <2>4. f \in [1 .. l - 3 -> FieldKinds]
    BY <2>2, <2>3
  <2>5. f \in Seq(FieldKinds) /\ Len(f) = l - 3
    BY <2>1, <2>4
  <2> QED
    BY <2>2, <2>5
<1> HIDE DEF e, f
<1>12. f = e
  <2>1. Len(e) = l - 3
    BY <1>1, <1>8, <1>9
  <2>2. ASSUME NEW i \in 1 .. l - 3 PROVE f[i] = e[i]
    <3>1. CASE i = l - 3
      <4>1. i + 4 = 1 + l /\ i = 1 + Len(k)
        BY <1>1, <1>9, <3>1
      <4> QED
        BY <1>5, <1>8, <1>11, <4>1
    <3>2. CASE i # l - 3
      <4>1. i \in 1 .. l - 4 /\ i + 4 \in 1 .. l
        BY <1>1, <3>2
      <4> QED
        BY <1>5, <1>8, <1>9, <1>11, <4>1
    <3> QED
      BY <3>1, <3>2
  <2> QED
    BY <1>8, <1>11, <2>1, <2>2, SeqEqual
<1>13. t[2].n = o.protocol /\ t[3].n = Flags(o)
  <2>1. s[2].n = o.protocol /\ s[3].n = Flags(o)
    BY DEF Grown
  <2>2. 2 \in 1 .. l /\ 3 \in 1 .. l
    BY <1>1
  <2> QED
    BY <1>5, <2>1, <2>2
<1>14. Len(t) \in 4 .. m + 1
  BY <1>1, <1>5
<1>15. Grown(t, o, b + Bytes(a), e, m + 1)
  BY <1>5, <1>6, <1>8, <1>12, <1>13, <1>14 DEF Grown, f
<1> QED
  BY <1>15 DEF t, e

\* Two elements behind a sequence.
LEMMA TwoBehind ==
  ASSUME NEW S, NEW s \in Seq(S), NEW a \in S, NEW c \in S
  PROVE  (s \o <<a>>) \o <<c>> = s \o <<a, c>>
<1> DEFINE h == <<a>>
<1> DEFINE g == <<c>>
<1> DEFINE f == <<a, c>>
<1>1. /\ h \in Seq(S) /\ g \in Seq(S) /\ f \in Seq(S)
      /\ Len(h) = 1 /\ Len(g) = 1 /\ Len(f) = 2
      /\ h[1] = a /\ g[1] = c /\ f[1] = a /\ f[2] = c
  OBVIOUS
<1> DEFINE n == Len(s)
<1>2. n \in Nat
  BY LenProperties
<1> HIDE DEF h, g, f
<1> DEFINE t == s \o h
<1>3. /\ t \in Seq(S) /\ Len(t) = n + 1
      /\ \A i \in 1 .. n : t[i] = s[i]
      /\ t[1 + n] = a
  <2>1. /\ s \o h \in Seq(S) /\ Len(s \o h) = Len(s) + Len(h)
        /\ \A i \in 1 .. Len(s) : (s \o h)[i] = s[i]
        /\ \A i \in 1 .. Len(h) : (s \o h)[i + Len(s)] = h[i]
    <3>1. s \in Seq(S) /\ h \in Seq(S)
      BY <1>1
    <3> QED
      BY <3>1, Cat
  <2> QED
    BY <1>1, <2>1
<1> DEFINE v == s \o f
<1>4. /\ v \in Seq(S) /\ Len(v) = n + 2
      /\ \A i \in 1 .. n : v[i] = s[i]
      /\ v[1 + n] = a /\ v[2 + n] = c
  <2>1. /\ s \o f \in Seq(S) /\ Len(s \o f) = Len(s) + Len(f)
        /\ \A i \in 1 .. Len(s) : (s \o f)[i] = s[i]
        /\ \A i \in 1 .. Len(f) : (s \o f)[i + Len(s)] = f[i]
    <3>1. s \in Seq(S) /\ f \in Seq(S)
      BY <1>1
    <3> QED
      BY <3>1, Cat
  <2> QED
    BY <1>1, <2>1
<1> HIDE DEF t, v
<1> DEFINE u == t \o g
<1>5. /\ u \in Seq(S) /\ Len(u) = Len(t) + 1
      /\ \A i \in 1 .. Len(t) : u[i] = t[i]
      /\ u[1 + Len(t)] = c
  <2>1. /\ t \o g \in Seq(S) /\ Len(t \o g) = Len(t) + Len(g)
        /\ \A i \in 1 .. Len(t) : (t \o g)[i] = t[i]
        /\ \A i \in 1 .. Len(g) : (t \o g)[i + Len(t)] = g[i]
    <3>1. t \in Seq(S) /\ g \in Seq(S)
      BY <1>1, <1>3
    <3> QED
      BY <3>1, Cat
  <2> QED
    BY <1>1, <2>1
<1> HIDE DEF n, u
<1>6. Len(u) = n + 2
  BY <1>2, <1>3, <1>5
<1>7. ASSUME NEW i \in 1 .. n + 2 PROVE u[i] = v[i]
  <2>1. CASE i \in 1 .. n
    BY <1>2, <1>3, <1>4, <1>5, <2>1
  <2>2. CASE i = 1 + n
    BY <1>2, <1>3, <1>4, <1>5, <2>2
  <2>3. CASE i = 2 + n
    <3>1. 1 + Len(t) = 2 + n
      BY <1>2, <1>3
    <3> QED
      BY <1>4, <1>5, <2>3, <3>1
  <2> QED
    BY <1>2, <2>1, <2>2, <2>3
<1>8. u = v
  BY <1>4, <1>5, <1>6, <1>7, SeqEqual
<1> QED
  BY <1>8 DEF u, t, v, h, g, f

\* two,
LEMMA GrownTwo ==
  ASSUME NEW s, NEW o, NEW b \in Nat, NEW k, NEW m \in 4 .. 14, Grown(s, o, b, k, m),
         NEW a \in FieldSet, NEW c \in FieldSet
  PROVE  Grown(s \o <<a, c>>, o, b + Bytes(a) + Bytes(c), k \o <<a.kind, c.kind>>, m + 2)
<1>1. Bytes(a) \in Nat /\ Bytes(c) \in Nat
  BY FieldBytes
<1>2. Grown(s \o <<a>>, o, b + Bytes(a), k \o <<a.kind>>, m + 1)
  BY GrownOne
<1>3. b + Bytes(a) \in Nat /\ m + 1 \in 4 .. 15 /\ (m + 1) + 1 = m + 2
  BY <1>1
<1>4. Grown((s \o <<a>>) \o <<c>>, o, (b + Bytes(a)) + Bytes(c), (k \o <<a.kind>>) \o <<c.kind>>, m + 2)
  <2> DEFINE t == s \o <<a>>
  <2> DEFINE e == k \o <<a.kind>>
  <2> DEFINE d == b + Bytes(a)
  <2>1. Grown(t, o, d, e, m + 1) /\ d \in Nat
    BY <1>2, <1>3
  <2> HIDE DEF t, e, d
  <2>2. Grown(t \o <<c>>, o, d + Bytes(c), e \o <<c.kind>>, (m + 1) + 1)
    BY <1>3, <2>1, GrownOne
  <2> QED
    BY <1>3, <2>2 DEF t, e, d
<1>5. (s \o <<a>>) \o <<c>> = s \o <<a, c>>
  <2>1. s \in Seq(FieldSet)
    BY DEF Grown
  <2> QED
    BY <2>1, TwoBehind
<1>6. (k \o <<a.kind>>) \o <<c.kind>> = k \o <<a.kind, c.kind>>
  <2>1. k \in Seq(FieldKinds)
    BY DEF Grown
  <2>2. a.kind \in FieldKinds /\ c.kind \in FieldKinds
    BY DEF FieldSet
  <2> QED
    BY <2>1, <2>2, TwoBehind
<1> QED
  BY <1>4, <1>5, <1>6

\* or none.
LEMMA GrownNone ==
  ASSUME NEW s, NEW o, NEW b \in Nat, NEW k, NEW m, Grown(s, o, b, k, m)
  PROVE  s \o <<>> = s /\ k \o <<>> = k
<1>1. s \in Seq(FieldSet) /\ k \in Seq(FieldKinds)
  BY DEF Grown
<1> QED
  BY <1>1

\* Two fields that are there or not,
LEMMA GrownPair ==
  ASSUME NEW s, NEW o, NEW b \in Nat, NEW k, NEW m \in 4 .. 14, Grown(s, o, b, k, m),
         NEW cond \in BOOLEAN, NEW a, NEW c, cond => a \in FieldSet /\ c \in FieldSet
  PROVE  /\ Grown(s \o If(cond, <<a, c>>), o, b + (IF cond THEN Bytes(a) + Bytes(c) ELSE 0),
                  k \o If(cond, <<a.kind, c.kind>>), m + 2)
         /\ b + (IF cond THEN Bytes(a) + Bytes(c) ELSE 0) \in Nat
<1>1. CASE cond
  <2>1. a \in FieldSet /\ c \in FieldSet /\ Bytes(a) \in Nat /\ Bytes(c) \in Nat
    BY <1>1, FieldBytes
  <2>2. Grown(s \o <<a, c>>, o, b + Bytes(a) + Bytes(c), k \o <<a.kind, c.kind>>, m + 2)
    BY <2>1, GrownTwo
  <2>3. b + Bytes(a) + Bytes(c) = b + (Bytes(a) + Bytes(c))
    BY <2>1
  <2>4. /\ If(cond, <<a, c>>) = <<a, c>> /\ If(cond, <<a.kind, c.kind>>) = <<a.kind, c.kind>>
        /\ (IF cond THEN Bytes(a) + Bytes(c) ELSE 0) = Bytes(a) + Bytes(c)
    BY <1>1, Zenon DEF If
  <2>5. b + (Bytes(a) + Bytes(c)) \in Nat
    BY <2>1
  <2> QED
    BY <2>2, <2>3, <2>4, <2>5, Zenon
<1>2. CASE ~cond
  <2>1. s \o <<>> = s /\ k \o <<>> = k
    BY GrownNone
  <2>2. /\ If(cond, <<a, c>>) = <<>> /\ If(cond, <<a.kind, c.kind>>) = <<>>
        /\ (IF cond THEN Bytes(a) + Bytes(c) ELSE 0) = 0
    BY <1>2, Zenon DEF If
  <2>3. b + 0 = b
    OBVIOUS
  <2>4. Grown(s, o, b, k, m + 2)
    <3>1. Len(s) \in 4 .. m => Len(s) \in 4 .. m + 2
      OBVIOUS
    <3> QED
      BY <3>1 DEF Grown
  <2> QED
    BY <2>1, <2>2, <2>3, <2>4, Zenon
<1> QED
  BY <1>1, <1>2

\* and one.
LEMMA GrownMaybe ==
  ASSUME NEW s, NEW o, NEW b \in Nat, NEW k, NEW m \in 4 .. 15, Grown(s, o, b, k, m),
         NEW cond \in BOOLEAN, NEW a, cond => a \in FieldSet
  PROVE  /\ Grown(s \o If(cond, <<a>>), o, b + (IF cond THEN Bytes(a) ELSE 0),
                  k \o If(cond, <<a.kind>>), m + 1)
         /\ b + (IF cond THEN Bytes(a) ELSE 0) \in Nat
<1>1. CASE cond
  <2>1. a \in FieldSet /\ Bytes(a) \in Nat
    BY <1>1, FieldBytes
  <2>2. Grown(s \o <<a>>, o, b + Bytes(a), k \o <<a.kind>>, m + 1)
    BY <2>1, GrownOne
  <2>3. /\ If(cond, <<a>>) = <<a>> /\ If(cond, <<a.kind>>) = <<a.kind>>
        /\ (IF cond THEN Bytes(a) ELSE 0) = Bytes(a)
    BY <1>1, Zenon DEF If
  <2>4. b + Bytes(a) \in Nat
    BY <2>1
  <2> QED
    BY <2>2, <2>3, <2>4, Zenon
<1>2. CASE ~cond
  <2>1. s \o <<>> = s /\ k \o <<>> = k
    BY GrownNone
  <2>2. /\ If(cond, <<a>>) = <<>> /\ If(cond, <<a.kind>>) = <<>>
        /\ (IF cond THEN Bytes(a) ELSE 0) = 0
    BY <1>2, Zenon DEF If
  <2>3. b + 0 = b
    OBVIOUS
  <2>4. Grown(s, o, b, k, m + 1)
    <3>1. Len(s) \in 4 .. m => Len(s) \in 4 .. m + 1
      OBVIOUS
    <3> QED
      BY <3>1 DEF Grown
  <2> QED
    BY <2>1, <2>2, <2>3, <2>4, Zenon
<1> QED
  BY <1>1, <1>2

\* The kinds of fields, and how long they are.
LEMMA FieldsMade ==
  ASSUME NEW n \in Nat
  PROVE  /\ Text(n) \in FieldSet /\ Bytes(Text(n)) = 2 + Carried(n) /\ Text(n).kind = "string"
         /\ Word(n) \in FieldSet /\ Bytes(Word(n)) = 2
         /\ Field("byte", n) \in FieldSet /\ Bytes(Field("byte", n)) = 1
         /\ Props(n) \in FieldSet /\ Bytes(Props(n)) = n /\ Props(n).kind = "properties"
         /\ n <= MaxVarint => /\ Field("varint", n) \in FieldSet
                              /\ Bytes(Field("varint", n)) = packet__varint_bytes(n)
                              /\ Field("varint", n).kind = "varint"
<1>1. /\ \A kind \in FieldKinds : Field(kind, n) \in [kind : FieldKinds, n : Nat]
      /\ \A kind \in FieldKinds : Field(kind, n).kind = kind /\ Field(kind, n).n = n
  BY DEF Field
<1>2. /\ "byte" \in FieldKinds /\ "uint16" \in FieldKinds /\ "varint" \in FieldKinds
      /\ "string" \in FieldKinds /\ "properties" \in FieldKinds
  BY DEF FieldKinds
<1>3. \A kind \in FieldKinds : (kind = "varint" => n <= MaxVarint) => Field(kind, n) \in FieldSet
  BY <1>1, Zenon DEF FieldSet
<1>4. /\ Bytes(Field("byte", n)) = 1 /\ Bytes(Field("uint16", n)) = 2
      /\ Bytes(Field("string", n)) = 2 + Carried(n) /\ Bytes(Field("properties", n)) = n
      /\ Bytes(Field("varint", n)) = Len(packet__write_varint(n))
  <2>1. /\ Field("byte", n).kind = "byte" /\ Field("uint16", n).kind = "uint16"
        /\ Field("string", n).kind = "string" /\ Field("properties", n).kind = "properties"
        /\ Field("varint", n).kind = "varint"
        /\ Field("string", n).n = n /\ Field("properties", n).n = n /\ Field("varint", n).n = n
    BY <1>1, <1>2
  <2> QED
    BY <2>1 DEF Bytes
<1>5. n <= MaxVarint => Len(packet__write_varint(n)) = packet__varint_bytes(n)
  BY VarintWritten, VarintBytes
<1>6. Text(n) = Field("string", n) /\ Word(n) = Field("uint16", n) /\ Props(n) = Field("properties", n)
  BY DEF Text, Word, Props
<1> QED
  BY <1>1, <1>2, <1>3, <1>4, <1>5, <1>6

\* The first four fields.
LEMMA HeaderGrown ==
  ASSUME NEW o, o.protocol \in {3, 4, 5}, Flags(o) \in Nat
  PROVE  Grown(<<ProtocolName(o.protocol), Field("byte", o.protocol), Field("byte", Flags(o)), Word(60)>>,
               o, IF o.protocol = 3 THEN 12 ELSE 10, <<>>, 4)
<1> DEFINE p == o.protocol
<1> DEFINE f == Flags(o)
<1> DEFINE a == ProtocolName(p)
<1> DEFINE b == Field("byte", p)
<1> DEFINE c == Field("byte", f)
<1> DEFINE d == Word(60)
<1>1. a \in FieldSet /\ Bytes(a) = (IF p = 3 THEN 8 ELSE 6)
  <2>0. Carried(6) = 6 /\ Carried(4) = 4
    BY SMT DEF Carried
  <2>a. 6 \in Nat /\ 4 \in Nat
    OBVIOUS
  <2>b. /\ Text(6) \in FieldSet /\ Bytes(Text(6)) = 2 + Carried(6)
        /\ Text(4) \in FieldSet /\ Bytes(Text(4)) = 2 + Carried(4)
    BY <2>a, FieldsMade
  <2>1. /\ Text(6) \in FieldSet /\ Bytes(Text(6)) = 2 + 6
        /\ Text(4) \in FieldSet /\ Bytes(Text(4)) = 2 + 4
    BY <2>0, <2>b
  <2> QED
    BY <2>1 DEF ProtocolName
<1>2. /\ b \in FieldSet /\ c \in FieldSet /\ d \in FieldSet
      /\ Bytes(b) = 1 /\ Bytes(c) = 1 /\ Bytes(d) = 2
  BY FieldsMade
<1>3. b.n = p /\ c.n = f
  BY DEF Field
<1> DEFINE s == <<a, b, c, d>>
<1> HIDE DEF a, b, c, d, p, f
<1>4. /\ s \in Seq(FieldSet) /\ Len(s) = 4
      /\ s[1] = a /\ s[2] = b /\ s[3] = c /\ s[4] = d
  BY <1>1, <1>2
<1> HIDE DEF s
<1> DEFINE v == Weights(s)
<1>5. /\ v[1] = Bytes(a) /\ v[2] = Bytes(b) /\ v[3] = Bytes(c) /\ v[4] = Bytes(d)
      /\ \A k \in 5 .. 16 : v[k] = 0
  BY <1>4 DEF Weights
<1>6. Filled(s) = Total(v)
  <2>1. s \in Seq(FieldSet) /\ Len(s) <= 16
    BY <1>4
  <2>2. Filled(s) = Total(Weights(s))
    BY <2>1, FilledSum
  <2> QED
    BY <2>2
<1> HIDE DEF v
<1>7. Quarter(v, 0) = (IF p = 3 THEN 12 ELSE 10)
  <2>1. v[1] = (IF p = 3 THEN 8 ELSE 6) /\ v[2] = 1 /\ v[3] = 1 /\ v[4] = 2
    BY <1>1, <1>2, <1>5
  <2> QED
    BY <2>1 DEF Quarter
<1>8. Quarter(v, 4) = 0 /\ Quarter(v, 8) = 0 /\ Quarter(v, 12) = 0
  BY <1>5 DEF Quarter
<1>9. Filled(s) = (IF p = 3 THEN 12 ELSE 10)
  BY <1>6, <1>7, <1>8 DEF Total
<1>10. KindsOf(s) = <<>> /\ <<>> \in Seq(FieldKinds)
  <2> DEFINE e == [i \in 1 .. 0 |-> s[i + 4].kind]
  <2>1. KindsOf(s) = e
    BY <1>4 DEF KindsOf
  <2>2. e \in [1 .. 0 -> FieldKinds]
    OBVIOUS
  <2>3. e \in Seq(FieldKinds) /\ Len(e) = 0
    BY <2>2
  <2> HIDE DEF e
  <2>4. e = <<>>
    BY <2>3, EmptySeq
  <2> QED
    BY <2>1, <2>3, <2>4
<1>11. s[2].n = o.protocol /\ s[3].n = Flags(o)
  BY <1>3, <1>4 DEF p, f
<1>12. Grown(s, o, IF p = 3 THEN 12 ELSE 10, <<>>, 4)
  BY <1>4, <1>9, <1>10, <1>11 DEF Grown
<1> QED
  BY <1>12 DEF s, a, b, c, d, p, f

\* The options that a CONNECT is built from.
OptionsOf(o) ==
  /\ o.protocol \in {3, 4, 5} /\ o.clean \in {0, 1} /\ o.id \in Nat \cup {None}
  /\ o.username \in Nat \cup {None} /\ o.password \in Nat \cup {None}
  /\ o.will.topic \in Nat \cup {None} /\ o.will.qos \in {0, 2}
  /\ o.will.topic # None => o.will.payloadlen \in Nat /\ WillProplen(o) \in Nat
  /\ o.protocol = 5 => ConnectProplen(o) \in Nat

\* How many bytes are written of a text that may not be there.
GivenBytes(n) == IF n # None THEN 2 + Carried(n) ELSE 0

\* What the fields of a CONNECT are, the bytes that are allocated for them, and those
\* that are written.
ConnectKinds(o) ==
  If(o.protocol = 5, <<"varint", "properties">>) \o <<"string">>
    \o If(o.will.topic # None /\ o.protocol = 5, <<"varint", "properties">>)
    \o If(o.will.topic # None, <<"string", "string">>)
    \o If(o.username # None, <<"string">>) \o If(o.password # None, <<"string">>)

ConnectBytes(o) ==
  (IF o.protocol = 3 THEN 12 ELSE 10)
    + (IF o.protocol = 5 THEN packet__varint_bytes(ConnectProplen(o)) + ConnectProplen(o) ELSE 0)
    + (2 + (IF o.id = None THEN 0 ELSE o.id))
    + (IF o.will.topic # None /\ o.protocol = 5
       THEN packet__varint_bytes(WillProplen(o)) + WillProplen(o) ELSE 0)
    + (IF o.will.topic # None THEN (2 + o.will.topic) + (2 + o.will.payloadlen) ELSE 0)
    + TextIf(o.username) + TextIf(o.password)

ConnectWritten(o) ==
  (IF o.protocol = 3 THEN 12 ELSE 10)
    + (IF o.protocol = 5 THEN packet__varint_bytes(ConnectProplen(o)) + ConnectProplen(o) ELSE 0)
    + (2 + Carried(IF o.id = None THEN 0 ELSE o.id))
    + (IF o.will.topic # None /\ o.protocol = 5
       THEN packet__varint_bytes(WillProplen(o)) + WillProplen(o) ELSE 0)
    + (IF o.will.topic # None
       THEN (2 + Carried(o.will.topic)) + (2 + Carried(o.will.payloadlen)) ELSE 0)
    + GivenBytes(o.username) + GivenBytes(o.password)

\* A pair is a sequence.
LEMMA PairSeq ==
  ASSUME NEW S, NEW a \in S, NEW c \in S
  PROVE  <<a, c>> \in Seq(S)
OBVIOUS

\* The kinds say themselves.
LEMMA KindsMade ==
  ASSUME NEW n
  PROVE  Field("varint", n).kind = "varint" /\ Props(n).kind = "properties" /\ Text(n).kind = "string"
BY DEF Field, Props, Text

\* A CONNECT whose lists of properties fit grows by what is set, field by field.
LEMMA ConnectGrown ==
  ASSUME NEW o, OptionsOf(o), Flags(o) \in Nat,
         o.protocol = 5 => ConnectProplen(o) <= MaxVarint,
         o.protocol = 5 /\ o.will.topic # None => WillProplen(o) <= MaxVarint
  PROVE  Grown(ConnectFields(o), o, ConnectWritten(o), ConnectKinds(o), 13)
<1> DEFINE v5 == o.protocol = 5
<1> DEFINE will == o.will.topic # None
<1> DEFINE cp == ConnectProplen(o)
<1> DEFINE wp == WillProplen(o)
<1> DEFINE id == IF o.id = None THEN 0 ELSE o.id
<1> DEFINE s0 == <<ProtocolName(o.protocol), Field("byte", o.protocol), Field("byte", Flags(o)), Word(60)>>
<1> DEFINE s1 == s0 \o If(v5, WithLength(cp))
<1> DEFINE s2 == s1 \o <<Text(id)>>
<1> DEFINE s3 == s2 \o If(will /\ v5, WithLength(wp))
<1> DEFINE s4 == s3 \o If(will, <<Text(o.will.topic), Text(o.will.payloadlen)>>)
<1> DEFINE s5 == s4 \o Given(o.username)
<1> DEFINE s6 == s5 \o Given(o.password)
<1> DEFINE b0 == IF o.protocol = 3 THEN 12 ELSE 10
<1> DEFINE b1 == b0 + (IF v5 THEN packet__varint_bytes(cp) + cp ELSE 0)
<1> DEFINE b2 == b1 + (2 + Carried(id))
<1> DEFINE b3 == b2 + (IF will /\ v5 THEN packet__varint_bytes(wp) + wp ELSE 0)
<1> DEFINE b4 == b3 + (IF will THEN (2 + Carried(o.will.topic)) + (2 + Carried(o.will.payloadlen)) ELSE 0)
<1> DEFINE b5 == b4 + GivenBytes(o.username)
<1> DEFINE b6 == b5 + GivenBytes(o.password)
<1> DEFINE k1 == If(v5, <<"varint", "properties">>)
<1> DEFINE k2 == k1 \o <<"string">>
<1> DEFINE k3 == k2 \o If(will /\ v5, <<"varint", "properties">>)
<1> DEFINE k4 == k3 \o If(will, <<"string", "string">>)
<1> DEFINE k5 == k4 \o If(o.username # None, <<"string">>)
<1> DEFINE k6 == k5 \o If(o.password # None, <<"string">>)
<1>1. Grown(s0, o, b0, <<>>, 4) /\ b0 \in Nat
  <2>1. o.protocol \in {3, 4, 5}
    BY DEF OptionsOf
  <2> QED
    BY <2>1, HeaderGrown
<1>2. ConnectWritten(o) = b6 /\ ConnectKinds(o) = k6
  BY Zenon DEF ConnectWritten, ConnectKinds
<1>3. /\ v5 \in BOOLEAN /\ will \in BOOLEAN /\ id \in Nat
      /\ v5 => cp \in Nat /\ cp <= MaxVarint
      /\ will /\ v5 => wp \in Nat /\ wp <= MaxVarint
      /\ will => o.will.topic \in Nat /\ o.will.payloadlen \in Nat
      /\ o.username # None => o.username \in Nat
      /\ o.password # None => o.password \in Nat
  BY DEF OptionsOf
<1> HIDE DEF s0, b0, cp, wp, id
<1>4. Grown(s1, o, b1, k1, 6) /\ b1 \in Nat
  <2> DEFINE a == Field("varint", cp)
  <2> DEFINE c == Props(cp)
  <2>1. v5 => a \in FieldSet /\ c \in FieldSet
    BY <1>3, FieldsMade
  <2>2. v5 => Bytes(a) = packet__varint_bytes(cp) /\ Bytes(c) = cp
    BY <1>3, FieldsMade
  <2>3. /\ Grown(s0 \o If(v5, <<a, c>>), o, b0 + (IF v5 THEN Bytes(a) + Bytes(c) ELSE 0),
                 <<>> \o If(v5, <<a.kind, c.kind>>), 4 + 2)
        /\ b0 + (IF v5 THEN Bytes(a) + Bytes(c) ELSE 0) \in Nat
    <3> DEFINE e == <<>>
    <3> HIDE DEF a, c, v5, e
    <3>1. Grown(s0, o, b0, e, 4) /\ b0 \in Nat /\ 4 \in 4 .. 14
      BY <1>1 DEF e
    <3>2. /\ Grown(s0 \o If(v5, <<a, c>>), o, b0 + (IF v5 THEN Bytes(a) + Bytes(c) ELSE 0),
                   e \o If(v5, <<a.kind, c.kind>>), 4 + 2)
          /\ b0 + (IF v5 THEN Bytes(a) + Bytes(c) ELSE 0) \in Nat
      BY <1>3, <2>1, <3>1, GrownPair, ZenonT(60)
    <3> QED
      BY <3>2 DEF e
  <2>4. b0 + (IF v5 THEN Bytes(a) + Bytes(c) ELSE 0) = b1
    BY <2>2, Zenon
  <2>5. s0 \o If(v5, <<a, c>>) = s1
    BY Zenon DEF WithLength
  <2>6. <<>> \o If(v5, <<a.kind, c.kind>>) = k1
    <3>1. a.kind = "varint" /\ c.kind = "properties"
      BY KindsMade
    <3>2. If(v5, <<a.kind, c.kind>>) = k1
      BY <3>1, Zenon
    <3>3. k1 \in Seq(FieldKinds)
      <4>1. <<"varint", "properties">> \in Seq(FieldKinds) /\ <<>> \in Seq(FieldKinds)
        BY DEF FieldKinds
      <4> QED
        BY <4>1, Zenon DEF If
    <3> HIDE DEF k1
    <3>4. <<>> \o k1 = k1
      BY <3>3
    <3> QED
      BY <3>2, <3>4
  <2>7. 4 + 2 = 6
    OBVIOUS
  <2> QED
    BY <2>3, <2>4, <2>5, <2>6, <2>7, Zenon
<1> HIDE DEF s1, b1, k1
<1>5. Grown(s2, o, b2, k2, 7) /\ b2 \in Nat
  <2> DEFINE a == Text(id)
  <2>1. a \in FieldSet /\ Bytes(a) = 2 + Carried(id) /\ Carried(id) \in Nat
    BY <1>3, FieldsMade, CarriedLess
  <2>2. a.kind = "string"
    BY KindsMade
  <2> HIDE DEF a
  <2>3. Grown(s1 \o <<a>>, o, b1 + Bytes(a), k1 \o <<a.kind>>, 6 + 1)
    BY <1>4, <2>1, GrownOne
  <2>4. b1 + (2 + Carried(id)) \in Nat /\ 6 + 1 = 7
    BY <1>4, <2>1
  <2> QED
    BY <2>1, <2>2, <2>3, <2>4, Zenon DEF a
<1> HIDE DEF s2, b2, k2
<1>6. Grown(s3, o, b3, k3, 9) /\ b3 \in Nat
  <2> DEFINE d == will /\ v5
  <2> DEFINE a == Field("varint", wp)
  <2> DEFINE c == Props(wp)
  <2>1. d \in BOOLEAN /\ (d => a \in FieldSet /\ c \in FieldSet)
    BY <1>3, FieldsMade
  <2>2. d => Bytes(a) = packet__varint_bytes(wp) /\ Bytes(c) = wp
    BY <1>3, FieldsMade
  <2>3. /\ Grown(s2 \o If(d, <<a, c>>), o, b2 + (IF d THEN Bytes(a) + Bytes(c) ELSE 0),
                 k2 \o If(d, <<a.kind, c.kind>>), 7 + 2)
        /\ b2 + (IF d THEN Bytes(a) + Bytes(c) ELSE 0) \in Nat
    <3> HIDE DEF a, c, d
    <3> QED
      BY <1>5, <2>1, GrownPair
  <2>4. b2 + (IF d THEN Bytes(a) + Bytes(c) ELSE 0) = b3
    BY <2>2, Zenon
  <2>5. s2 \o If(d, <<a, c>>) = s3
    BY Zenon DEF WithLength
  <2>6. k2 \o If(d, <<a.kind, c.kind>>) = k3
    BY KindsMade, Zenon
  <2>7. 7 + 2 = 9
    OBVIOUS
  <2> QED
    BY <2>3, <2>4, <2>5, <2>6, <2>7, Zenon
<1> HIDE DEF s3, b3, k3
<1>7. Grown(s4, o, b4, k4, 11) /\ b4 \in Nat
  <2> DEFINE a == Text(o.will.topic)
  <2> DEFINE c == Text(o.will.payloadlen)
  <2>1. will => a \in FieldSet /\ c \in FieldSet
    BY <1>3, FieldsMade
  <2>2. will => Bytes(a) = 2 + Carried(o.will.topic) /\ Bytes(c) = 2 + Carried(o.will.payloadlen)
    BY <1>3, FieldsMade
  <2>3. /\ Grown(s3 \o If(will, <<a, c>>), o, b3 + (IF will THEN Bytes(a) + Bytes(c) ELSE 0),
                 k3 \o If(will, <<a.kind, c.kind>>), 9 + 2)
        /\ b3 + (IF will THEN Bytes(a) + Bytes(c) ELSE 0) \in Nat
    <3> HIDE DEF a, c, will
    <3> QED
      BY <1>3, <1>6, <2>1, GrownPair
  <2>4. b3 + (IF will THEN Bytes(a) + Bytes(c) ELSE 0) = b4
    BY <2>2, Zenon
  <2>5. k3 \o If(will, <<a.kind, c.kind>>) = k4
    BY KindsMade, Zenon
  <2>6. 9 + 2 = 11
    OBVIOUS
  <2> QED
    BY <2>3, <2>4, <2>5, <2>6, Zenon
<1> HIDE DEF b4, k4
<1>8. Grown(s5, o, b5, k5, 12) /\ b5 \in Nat
  <2> DEFINE d == o.username # None
  <2> DEFINE a == Text(o.username)
  <2>1. d \in BOOLEAN /\ (d => a \in FieldSet)
    BY <1>3, FieldsMade
  <2>2. d => Bytes(a) = 2 + Carried(o.username)
    BY <1>3, FieldsMade
  <2>3. /\ Grown(s4 \o If(d, <<a>>), o, b4 + (IF d THEN Bytes(a) ELSE 0), k4 \o If(d, <<a.kind>>), 11 + 1)
        /\ b4 + (IF d THEN Bytes(a) ELSE 0) \in Nat
    <3> HIDE DEF a, d, s4
    <3>1. 11 \in 4 .. 15
      OBVIOUS
    <3> QED
      BY <1>7, <2>1, <3>1, GrownMaybe, ZenonT(60)
  <2>4. b4 + (IF d THEN Bytes(a) ELSE 0) = b5
    BY <2>2, Zenon DEF GivenBytes
  <2>5. s4 \o If(d, <<a>>) = s5
    BY Zenon DEF Given
  <2>6. k4 \o If(d, <<a.kind>>) = k5
    BY KindsMade, Zenon
  <2>7. 11 + 1 = 12
    OBVIOUS
  <2> QED
    BY <2>3, <2>4, <2>5, <2>6, <2>7, Zenon
<1> HIDE DEF b5, k5
<1>9. Grown(s6, o, b6, k6, 13) /\ b6 \in Nat
  <2> DEFINE d == o.password # None
  <2> DEFINE a == Text(o.password)
  <2>1. d \in BOOLEAN /\ (d => a \in FieldSet)
    BY <1>3, FieldsMade
  <2>2. d => Bytes(a) = 2 + Carried(o.password)
    BY <1>3, FieldsMade
  <2>3. /\ Grown(s5 \o If(d, <<a>>), o, b5 + (IF d THEN Bytes(a) ELSE 0), k5 \o If(d, <<a.kind>>), 12 + 1)
        /\ b5 + (IF d THEN Bytes(a) ELSE 0) \in Nat
    <3> HIDE DEF a, d, s5
    <3>1. 12 \in 4 .. 15
      OBVIOUS
    <3> QED
      BY <1>8, <2>1, <3>1, GrownMaybe, ZenonT(60)
  <2>4. b5 + (IF d THEN Bytes(a) ELSE 0) = b6
    BY <2>2, Zenon DEF GivenBytes
  <2>5. s5 \o If(d, <<a>>) = s6
    BY Zenon DEF Given
  <2>6. k5 \o If(d, <<a.kind>>) = k6
    BY KindsMade, Zenon
  <2>7. 12 + 1 = 13
    OBVIOUS
  <2> QED
    BY <2>3, <2>4, <2>5, <2>6, <2>7, Zenon
<1> HIDE DEF b6, k6
<1>10. ConnectFields(o) = s6
  <2> DEFINE x == If(v5, WithLength(wp))
  <2> DEFINE y == <<Text(o.will.topic), Text(o.will.payloadlen)>>
  <2>1. ConnectFields(o) = ((s2 \o If(will, x \o y)) \o Given(o.username)) \o Given(o.password)
    BY Zenon DEF ConnectFields, s2, s1, s0, cp, wp, id
  <2>2. s2 \o If(will, x \o y) = s4
    <3>1. CASE will /\ v5
      <4>1. s2 \in Seq(FieldSet) /\ x \in Seq(FieldSet) /\ y \in Seq(FieldSet)
        <5>1. x = <<Field("varint", wp), Props(wp)>>
          BY <3>1, Zenon DEF If, WithLength
        <5>2. Field("varint", wp) \in FieldSet /\ Props(wp) \in FieldSet
          BY <1>3, <3>1, FieldsMade
        <5>3. Text(o.will.topic) \in FieldSet /\ Text(o.will.payloadlen) \in FieldSet
          BY <1>3, <3>1, FieldsMade
        <5>4. x \in Seq(FieldSet) /\ y \in Seq(FieldSet)
          BY <5>1, <5>2, <5>3, PairSeq
        <5> QED
          BY <1>5, <5>4 DEF Grown
      <4>2. If(will, x \o y) = x \o y /\ If(will, y) = y /\ s3 = s2 \o x
        BY <3>1, Zenon DEF If, s3
      <4> HIDE DEF x, y
      <4>3. s2 \o (x \o y) = (s2 \o x) \o y
        BY <4>1, ConcatAssociative, SMTT(30)
      <4>4. s4 = s3 \o If(will, y)
        BY Zenon DEF y
      <4> QED
        BY <4>2, <4>3, <4>4, Zenon
    <3>2. CASE will /\ ~v5
      <4>1. x = <<>> /\ If(will, x \o y) = x \o y /\ If(will, y) = y /\ s3 = s2 \o <<>>
        BY <3>2, Zenon DEF If, s3
      <4>2. s2 \in Seq(FieldSet)
        BY <1>5 DEF Grown
      <4>3. y \in Seq(FieldSet)
        <5>1. Text(o.will.topic) \in FieldSet /\ Text(o.will.payloadlen) \in FieldSet
          BY <1>3, <3>2, FieldsMade
        <5> QED
          BY <5>1, PairSeq
      <4>4. s4 = s3 \o If(will, y)
        BY Zenon
      <4> HIDE DEF x, y
      <4>5. <<>> \o y = y /\ s2 \o <<>> = s2
        BY <4>2, <4>3
      <4> QED
        BY <4>1, <4>4, <4>5, Zenon
    <3>3. CASE ~will
      <4>1. If(will, x \o y) = <<>> /\ If(will, y) = <<>> /\ s3 = s2 \o <<>>
        BY <3>3, Zenon DEF If, s3
      <4>2. s2 \in Seq(FieldSet)
        BY <1>5 DEF Grown
      <4>3. s2 \o <<>> = s2
        BY <4>2
      <4> QED
        BY <4>1, <4>3, Zenon
    <3> QED
      BY <3>1, <3>2, <3>3
  <2> QED
    BY <2>1, <2>2, Zenon
<1> QED
  BY <1>2, <1>9, <1>10 DEF b6, k6

\* The length of a CONNECT, as it is added up and as its fields would have it.
LEMMA ConnectLengths ==
  ASSUME NEW o, OptionsOf(o)
  PROVE  ConnectLength(o) = ConnectBytes(o)
<1> DEFINE v5 == o.protocol = 5
<1> DEFINE will == o.will.topic # None
<1> DEFINE cp == ConnectProplen(o)
<1> DEFINE wp == WillProplen(o)
<1> DEFINE vc == packet__varint_bytes(cp)
<1> DEFINE vw == packet__varint_bytes(wp)
<1> DEFINE u == TextIf(o.username)
<1> DEFINE p == TextIf(o.password)
<1> DEFINE t == o.will.topic
<1> DEFINE l == o.will.payloadlen
<1>1. /\ v5 => cp \in Nat /\ vc \in Nat
      /\ will => wp \in Nat /\ vw \in Nat /\ t \in Nat /\ l \in Nat
      /\ u \in Nat /\ p \in Nat /\ o.protocol \in {3, 4, 5} /\ o.id \in Nat \cup {None}
  <2>1. \A n \in Nat : packet__varint_bytes(n) \in Nat
    BY SMT DEF packet__varint_bytes
  <2> QED
    BY <2>1 DEF OptionsOf, TextIf
<1>2. ConnectLength(o) =
        (CASE v5 -> 10 + (vc + cp) [] o.protocol = 4 -> 10 [] o.protocol = 3 -> 12)
        + (IF o.id = None THEN 2 ELSE 2 + o.id) + u + p
        + (IF ~will THEN 0 ELSE 4 + t + l + (IF v5 THEN vw + wp ELSE 0))
  BY Zenon DEF ConnectLength, LengthAndAll, TextOf
<1>3. ConnectBytes(o) =
        (IF o.protocol = 3 THEN 12 ELSE 10) + (IF v5 THEN vc + cp ELSE 0)
        + (2 + (IF o.id = None THEN 0 ELSE o.id))
        + (IF will /\ v5 THEN vw + wp ELSE 0)
        + (IF will THEN (2 + t) + (2 + l) ELSE 0) + u + p
  BY Zenon DEF ConnectBytes
<1> HIDE DEF will, cp, wp, vc, vw, u, p, t, l
<1>4. CASE o.protocol = 3
  BY <1>1, <1>2, <1>3, <1>4
<1>5. CASE o.protocol = 4
  BY <1>1, <1>2, <1>3, <1>5
<1>6. CASE o.protocol = 5
  BY <1>1, <1>2, <1>3, <1>6
<1> QED
  BY <1>1, <1>4, <1>5, <1>6

\* All that is allocated is written exactly when the texts fit.
LEMMA ConnectFits ==
  ASSUME NEW o, OptionsOf(o)
  PROVE  (ConnectWritten(o) = ConnectBytes(o)) <=> Fits(o)
<1> DEFINE will == o.will.topic # None
<1> DEFINE head ==
      (IF o.protocol = 3 THEN 12 ELSE 10)
        + (IF o.protocol = 5 THEN packet__varint_bytes(ConnectProplen(o)) + ConnectProplen(o) ELSE 0)
<1> DEFINE last == IF will /\ o.protocol = 5
                   THEN packet__varint_bytes(WillProplen(o)) + WillProplen(o) ELSE 0
<1> DEFINE id == IF o.id = None THEN 0 ELSE o.id
<1> DEFINE ci == Carried(id)
<1> DEFINE w == IF will THEN (2 + o.will.topic) + (2 + o.will.payloadlen) ELSE 0
<1> DEFINE cw == IF will THEN (2 + Carried(o.will.topic)) + (2 + Carried(o.will.payloadlen)) ELSE 0
<1> DEFINE u == TextIf(o.username)
<1> DEFINE cu == GivenBytes(o.username)
<1> DEFINE p == TextIf(o.password)
<1> DEFINE cp == GivenBytes(o.password)
<1>1. head \in Nat /\ last \in Nat
  <2>1. \A n \in Nat : packet__varint_bytes(n) \in Nat
    BY SMT DEF packet__varint_bytes
  <2>2. /\ o.protocol = 5 => ConnectProplen(o) \in Nat
        /\ will => WillProplen(o) \in Nat
    BY Zenon DEF OptionsOf
  <2> QED
    BY <2>1, <2>2
<1>2. id \in Nat /\ ci \in Nat /\ ci <= id /\ (ci = id <=> In16Bits(o.id))
  <2>1. o.id \in Nat \cup {None}
    BY DEF OptionsOf
  <2>2. id \in Nat /\ (In16Bits(id) <=> In16Bits(o.id))
    BY <2>1 DEF None, In16Bits
  <2> HIDE DEF id
  <2> QED
    BY <2>2, CarriedLess
<1>3. ASSUME NEW n \in Nat \cup {None}
      PROVE  /\ TextIf(n) \in Nat /\ GivenBytes(n) \in Nat /\ GivenBytes(n) <= TextIf(n)
             /\ (GivenBytes(n) = TextIf(n)) <=> In16Bits(n)
  <2>1. CASE n = None
    BY <2>1 DEF TextIf, GivenBytes, None, In16Bits
  <2>2. CASE n # None
    <3>1. n \in Nat
      BY <2>2
    <3>2. Carried(n) \in Nat /\ Carried(n) <= n /\ (Carried(n) = n <=> In16Bits(n))
      BY <3>1, CarriedLess
    <3>3. TextIf(n) = 2 + n /\ GivenBytes(n) = 2 + Carried(n)
      BY <2>2 DEF TextIf, GivenBytes
    <3> QED
      BY <3>1, <3>2, <3>3
  <2> QED
    BY <2>1, <2>2
<1>4. /\ u \in Nat /\ cu \in Nat /\ cu <= u /\ ((cu = u) <=> In16Bits(o.username))
      /\ p \in Nat /\ cp \in Nat /\ cp <= p /\ ((cp = p) <=> In16Bits(o.password))
  <2>1. o.username \in Nat \cup {None} /\ o.password \in Nat \cup {None}
    BY DEF OptionsOf
  <2> QED
    BY <1>3, <2>1, Zenon
<1>5. /\ w \in Nat /\ cw \in Nat /\ cw <= w
      /\ (cw = w) <=> (will => In16Bits(o.will.topic) /\ In16Bits(o.will.payloadlen))
  <2>1. CASE will
    <3> DEFINE t == o.will.topic
    <3> DEFINE l == o.will.payloadlen
    <3>1. t \in Nat /\ l \in Nat
      BY <2>1 DEF OptionsOf
    <3>2. w = (2 + t) + (2 + l) /\ cw = (2 + Carried(t)) + (2 + Carried(l))
      BY <2>1
    <3> HIDE DEF t, l, w, cw
    <3>3. /\ Carried(t) \in Nat /\ Carried(t) <= t /\ (Carried(t) = t <=> In16Bits(t))
          /\ Carried(l) \in Nat /\ Carried(l) <= l /\ (Carried(l) = l <=> In16Bits(l))
      BY <3>1, CarriedLess
    <3>4. /\ w \in Nat /\ cw \in Nat /\ cw <= w
          /\ (cw = w) <=> (In16Bits(t) /\ In16Bits(l))
      BY <3>1, <3>2, <3>3
    <3> QED
      BY <2>1, <3>4, Zenon DEF t, l
  <2>2. CASE ~will
    BY <2>2
  <2> QED
    BY <2>1, <2>2
<1>6. ConnectBytes(o) = head + (2 + id) + last + w + u + p
  BY Zenon DEF ConnectBytes
<1>7. ConnectWritten(o) = head + (2 + ci) + last + cw + cu + cp
  BY Zenon DEF ConnectWritten
<1>8. Fits(o) <=> /\ In16Bits(o.id) /\ In16Bits(o.username) /\ In16Bits(o.password)
                  /\ will => In16Bits(o.will.topic) /\ In16Bits(o.will.payloadlen)
  BY Zenon DEF Fits
<1> HIDE DEF head, last, id, ci, w, cw, u, cu, p, cp, will
<1>9. ConnectWritten(o) = ConnectBytes(o) <=> ci = id /\ cw = w /\ cu = u /\ cp = p
  BY <1>1, <1>2, <1>4, <1>5, <1>6, <1>7
<1> QED
  BY <1>2, <1>4, <1>5, <1>8, <1>9, Zenon

\* The length of a list of one property, and of none.
LEMMA ProplenFew ==
  ASSUME NEW p, p.len \in Nat
  PROVE  Proplen(<<p>>) = p.len /\ Proplen(<<>>) = 0
<1>1. ASSUME NEW s, NEW n \in {0, 1}, DOMAIN s = 1 .. n, n = 1 => s[1].len \in Nat
      PROVE  Proplen(s) = IF n = 0 THEN 0 ELSE s[1].len
  <2> DEFINE e == s[1].len
  <2> DEFINE One(f, S) == f[S \ {Max(S)}] + s[Max(S)].len
  <2> DEFINE F(f) == f = [S \in SUBSET (1 .. n) |-> IF S = {} THEN 0 ELSE One(f, S)]
  <2> DEFINE g == [S \in SUBSET (1 .. n) |-> IF S = {} THEN 0 ELSE e]
  <2>1. ASSUME NEW S \in SUBSET (1 .. n), S # {}
        PROVE  n = 1 /\ Max(S) = 1 /\ S = {1} /\ S \ {Max(S)} = {}
    <3>1. n = 1 /\ S = {1}
      <4>1. n = 0 => 1 .. n = {}
        OBVIOUS
      <4>2. n = 1 => 1 .. n = {1}
        OBVIOUS
      <4> QED
        BY <2>1, <4>1, <4>2
    <3>2. S \in SUBSET (1 .. 16)
      BY <3>1
    <3>3. Max(S) \in S
      BY <2>1, <3>2, LargestField
    <3> QED
      BY <3>1, <3>3
  <2>2. F(g)
    <3>1. ASSUME NEW S \in SUBSET (1 .. n), S # {} PROVE One(g, S) = e
      <4>1. n = 1 /\ Max(S) = 1 /\ S \ {Max(S)} = {}
        BY <2>1, <3>1
      <4>2. g[{}] = 0
        OBVIOUS
      <4>3. e \in Nat
        BY <1>1, <4>1
      <4> HIDE DEF g
      <4>4. One(g, S) = 0 + e
        BY <4>1, <4>2
      <4> HIDE DEF One, e
      <4> QED
        BY <4>3, <4>4
    <3> HIDE DEF One, e
    <3> DEFINE h == [S \in SUBSET (1 .. n) |-> IF S = {} THEN 0 ELSE One(g, S)]
    <3>2. /\ g = [S \in SUBSET (1 .. n) |-> g[S]] /\ h = [S \in SUBSET (1 .. n) |-> h[S]]
          /\ \A S \in SUBSET (1 .. n) : g[S] = h[S]
      BY <3>1
    <3>3. (g = h) => F(g)
      OBVIOUS
    <3> HIDE DEF g, h, F
    <3>4. g = h
      BY <3>2
    <3> QED
      BY <3>3, <3>4
  <2> DEFINE b == CHOOSE f : F(f)
  <2>3. F(b)
    BY <2>2
  <2>4. Proplen(s) = b[1 .. n]
    BY <1>1 DEF Proplen, FoldLeft, MapThenFoldSet
  <2> HIDE DEF b, g
  <2>5. \A S \in SUBSET (1 .. n) : /\ S = {} => b[S] = 0
                                   /\ S # {} => b[S] = b[S \ {Max(S)}] + s[Max(S)].len
    BY <2>3, ZenonT(60) DEF F, One
  <2> HIDE DEF F, One
  <2>6. CASE n = 0
    <3>1. 1 .. n = {} /\ {} \in SUBSET (1 .. n)
      BY <2>6
    <3> QED
      BY <2>4, <2>5, <2>6, <3>1
  <2>7. CASE n = 1
    <3> DEFINE U == 1 .. n
    <3>1. U \in SUBSET (1 .. n) /\ {} \in SUBSET (1 .. n) /\ U # {}
      BY <2>7
    <3>2. Max(U) = 1 /\ U \ {Max(U)} = {}
      BY <2>1, <3>1
    <3> HIDE DEF U
    <3>3. b[U] = b[{}] + e /\ b[{}] = 0
      BY <2>5, <3>1, <3>2
    <3> HIDE DEF e
    <3>4. e \in Nat
      BY <1>1, <2>7 DEF e
    <3>5. b[U] = e
      BY <3>3, <3>4
    <3> QED
      BY <2>4, <2>7, <3>5 DEF U, e
  <2> QED
    BY <2>6, <2>7
<1>2. Proplen(<<>>) = 0
  <2> DEFINE s == <<>>
  <2>1. DOMAIN s = 1 .. 0
    OBVIOUS
  <2> HIDE DEF s
  <2>2. Proplen(s) = 0
    BY <1>1, <2>1
  <2> QED
    BY <2>2 DEF s
<1>3. Proplen(<<p>>) = p.len
  <2> DEFINE s == <<p>>
  <2>1. DOMAIN s = 1 .. 1 /\ s[1] = p
    OBVIOUS
  <2> HIDE DEF s
  <2>2. Proplen(s) = p.len
    BY <1>1, <2>1
  <2> QED
    BY <2>2 DEF s
<1> QED
  BY <1>2, <1>3

\* What the flags of a CONNECT say of its options.
LEMMA FlagsSay ==
  ASSUME NEW o, OptionsOf(o)
  PROVE  /\ Flags(o) \in Nat
         /\ (Flags(o) \div 4) % 2 = 1 <=> o.will.topic # None
         /\ (Flags(o) \div 128) % 2 = 1 <=> o.username # None
         /\ (Flags(o) \div 64) % 2 = 1 <=> o.password # None
         /\ o.password = None \/ o.username # None => ((Flags(o) \div 64) % 4) # 1
<1> DEFINE f == Flags(o)
<1> DEFINE c == o.clean
<1> DEFINE w == Flag(o.will.topic, 4 + 8 * o.will.qos)
<1> DEFINE u == Flag(o.username, 128)
<1> DEFINE p == Flag(o.password, 64)
<1>1. c \in {0, 1} /\ f = 2 * c + w + u + p
  BY DEF OptionsOf, Flags
<1>2. w \in {0, 4, 20} /\ (w # 0 <=> o.will.topic # None)
  BY DEF OptionsOf, Flag
<1>3. /\ u \in {0, 128} /\ (u # 0 <=> o.username # None)
      /\ p \in {0, 64} /\ (p # 0 <=> o.password # None)
  BY DEF Flag
<1> HIDE DEF f, c, w, u, p
<1>4. /\ f \in Nat
      /\ (f \div 4) % 2 = 1 <=> w # 0
      /\ (f \div 128) % 2 = 1 <=> u # 0
      /\ (f \div 64) % 2 = 1 <=> p # 0
      /\ p = 0 \/ u # 0 => ((f \div 64) % 4) # 1
  <2>1. CASE c = 0
    <3>1. CASE w = 0
      BY <1>1, <1>3, <2>1, <3>1
    <3>2. CASE w = 4
      BY <1>1, <1>3, <2>1, <3>2
    <3>3. CASE w = 20
      BY <1>1, <1>3, <2>1, <3>3
    <3> QED
      BY <1>2, <3>1, <3>2, <3>3
  <2>2. CASE c = 1
    <3>1. CASE w = 0
      BY <1>1, <1>3, <2>2, <3>1
    <3>2. CASE w = 4
      BY <1>1, <1>3, <2>2, <3>2
    <3>3. CASE w = 20
      BY <1>1, <1>3, <2>2, <3>3
    <3> QED
      BY <1>2, <3>1, <3>2, <3>3
  <2> QED
    BY <1>1, <2>1, <2>2
<1>5. (p = 0 \/ u # 0) <=> (o.password = None \/ o.username # None)
  BY <1>3
<1> QED
  BY <1>2, <1>3, <1>4, <1>5, Zenon DEF f

\* A CONNECT is no shorter than its lists of properties.
LEMMA ListsInside ==
  ASSUME NEW o, OptionsOf(o)
  PROVE  /\ ConnectBytes(o) \in Nat
         /\ o.protocol = 5 => ConnectProplen(o) <= ConnectBytes(o)
         /\ o.protocol = 5 /\ o.will.topic # None => WillProplen(o) <= ConnectBytes(o)
<1> DEFINE v5 == o.protocol = 5
<1> DEFINE will == o.will.topic # None
<1> DEFINE cp == ConnectProplen(o)
<1> DEFINE wp == WillProplen(o)
<1> DEFINE vc == packet__varint_bytes(cp)
<1> DEFINE vw == packet__varint_bytes(wp)
<1> DEFINE u == TextIf(o.username)
<1> DEFINE p == TextIf(o.password)
<1> DEFINE t == o.will.topic
<1> DEFINE l == o.will.payloadlen
<1> DEFINE id == IF o.id = None THEN 0 ELSE o.id
<1> DEFINE all == ConnectBytes(o)
<1>1. /\ v5 => cp \in Nat /\ vc \in Nat
      /\ will => wp \in Nat /\ vw \in Nat /\ t \in Nat /\ l \in Nat
      /\ u \in Nat /\ p \in Nat /\ id \in Nat
  <2>1. \A n \in Nat : packet__varint_bytes(n) \in Nat
    BY SMT DEF packet__varint_bytes
  <2> QED
    BY <2>1 DEF OptionsOf, TextIf
<1>2. all =
        (IF o.protocol = 3 THEN 12 ELSE 10) + (IF v5 THEN vc + cp ELSE 0)
        + (2 + id) + (IF will /\ v5 THEN vw + wp ELSE 0)
        + (IF will THEN (2 + t) + (2 + l) ELSE 0) + u + p
  BY Zenon DEF ConnectBytes
<1> HIDE DEF v5, will, cp, wp, vc, vw, u, p, t, l, id, all
<1>3. all \in Nat
  BY <1>1, <1>2
<1>4. v5 => cp <= all
  BY <1>1, <1>2
<1>5. v5 /\ will => wp <= all
  BY <1>1, <1>2
<1> QED
  BY <1>3, <1>4, <1>5, Zenon DEF v5, will, cp, wp, all

\* A CONNECT that is sent says what it has.
LEMMA ConnectTold ==
  ASSUME NEW o, OptionsOf(o)
  PROVE  ConnectSays(o)
<1> DEFINE packet == send__connect(o)
<1> DEFINE fields == ConnectFields(o)
<1> SUFFICES ASSUME packet.rc = "SUCCESS"
             PROVE  /\ Kinds(packet) = Announced(packet)
                    /\ (Filled(packet.fields) = packet.remaining_length) <=> Fits(o)
                    /\ o.protocol < 5 => ((packet.fields[3].n \div 64) % 4) # 1
  BY Zenon DEF ConnectSays
<1>1. /\ packet.fields = fields /\ packet.remaining_length = ConnectLength(o)
      /\ ~(ConnectLength(o) > MaxVarint)
      /\ ~(o.protocol \in {3, 4} /\ o.password # None /\ o.username = None)
  BY DEF send__connect, packet__alloc, Refuse
<1> HIDE DEF packet, fields
<1>2. ConnectLength(o) = ConnectBytes(o)
  BY ConnectLengths
<1>3. /\ o.protocol = 5 => ConnectProplen(o) <= MaxVarint
      /\ o.protocol = 5 /\ o.will.topic # None => WillProplen(o) <= MaxVarint
  <2> DEFINE all == ConnectBytes(o)
  <2> DEFINE cp == ConnectProplen(o)
  <2> DEFINE wp == WillProplen(o)
  <2>1. /\ all \in Nat /\ ~(all > MaxVarint) /\ MaxVarint \in Nat
        /\ o.protocol = 5 => cp \in Nat /\ cp <= all
        /\ o.protocol = 5 /\ o.will.topic # None => wp \in Nat /\ wp <= all
    <3>1. /\ o.protocol = 5 => cp \in Nat
          /\ o.will.topic # None => wp \in Nat
      BY Zenon DEF OptionsOf
    <3> QED
      BY <1>1, <1>2, <3>1, ListsInside, LargestNat, Zenon
  <2> HIDE DEF all, cp, wp
  <2>2. /\ o.protocol = 5 => cp <= MaxVarint
        /\ o.protocol = 5 /\ o.will.topic # None => wp <= MaxVarint
    BY <2>1
  <2> QED
    BY <2>2 DEF cp, wp
<1>4. Grown(fields, o, ConnectWritten(o), ConnectKinds(o), 13)
  BY <1>3, FlagsSay, ConnectGrown, Zenon DEF fields
<1>5. /\ Filled(fields) = ConnectWritten(o) /\ KindsOf(fields) = ConnectKinds(o)
      /\ fields[2].n = o.protocol /\ fields[3].n = Flags(o)
  BY <1>4, Zenon DEF Grown
<1>6. Kinds(packet) = KindsOf(fields)
  BY <1>1, Zenon DEF Kinds, KindsOf
<1>7. Announced(packet) = ConnectKinds(o)
  <2> DEFINE f == Flags(o)
  <2> DEFINE v5 == o.protocol = 5
  <2> DEFINE Has(flag) == (f \div flag) % 2 = 1
  <2>1. Announced(packet) =
          If(v5, <<"varint", "properties">>) \o <<"string">>
            \o If(Has(4) /\ v5, <<"varint", "properties">>) \o If(Has(4), <<"string", "string">>)
            \o If(Has(128), <<"string">>) \o If(Has(64), <<"string">>)
    BY <1>1, <1>5, Zenon DEF Announced
  <2>2. /\ Has(4) = (o.will.topic # None) /\ Has(128) = (o.username # None)
        /\ Has(64) = (o.password # None)
    BY FlagsSay, Zenon
  <2> HIDE DEF Has
  <2>3. (Has(4) /\ v5) = (o.will.topic # None /\ o.protocol = 5)
    BY <2>2, Zenon
  <2> QED
    BY <2>1, <2>2, <2>3, Zenon DEF ConnectKinds
<1>8. o.protocol < 5 => ((fields[3].n \div 64) % 4) # 1
  <2>1. o.protocol < 5 => o.protocol \in {3, 4}
    BY DEF OptionsOf
  <2>2. o.protocol < 5 => o.password = None \/ o.username # None
    BY <1>1, <2>1, Zenon
  <2>3. o.password = None \/ o.username # None => ((Flags(o) \div 64) % 4) # 1
    BY FlagsSay, Zenon
  <2> QED
    BY <1>5, <2>2, <2>3, Zenon
<1>9. (Filled(fields) = ConnectLength(o)) <=> Fits(o)
  BY <1>2, <1>5, ConnectFits, Zenon
<1> QED
  BY <1>1, <1>5, <1>6, <1>7, <1>8, <1>9, Zenon

\* What a CONNECT is built from, by the values of the options.
LEMMA ConnectValues ==
  ASSUME TlsInv, ValuesInv
  PROVE  ConnectRight
<1> SUFFICES ASSUME NEW properties \in {<<>>, <<[len |-> 3, receive_maximum |-> TRUE]>>,
                                        <<[len |-> 124, receive_maximum |-> FALSE]>>,
                                        <<[len |-> 125, receive_maximum |-> FALSE]>>}
             PROVE  ConnectSays([id |-> mosq.id, clean |-> mosq.clean, protocol |-> mosq.protocol,
                                 username |-> mosq.username, password |-> mosq.password,
                                 will |-> mosq.will, properties |-> properties])
  BY ZenonT(60) DEF ConnectRight
<1> DEFINE o == [id |-> mosq.id, clean |-> mosq.clean, protocol |-> mosq.protocol,
                 username |-> mosq.username, password |-> mosq.password,
                 will |-> mosq.will, properties |-> properties]
<1>1. /\ o.id = mosq.id /\ o.clean = mosq.clean /\ o.protocol = mosq.protocol
      /\ o.username = mosq.username /\ o.password = mosq.password /\ o.will = mosq.will
      /\ o.properties = properties
  OBVIOUS
<1> HIDE DEF o
<1>2. Proplen(properties) \in Nat
  <2> DEFINE p3 == [len |-> 3, receive_maximum |-> TRUE]
  <2> DEFINE p4 == [len |-> 124, receive_maximum |-> FALSE]
  <2> DEFINE p5 == [len |-> 125, receive_maximum |-> FALSE]
  <2>1. p3.len \in Nat /\ p4.len \in Nat /\ p5.len \in Nat /\ 0 \in Nat
    OBVIOUS
  <2>2. properties = <<>> \/ properties = <<p3>> \/ properties = <<p4>> \/ properties = <<p5>>
    BY Zenon
  <2> HIDE DEF p3, p4, p5
  <2> QED
    BY <2>1, <2>2, ProplenFew, Zenon
<1>3. ConnectProplen(o) \in Nat
  <2> DEFINE own == \E i \in 1 .. Len(o.properties) : o.properties[i].receive_maximum
  <2>1. ConnectProplen(o) = Proplen(properties) + (IF own THEN 0 ELSE 3)
    BY <1>1, Zenon DEF ConnectProplen
  <2> HIDE DEF own
  <2> QED
    BY <1>2, <2>1
<1>4. OptionsOf(o)
  BY <1>1, <1>3 DEF OptionsOf, TlsInv, ValuesInv, ValuesOf, WillProplen
<1> QED
  BY <1>4, ConnectTold, Zenon DEF o

-----------------------------------------------------------------------------
(* The module *)

WireIInv == OptionsIInv /\ StreamIInv /\ PacketsInv

\* The invariant of all of them holds at the start,
LEMMA WireInit == Init => WireIInv
BY OptionsBegin, StreamBegin, PacketsBegin DEF Init, WireIInv

\* and every step preserves it.
LEMMA WireNext == WireIInv /\ [Next]_vars => WireIInv'
<1> SUFFICES ASSUME WireIInv, [Next]_vars PROVE WireIInv'
  OBVIOUS
<1> USE DEF WireIInv
<1>1. UNCHANGED optionVars => OptionsIInv'
  BY DEF optionVars, OptionsIInv, UsersInv, PairInv, TlsInv, ValuesInv
<1>2. UNCHANGED streamVars => StreamIInv' /\ PacketsInv'
  <2> SUFFICES ASSUME UNCHANGED streamVars PROVE StreamIInv' /\ PacketsInv'
    OBVIOUS
  <2>1. UNCHANGED <<proxy, state, in_packet, sent, toCome, arrived, ended, reply, granted, said,
                    handled, connections>>
    BY DEF streamVars
  <2>2. StreamIInv'
    BY <2>1 DEF StreamIInv, ProxyInv, GrantedFirst, Answer, AnswerInv
  <2>3. PacketsInv'
    BY <2>1 DEF PacketsInv, StreamTypeOK, BytesInv, HandledInv
  <2> QED
    BY <2>2, <2>3
<1>3. StreamNext => StreamIInv' /\ PacketsInv'
  BY StreamStep, PacketsStep
<1>4. OptionsNext => OptionsIInv'
  BY UsersNext, PairsNext, TlsNext, ValuesNext DEF OptionsIInv
<1>5. /\ UNCHANGED optionVars \/ OptionsNext
      /\ UNCHANGED streamVars \/ StreamNext
  BY Zenon DEF Next, vars
<1> QED
  BY <1>1, <1>2, <1>3, <1>4, <1>5

\* What is assumed at every step.
THEOREM Inductive == Spec => []WireIInv
<1>1. Init => WireIInv
  BY WireInit
<1>2. WireIInv /\ [Next]_vars => WireIInv'
  BY WireNext
<1> QED
  BY <1>1, <1>2, PTL DEF Spec

\* In whatever order the application makes its calls, the network is initialised while
\* the library is used, one pair of sockets is open for a client and none without one,
\* a connection is not begun in the clear once TLS was asked for, and a CONNECT that is
\* sent has the fields its flags announce and fills its remaining length exactly when
\* each of its texts fits into 16 bits.
THEOREM Options == Spec => []OptionsInv
<1>1. WireIInv => OptionsTypeOK
  BY OptionsAssumption DEF WireIInv, OptionsIInv, UsersInv, PairInv, TlsInv, OptionsTypeOK
<1>2. WireIInv => NetUpWhileUsed
  BY OptionsAssumption DEF WireIInv, OptionsIInv, UsersInv, NetUpWhileUsed
<1>3. WireIInv => PairsRight
  BY DEF WireIInv, OptionsIInv, PairInv, PairsRight
<1>4. WireIInv => EncryptsWhenAsked
  BY DEF WireIInv, OptionsIInv, TlsInv, EncryptsWhenAsked
<1>5. WireIInv => ConnectRight
  BY ConnectValues DEF WireIInv, OptionsIInv
<1>6. WireIInv => OptionsInv
  BY <1>1, <1>2, <1>3, <1>4, <1>5 DEF OptionsInv
<1> QED
  BY <1>6, Inductive, PTL

\* The bytes that are still to come of a proxy's reply, when its first five are read.
LEMMA WholeFromAnswer == ProxyInv => ReplyWhole
BY ReplyLeft DEF ReplyWhole

\* However the bytes were cut, and however often the client connects, handle__packet sees the
\* broker's packets in order and with their lengths, where the proxy's reply named no host;
\* of that reply the client waits for the bytes that are still to come, and for two less when
\* it names a host; CONNECT goes out only over a connection that the proxy has granted.
THEOREM Stream == Spec => []StreamInv
<1>1. WireIInv => StreamTypeOK
  BY DEF WireIInv, PacketsInv
<1>2. WireIInv => PacketsRight
  BY HandledPrefix DEF WireIInv
<1>3. WireIInv => ReplyWhole /\ GrantedFirst
  BY WholeFromAnswer DEF WireIInv, StreamIInv
<1>4. WireIInv => StreamInv
  BY <1>1, <1>2, <1>3 DEF StreamInv
<1> QED
  BY <1>4, Inductive, PTL
=============================================================================

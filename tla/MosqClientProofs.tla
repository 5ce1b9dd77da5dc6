-------------------------- MODULE MosqClientProofs --------------------------
(***************************************************************************)
(* What is proved of MosqClient, for every inflight_maximum, every number   *)
(* of messages in both directions and of losses of the connection.          *)
(*                                                                          *)
(* IInv is inductive.  Its parts: WireInv, what can be on its way at all;   *)
(* OutIInv, the list of outgoing messages against what is on its way and    *)
(* what the broker holds; InWireInv and KeptInv, the same for the incoming  *)
(* ones.  First come lemmas about sequences, sets of numbers and the        *)
(* operators of the model, then one lemma for each handler.                 *)
(***************************************************************************)
EXTENDS MosqClient, TLAPS, SequenceTheorems, FiniteSetTheorems

\* The head and the tail of a sequence without repetitions.
LEMMA TailRange ==
  ASSUME NEW S, NEW s \in Seq(S), s # <<>>, IsInjective(s)
  PROVE  /\ Head(s) \in Range(s) /\ Tail(s) \in Seq(S)
         /\ Range(Tail(s)) = Range(s) \ {Head(s)}
         /\ IsInjective(Tail(s))
<1>1. /\ DOMAIN s = 1 .. Len(s) /\ Len(s) \in Nat \ {0} /\ Head(s) = s[1]
      /\ Tail(s) \in Seq(S) /\ DOMAIN Tail(s) = 1 .. Len(s) - 1
      /\ \A n \in 1 .. Len(s) - 1 : Tail(s)[n] = s[n + 1]
  OBVIOUS
<1>2. Range(s) = {s[n] : n \in 1 .. Len(s)}
  BY <1>1 DEF Range
<1>3. Range(Tail(s)) = {s[n + 1] : n \in 1 .. Len(s) - 1}
  BY <1>1 DEF Range
<1>4. \A a, b \in 1 .. Len(s) : s[a] = s[b] => a = b
  BY <1>1 DEF IsInjective
<1>5. IsInjective(Tail(s))
  BY <1>1, <1>4 DEF IsInjective
<1>6. ASSUME NEW x \in Range(s), x # s[1] PROVE x \in Range(Tail(s))
  <2>1. PICK n \in 1 .. Len(s) : x = s[n]
    BY <1>2
  <2>2. n - 1 \in 1 .. Len(s) - 1 /\ s[(n - 1) + 1] = x
    BY <1>1, <1>6, <2>1
  <2> QED
    BY <1>3, <2>2
<1>7. ASSUME NEW x \in Range(Tail(s)) PROVE x \in Range(s) /\ x # s[1]
  BY <1>1, <1>2, <1>3, <1>4, <1>7
<1> QED
  BY <1>1, <1>2, <1>5, <1>6, <1>7

\* Two sequences without repetitions and without a common member, one behind the other.
LEMMA ConcatRange ==
  ASSUME NEW S, NEW s \in Seq(S), NEW t \in Seq(S),
         IsInjective(s), IsInjective(t), Range(s) \cap Range(t) = {}
  PROVE  /\ s \o t \in Seq(S)
         /\ Range(s \o t) = Range(s) \cup Range(t)
         /\ IsInjective(s \o t)
<1>1. /\ DOMAIN s = 1 .. Len(s) /\ DOMAIN t = 1 .. Len(t) /\ Len(s) \in Nat /\ Len(t) \in Nat
      /\ s \o t \in Seq(S) /\ DOMAIN (s \o t) = 1 .. Len(s) + Len(t)
      /\ \A n \in 1 .. Len(s) + Len(t) :
           (s \o t)[n] = IF n <= Len(s) THEN s[n] ELSE t[n - Len(s)]
  OBVIOUS
<1>2. \A n \in 1 .. Len(s), k \in 1 .. Len(t) : s[n] # t[k]
  BY <1>1 DEF Range
<1> QED
  BY <1>1, <1>2, RangeConcatenation DEF IsInjective

\* A new member at the end of a sequence without repetitions.
LEMMA AppendRange ==
  ASSUME NEW S, NEW s \in Seq(S), NEW e \in S, IsInjective(s), e \notin Range(s)
  PROVE  /\ Append(s, e) \in Seq(S) /\ s \o <<e>> = Append(s, e)
         /\ Range(Append(s, e)) = Range(s) \cup {e}
         /\ IsInjective(Append(s, e))
<1>1. <<e>> \in Seq(S) /\ Range(<<e>>) = {e} /\ IsInjective(<<e>>)
  BY DEF Range, IsInjective
<1>2. s \o <<e>> = Append(s, e)
  BY <1>1, AppendIsConcat
<1>3. Range(s) \cap Range(<<e>>) = {}
  BY <1>1
<1>4. /\ Range(s \o <<e>>) = Range(s) \cup Range(<<e>>) /\ IsInjective(s \o <<e>>)
      /\ s \o <<e>> \in Seq(S)
  BY <1>1, <1>3, ConcatRange, ZenonT(60)
<1> QED
  BY <1>1, <1>2, <1>4

\* In a finite set of numbers each place is taken by one member, and by one only.
LEMMA RankLemma ==
  ASSUME NEW ns \in SUBSET Nat, IsFiniteSet(ns)
  PROVE  /\ \A n \in ns : Cardinality({j \in ns : j <= n}) \in 1 .. Cardinality(ns)
         /\ \A a, b \in ns : a < b => Cardinality({j \in ns : j <= a}) < Cardinality({j \in ns : j <= b})
<1> DEFINE Rank(n) == Cardinality({j \in ns : j <= n})
           size == Cardinality(ns)
<1>1. size \in Nat
  BY FS_CardinalityType
<1>2. \A n \in ns : IsFiniteSet({j \in ns : j <= n}) /\ Rank(n) \in 1 .. size
  <2> TAKE n \in ns
  <2>1. {j \in ns : j <= n} \in SUBSET ns
    OBVIOUS
  <2>2. IsFiniteSet({j \in ns : j <= n}) /\ Rank(n) <= size
    BY <2>1, FS_Subset
  <2>3. Rank(n) \in Nat /\ Rank(n) # 0
    BY <2>2, FS_CardinalityType, FS_EmptySet
  <2> QED
    BY <2>2, <2>3, <1>1
<1>3. \A a, b \in ns : a < b => Rank(a) < Rank(b)
  <2> SUFFICES ASSUME NEW a \in ns, NEW b \in ns, a < b PROVE Rank(a) < Rank(b)
    OBVIOUS
  <2>1. {j \in ns : j <= a} \in SUBSET {j \in ns : j <= b}
    <3>1. \A j \in ns : j <= a => j <= b
      OBVIOUS
    <3> QED
      BY <3>1
  <2>2. {j \in ns : j <= a} # {j \in ns : j <= b}
    OBVIOUS
  <2> QED
    BY <1>2, <2>1, <2>2, FS_Subset
<1> QED
  BY <1>2, <1>3

\* Ranked lists every member of a finite set of numbers once, in ascending order.
LEMMA RankedProperties ==
  ASSUME NEW ns \in SUBSET Nat, IsFiniteSet(ns)
  PROVE  /\ Cardinality(ns) \in Nat
         /\ Ranked(ns) \in [1 .. Cardinality(ns) -> ns]
         /\ IsInjective(Ranked(ns))
         /\ Range(Ranked(ns)) = ns
<1> DEFINE Rank(n) == Cardinality({j \in ns : j <= n})
           rank == [n \in ns |-> Rank(n)]
           size == Cardinality(ns)
<1>1. size \in Nat
  BY FS_CardinalityType
<1>2. \A n \in ns : Rank(n) \in 1 .. size
  BY RankLemma
<1>3. \A a, b \in ns : Rank(a) = Rank(b) => a = b
  <2> SUFFICES ASSUME NEW a \in ns, NEW b \in ns, a # b PROVE Rank(a) # Rank(b)
    OBVIOUS
  <2>1. a < b => Rank(a) < Rank(b)
    BY RankLemma
  <2>2. b < a => Rank(b) < Rank(a)
    BY RankLemma
  <2> QED
    BY <1>1, <1>2, <2>1, <2>2
<1>4. rank \in Injection(ns, 1 .. size)
  BY <1>2, <1>3 DEF Injection, IsInjective
<1>5. IsFiniteSet(1 .. size) /\ Cardinality(1 .. size) = size
  BY <1>1, FS_Interval
<1>6. rank \in Surjection(ns, 1 .. size)
  BY <1>4, <1>5, FS_Injection
<1>7. \A k \in 1 .. size : \E n \in ns : Rank(n) = k
  BY <1>6 DEF Surjection
<1>8. \A k \in 1 .. size : Ranked(ns)[k] \in ns /\ Rank(Ranked(ns)[k]) = k
  BY <1>7 DEF Ranked
<1>9. Ranked(ns) \in [1 .. size -> ns]
  BY <1>8 DEF Ranked
<1>10. /\ rank \in [ns -> 1 .. size] /\ \A a, b \in ns : rank[a] = rank[b] => a = b
       /\ \A k \in 1 .. size : rank[Ranked(ns)[k]] = k
  BY <1>2, <1>3, <1>8
<1> HIDE DEF rank
<1>11. IsInjective(Ranked(ns))
  BY <1>9, <1>10 DEF IsInjective
<1>12. \A n \in ns : Ranked(ns)[rank[n]] = n
  BY <1>9, <1>10
<1>13. Range(Ranked(ns)) = ns
  <2>1. \A n \in ns : n \in Range(Ranked(ns))
    BY <1>9, <1>10, <1>12 DEF Range
  <2>2. \A n \in Range(Ranked(ns)) : n \in ns
    BY <1>9 DEF Range
  <2> QED
    BY <2>1, <2>2
<1> QED
  BY <1>1, <1>9, <1>11, <1>13

\* The order of the numbers is well-founded.
LEMMA NatOrder ==
  \E R : IsWellFoundedOn(R, Nat) /\ \A x, y \in Nat : <<y, x>> \in R <=> y < x
<1>1. \A x, y \in Nat : <<y, x>> \in OpToRel(<, Nat) <=> y < x
  BY DEF OpToRel
<1> QED
  BY <1>1, NatLessThanWellFounded, Zenon

\* A nonempty set of numbers has a least member.
LEMMA MinProperties ==
  ASSUME NEW ns \in SUBSET Nat, ns # {}
  PROVE  Min(ns) \in ns /\ \A n \in ns : Min(ns) <= n
<1>1. PICK R : IsWellFoundedOn(R, Nat) /\ \A x, y \in Nat : <<y, x>> \in R <=> y < x
  BY NatOrder
<1>2. \E x \in ns : \A y \in ns : ~ (<<y, x>> \in R)
  BY <1>1, WFMin
<1>3. PICK x \in ns : \A y \in ns : ~ (<<y, x>> \in R)
  BY <1>2
<1>4. \A y \in ns : ~ (y < x)
  BY <1>1, <1>3, Zenon
<1>5. \A y \in ns : x <= y
  BY <1>4
<1> QED
  BY <1>5 DEF Min

\* The smaller of two numbers.
LEMMA MinOfTwo ==
  ASSUME NEW a \in Int, NEW b \in Int
  PROVE  Min({a, b}) = IF a <= b THEN a ELSE b
<1>1. \E x \in {a, b} : \A y \in {a, b} : x <= y
  OBVIOUS
<1> QED
  BY <1>1 DEF Min

\* A sequence without repetitions loses the one member at the place it is cut at.
LEMMA RemoveAtRange ==
  ASSUME NEW S, NEW s \in Seq(S), NEW i \in 1 .. Len(s)
  PROVE  /\ RemoveAt(s, i) \in Seq(S)
         /\ Len(RemoveAt(s, i)) = Len(s) - 1
         /\ \A n \in 1 .. Len(s) - 1 : RemoveAt(s, i)[n] = IF n < i THEN s[n] ELSE s[n + 1]
<1> DEFINE front == SubSeq(s, 1, i - 1)
           back == SubSeq(s, i + 1, Len(s))
<1>1. /\ front \in Seq(S) /\ Len(front) = i - 1
      /\ \A n \in 1 .. i - 1 : front[n] = s[n]
  BY SubSeqProperties
<1>2. /\ back \in Seq(S) /\ Len(back) = Len(s) - i
      /\ \A n \in 1 .. Len(s) - i : back[n] = s[n + i]
  BY SubSeqProperties
<1>3. RemoveAt(s, i) = front \o back
  BY DEF RemoveAt
<1> HIDE DEF front, back
<1>4. /\ front \o back \in Seq(S) /\ Len(front \o back) = Len(s) - 1
      /\ \A n \in 1 .. Len(s) - 1 :
           (front \o back)[n] = IF n <= i - 1 THEN front[n] ELSE back[n - (i - 1)]
  <2>1. Len(front) \in Nat /\ Len(back) \in Nat /\ Len(s) \in Nat
    BY <1>1, <1>2
  <2>2. Len(front \o back) = Len(front) + Len(back) /\ front \o back \in Seq(S)
    BY <1>1, <1>2, ConcatProperties
  <2>3. \A n \in 1 .. Len(front) + Len(back) :
          (front \o back)[n] = IF n <= Len(front) THEN front[n] ELSE back[n - Len(front)]
    BY <1>1, <1>2, ConcatProperties
  <2> QED
    BY <1>1, <1>2, <2>1, <2>2, <2>3
<1> QED
  BY <1>1, <1>2, <1>3, <1>4

\* What message__release_to_inflight picks: the first of the messages that are
\* "invalid", as many as it is allowed.
LEMMA PickedProperties ==
  ASSUME NEW S, NEW q \in Seq(S), NEW most \in Nat
  PROVE  /\ Picked(q, most) \in SUBSET Invalid(q)
         /\ Picked(q, most) \in SUBSET Nat
         /\ IsFiniteSet(Picked(q, most))
         /\ Cardinality(Picked(q, most)) \in 0 .. most
         /\ \A n \in Picked(q, most) : \A k \in Invalid(q) : k < n => k \in Picked(q, most)
<1> DEFINE ns == Invalid(q)
           Rank(n) == Cardinality({j \in ns : j <= n})
<1>1. ns \in SUBSET Nat /\ ns \in SUBSET (1 .. Len(q)) /\ Len(q) \in Nat
  BY DEF Invalid
<1>2. IsFiniteSet(1 .. Len(q))
  BY <1>1, FS_Interval
<1>3. IsFiniteSet(ns)
  BY <1>1, <1>2, FS_Subset
<1>4. Picked(q, most) = {n \in ns : Rank(n) <= most}
  BY DEF Picked
<1> HIDE DEF ns
<1>5. /\ \A n \in ns : Rank(n) \in 1 .. Cardinality(ns)
      /\ \A a, b \in ns : a < b => Rank(a) < Rank(b)
  BY <1>1, <1>3, RankLemma
<1> DEFINE picked == {n \in ns : Rank(n) <= most}
           rank == [n \in picked |-> Rank(n)]
<1>6. picked \in SUBSET ns /\ IsFiniteSet(picked)
  BY <1>3, FS_Subset
<1>7. rank \in Injection(picked, 1 .. most)
  <2>1. \A n \in picked : Rank(n) \in 1 .. most
    BY <1>5
  <2>2. \A a, b \in picked : Rank(a) = Rank(b) => a = b
    <3> SUFFICES ASSUME NEW a \in picked, NEW b \in picked, a # b PROVE Rank(a) # Rank(b)
      OBVIOUS
    <3>1. a \in Nat /\ b \in Nat /\ a \in ns /\ b \in ns
      BY <1>1
    <3>2. Rank(a) \in Nat /\ Rank(b) \in Nat
      BY <3>1, <1>5, <1>3, FS_CardinalityType
    <3> QED
      BY <1>5, <3>1, <3>2
  <2> QED
    BY <2>1, <2>2 DEF Injection, IsInjective
<1>8. IsFiniteSet(1 .. most) /\ Cardinality(1 .. most) = most
  BY FS_Interval
<1>9. Cardinality(picked) <= most /\ Cardinality(picked) \in Nat
  BY <1>6, <1>7, <1>8, FS_Injection, FS_CardinalityType
<1>10. \A n \in picked : \A k \in ns : k < n => k \in picked
  <2> SUFFICES ASSUME NEW n \in picked, NEW k \in ns, k < n PROVE Rank(k) <= most
    OBVIOUS
  <2>1. Rank(k) \in Nat /\ Rank(n) \in Nat /\ Rank(k) < Rank(n)
    BY <1>5, <1>3, FS_CardinalityType
  <2> QED
    BY <2>1
<1> QED
  BY <1>1, <1>4, <1>6, <1>9, <1>10 DEF ns

Listed(ns, g) == [k \in 1 .. Cardinality(ns) |-> g[Ranked(ns)[k]]]

\* A sequence of packets made of the members of a set in order, each packet once.
LEMMA ListedProperties ==
  ASSUME NEW ns \in SUBSET Nat, IsFiniteSet(ns), NEW S, NEW g \in [ns -> S], IsInjective(g)
  PROVE  /\ Listed(ns, g) \in Seq(S) /\ IsInjective(Listed(ns, g))
         /\ Range(Listed(ns, g)) = Range(g)
         /\ \A k \in 1 .. Cardinality(ns) : Ranked(ns)[k] \in ns
<1> DEFINE r == Ranked(ns)
           s == Listed(ns, g)
<1>1. /\ Cardinality(ns) \in Nat /\ r \in [1 .. Cardinality(ns) -> ns]
      /\ IsInjective(r) /\ Range(r) = ns
  BY RankedProperties
<1> HIDE DEF r
<1>2. s = [k \in 1 .. Cardinality(ns) |-> g[r[k]]]
  BY DEF r, Listed
<1> HIDE DEF s
<1>3. s \in [1 .. Cardinality(ns) -> S]
  <2>1. \A k \in 1 .. Cardinality(ns) : r[k] \in ns
    BY <1>1
  <2>2. \A n \in ns : g[n] \in S
    OBVIOUS
  <2>3. \A k \in 1 .. Cardinality(ns) : g[r[k]] \in S
    BY <2>1, <2>2
  <2> QED
    BY <1>2, <2>3
<1>4. s \in Seq(S)
  BY <1>1, <1>3
<1>5. IsInjective(s)
  <2>1. \A k, l \in 1 .. Cardinality(ns) : r[k] = r[l] => k = l
    BY <1>1 DEF IsInjective
  <2>2. \A k \in 1 .. Cardinality(ns) : r[k] \in ns /\ s[k] = g[r[k]]
    BY <1>1, <1>2
  <2>3. DOMAIN s = 1 .. Cardinality(ns)
    BY <1>2
  <2> SUFFICES ASSUME NEW k \in 1 .. Cardinality(ns), NEW l \in 1 .. Cardinality(ns),
                      s[k] = s[l]
               PROVE  k = l
    BY <2>3 DEF IsInjective
  <2>4. g[r[k]] = g[r[l]] /\ r[k] \in ns /\ r[l] \in ns
    BY <2>2
  <2>5. r[k] = r[l]
    BY <2>4 DEF IsInjective
  <2> QED
    BY <2>1, <2>5
<1>6. Range(s) = Range(g)
  <2>1. \A n \in ns : \E k \in 1 .. Cardinality(ns) : r[k] = n
    BY <1>1 DEF Range
  <2>2. \A n \in ns : g[n] \in Range(s)
    BY <1>1, <1>2, <2>1 DEF Range
  <2>3. \A x \in Range(s) : \E n \in ns : x = g[n]
    BY <1>1, <1>2 DEF Range
  <2> QED
    BY <2>2, <2>3 DEF Range
<1> QED
  BY <1>1, <1>3, <1>4, <1>5, <1>6 DEF r, s

\* RemoveFirstMatch cuts a sequence at the first member that matches.
LEMMA RemoveFirstProperties ==
  ASSUME NEW S, NEW s \in Seq(S), NEW e, e \in Range(s)
  PROVE  \E i \in 1 .. Len(s) : s[i] = e /\ RemoveFirst(s, e) = RemoveAt(s, i)
<1> DEFINE ns == {i \in 1 .. Len(s) : s[i] = e}
<1>1. ns \in SUBSET Nat /\ ns # {}
  BY DEF Range
<1>2. Min(ns) \in ns
  BY <1>1, MinProperties
<1>3. RemoveFirst(s, e) = RemoveAt(s, Min(ns))
  BY <1>1, Zenon DEF RemoveFirst, SelectInSeq
<1> QED
  BY <1>2, <1>3

\* Without leaves the list as it is, or cuts it at the message with the number.
LEMMA WithoutProperties ==
  ASSUME NEW S, outq \in Seq(S), NEW mid, NEW n \in DOMAIN outq, outq[n].mid = mid
  PROVE  \E i \in 1 .. Len(outq) : outq[i].mid = mid /\ Without(mid) = RemoveAt(outq, i)
<1> DEFINE ns == {i \in 1 .. Len(outq) : outq[i].mid = mid}
<1>1. ns \in SUBSET Nat /\ ns # {}
  OBVIOUS
<1>2. Min(ns) \in ns
  BY <1>1, MinProperties
<1>3. Without(mid) = RemoveAt(outq, Min(ns))
  BY <1>1, Zenon DEF Without, RemoveFirstMatch, SelectInSeq
<1> QED
  BY <1>2, <1>3
-----------------------------------------------------------------------------
USE LinkAssumption, OutAssumption, InAssumption

\* A message of outq.
Message == [mid : OutMids, qos : {1, 2}, state : States]

\* The packets on their way.
AllMids == OutMids \cup InMids

\* The fields of a packet of each type.
LEMMA PacketTypes ==
  ASSUME NEW p \in Packet(AllMids)
  PROVE  /\ p.type \in Acks \cup {"CONNECT", "CONNACK", "PUBLISH"}
         /\ p.mid \in AllMids \cup {0}
         /\ p.type = "PUBLISH" => p.mid \in AllMids /\ p.qos \in {1, 2} /\ p = Publish(p.mid, p.qos)
         /\ p.type # "PUBLISH" => p = Ack(p.type, p.mid)
BY DEF Packet, Publish, Ack, Acks

\* PUBLISH is a packet.
LEMMA PublishMade ==
  ASSUME NEW mid \in AllMids, NEW qos \in {1, 2}
  PROVE  /\ Publish(mid, qos) \in Packet(AllMids) /\ Publish(mid, qos).type = "PUBLISH"
         /\ Publish(mid, qos).mid = mid /\ Publish(mid, qos).qos = qos
BY DEF Packet, Publish

\* So is every other packet.
LEMMA AckMade ==
  ASSUME NEW type \in {"PUBACK", "PUBREC", "PUBREL", "PUBCOMP", "CONNECT", "CONNACK"},
         NEW mid \in AllMids \cup {0}
  PROVE  /\ Ack(type, mid) \in Packet(AllMids) /\ Ack(type, mid).type = type
         /\ Ack(type, mid).mid = mid
BY DEF Packet, Ack, Acks

\* A message in the list is the only one with its number.
LEMMA OneOfANumber ==
  ASSUME OutOK, ListInv
  PROVE  /\ \A n, k \in DOMAIN outq : outq[n].mid = outq[k].mid => n = k
         /\ \A m, l \in Range(outq) : m.mid = l.mid => m = l
         /\ \A m \in Range(outq) : m \in Message
<1>1. outq \in Seq(Message) /\ DOMAIN outq \in SUBSET Nat
  BY DEF OutOK, Message
<1>2. \A n \in DOMAIN outq : outq[n] \in Message /\ outq[n].mid \in Nat
  <2>1. \A n \in DOMAIN outq : outq[n] \in Message
    BY <1>1
  <2>2. \A m \in Message : m.mid \in Nat
    BY DEF Message, OutMids
  <2> QED
    BY <2>1, <2>2
<1>3. \A n, k \in DOMAIN outq : outq[n].mid = outq[k].mid => n = k
  <2> SUFFICES ASSUME NEW n \in DOMAIN outq, NEW k \in DOMAIN outq, n < k
               PROVE  outq[n].mid # outq[k].mid
    BY <1>1
  <2>1. outq[n].mid < outq[k].mid
    BY DEF ListInv
  <2> QED
    BY <1>2, <2>1
<1> QED
  BY <1>2, <1>3 DEF Range

\* A message in a new state keeps its number and QoS.
LEMMA StateChanged ==
  ASSUME NEW m \in Message, NEW s \in States
  PROVE  /\ [m EXCEPT !.state = s] \in Message
         /\ [m EXCEPT !.state = s].mid = m.mid
         /\ [m EXCEPT !.state = s].qos = m.qos
         /\ [m EXCEPT !.state = s].state = s
BY DEF Message

\* The list after messages have been released: only what is picked has changed.
LEMMA ReleasedProperties ==
  ASSUME NEW q \in Seq(Message), NEW most \in Nat
  PROVE  /\ Released(q, most) \in Seq(Message) /\ DOMAIN Released(q, most) = DOMAIN q
         /\ Len(Released(q, most)) = Len(q)
         /\ Picked(q, most) \in SUBSET DOMAIN q
         /\ \A n \in DOMAIN q :
              /\ n \notin Picked(q, most) => Released(q, most)[n] = q[n]
              /\ n \in Picked(q, most) =>
                   /\ q[n].state = "invalid"
                   /\ Released(q, most)[n].mid = q[n].mid
                   /\ Released(q, most)[n].qos = q[n].qos
                   /\ Released(q, most)[n].state
                        = (IF q[n].qos = 1 THEN "wait_for_puback" ELSE "wait_for_pubrec")
         /\ \A n, k \in DOMAIN q : k < n /\ n \in Picked(q, most) /\ q[k].state = "invalid"
                                     => k \in Picked(q, most)
<1>1. /\ Picked(q, most) \in SUBSET Invalid(q)
      /\ \A n \in Picked(q, most) : \A k \in Invalid(q) : k < n => k \in Picked(q, most)
  BY PickedProperties
<1>2. \A m \in Message :
        /\ Wait(m) \in Message /\ Wait(m).mid = m.mid /\ Wait(m).qos = m.qos
        /\ Wait(m).state = (IF m.qos = 1 THEN "wait_for_puback" ELSE "wait_for_pubrec")
  BY StateChanged DEF Wait, States, Waiting
<1>3. DOMAIN q = 1 .. Len(q) /\ Len(q) \in Nat
  OBVIOUS
<1>4. DOMAIN Released(q, most) = DOMAIN q /\ \A n \in DOMAIN q :
        Released(q, most)[n] = IF n \in Picked(q, most) THEN Wait(q[n]) ELSE q[n]
  BY DEF Released
<1>5. Released(q, most) \in [1 .. Len(q) -> Message]
  BY <1>2, <1>3 DEF Released
<1>6. Released(q, most) \in Seq(Message) /\ Len(Released(q, most)) = Len(q)
  BY <1>3, <1>5
<1> QED
  BY <1>1, <1>2, <1>4, <1>6 DEF Invalid

\* What goes to the broker about a message of the client, and what comes back.
OutUp   == {"PUBLISH", "PUBREL"}
OutDown == {"PUBACK", "PUBREC", "PUBCOMP"}

\* History is kept, and what the monitor of the model has to note is noted.
Noted ==
  /\ mishaps \subseteq mishaps'
  /\ OverLimit' => "overLimit" \in mishaps'
  /\ TwiceKept' => "twiceKept" \in mishaps'

\* No packet about an outgoing message appears.
OutQuiet ==
  /\ \A p \in Range(up') : p.type \in OutUp => p \in Range(up)
  /\ \A p \in Range(down') : p.type \in OutDown => p \in Range(down)
  /\ conn' \in {"connecting", "callback"} => conn \in {"connecting", "callback"}

InQuiet ==
  /\ \A p \in Range(up') : p.type \in OutDown => p \in Range(up)
  /\ \A p \in Range(down') : p.type \in OutUp => p \in Range(down)

\* What the handlers of incoming messages do leaves the outgoing ones as they are.
LEMMA OutUntouched ==
  ASSUME OutIInv, UNCHANGED outVars, Noted, OutQuiet
  PROVE  OutIInv'
<1> USE DEF outVars
<1>1. ListInv'
  BY DEF OutIInv, ListInv, Received
<1>2. OutWireInv'
  <2>1. \A p \in Range(up') : p.type = "PUBLISH" => p \in Range(up)
    BY DEF OutQuiet, OutUp
  <2>2. \A p \in Range(up') : p.type = "PUBREL" => p \in Range(up)
    BY DEF OutQuiet, OutUp
  <2>3. \A p \in Range(down') : p.type = "PUBACK" => p \in Range(down)
    BY DEF OutQuiet, OutDown
  <2>4. \A p \in Range(down') : p.type = "PUBREC" => p \in Range(down)
    BY DEF OutQuiet, OutDown
  <2>5. \A p \in Range(down') : p.type = "PUBCOMP" => p \in Range(down)
    BY DEF OutQuiet, OutDown
  <2>6. \A mid : /\ Ack("PUBACK", mid) \in Range(down') => Ack("PUBACK", mid) \in Range(down)
                 /\ Ack("PUBREC", mid) \in Range(down') => Ack("PUBREC", mid) \in Range(down)
                 /\ Ack("PUBCOMP", mid) \in Range(down') => Ack("PUBCOMP", mid) \in Range(down)
    BY <2>3, <2>4, <2>5 DEF Ack
  <2> QED
    BY <2>1, <2>2, <2>3, <2>4, <2>5, <2>6 DEF OutIInv, OutWireInv, Begun, Received
<1>3. RepeatInv'
  BY DEF OutIInv, RepeatInv, OutQuiet, OutUp, OutDown
<1>4. LimitInv'
  BY DEF OutIInv, LimitInv, Noted
<1>5. OnceInv'
  BY DEF OutIInv, OnceInv, Noted, Received
<1> QED
  BY <1>1, <1>2, <1>3, <1>4, <1>5 DEF OutIInv

\* And the other way round.
LEMMA InUntouched ==
  ASSUME InWireInv, KeptInv, UNCHANGED inVars, Noted, InQuiet
  PROVE  InWireInv' /\ KeptInv'
<1> USE DEF inVars
<1>1. InWireInv'
  <2>1. \A p \in Range(up') : p.type = "PUBACK" => p \in Range(up)
    BY DEF InQuiet, OutDown
  <2>2. \A p \in Range(up') : p.type = "PUBREC" => p \in Range(up)
    BY DEF InQuiet, OutDown
  <2>3. \A p \in Range(up') : p.type = "PUBCOMP" => p \in Range(up)
    BY DEF InQuiet, OutDown
  <2>4. \A p \in Range(down') : p.type = "PUBLISH" => p \in Range(down)
    BY DEF InQuiet, OutUp
  <2>5. \A p \in Range(down') : p.type = "PUBREL" => p \in Range(down)
    BY DEF InQuiet, OutUp
  <2>6. \A mid : /\ Ack("PUBACK", mid) \in Range(up') => Ack("PUBACK", mid) \in Range(up)
                 /\ Ack("PUBREC", mid) \in Range(up') => Ack("PUBREC", mid) \in Range(up)
                 /\ Ack("PUBCOMP", mid) \in Range(up') => Ack("PUBCOMP", mid) \in Range(up)
    BY <2>1, <2>2, <2>3 DEF Ack
  <2> QED
    BY <2>1, <2>2, <2>3, <2>4, <2>5, <2>6 DEF InWireInv, Noted
<1>2. KeptInv'
  BY DEF KeptInv, Noted
<1> QED
  BY <1>1, <1>2

\* The list q that is left to message__release_to_inflight: the messages of outq but
\* the one with the number gone, and perhaps a new one behind them.
Remaining(q, gone) ==
  /\ q \in Seq(Message)
  /\ \A n, k \in DOMAIN q : n < k => q[n].mid < q[k].mid
  /\ \A n \in DOMAIN q :
       \/ q[n] \in Range(outq) /\ q[n].mid # gone
       \/ q[n].mid > last_mid /\ q[n].mid <= last_mid' /\ q[n].state = "invalid"
  /\ \A m \in Range(outq) : m.mid # gone => m \in Range(q)
  /\ \A n, k \in DOMAIN q :
       n > MaxInflight /\ q[n].state # "invalid" /\ k < n => q[k].state # "invalid"
  /\ "overLimit" \notin mishaps => \A n \in DOMAIN q : Received(q[n]) => n <= MaxInflight

\* message__release_to_inflight keeps the invariant, sent or not.
LEMMA ReleaseKeeps ==
  ASSUME TypeOK, OutIInv, Noted, NEW q, NEW gone, NEW most \in Nat, Remaining(q, gone),
         outq' = Released(q, most), UNCHANGED <<got, held>>,
         last_mid' \in OutMids \cup {0}, last_mid' >= last_mid,
         \A mid \in acked' : mid \in acked \/ got[mid] > 0,
         conn' \in {"connecting", "callback"} => conn \in {"connecting", "callback"},
         \A p \in Range(up') : p.type \in OutUp =>
           \/ p \in Range(up) /\ p.mid # gone
           \/ \E n \in Picked(q, most) : p = Publish(q[n].mid, q[n].qos),
         \A p \in Range(down') : p.type \in OutDown => p \in Range(down) /\ p.mid # gone
  PROVE  OutIInv'
<1> DEFINE r == Released(q, most)
           ps == Picked(q, most)
<1>1. /\ r \in Seq(Message) /\ DOMAIN r = DOMAIN q /\ ps \in SUBSET DOMAIN q /\ q \in Seq(Message)
      /\ \A n \in DOMAIN q : r[n].mid = q[n].mid /\ r[n].qos = q[n].qos
      /\ \A n \in DOMAIN q : n \notin ps => r[n] = q[n]
      /\ \A n \in ps : q[n].state = "invalid"
                       /\ r[n].state = (IF q[n].qos = 1 THEN "wait_for_puback" ELSE "wait_for_pubrec")
      /\ \A n, k \in DOMAIN q : k < n /\ n \in ps /\ q[k].state = "invalid" => k \in ps
  BY ReleasedProperties DEF Remaining
<1>2. /\ DOMAIN q \in SUBSET Nat
      /\ \A n \in DOMAIN q : /\ q[n].mid \in OutMids /\ q[n].mid \in Nat /\ q[n].qos \in {1, 2}
                             /\ q[n].state \in States
  <2>1. \A n \in DOMAIN q : q[n] \in Message
    BY <1>1
  <2> QED
    BY <1>1, <2>1 DEF Message, OutMids
<1>3. /\ \A m, l \in Range(outq) : m.mid = l.mid => m = l
      /\ \A m \in Range(outq) : m.mid \in OutMids /\ m.mid <= last_mid
  BY OneOfANumber DEF TypeOK, OutIInv, ListInv, Message
<1>4. last_mid \in Nat /\ last_mid' \in Nat /\ got \in [OutMids -> Nat] /\ acked \subseteq OutMids
  BY DEF TypeOK, OutOK, OutMids
<1>5. \A n \in DOMAIN q : q[n].mid <= last_mid => q[n] \in Range(outq) /\ q[n].mid # gone
  BY <1>2, <1>4 DEF Remaining
\* A message that is part way through its delivery is where it was.
<1>6. \A m \in Range(outq) : m.mid # gone /\ m.state # "invalid" => m \in Range(r)
  <2> SUFFICES ASSUME NEW m \in Range(outq), m.mid # gone, m.state # "invalid" PROVE m \in Range(r)
    OBVIOUS
  <2>1. PICK n \in DOMAIN q : q[n] = m
    BY DEF Remaining, Range
  <2> QED
    BY <1>1, <2>1 DEF Range
<1>7. \A n \in DOMAIN q : q[n].state # "invalid" => q[n] \in Range(outq) /\ q[n].mid # gone
  BY DEF Remaining
\* The messages of r are those of outq or have just begun or not begun at all.
<1>8. \A n \in DOMAIN q : \/ r[n] \in Range(outq) /\ q[n] = r[n] /\ r[n].state # "invalid"
                          \/ r[n] = q[n] /\ q[n].state = "invalid"
                          \/ n \in ps /\ q[n].state = "invalid"
  BY <1>1, <1>7
<1> HIDE DEF r, ps
<1>9. outq' = r
  BY DEF r
<1>10. ListInv'
  <2>1. \A n, k \in DOMAIN r : n < k => r[n].mid < r[k].mid
    BY <1>1 DEF Remaining
  <2>2. \A n \in DOMAIN r :
          /\ r[n].mid <= last_mid'
          /\ r[n].state \in {"wait_for_puback", "publish_qos1"} => r[n].qos = 1
          /\ r[n].state \in {"wait_for_pubrec", "publish_qos2"} => r[n].qos = 2
          /\ Received(r[n]) => r[n].qos = 2 /\ got[r[n].mid] > 0
    <3> SUFFICES ASSUME NEW n \in DOMAIN q
                 PROVE  /\ r[n].mid <= last_mid'
                        /\ r[n].state \in {"wait_for_puback", "publish_qos1"} => r[n].qos = 1
                        /\ r[n].state \in {"wait_for_pubrec", "publish_qos2"} => r[n].qos = 2
                        /\ Received(r[n]) => r[n].qos = 2 /\ got[r[n].mid] > 0
      BY <1>1
    <3>1. r[n].mid <= last_mid'
      BY <1>1, <1>2, <1>3, <1>4 DEF Remaining
    <3>2. CASE r[n] \in Range(outq)
      BY <3>1, <3>2 DEF OutIInv, ListInv
    <3>3. CASE q[n].state = "invalid" /\ n \in ps
      BY <1>1, <1>2, <3>1, <3>3 DEF Received
    <3>4. CASE r[n].state = "invalid"
      BY <3>1, <3>4 DEF Received
    <3> QED
      BY <1>8, <3>2, <3>3, <3>4
  <2>3. \A mid \in OutMids : mid > last_mid' => got[mid] = 0
    BY <1>4 DEF OutIInv, ListInv, OutMids
  <2>4. \A mid \in acked' \cup held : got[mid] > 0
    BY DEF OutIInv, ListInv
  <2> QED
    BY <1>9, <2>1, <2>2, <2>3, <2>4 DEF ListInv, Range, Received
<1>11. OutWireInv'
  <2>1. ASSUME NEW p \in Range(up'), p.type = "PUBLISH"
        PROVE  /\ \E m \in Range(r) : m.mid = p.mid /\ m.qos = p.qos /\ Begun(m)
               /\ Ack("PUBACK", p.mid) \notin Range(down') /\ Ack("PUBREC", p.mid) \notin Range(down')
    <3>1. CASE p \in Range(up) /\ p.mid # gone
      <4>1. PICK m \in Range(outq) : m.mid = p.mid /\ m.qos = p.qos /\ Begun(m)
        BY <2>1, <3>1 DEF OutIInv, OutWireInv
      <4>2. m \in Range(r)
        BY <1>6, <3>1, <4>1 DEF Begun
      <4>3. Ack("PUBACK", p.mid) \notin Range(down) /\ Ack("PUBREC", p.mid) \notin Range(down)
        BY <2>1, <3>1 DEF OutIInv, OutWireInv
      <4>4. Ack("PUBACK", p.mid).type = "PUBACK" /\ Ack("PUBREC", p.mid).type = "PUBREC"
        BY DEF Ack
      <4> QED
        BY <4>1, <4>2, <4>3, <4>4 DEF OutDown
    <3>2. CASE \E n \in ps : p = Publish(q[n].mid, q[n].qos)
      <4>1. PICK n \in ps : p = Publish(q[n].mid, q[n].qos)
        BY <3>2
      <4>2. p.mid = q[n].mid /\ p.qos = q[n].qos
        BY <4>1 DEF Publish
      <4>3. r[n] \in Range(r) /\ r[n].mid = p.mid /\ r[n].qos = p.qos /\ Begun(r[n])
        BY <1>1, <1>2, <4>2 DEF Range, Begun
      <4>4. \A m \in Range(outq) : m.mid = p.mid => ~Begun(m)
        <5> SUFFICES ASSUME NEW m \in Range(outq), m.mid = p.mid PROVE ~Begun(m)
          OBVIOUS
        <5>1. q[n] \in Range(outq)
          BY <1>1, <1>3, <1>5, <4>2
        <5>2. m = q[n]
          BY <1>3, <4>2, <5>1
        <5> QED
          BY <1>1, <5>2 DEF Begun
      <4>5. \A type \in {"PUBACK", "PUBREC"} : Ack(type, p.mid) \notin Range(down')
        <5> SUFFICES ASSUME NEW type \in {"PUBACK", "PUBREC"}, Ack(type, p.mid) \in Range(down)
                     PROVE  FALSE
          BY DEF Ack, OutDown
        <5>1. Ack(type, p.mid).type = type /\ Ack(type, p.mid).mid = p.mid
          BY DEF Ack
        <5>2. \E m \in Range(outq) : m.mid = p.mid /\ Begun(m)
          BY <5>1 DEF OutIInv, OutWireInv
        <5> QED
          BY <4>4, <5>2
      <4> QED
        BY <4>3, <4>5
    <3> QED
      BY <2>1, <3>1, <3>2 DEF OutUp, ps
  <2>2. ASSUME NEW p \in Range(up'), p.type = "PUBREL"
        PROVE  /\ \E m \in Range(r) : m.mid = p.mid /\ Received(m)
               /\ Ack("PUBCOMP", p.mid) \notin Range(down')
    <3>1. p \in Range(up) /\ p.mid # gone
      BY <2>2 DEF OutUp, Publish
    <3>2. PICK m \in Range(outq) : m.mid = p.mid /\ Received(m)
      BY <2>2, <3>1 DEF OutIInv, OutWireInv
    <3>3. m \in Range(r)
      BY <1>6, <3>1, <3>2 DEF Received
    <3>4. Ack("PUBCOMP", p.mid) \notin Range(down)
      BY <2>2, <3>1 DEF OutIInv, OutWireInv
    <3> QED
      BY <3>2, <3>3, <3>4 DEF OutDown, Ack
  <2>3. ASSUME NEW p \in Range(down'), p.type \in {"PUBACK", "PUBREC"}
        PROVE  got[p.mid] > 0 /\ \E m \in Range(r) : m.mid = p.mid /\ Begun(m)
                                                     /\ m.qos = IF p.type = "PUBACK" THEN 1 ELSE 2
    <3>1. p \in Range(down) /\ p.mid # gone
      BY <2>3 DEF OutDown
    <3>2. got[p.mid] > 0
      BY <2>3, <3>1 DEF OutIInv, OutWireInv
    <3>3. PICK m \in Range(outq) : m.mid = p.mid /\ Begun(m)
                                   /\ m.qos = IF p.type = "PUBACK" THEN 1 ELSE 2
      BY <2>3, <3>1 DEF OutIInv, OutWireInv
    <3>4. m \in Range(r)
      BY <1>6, <3>1, <3>3 DEF Begun
    <3> QED
      BY <3>2, <3>3, <3>4
  <2>4. ASSUME NEW p \in Range(down'), p.type = "PUBCOMP"
        PROVE  \E m \in Range(r) : m.mid = p.mid /\ Received(m)
    <3>1. p \in Range(down) /\ p.mid # gone
      BY <2>4 DEF OutDown
    <3>2. PICK m \in Range(outq) : m.mid = p.mid /\ Received(m)
      BY <2>4, <3>1 DEF OutIInv, OutWireInv
    <3>3. m \in Range(r)
      BY <1>6, <3>1, <3>2 DEF Received
    <3> QED
      BY <3>2, <3>3
  <2> QED
    BY <1>9, <2>1, <2>2, <2>3, <2>4 DEF OutWireInv, Begun, Received
<1>12. RepeatInv'
  <2> SUFFICES ASSUME conn' \in {"connecting", "callback"}
               PROVE  /\ \A p \in Range(up') : p.type # "PUBREL"
                      /\ \A m \in Range(r) :
                           /\ m.state # "wait_for_pubcomp"
                           /\ m.state \in Resent =>
                                /\ \A p \in Range(up') : p.type = "PUBLISH" => p.mid # m.mid
                                /\ \A p \in Range(down') : p.type \in OutDown => p.mid # m.mid
    BY <1>9 DEF RepeatInv, OutDown
  <2>1. /\ \A p \in Range(up) : p.type # "PUBREL"
        /\ \A m \in Range(outq) :
             /\ m.state # "wait_for_pubcomp"
             /\ m.state \in Resent =>
                  /\ \A p \in Range(up) : p.type = "PUBLISH" => p.mid # m.mid
                  /\ \A p \in Range(down) : p.type \in OutDown => p.mid # m.mid
    BY DEF OutIInv, RepeatInv, OutDown
  <2>2. \A p \in Range(up') : p.type # "PUBREL"
    BY <2>1 DEF OutUp, Publish
  <2>3. ASSUME NEW n \in DOMAIN q
        PROVE  /\ r[n].state # "wait_for_pubcomp"
               /\ r[n].state \in Resent => r[n] \in Range(outq) /\ r[n] = q[n] /\ q[n].state # "invalid"
    BY <1>1, <1>8, <2>1 DEF Resent
  <2>4. ASSUME NEW n \in DOMAIN q, r[n].state \in Resent, NEW p \in Range(up'), p.type = "PUBLISH",
               p.mid = r[n].mid
        PROVE  FALSE
    <3>1. CASE p \in Range(up)
      BY <2>1, <2>3, <2>4, <3>1
    <3>2. CASE \E k \in ps : p = Publish(q[k].mid, q[k].qos)
      <4>1. PICK k \in ps : p.mid = q[k].mid
        BY <3>2 DEF Publish
      <4>2. k = n
        <5>1. k \in DOMAIN q /\ q[k].mid = q[n].mid
          BY <1>1, <2>4, <4>1
        <5>2. ~ (k < n) /\ ~ (n < k)
          BY <5>1, <1>2 DEF Remaining
        <5> QED
          BY <1>2, <5>1, <5>2
      <4> QED
        BY <1>1, <2>3, <2>4, <4>2
    <3> QED
      BY <2>4, <3>1, <3>2 DEF OutUp, ps
  <2>5. \A n \in DOMAIN q : r[n].state \in Resent =>
          \A p \in Range(down') : p.type \in OutDown => p.mid # r[n].mid
    BY <2>1, <2>3
  <2> QED
    BY <1>1, <2>2, <2>3, <2>4, <2>5 DEF Range
<1>13. LimitInv'
  <2>1. \A n, k \in DOMAIN r :
          n > MaxInflight /\ r[n].state # "invalid" /\ k < n => r[k].state # "invalid"
    <3> SUFFICES ASSUME NEW n \in DOMAIN q, NEW k \in DOMAIN q, n > MaxInflight,
                        r[n].state # "invalid", k < n, r[k].state = "invalid"
                 PROVE  FALSE
      BY <1>1
    <3>1. k \notin ps /\ q[k].state = "invalid"
      BY <1>1
    <3>2. n \notin ps
      BY <1>1, <3>1
    <3>3. q[n].state # "invalid"
      BY <1>1, <3>2
    <3> QED
      BY <3>1, <3>3 DEF Remaining
  <2> QED
    BY <1>9, <2>1 DEF LimitInv, Noted
<1>14. OnceInv'
  <2> SUFFICES ASSUME "overLimit" \notin mishaps'
               PROVE  /\ \A mid \in OutMids : got[mid] <= 1
                      /\ \A n \in DOMAIN q :
                           /\ r[n].qos = 2 /\ ~Received(r[n]) /\ got[r[n].mid] > 0 => r[n].mid \in held
                           /\ Received(r[n]) => n <= MaxInflight
    BY <1>1, <1>9 DEF OnceInv, Received
  <2>1. "overLimit" \notin mishaps
    BY DEF Noted
  <2>2. /\ \A mid \in OutMids : got[mid] <= 1
        /\ \A m \in Range(outq) : m.qos = 2 /\ ~Received(m) /\ got[m.mid] > 0 => m.mid \in held
    BY <2>1 DEF OutIInv, OnceInv, Range
  <2>3. ASSUME NEW n \in DOMAIN q, r[n].qos = 2, ~Received(r[n]), got[r[n].mid] > 0
        PROVE  r[n].mid \in held
    <3>1. q[n] \in Range(outq)
      BY <1>1, <1>2, <1>4, <1>5, <2>3 DEF OutIInv, ListInv
    <3>2. ~Received(q[n])
      BY <1>1, <2>3 DEF Received
    <3> QED
      BY <1>1, <2>2, <2>3, <3>1, <3>2
  <2>4. ASSUME NEW n \in DOMAIN q, Received(r[n]) PROVE n <= MaxInflight
    <3>1. r[n] = q[n]
      BY <1>1, <1>2, <2>4 DEF Received
    <3> QED
      BY <2>1, <2>4, <3>1 DEF Remaining
  <2> QED
    BY <2>2, <2>3, <2>4
<1> QED
  BY <1>10, <1>11, <1>12, <1>13, <1>14 DEF OutIInv

\* The client reads a packet.
LEMMA ReadsWire ==
  ASSUME TypeOK, WireInv, NEW type, Readable(type), down' = Tail(down)
  PROVE  /\ Head(down) \in Range(down) /\ Head(down) \in Packet(AllMids) /\ Head(down).type = type
         /\ down' \in Seq(Packet(AllMids)) /\ IsInjective(down')
         /\ Range(down') = Range(down) \ {Head(down)}
<1>1. down \in Seq(Packet(AllMids)) /\ down # <<>> /\ IsInjective(down)
  BY DEF TypeOK, LinkOK, WireInv, Readable, AllMids
<1>2. Head(down) \in Packet(AllMids)
  BY <1>1
<1> QED
  BY <1>1, <1>2, TailRange DEF Readable

\* What is sent goes behind what is on its way.
LEMMA ConcatHead ==
  ASSUME NEW S, NEW s \in Seq(S), NEW t \in Seq(S), s # <<>>
  PROVE  Head(s \o t) = Head(s)
OBVIOUS

\* The client sends packets that are not on their way yet.
LEMMA SendsWire ==
  ASSUME TypeOK, WireInv, NEW s \in Seq(Packet(AllMids)), IsInjective(s),
         \A p \in Range(s) : p \notin Range(up), Sends(s)
  PROVE  /\ up' \in Seq(Packet(AllMids)) /\ IsInjective(up')
         /\ Range(up') = Range(up) \cup Range(s)
         /\ up # <<>> => Head(up') = Head(up)
<1>1. up \in Seq(Packet(AllMids)) /\ IsInjective(up)
  BY DEF TypeOK, LinkOK, WireInv, AllMids
<1> QED
  BY <1>1, ConcatRange, ConcatHead DEF Sends

\* A sequence of one packet.
LEMMA OnePacket ==
  ASSUME NEW S, NEW p \in S
  PROVE  <<p>> \in Seq(S) /\ IsInjective(<<p>>) /\ Range(<<p>>) = {p}
BY DEF IsInjective, Range

\* An empty sequence.
LEMMA NoPacket ==
  ASSUME NEW S
  PROVE  <<>> \in Seq(S) /\ IsInjective(<<>>) /\ Range(<<>>) = {}
BY DEF IsInjective, Range

\* The broker reads a packet and answers with packets that are not on their way yet.
LEMMA BrokerReadsWire ==
  ASSUME TypeOK, WireInv, NEW type, NEW s \in Seq(Packet(AllMids)), IsInjective(s),
         \A p \in Range(s) : p \notin Range(down), BrokerReads(type, s)
  PROVE  /\ Head(up) \in Range(up) /\ Head(up) \in Packet(AllMids) /\ Head(up).type = type
         /\ up' \in Seq(Packet(AllMids)) /\ IsInjective(up')
         /\ Range(up') = Range(up) \ {Head(up)}
         /\ down' \in Seq(Packet(AllMids)) /\ IsInjective(down')
         /\ Range(down') = Range(down) \cup Range(s)
         /\ UNCHANGED <<conn, drops>>
<1>1. /\ up \in Seq(Packet(AllMids)) /\ IsInjective(up) /\ up # <<>>
      /\ down \in Seq(Packet(AllMids)) /\ IsInjective(down)
  BY DEF TypeOK, LinkOK, WireInv, AllMids, BrokerReads
<1>2. Head(up) \in Packet(AllMids)
  BY <1>1
<1>3. up' = Tail(up) /\ down' = down \o s /\ Head(up).type = type /\ UNCHANGED <<conn, drops>>
  BY DEF BrokerReads
<1>4. Head(up) \in Range(up) /\ up' \in Seq(Packet(AllMids)) /\ IsInjective(up')
      /\ Range(up') = Range(up) \ {Head(up)}
  BY <1>1, <1>3, TailRange
<1>5. down' \in Seq(Packet(AllMids)) /\ IsInjective(down') /\ Range(down') = Range(down) \cup Range(s)
  BY <1>1, <1>3, ConcatRange
<1> QED
  BY <1>2, <1>3, <1>4, <1>5

\* The packets for the released messages: one PUBLISH for each, with its number and QoS.
LEMMA ReleasedPacketsProperties ==
  ASSUME NEW q \in Seq(Message), NEW most \in Nat,
         \A n, k \in DOMAIN q : n < k => q[n].mid < q[k].mid
  PROVE  /\ ReleasedPackets(q, most) \in Seq(Packet(AllMids))
         /\ IsInjective(ReleasedPackets(q, most))
         /\ Range(ReleasedPackets(q, most)) = {Publish(q[n].mid, q[n].qos) : n \in Picked(q, most)}
<1> DEFINE ns == Picked(q, most)
           g == [n \in ns |-> Publish(q[n].mid, q[n].qos)]
           s == Listed(ns, g)
<1>1. ns \in SUBSET Nat /\ IsFiniteSet(ns) /\ ns \in SUBSET DOMAIN q /\ DOMAIN q \in SUBSET Nat
  <2>1. ns \in SUBSET Nat /\ IsFiniteSet(ns)
    BY PickedProperties
  <2>2. ns \in SUBSET DOMAIN q
    BY ReleasedProperties
  <2>3. DOMAIN q \in SUBSET Nat
    OBVIOUS
  <2> QED
    BY <2>1, <2>2, <2>3
<1>2. \A n \in DOMAIN q : q[n].mid \in OutMids /\ q[n].mid \in Nat /\ q[n].qos \in {1, 2}
  <2>1. \A n \in DOMAIN q : q[n] \in Message
    OBVIOUS
  <2> QED
    BY <2>1 DEF Message, OutMids
<1>3. \A n \in ns : Publish(q[n].mid, q[n].qos) \in Packet(AllMids)
                    /\ Publish(q[n].mid, q[n].qos).mid = q[n].mid
  BY <1>1, <1>2, PublishMade DEF AllMids
<1>4. g \in [ns -> Packet(AllMids)]
  BY <1>3
<1>5. IsInjective(g)
  <2> SUFFICES ASSUME NEW a \in ns, NEW b \in ns, g[a] = g[b] PROVE a = b
    BY DEF IsInjective
  <2>1. q[a].mid = q[b].mid
    BY <1>3
  <2>2. a \in DOMAIN q /\ b \in DOMAIN q /\ a \in Nat /\ b \in Nat
    BY <1>1
  <2>3. ~ (a < b) /\ ~ (b < a)
    BY <1>2, <2>1, <2>2
  <2> QED
    BY <2>2, <2>3
<1>6. DOMAIN g = ns /\ \A a \in ns : g[a] = Publish(q[a].mid, q[a].qos)
  OBVIOUS
<1> HIDE DEF g, ns
<1>7. /\ s \in Seq(Packet(AllMids)) /\ IsInjective(s) /\ Range(s) = Range(g)
      /\ \A k \in 1 .. Cardinality(ns) : Ranked(ns)[k] \in ns
  BY <1>1, <1>4, <1>5, ListedProperties
<1>8. s = [k \in 1 .. Cardinality(ns) |-> Publish(q[Ranked(ns)[k]].mid, q[Ranked(ns)[k]].qos)]
  BY <1>6, <1>7 DEF Listed
<1>9. ReleasedPackets(q, most)
        = [k \in 1 .. Cardinality(ns) |-> Publish(q[Ranked(ns)[k]].mid, q[Ranked(ns)[k]].qos)]
  BY DEF ReleasedPackets, InOrder, ns
<1>10. Range(s) = {Publish(q[n].mid, q[n].qos) : n \in ns}
  BY <1>6, <1>7 DEF Range
<1> QED
  BY <1>7, <1>8, <1>9, <1>10 DEF ns

\* What the two callers of message__release_to_inflight have in common: the list that
\* is left, the history, and what is still on its way to the client.
Releasing(q, gone) ==
  /\ Remaining(q, gone)
  /\ UNCHANGED <<got, held>>
  /\ last_mid' \in OutMids \cup {0} /\ last_mid' >= last_mid
  /\ \A mid \in acked' : mid \in acked \/ got[mid] > 0
  /\ \A p \in Range(up) : p.type \in OutUp => p.mid # gone

\* The messages that are sent are not on their way yet.
LEMMA ReleaseSends ==
  ASSUME TypeOK, WireInv, OutIInv, NEW q, NEW gone, Remaining(q, gone), NEW most \in Nat,
         Sends(ReleasedPackets(q, most))
  PROVE  /\ up' \in Seq(Packet(AllMids)) /\ IsInjective(up')
         /\ \A p \in Range(up') : p.type # "PUBLISH" => p \in Range(up)
         /\ up # <<>> => Head(up') = Head(up)
         /\ \A p \in Range(up') : \/ p \in Range(up)
                                  \/ \E n \in Picked(q, most) : p = Publish(q[n].mid, q[n].qos)
<1> DEFINE s == ReleasedPackets(q, most)
<1>1. q \in Seq(Message) /\ Picked(q, most) \in SUBSET DOMAIN q
      /\ \A n \in Picked(q, most) : q[n].state = "invalid"
  BY ReleasedProperties DEF Remaining
<1>2. /\ s \in Seq(Packet(AllMids)) /\ IsInjective(s)
      /\ Range(s) = {Publish(q[n].mid, q[n].qos) : n \in Picked(q, most)}
  BY ReleasedPacketsProperties DEF Remaining
<1>3. ASSUME NEW n \in Picked(q, most) PROVE Publish(q[n].mid, q[n].qos) \notin Range(up)
  <2> SUFFICES ASSUME Publish(q[n].mid, q[n].qos) \in Range(up) PROVE FALSE
    OBVIOUS
  <2>1. PICK m \in Range(outq) : m.mid = q[n].mid /\ Begun(m)
    BY DEF Publish, OutIInv, OutWireInv
  <2>2. m.mid <= last_mid /\ m.mid \in Nat /\ last_mid \in Nat
    BY OneOfANumber DEF TypeOK, OutOK, OutIInv, ListInv, Message, OutMids
  <2>3. q[n] \in Range(outq)
    BY <1>1, <2>1, <2>2 DEF Remaining
  <2>4. m = q[n]
    BY <2>1, <2>3, OneOfANumber DEF TypeOK, OutIInv
  <2> QED
    BY <1>1, <2>1, <2>4 DEF Begun
<1>4. /\ up' \in Seq(Packet(AllMids)) /\ IsInjective(up') /\ Range(up') = Range(up) \cup Range(s)
      /\ up # <<>> => Head(up') = Head(up)
  BY <1>2, <1>3, SendsWire
<1>5. \A n \in Picked(q, most) : Publish(q[n].mid, q[n].qos).type = "PUBLISH"
  BY DEF Publish
<1> HIDE DEF s
<1> QED
  BY <1>2, <1>4, <1>5

\* The quota covers what is picked.
LEMMA QuotaLeft ==
  ASSUME NEW q \in Seq(Message), NEW quo \in 0 .. MaxInflight
  PROVE  /\ quo - Cardinality(Picked(q, quo)) \in 0 .. MaxInflight
         /\ \A n \in 1 .. Cardinality(Picked(q, quo)) : quo - (n - 1) \in 0 .. MaxInflight
<1>1. Cardinality(Picked(q, quo)) \in 0 .. quo
  BY PickedProperties
<1> QED
  BY <1>1

\* A list that satisfies Releasing satisfies the invariant once messages are released
\* and sent.
LEMMA ReleaseStep ==
  ASSUME IInv, Noted, NEW q, NEW gone, Releasing(q, gone), NEW quo \in 0 .. MaxInflight,
         message__release_to_inflight(q, quo), UNCHANGED <<conn, drops>>, UNCHANGED inVars,
         down' \in Seq(Packet(AllMids)), IsInjective(down'),
         \A p \in Range(down') : p \in Range(down), down = <<>> => down' = <<>>,
         \A p \in Range(down') : p.type \in OutDown => p.mid # gone
  PROVE  /\ LinkOK(AllMids)' /\ outq' \in Seq(Message) /\ quota' \in 0 .. MaxInflight
         /\ WireInv' /\ OutIInv' /\ InWireInv' /\ KeptInv'
<1> USE DEF IInv
<1>1. q \in Seq(Message) /\ quo \in Nat /\ Min({1, quo}) \in Nat
  BY MinOfTwo DEF Releasing, Remaining
<1>2. CASE HasSocket
  <2>1. /\ outq' = Released(q, quo) /\ quota' = quo - Cardinality(Picked(q, quo))
        /\ Sends(ReleasedPackets(q, quo))
    BY <1>2 DEF message__release_to_inflight
  <2>2. /\ up' \in Seq(Packet(AllMids)) /\ IsInjective(up')
        /\ \A p \in Range(up') : p.type # "PUBLISH" => p \in Range(up)
        /\ up # <<>> => Head(up') = Head(up)
        /\ \A p \in Range(up') : \/ p \in Range(up)
                                 \/ \E n \in Picked(q, quo) : p = Publish(q[n].mid, q[n].qos)
    BY <1>1, <2>1, ReleaseSends DEF Releasing
  <2>3. LinkOK(AllMids)' /\ outq' \in Seq(Message) /\ quota' \in 0 .. MaxInflight
    BY <1>1, <2>1, <2>2, ReleasedProperties, QuotaLeft DEF TypeOK, LinkOK
  <2>4. WireInv'
    <3>1. ASSUME NEW p \in Range(up'), p.type = "CONNECT"
          PROVE  /\ p = Head(up') /\ conn' = "connecting" /\ down' = <<>>
                 /\ \A k \in Range(up') : k.type \in {"CONNECT", "PUBLISH"}
      <4>1. p \in Range(up) /\ up # <<>>
        BY <2>2, <3>1, NoPacket
      <4> QED
        BY <2>2, <3>1, <4>1 DEF WireInv
    <3> QED
      BY <1>2, <2>2, <3>1 DEF WireInv, HasSocket
  <2>5. OutIInv'
    <3>1. \A p \in Range(up') : p.type \in OutUp =>
            \/ p \in Range(up) /\ p.mid # gone
            \/ \E n \in Picked(q, quo) : p = Publish(q[n].mid, q[n].qos)
      BY <2>2 DEF Releasing
    <3> QED
      BY <1>1, <2>1, <3>1, ReleaseKeeps DEF Releasing
  <2>6. InQuiet
    BY <2>2 DEF InQuiet, OutDown
  <2> QED
    BY <2>3, <2>4, <2>5, <2>6, InUntouched
<1>3. CASE ~HasSocket
  <2>1. outq' = Released(q, Min({1, quo})) /\ quota' = quo /\ UNCHANGED up
    BY <1>3 DEF message__release_to_inflight
  <2>2. LinkOK(AllMids)' /\ outq' \in Seq(Message) /\ quota' \in 0 .. MaxInflight
    BY <1>1, <2>1, ReleasedProperties DEF TypeOK, LinkOK, AllMids
  <2>3. WireInv'
    BY <2>1 DEF WireInv
  <2>4. OutIInv'
    BY <1>1, <2>1, ReleaseKeeps DEF Releasing
  <2>5. InQuiet
    BY <2>1 DEF InQuiet
  <2> QED
    BY <2>2, <2>3, <2>4, <2>5, InUntouched
<1> QED
  BY <1>2, <1>3

\* After a loss nothing is on its way.
LEMMA LostWire ==
  ASSUME TypeOK, Lost
  PROVE  /\ LinkOK(AllMids)' /\ WireInv' /\ Range(up') = {} /\ Range(down') = {} /\ conn' = "closed"
<1>1. up' = <<>> /\ down' = <<>> /\ conn' = "closed" /\ drops' \in 0 .. MaxDrops
  BY DEF TypeOK, LinkOK, Lost
<1> QED
  BY <1>1, NoPacket DEF LinkOK, WireInv

\* The same when one of the writes fails and the connection is lost.
LEMMA ReleaseFails ==
  ASSUME IInv, Noted, NEW q, NEW gone, Releasing(q, gone), NEW quo \in 0 .. MaxInflight,
         release_fails(q, quo), UNCHANGED inVars
  PROVE  /\ LinkOK(AllMids)' /\ outq' \in Seq(Message) /\ quota' \in 0 .. MaxInflight
         /\ WireInv' /\ OutIInv' /\ InWireInv' /\ KeptInv'
<1> USE DEF IInv
<1>1. q \in Seq(Message)
  BY DEF Releasing, Remaining
<1>2. PICK n \in 1 .. Cardinality(Picked(q, quo)) : outq' = Released(q, n) /\ quota' = quo - (n - 1)
  BY DEF release_fails
<1>3. n \in Nat
  OBVIOUS
<1>4. LinkOK(AllMids)' /\ WireInv' /\ Range(up') = {} /\ Range(down') = {} /\ conn' = "closed"
  BY LostWire DEF release_fails
<1>5. outq' \in Seq(Message) /\ quota' \in 0 .. MaxInflight
  BY <1>1, <1>2, <1>3, ReleasedProperties, QuotaLeft
<1>6. OutIInv'
  BY <1>2, <1>3, <1>4, ReleaseKeeps DEF Releasing
<1>7. InQuiet
  BY <1>4 DEF InQuiet
<1> QED
  BY <1>4, <1>5, <1>6, <1>7, InUntouched

\* The history of mishaps grows, and has what the step has brought about.
LEMMA NotesKept ==
  ASSUME TypeOK, NEW more \in SUBSET {"pubcompLost"}, Notes(more)
  PROVE  Noted /\ more \subseteq mishaps' /\ mishaps' \subseteq {"overLimit", "twiceKept", "pubcompLost"}
BY DEF TypeOK, Notes, Noted

\* The list with a new message at its end.
LEMMA QueuedRemaining ==
  ASSUME TypeOK, OutIInv, NEW qos \in {1, 2}, last_mid < MaxOut, last_mid' = last_mid + 1
  PROVE  Remaining(Queued(qos), 0)
<1> DEFINE q == Queued(qos)
           e == [mid |-> last_mid + 1, qos |-> qos, state |-> "invalid"]
<1>1. /\ outq \in Seq(Message) /\ last_mid \in Nat /\ last_mid + 1 \in OutMids
      /\ \A n \in DOMAIN outq : outq[n].mid \in Nat /\ outq[n].mid <= last_mid /\ outq[n].mid # 0
  <2>1. outq \in Seq(Message) /\ last_mid \in Nat /\ last_mid + 1 \in OutMids
    BY DEF TypeOK, OutOK, Message, OutMids
  <2>2. \A n \in DOMAIN outq : outq[n] \in Message
    BY <2>1
  <2> QED
    BY <2>1, <2>2 DEF OutIInv, ListInv, Message, OutMids, Range
<1>2. e \in Message
  BY <1>1 DEF Message, States
<1>3. /\ q \in Seq(Message) /\ DOMAIN q = 1 .. Len(outq) + 1 /\ DOMAIN outq = 1 .. Len(outq)
      /\ Len(outq) \in Nat /\ q[Len(outq) + 1] = e /\ \A n \in 1 .. Len(outq) : q[n] = outq[n]
  BY <1>1, <1>2 DEF Queued
<1> HIDE DEF q
<1>4. \A n, k \in DOMAIN q : n < k => q[n].mid < q[k].mid
  <2> SUFFICES ASSUME NEW n \in DOMAIN q, NEW k \in DOMAIN q, n < k PROVE q[n].mid < q[k].mid
    OBVIOUS
  <2>1. n \in DOMAIN outq
    BY <1>3
  <2>2. CASE k \in DOMAIN outq
    BY <1>3, <2>1, <2>2 DEF OutIInv, ListInv
  <2>3. CASE k = Len(outq) + 1
    <3>1. q[k].mid = last_mid + 1
      BY <1>3, <2>3
    <3> QED
      BY <1>1, <1>3, <2>1, <3>1
  <2> QED
    BY <1>3, <2>2, <2>3
<1>5. \A n \in DOMAIN q :
        \/ q[n] \in Range(outq) /\ q[n].mid # 0
        \/ q[n].mid > last_mid /\ q[n].mid <= last_mid' /\ q[n].state = "invalid"
  <2> TAKE n \in DOMAIN q
  <2>1. CASE n \in DOMAIN outq
    BY <1>1, <1>3, <2>1 DEF Range
  <2>2. CASE n = Len(outq) + 1
    <3>1. q[n].mid = last_mid + 1 /\ q[n].state = "invalid"
      BY <1>3, <2>2
    <3> QED
      BY <1>1, <3>1
  <2> QED
    BY <1>3, <2>1, <2>2
<1>6. \A m \in Range(outq) : m \in Range(q)
  BY <1>3 DEF Range
<1>7. \A n \in DOMAIN q : q[n].state # "invalid" => n \in DOMAIN outq /\ q[n] = outq[n]
  BY <1>3
<1>8. \A n, k \in DOMAIN q :
        n > MaxInflight /\ q[n].state # "invalid" /\ k < n => q[k].state # "invalid"
  <2> SUFFICES ASSUME NEW n \in DOMAIN q, NEW k \in DOMAIN q, n > MaxInflight,
                      q[n].state # "invalid", k < n
               PROVE  q[k].state # "invalid"
    OBVIOUS
  <2>1. n \in DOMAIN outq /\ k \in DOMAIN outq /\ q[n] = outq[n] /\ q[k] = outq[k]
    BY <1>3, <1>7
  <2> QED
    BY <2>1 DEF OutIInv, LimitInv
<1>9. "overLimit" \notin mishaps => \A n \in DOMAIN q : Received(q[n]) => n <= MaxInflight
  <2>1. \A n \in DOMAIN q : Received(q[n]) => n \in DOMAIN outq /\ q[n] = outq[n]
    BY <1>7 DEF Received
  <2> QED
    BY <2>1 DEF OutIInv, OnceInv
<1> QED
  BY <1>3, <1>4, <1>5, <1>6, <1>8, <1>9 DEF Remaining, q

\* The list without the message that has been acknowledged.
LEMMA WithoutRemaining ==
  ASSUME TypeOK, OutIInv, NEW mid, mid # 0, UNCHANGED last_mid
  PROVE  Remaining(Without(mid), mid)
<1> DEFINE q == Without(mid)
<1>1. outq \in Seq(Message) /\ DOMAIN outq = 1 .. Len(outq) /\ Len(outq) \in Nat
  BY DEF TypeOK, OutOK, Message
<1>2. /\ \A n, k \in DOMAIN outq : n < k => outq[n].mid < outq[k].mid
      /\ \A n, k \in DOMAIN outq : outq[n].mid = outq[k].mid => n = k
      /\ \A n, k \in DOMAIN outq :
           n > MaxInflight /\ outq[n].state # "invalid" /\ k < n => outq[k].state # "invalid"
      /\ "overLimit" \notin mishaps =>
           \A n \in DOMAIN outq : Received(outq[n]) => n <= MaxInflight
  BY OneOfANumber DEF TypeOK, OutIInv, ListInv, LimitInv, OnceInv
<1>3. CASE \A n \in DOMAIN outq : outq[n].mid # mid
  <2>1. q = outq
    BY <1>1, <1>3, Zenon DEF Without, RemoveFirstMatch
  <2> HIDE DEF q
  <2>2. \A m \in Range(outq) : m \in Range(q)
    BY <2>1
  <2>3. \A n \in DOMAIN q : q[n] \in Range(outq) /\ q[n].mid # mid
    BY <1>3, <2>1 DEF Range
  <2> QED
    BY <1>1, <1>2, <2>1, <2>2, <2>3 DEF Remaining, q
<1>4. CASE \E n \in DOMAIN outq : outq[n].mid = mid
  <2>1. PICK i \in 1 .. Len(outq) : outq[i].mid = mid /\ q = RemoveAt(outq, i)
    BY <1>1, <1>4, WithoutProperties
  <2>2. /\ q \in Seq(Message) /\ Len(q) = Len(outq) - 1
        /\ \A n \in 1 .. Len(outq) - 1 : q[n] = IF n < i THEN outq[n] ELSE outq[n + 1]
    BY <1>1, <2>1, RemoveAtRange
  <2> HIDE DEF q
  <2> DEFINE at(n) == IF n < i THEN n ELSE n + 1
  <2>3. /\ DOMAIN q = 1 .. Len(outq) - 1
        /\ \A n \in DOMAIN q : at(n) \in DOMAIN outq /\ at(n) # i /\ n <= at(n) /\ q[n] = outq[at(n)]
        /\ \A n, k \in DOMAIN q : n < k => at(n) < at(k)
        /\ \A n \in DOMAIN outq : n # i => \E k \in DOMAIN q : at(k) = n
    <3>1. DOMAIN q = 1 .. Len(outq) - 1
      BY <2>2
    <3>2. \A n \in DOMAIN outq : n # i => \E k \in DOMAIN q : at(k) = n
      <4> SUFFICES ASSUME NEW n \in DOMAIN outq, n # i PROVE \E k \in DOMAIN q : at(k) = n
        OBVIOUS
      <4>1. CASE n < i
        BY <1>1, <2>1, <3>1, <4>1
      <4>2. CASE n > i
        <5>1. n - 1 \in DOMAIN q /\ at(n - 1) = n
          BY <1>1, <2>1, <3>1, <4>2
        <5> QED
          BY <5>1
      <4> QED
        BY <1>1, <2>1, <4>1, <4>2
    <3> QED
      BY <1>1, <2>1, <2>2, <3>1, <3>2
  <2>4. DOMAIN outq \in SUBSET Nat /\ DOMAIN q \in SUBSET Nat
    BY <1>1, <2>3
  <2> HIDE DEF at
  <2>5. \A n, k \in DOMAIN q : n < k => q[n].mid < q[k].mid
    BY <1>2, <2>3
  <2>6. \A n \in DOMAIN q : q[n] \in Range(outq) /\ q[n].mid # mid
    BY <1>1, <1>2, <2>1, <2>3 DEF Range
  <2>7. \A m \in Range(outq) : m.mid # mid => m \in Range(q)
    <3> SUFFICES ASSUME NEW m \in Range(outq), m.mid # mid PROVE m \in Range(q)
      OBVIOUS
    <3>1. PICK n \in DOMAIN outq : outq[n] = m
      BY DEF Range
    <3>2. PICK k \in DOMAIN q : at(k) = n
      BY <2>1, <2>3, <3>1
    <3> QED
      BY <2>3, <3>1, <3>2 DEF Range
  <2>8. \A n, k \in DOMAIN q :
          n > MaxInflight /\ q[n].state # "invalid" /\ k < n => q[k].state # "invalid"
    <3> SUFFICES ASSUME NEW n \in DOMAIN q, NEW k \in DOMAIN q, n > MaxInflight,
                        q[n].state # "invalid", k < n
                 PROVE  q[k].state # "invalid"
      OBVIOUS
    <3>1. /\ at(n) \in DOMAIN outq /\ at(k) \in DOMAIN outq /\ at(k) < at(n) /\ n <= at(n)
          /\ q[n] = outq[at(n)] /\ q[k] = outq[at(k)]
      BY <2>3
    <3>2. at(n) > MaxInflight
      BY <2>4, <3>1
    <3> QED
      BY <1>2, <3>1, <3>2
  <2>9. "overLimit" \notin mishaps => \A n \in DOMAIN q : Received(q[n]) => n <= MaxInflight
    <3> SUFFICES ASSUME "overLimit" \notin mishaps, NEW n \in DOMAIN q, Received(q[n])
                 PROVE  n <= MaxInflight
      OBVIOUS
    <3>1. at(n) \in DOMAIN outq /\ n <= at(n) /\ Received(outq[at(n)])
      BY <2>3
    <3> QED
      BY <1>2, <2>4, <3>1
  <2> QED
    BY <2>2, <2>5, <2>6, <2>7, <2>8, <2>9 DEF Remaining, q
<1> QED
  BY <1>3, <1>4

\* The types of the parts make up TypeOK.
LEMMA OutTypes ==
  ASSUME TypeOK, LinkOK(AllMids)', outq' \in Seq(Message), quota' \in 0 .. MaxInflight,
         last_mid' \in 0 .. MaxOut, acked' \subseteq OutMids, held' \subseteq OutMids,
         got' \in [OutMids -> Nat], UNCHANGED inVars,
         mishaps' \subseteq {"overLimit", "twiceKept", "pubcompLost"}
  PROVE  TypeOK'
BY DEF TypeOK, OutOK, InOK, Message, AllMids, inVars, InMids, OutMids

\* mosquitto_publish keeps the invariant.
LEMMA PublishStep ==
  ASSUME IInv, NEW qos \in {1, 2}, mosquitto_publish(qos), UNCHANGED inVars, Notes({})
  PROVE  IInv'
<1> USE DEF IInv
<1>1. Noted /\ mishaps' \subseteq {"overLimit", "twiceKept", "pubcompLost"}
  BY NotesKept
<1>2. /\ last_mid < MaxOut /\ last_mid' = last_mid + 1 /\ UNCHANGED <<acked, held, got>>
      /\ last_mid \in 0 .. MaxOut /\ quota \in 0 .. MaxInflight
      /\ acked \subseteq OutMids /\ held \subseteq OutMids /\ got \in [OutMids -> Nat]
  BY DEF mosquitto_publish, TypeOK, OutOK
<1>3. last_mid' \in 0 .. MaxOut /\ last_mid' \in OutMids \cup {0} /\ last_mid' >= last_mid
  BY <1>2 DEF OutMids
<1>4. \A m \in Range(outq) : m.mid # 0
  BY OneOfANumber DEF TypeOK, Message, OutMids, OutIInv
<1>5. Releasing(Queued(qos), 0)
  <2>1. Remaining(Queued(qos), 0)
    BY <1>2, QueuedRemaining
  <2>2. \A p \in Range(up) : p.type \in OutUp => p.mid # 0
    BY <1>4 DEF OutIInv, OutWireInv, OutUp
  <2> QED
    BY <1>2, <1>3, <2>1, <2>2 DEF Releasing
<1>6. CASE message__release_to_inflight(Queued(qos), quota) /\ UNCHANGED <<conn, down, drops>>
  <2>1. /\ down' \in Seq(Packet(AllMids)) /\ IsInjective(down')
        /\ \A p \in Range(down') : p \in Range(down)
        /\ \A p \in Range(down') : p.type \in OutDown => p.mid # 0
    BY <1>4, <1>6 DEF TypeOK, LinkOK, AllMids, WireInv, OutIInv, OutWireInv, OutDown
  <2>2. /\ LinkOK(AllMids)' /\ outq' \in Seq(Message) /\ quota' \in 0 .. MaxInflight
        /\ WireInv' /\ OutIInv' /\ InWireInv' /\ KeptInv'
    BY <1>1, <1>2, <1>5, <1>6, <2>1, ReleaseStep
  <2>3. TypeOK'
    BY <1>1, <1>2, <1>3, <2>2, OutTypes
  <2> QED
    BY <2>2, <2>3
<1>7. CASE release_fails(Queued(qos), quota)
  <2>1. /\ LinkOK(AllMids)' /\ outq' \in Seq(Message) /\ quota' \in 0 .. MaxInflight
        /\ WireInv' /\ OutIInv' /\ InWireInv' /\ KeptInv'
    BY <1>1, <1>2, <1>5, <1>7, ReleaseFails
  <2>2. TypeOK'
    BY <1>1, <1>2, <1>3, <2>1, OutTypes
  <2> QED
    BY <2>1, <2>2
<1> QED
  BY <1>6, <1>7 DEF mosquitto_publish

\* What a PUBACK or PUBCOMP leaves, before the next messages are released.
LEMMA AcknowledgedReleasing ==
  ASSUME IInv, NEW type \in {"PUBACK", "PUBCOMP"}, Readable(type), Acknowledged(Head(down).mid)
  PROVE  /\ Releasing(Without(Head(down).mid), Head(down).mid)
         /\ OneMore \in 0 .. MaxInflight
         /\ last_mid' \in 0 .. MaxOut /\ acked' \subseteq OutMids /\ held' \subseteq OutMids
         /\ got' \in [OutMids -> Nat]
         /\ \A p \in Range(down) : p.type \in OutDown /\ p # Head(down) => p.mid # Head(down).mid
<1> USE DEF IInv
<1> DEFINE mid == Head(down).mid
<1>1. /\ Head(down) \in Range(down) /\ Head(down) \in Packet(AllMids) /\ Head(down).type = type
  <2>1. down \in Seq(Packet(AllMids)) /\ down # <<>> /\ IsInjective(down) /\ Head(down).type = type
    BY DEF TypeOK, LinkOK, WireInv, Readable, AllMids
  <2> QED
    BY <2>1, TailRange
<1>2. PICK m \in Range(outq) : /\ m.mid = mid /\ got[mid] > 0
                               /\ type = "PUBACK" => Begun(m) /\ m.qos = 1
                               /\ type = "PUBCOMP" => Received(m)
  BY <1>1 DEF OutIInv, OutWireInv, ListInv
<1>3. /\ \A l, k \in Range(outq) : l.mid = k.mid => l = k
      /\ mid \in OutMids /\ mid # 0
  BY <1>2, OneOfANumber DEF TypeOK, Message, OutMids, OutIInv
<1>4. /\ UNCHANGED <<last_mid, held, got>>
      /\ acked' = acked \/ acked' = acked \cup {mid}
  BY DEF Acknowledged
<1>5. /\ last_mid \in 0 .. MaxOut /\ acked \subseteq OutMids /\ held \subseteq OutMids
      /\ got \in [OutMids -> Nat] /\ quota \in 0 .. MaxInflight
  BY DEF TypeOK, OutOK
<1>6. OneMore \in 0 .. MaxInflight
  BY <1>5, MinOfTwo DEF OneMore
<1>7. Head(down) = Ack(type, mid)
  BY <1>1, PacketTypes
<1>8. \A p \in Range(up) : p.type \in OutUp => p.mid # mid
  <2> SUFFICES ASSUME NEW p \in Range(up), p.type \in OutUp, p.mid = mid PROVE FALSE
    OBVIOUS
  <2>1. CASE p.type = "PUBLISH"
    <3>1. \E l \in Range(outq) : l.mid = mid /\ Begun(l)
      BY <2>1 DEF OutIInv, OutWireInv
    <3>2. type # "PUBACK"
      BY <1>1, <1>7, <2>1 DEF OutIInv, OutWireInv
    <3> QED
      BY <1>2, <1>3, <3>1, <3>2 DEF Begun, Received
  <2>2. CASE p.type = "PUBREL"
    <3>1. \E l \in Range(outq) : l.mid = mid /\ Received(l)
      BY <2>2 DEF OutIInv, OutWireInv
    <3>2. type # "PUBCOMP"
      BY <1>1, <1>7, <2>2 DEF OutIInv, OutWireInv
    <3> QED
      BY <1>2, <1>3, <3>1, <3>2 DEF Begun, Received
  <2> QED
    BY <2>1, <2>2 DEF OutUp
<1>9. \A p \in Range(down) : p.type \in OutDown /\ p # Head(down) => p.mid # mid
  <2> SUFFICES ASSUME NEW p \in Range(down), p.type \in OutDown, p # Head(down), p.mid = mid
               PROVE  FALSE
    OBVIOUS
  <2>1. PICK l \in Range(outq) : /\ l.mid = mid
                                 /\ p.type = "PUBACK" => Begun(l) /\ l.qos = 1
                                 /\ p.type = "PUBREC" => Begun(l) /\ l.qos = 2
                                 /\ p.type = "PUBCOMP" => Received(l)
    BY DEF OutIInv, OutWireInv, OutDown
  <2>2. l = m
    BY <1>2, <1>3, <2>1
  <2>3. p.type = type
    BY <1>2, <2>1, <2>2 DEF OutDown, Begun, Received
  <2>4. p \in Packet(AllMids)
    BY DEF TypeOK, LinkOK, Range, AllMids
  <2>5. p = Ack(type, mid)
    BY <2>3, <2>4, PacketTypes
  <2> QED
    BY <1>7, <2>5
<1>10. Releasing(Without(mid), mid)
  <2>1. Remaining(Without(mid), mid)
    BY <1>3, <1>4, WithoutRemaining
  <2>2. last_mid' \in OutMids \cup {0} /\ last_mid' >= last_mid
    BY <1>4, <1>5 DEF OutMids
  <2>3. \A k \in acked' : k \in acked \/ got[k] > 0
    BY <1>2, <1>4
  <2> QED
    BY <1>4, <1>8, <2>1, <2>2, <2>3 DEF Releasing
<1> QED
  BY <1>3, <1>4, <1>5, <1>6, <1>9, <1>10

\* handle__pubackcomp keeps it.
LEMMA AcknowledgeStep ==
  ASSUME IInv, NEW type \in {"PUBACK", "PUBCOMP"}, handle__pubackcomp(type), UNCHANGED inVars,
         Notes({})
  PROVE  IInv'
<1> USE DEF IInv
<1>1. Noted /\ mishaps' \subseteq {"overLimit", "twiceKept", "pubcompLost"}
  BY NotesKept
<1>2. /\ Readable(type) /\ down' = Tail(down) /\ Acknowledged(Head(down).mid)
      /\ message__release_to_inflight(Without(Head(down).mid), OneMore) /\ UNCHANGED <<conn, drops>>
  BY DEF handle__pubackcomp, Reads
<1>3. /\ Releasing(Without(Head(down).mid), Head(down).mid) /\ OneMore \in 0 .. MaxInflight
      /\ last_mid' \in 0 .. MaxOut /\ acked' \subseteq OutMids /\ held' \subseteq OutMids
      /\ got' \in [OutMids -> Nat]
      /\ \A p \in Range(down) : p.type \in OutDown /\ p # Head(down) => p.mid # Head(down).mid
  BY <1>2, AcknowledgedReleasing
<1>4. /\ down' \in Seq(Packet(AllMids)) /\ IsInjective(down')
      /\ Range(down') = Range(down) \ {Head(down)} /\ down # <<>>
  BY <1>2, ReadsWire DEF Readable
<1>5. /\ LinkOK(AllMids)' /\ outq' \in Seq(Message) /\ quota' \in 0 .. MaxInflight
      /\ WireInv' /\ OutIInv' /\ InWireInv' /\ KeptInv'
  <2>1. /\ \A p \in Range(down') : p \in Range(down)
        /\ \A p \in Range(down') : p.type \in OutDown => p.mid # Head(down).mid
    BY <1>3, <1>4
  <2> QED
    BY <1>1, <1>2, <1>3, <1>4, <2>1, ReleaseStep
<1>6. TypeOK'
  BY <1>1, <1>3, <1>5, OutTypes
<1> QED
  BY <1>5, <1>6

\* handle__pubackcomp whose next message cannot be written keeps it.
LEMMA AcknowledgeFails ==
  ASSUME IInv, NEW type \in {"PUBACK", "PUBCOMP"}, handle__pubackcomp_fails(type),
         UNCHANGED inVars, Notes({})
  PROVE  IInv'
<1> USE DEF IInv
<1>1. Noted /\ mishaps' \subseteq {"overLimit", "twiceKept", "pubcompLost"}
  BY NotesKept
<1>2. /\ Readable(type) /\ Acknowledged(Head(down).mid)
      /\ release_fails(Without(Head(down).mid), OneMore)
  BY DEF handle__pubackcomp_fails
<1>3. /\ Releasing(Without(Head(down).mid), Head(down).mid) /\ OneMore \in 0 .. MaxInflight
      /\ last_mid' \in 0 .. MaxOut /\ acked' \subseteq OutMids /\ held' \subseteq OutMids
      /\ got' \in [OutMids -> Nat]
  BY <1>2, AcknowledgedReleasing
<1>4. /\ LinkOK(AllMids)' /\ outq' \in Seq(Message) /\ quota' \in 0 .. MaxInflight
      /\ WireInv' /\ OutIInv' /\ InWireInv' /\ KeptInv'
  BY <1>1, <1>2, <1>3, ReleaseFails
<1>5. TypeOK'
  BY <1>1, <1>3, <1>4, OutTypes
<1> QED
  BY <1>4, <1>5

\* The wire after a handler has answered what it has read.
LEMMA AnswerWire ==
  ASSUME IInv, NEW type, Reads(type), conn = "active", UNCHANGED <<conn, drops>>,
         NEW p \in Packet(AllMids), p \notin Range(up), p.type # "CONNECT", Sends(<<p>>)
  PROVE  /\ LinkOK(AllMids)' /\ WireInv'
         /\ Head(down) \in Range(down) /\ Head(down) \in Packet(AllMids) /\ Head(down).type = type
         /\ Range(down') = Range(down) \ {Head(down)}
         /\ Range(up') = Range(up) \cup {p}
<1>1. TypeOK /\ WireInv
  BY DEF IInv
<1>2. /\ Head(down) \in Range(down) /\ Head(down) \in Packet(AllMids) /\ Head(down).type = type
      /\ down' \in Seq(Packet(AllMids)) /\ IsInjective(down')
      /\ Range(down') = Range(down) \ {Head(down)}
  BY <1>1, ReadsWire DEF Reads
<1>3. /\ up' \in Seq(Packet(AllMids)) /\ IsInjective(up') /\ Range(up') = Range(up) \cup {p}
  BY <1>1, OnePacket, SendsWire
<1>4. LinkOK(AllMids)'
  BY <1>1, <1>2, <1>3 DEF TypeOK, LinkOK
<1>5. WireInv'
  BY <1>1, <1>2, <1>3 DEF WireInv
<1> QED
  BY <1>2, <1>3, <1>4, <1>5

\* handle__pubrec keeps it.
LEMMA PubrecStep ==
  ASSUME IInv, handle__pubrec, UNCHANGED inVars, Notes({})
  PROVE  IInv'
<1> USE DEF IInv
<1> DEFINE mid == Head(down).mid
           pubrel == Ack("PUBREL", mid)
<1>1. Noted /\ mishaps' \subseteq {"overLimit", "twiceKept", "pubcompLost"}
  BY NotesKept
<1>2. /\ Reads("PUBREC") /\ conn = "active" /\ Sends(<<pubrel>>)
      /\ message__out_update(mid, "wait_for_pubcomp")
      /\ UNCHANGED <<conn, drops, quota, last_mid, acked, held, got>>
  BY DEF handle__pubrec, Reads, Readable
<1>3. /\ Head(down) \in Range(down) /\ Head(down) \in Packet(AllMids) /\ Head(down).type = "PUBREC"
  BY <1>2, ReadsWire DEF Reads
<1>4. /\ outq \in Seq(Message) /\ DOMAIN outq = 1 .. Len(outq) /\ Len(outq) \in Nat
      /\ DOMAIN outq \in SUBSET Nat
      /\ \A n \in DOMAIN outq : outq[n] \in Message
  <2>1. outq \in Seq(Message)
    BY DEF TypeOK, OutOK, Message
  <2> QED
    BY <2>1
<1>5. \A n, k \in DOMAIN outq : outq[n].mid = outq[k].mid => n = k
  BY OneOfANumber DEF TypeOK, OutIInv
<1>6. PICK i \in DOMAIN outq : outq[i].mid = mid /\ outq[i].qos = 2 /\ Begun(outq[i]) /\ got[mid] > 0
  BY <1>3 DEF OutIInv, OutWireInv, Range
<1>7. /\ DOMAIN outq' = DOMAIN outq /\ outq' \in Seq(Message)
      /\ \A n \in DOMAIN outq : /\ outq'[n].mid = outq[n].mid /\ outq'[n].qos = outq[n].qos
                                /\ n # i => outq'[n] = outq[n]
      /\ outq'[i].state = "wait_for_pubcomp"
  <2>1. Find(mid) = {i}
    BY <1>5, <1>6 DEF Find
  <2>2. outq' = [n \in DOMAIN outq |-> IF n = i THEN [outq[i] EXCEPT !.state = "wait_for_pubcomp"]
                                                ELSE outq[n]]
    BY <1>2, <2>1 DEF message__out_update
  <2>3. /\ [outq[i] EXCEPT !.state = "wait_for_pubcomp"] \in Message
        /\ [outq[i] EXCEPT !.state = "wait_for_pubcomp"].mid = outq[i].mid
        /\ [outq[i] EXCEPT !.state = "wait_for_pubcomp"].qos = outq[i].qos
        /\ [outq[i] EXCEPT !.state = "wait_for_pubcomp"].state = "wait_for_pubcomp"
    BY <1>4, StateChanged DEF States, Waiting
  <2>4. outq' \in [1 .. Len(outq) -> Message]
    BY <1>4, <2>2, <2>3
  <2>5. outq' \in Seq(Message)
    BY <1>4, <2>4
  <2> QED
    BY <2>2, <2>3, <2>5
<1>8. mid \in OutMids /\ pubrel \in Packet(AllMids) /\ pubrel.type = "PUBREL" /\ pubrel.mid = mid
  <2>1. mid \in OutMids
    BY <1>4, <1>6 DEF Message
  <2> QED
    BY <2>1, AckMade DEF AllMids
\* No other handshake of the message is going on.
<1>9. \A p \in Range(up) : p.type \in OutUp => p.mid # mid
  <2> SUFFICES ASSUME NEW p \in Range(up), p.type \in OutUp, p.mid = mid PROVE FALSE
    OBVIOUS
  <2>1. CASE p.type = "PUBLISH"
    BY <1>3, <2>1, PacketTypes DEF OutIInv, OutWireInv
  <2>2. CASE p.type = "PUBREL"
    BY <1>5, <1>6, <2>2 DEF OutIInv, OutWireInv, Range, Begun, Received
  <2> QED
    BY <2>1, <2>2 DEF OutUp
<1>10. \A p \in Range(down) : p.type \in OutDown /\ p # Head(down) => p.mid # mid
  <2> SUFFICES ASSUME NEW p \in Range(down), p.type \in OutDown, p # Head(down), p.mid = mid
               PROVE  FALSE
    OBVIOUS
  <2>1. CASE p.type = "PUBREC"
    <3>1. p \in Packet(AllMids)
      BY DEF TypeOK, LinkOK, Range, AllMids
    <3> QED
      BY <1>3, <2>1, <3>1, PacketTypes
  <2>2. CASE p.type \in {"PUBACK", "PUBCOMP"}
    BY <1>5, <1>6, <2>2 DEF OutIInv, OutWireInv, Range, Begun, Received
  <2> QED
    BY <2>1, <2>2 DEF OutDown
<1>11. /\ LinkOK(AllMids)' /\ WireInv'
       /\ Range(down') = Range(down) \ {Head(down)} /\ Range(up') = Range(up) \cup {pubrel}
  <2>1. pubrel \notin Range(up)
    BY <1>8, <1>9 DEF OutUp
  <2> QED
    BY <1>2, <1>8, <2>1, AnswerWire
<1>12. \A m \in Range(outq) : m.mid # mid => m \in Range(outq')
  BY <1>6, <1>7 DEF Range
<1>13. TypeOK'
  <2>1. /\ last_mid' \in 0 .. MaxOut /\ acked' \subseteq OutMids /\ held' \subseteq OutMids
        /\ got' \in [OutMids -> Nat] /\ quota' \in 0 .. MaxInflight
    BY <1>2 DEF TypeOK, OutOK
  <2> QED
    BY <1>1, <1>7, <1>11, <2>1, OutTypes
<1>14. ListInv'
  <2>1. \A n, k \in DOMAIN outq : n < k => outq'[n].mid < outq'[k].mid
    BY <1>7 DEF OutIInv, ListInv
  <2>2. \A n \in DOMAIN outq :
          /\ outq'[n].mid <= last_mid
          /\ outq'[n].state \in {"wait_for_puback", "publish_qos1"} => outq'[n].qos = 1
          /\ outq'[n].state \in {"wait_for_pubrec", "publish_qos2"} => outq'[n].qos = 2
          /\ Received(outq'[n]) => outq'[n].qos = 2 /\ got[outq'[n].mid] > 0
    BY <1>6, <1>7 DEF OutIInv, ListInv, Range
  <2> QED
    BY <1>2, <1>7, <2>1, <2>2 DEF OutIInv, ListInv, Range, Received
<1>15. OutWireInv'
  <2>1. ASSUME NEW p \in Range(up'), p.type = "PUBLISH"
        PROVE  /\ \E m \in Range(outq') : m.mid = p.mid /\ m.qos = p.qos /\ Begun(m)
               /\ Ack("PUBACK", p.mid) \notin Range(down') /\ Ack("PUBREC", p.mid) \notin Range(down')
    <3>1. p \in Range(up) /\ p.mid # mid
      BY <1>8, <1>9, <1>11, <2>1 DEF OutUp
    <3> QED
      BY <1>11, <1>12, <2>1, <3>1 DEF OutIInv, OutWireInv
  <2>2. ASSUME NEW p \in Range(up'), p.type = "PUBREL"
        PROVE  /\ \E m \in Range(outq') : m.mid = p.mid /\ Received(m)
               /\ Ack("PUBCOMP", p.mid) \notin Range(down')
    <3>1. CASE p = pubrel
      <4>1. outq'[i] \in Range(outq') /\ outq'[i].mid = mid /\ Received(outq'[i])
        BY <1>6, <1>7 DEF Range, Received
      <4>2. Ack("PUBCOMP", mid).type = "PUBCOMP" /\ Ack("PUBCOMP", mid).mid = mid
        BY DEF Ack
      <4>3. Ack("PUBCOMP", mid) \notin Range(down)
        BY <1>3, <1>10, <4>2 DEF OutDown
      <4> QED
        BY <1>8, <1>11, <3>1, <4>1, <4>3
    <3>2. CASE p \in Range(up)
      <4>1. p.mid # mid
        BY <1>9, <2>2, <3>2 DEF OutUp
      <4> QED
        BY <1>11, <1>12, <2>2, <3>2, <4>1 DEF OutIInv, OutWireInv
    <3> QED
      BY <1>11, <2>2, <3>1, <3>2
  <2>3. ASSUME NEW p \in Range(down'), p.type \in OutDown
        PROVE  p \in Range(down) /\ p.mid # mid
    BY <1>10, <1>11, <2>3
  <2>4. ASSUME NEW p \in Range(down'), p.type \in {"PUBACK", "PUBREC"}
        PROVE  got[p.mid] > 0 /\ \E m \in Range(outq') : m.mid = p.mid /\ Begun(m)
                                                     /\ m.qos = IF p.type = "PUBACK" THEN 1 ELSE 2
    BY <1>12, <2>3, <2>4 DEF OutIInv, OutWireInv, OutDown
  <2>5. ASSUME NEW p \in Range(down'), p.type = "PUBCOMP"
        PROVE  \E m \in Range(outq') : m.mid = p.mid /\ Received(m)
    BY <1>12, <2>3, <2>5 DEF OutIInv, OutWireInv, OutDown
  <2> QED
    BY <1>2, <2>1, <2>2, <2>4, <2>5 DEF OutWireInv, Begun, Received
<1>16. RepeatInv'
  BY <1>2 DEF RepeatInv
<1>17. LimitInv'
  BY <1>1, <1>6, <1>7 DEF OutIInv, LimitInv, Noted, Begun
<1>18. OnceInv'
  <2> SUFFICES ASSUME "overLimit" \notin mishaps'
               PROVE  /\ \A k \in OutMids : got[k] <= 1
                      /\ \A n \in DOMAIN outq :
                           /\ outq'[n].qos = 2 /\ ~Received(outq'[n]) /\ got[outq'[n].mid] > 0
                                => outq'[n].mid \in held
                           /\ Received(outq'[n]) => n <= MaxInflight
    BY <1>2, <1>7 DEF OnceInv, Received
  <2>1. "overLimit" \notin mishaps
    BY <1>1 DEF Noted
  \* Behind the limit all in front would be part way through, and that had been noted.
  <2>2. i <= MaxInflight
    <3> SUFFICES ASSUME i > MaxInflight PROVE FALSE
      BY <1>4
    <3>1. \A k \in 1 .. i : k \in DOMAIN outq /\ outq[k].state # "invalid"
      BY <1>4, <1>6 DEF OutIInv, LimitInv, Begun
    <3>2. 1 .. i \in SUBSET (DOMAIN outq \ Invalid(outq))
      BY <3>1 DEF Invalid
    <3>3. IsFiniteSet(1 .. Len(outq)) /\ i \in Nat
      BY <1>4, FS_Interval
    <3>4. IsFiniteSet(DOMAIN outq \ Invalid(outq))
      BY <1>4, <3>3, FS_Subset
    <3>5. Cardinality(1 .. i) = i /\ Cardinality(1 .. i) <= Cardinality(DOMAIN outq \ Invalid(outq))
      <4>1. Cardinality(1 .. i) = i
        BY <3>3, FS_Interval
      <4>2. Cardinality(1 .. i) <= Cardinality(DOMAIN outq \ Invalid(outq))
        BY <3>2, <3>4, FS_Subset
      <4> QED
        BY <4>1, <4>2
    <3>6. OverLimit
      BY <1>2, <3>3, <3>4, <3>5, FS_CardinalityType DEF OverLimit
    <3> QED
      BY <2>1, <3>6 DEF OutIInv, LimitInv
  <2> QED
    BY <1>6, <1>7, <2>1, <2>2 DEF OutIInv, OnceInv, Received
<1>19. InWireInv' /\ KeptInv'
  <2>1. InQuiet
    BY <1>8, <1>11 DEF InQuiet, OutDown
  <2> QED
    BY <1>1, <2>1, InUntouched
<1> QED
  BY <1>11, <1>13, <1>14, <1>15, <1>16, <1>17, <1>18, <1>19 DEF OutIInv

\* handle__connack keeps it.
LEMMA ConnackStep ==
  ASSUME IInv, handle__connack, UNCHANGED inVars, Notes({})
  PROVE  IInv'
<1> USE DEF IInv
<1>1. Noted /\ mishaps' \subseteq {"overLimit", "twiceKept", "pubcompLost"}
  BY NotesKept
<1>2. /\ Reads("CONNACK") /\ conn = "connecting" /\ conn' = "callback" /\ quota' = MaxInflight
      /\ UNCHANGED <<up, drops, outq, last_mid, acked, held, got>>
  BY DEF handle__connack, Reads, Readable
<1>3. /\ Head(down) \in Range(down) /\ down' \in Seq(Packet(AllMids)) /\ IsInjective(down')
      /\ Range(down') = Range(down) \ {Head(down)} /\ down # <<>>
  BY <1>2, ReadsWire DEF Reads, Readable
<1>4. LinkOK(AllMids)'
  BY <1>2, <1>3 DEF TypeOK, LinkOK, AllMids
<1>5. TypeOK'
  <2>1. /\ outq' \in Seq(Message) /\ quota' \in 0 .. MaxInflight
        /\ last_mid' \in 0 .. MaxOut /\ acked' \subseteq OutMids /\ held' \subseteq OutMids
        /\ got' \in [OutMids -> Nat]
    BY <1>2 DEF TypeOK, OutOK, Message
  <2> QED
    BY <1>1, <1>4, <2>1, OutTypes
<1>6. WireInv'
  BY <1>2, <1>3 DEF WireInv
<1>7. ListInv'
  BY <1>2 DEF OutIInv, ListInv, Received
<1>8. OutWireInv'
  BY <1>2, <1>3 DEF OutIInv, OutWireInv, Begun, Received
<1>9. RepeatInv'
  BY <1>2, <1>3 DEF OutIInv, RepeatInv
<1>10. LimitInv'
  BY <1>1, <1>2 DEF OutIInv, LimitInv, Noted
<1>11. OnceInv'
  BY <1>1, <1>2 DEF OutIInv, OnceInv, Noted, Received
<1>12. InWireInv' /\ KeptInv'
  <2>1. InQuiet
    BY <1>2, <1>3 DEF InQuiet
  <2> QED
    BY <1>1, <2>1, InUntouched
<1> QED
  BY <1>5, <1>6, <1>7, <1>8, <1>9, <1>10, <1>11, <1>12 DEF OutIInv

\* What message__retry_check sends.
LEMMA RepeatedPackets ==
  ASSUME TypeOK, OutIInv, conn = "callback", Sends(InOrder(Repeated, LAMBDA n : Repeat(outq[n])))
  PROVE  \E s \in Seq(Packet(AllMids)) :
           /\ Sends(s) /\ IsInjective(s)
           /\ \A p \in Range(s) : \E m \in Range(outq) :
                /\ m.state \in Resent /\ p.mid = m.mid
                /\ \/ p.type = "PUBLISH" /\ p.qos = m.qos /\ Begun(m)
                   \/ p.type = "PUBREL" /\ Received(m)
<1> DEFINE ns == Repeated
           g == [n \in ns |-> Repeat(outq[n])]
           s == Listed(ns, g)
<1>1. /\ outq \in Seq(Message) /\ DOMAIN outq = 1 .. Len(outq) /\ Len(outq) \in Nat
      /\ DOMAIN outq \in SUBSET Nat /\ ns \in SUBSET DOMAIN outq
  <2>1. outq \in Seq(Message)
    BY DEF TypeOK, OutOK, Message
  <2> QED
    BY <2>1 DEF Repeated
<1>2. IsFiniteSet(ns) /\ ns \in SUBSET Nat
  <2>1. IsFiniteSet(1 .. Len(outq))
    BY <1>1, FS_Interval
  <2> QED
    BY <1>1, <2>1, FS_Subset
<1>3. ASSUME NEW n \in ns
      PROVE  /\ Repeat(outq[n]) \in Packet(AllMids) /\ Repeat(outq[n]).mid = outq[n].mid
             /\ outq[n] \in Range(outq) /\ outq[n].state \in Resent
             /\ \/ Repeat(outq[n]).type = "PUBLISH" /\ Repeat(outq[n]).qos = outq[n].qos /\ Begun(outq[n])
                \/ Repeat(outq[n]).type = "PUBREL" /\ Received(outq[n])
  <2>1. outq[n] \in Message /\ outq[n] \in Range(outq)
    BY <1>1, <1>3 DEF Range
  <2>2. outq[n].mid \in AllMids /\ outq[n].qos \in {1, 2}
    BY <2>1 DEF Message, AllMids
  <2>3. outq[n].state \in Resent
    BY <1>3, <2>1 DEF OutIInv, RepeatInv, Repeated
  <2>4. CASE outq[n].state \in {"publish_qos1", "publish_qos2"}
    BY <2>1, <2>2, <2>3, <2>4, PublishMade DEF Repeat, Begun
  <2>5. CASE outq[n].state = "resend_pubrel"
    <3>1. Repeat(outq[n]) = Ack("PUBREL", outq[n].mid)
      BY <2>5 DEF Repeat
    <3> QED
      BY <2>1, <2>2, <2>3, <2>5, <3>1, AckMade DEF Received
  <2> QED
    BY <2>3, <2>4, <2>5 DEF Resent
<1>4. g \in [ns -> Packet(AllMids)] /\ DOMAIN g = ns /\ \A n \in ns : g[n] = Repeat(outq[n])
  BY <1>3
<1>5. IsInjective(g)
  <2>1. \A n, k \in DOMAIN outq : outq[n].mid = outq[k].mid => n = k
    BY OneOfANumber DEF TypeOK, OutIInv
  <2> QED
    BY <1>1, <1>3, <2>1 DEF IsInjective
<1> HIDE DEF g, ns
<1>6. /\ s \in Seq(Packet(AllMids)) /\ IsInjective(s) /\ Range(s) = Range(g)
      /\ \A k \in 1 .. Cardinality(ns) : Ranked(ns)[k] \in ns
  BY <1>2, <1>4, <1>5, ListedProperties
<1>7. s = [k \in 1 .. Cardinality(ns) |-> Repeat(outq[Ranked(ns)[k]])]
  BY <1>4, <1>6 DEF Listed
<1>8. InOrder(Repeated, LAMBDA n : Repeat(outq[n]))
        = [k \in 1 .. Cardinality(ns) |-> Repeat(outq[Ranked(ns)[k]])]
  BY DEF InOrder, ns
<1>9. Sends(s)
  BY <1>7, <1>8
<1>10. \A p \in Range(s) : \E n \in ns : p = Repeat(outq[n])
  BY <1>4, <1>6 DEF Range
<1> QED
  BY <1>3, <1>6, <1>9, <1>10

\* message__retry_check keeps it: nothing it sends is on its way already.
LEMMA RetryStep ==
  ASSUME IInv, message__retry_check, UNCHANGED inVars, Notes({})
  PROVE  IInv'
<1> USE DEF IInv
<1>1. Noted /\ mishaps' \subseteq {"overLimit", "twiceKept", "pubcompLost"}
  BY NotesKept
<1>2. /\ conn = "callback" /\ conn' = "active" /\ UNCHANGED <<down, drops>>
      /\ UNCHANGED <<outq, quota, last_mid, acked, held, got>>
      /\ Sends(InOrder(Repeated, LAMBDA n : Repeat(outq[n])))
  BY DEF message__retry_check, outVars
<1>3. PICK s \in Seq(Packet(AllMids)) :
        /\ Sends(s) /\ IsInjective(s)
        /\ \A p \in Range(s) : \E m \in Range(outq) :
             /\ m.state \in Resent /\ p.mid = m.mid
             /\ \/ p.type = "PUBLISH" /\ p.qos = m.qos /\ Begun(m)
                \/ p.type = "PUBREL" /\ Received(m)
  BY <1>2, RepeatedPackets
<1>4. \A p \in Range(s) : p \notin Range(up)
  BY <1>2, <1>3 DEF OutIInv, RepeatInv
<1>5. up' \in Seq(Packet(AllMids)) /\ IsInjective(up') /\ Range(up') = Range(up) \cup Range(s)
  BY <1>3, <1>4, SendsWire
<1>6. LinkOK(AllMids)'
  BY <1>2, <1>5 DEF TypeOK, LinkOK, AllMids
<1>7. TypeOK'
  <2>1. /\ outq' \in Seq(Message) /\ quota' \in 0 .. MaxInflight
        /\ last_mid' \in 0 .. MaxOut /\ acked' \subseteq OutMids /\ held' \subseteq OutMids
        /\ got' \in [OutMids -> Nat]
    BY <1>2 DEF TypeOK, OutOK, Message
  <2> QED
    BY <1>1, <1>6, <2>1, OutTypes
<1>8. \A p \in Range(s) : p.type \in OutUp
  BY <1>3 DEF OutUp
<1>9. WireInv'
  BY <1>2, <1>5, <1>8 DEF WireInv, OutUp
<1>10. ListInv'
  BY <1>2 DEF OutIInv, ListInv, Received
<1>11. OutWireInv'
  <2>1. ASSUME NEW p \in Range(s)
        PROVE  /\ p.type = "PUBLISH" =>
                    /\ \E m \in Range(outq) : m.mid = p.mid /\ m.qos = p.qos /\ Begun(m)
                    /\ Ack("PUBACK", p.mid) \notin Range(down) /\ Ack("PUBREC", p.mid) \notin Range(down)
               /\ p.type = "PUBREL" =>
                    /\ \E m \in Range(outq) : m.mid = p.mid /\ Received(m)
                    /\ Ack("PUBCOMP", p.mid) \notin Range(down)
    <3>1. PICK m \in Range(outq) : /\ m.state \in Resent /\ p.mid = m.mid
                                   /\ \/ p.type = "PUBLISH" /\ p.qos = m.qos /\ Begun(m)
                                      \/ p.type = "PUBREL" /\ Received(m)
      BY <1>3, <2>1
    <3>2. \A k \in Range(down) : k.type \in {"PUBACK", "PUBREC", "PUBCOMP"} => k.mid # p.mid
      BY <1>2, <3>1 DEF OutIInv, RepeatInv
    <3>3. \A type \in {"PUBACK", "PUBREC", "PUBCOMP"} :
            Ack(type, p.mid).type = type /\ Ack(type, p.mid).mid = p.mid
      BY DEF Ack
    <3>4. \A type \in {"PUBACK", "PUBREC", "PUBCOMP"} : Ack(type, p.mid) \notin Range(down)
      BY <3>2, <3>3
    <3> QED
      BY <3>1, <3>4
  <2> QED
    BY <1>2, <1>5, <2>1 DEF OutIInv, OutWireInv, Begun, Received
<1>12. RepeatInv'
  BY <1>2 DEF RepeatInv
<1>13. LimitInv'
  BY <1>1, <1>2 DEF OutIInv, LimitInv, Noted
<1>14. OnceInv'
  BY <1>1, <1>2 DEF OutIInv, OnceInv, Noted, Received
<1>15. InWireInv' /\ KeptInv'
  <2>1. InQuiet
    BY <1>2, <1>5, <1>8 DEF InQuiet, OutUp, OutDown
  <2> QED
    BY <1>1, <2>1, InUntouched
<1> QED
  BY <1>7, <1>9, <1>10, <1>11, <1>12, <1>13, <1>14, <1>15 DEF OutIInv

\* mosquitto__reconnect keeps it: the reset forgets nothing that was noted as received.
LEMMA ReconnectStep ==
  ASSUME IInv, mosquitto__reconnect, Notes({})
  PROVE  IInv'
<1> USE DEF IInv
<1>1. Noted /\ mishaps' \subseteq {"overLimit", "twiceKept", "pubcompLost"}
  BY NotesKept
<1>2. /\ conn = "closed" /\ conn' = "connecting" /\ up' = <<Ack("CONNECT", 0)>> /\ down' = <<>>
      /\ UNCHANGED drops /\ UNCHANGED inVars /\ UNCHANGED <<last_mid, acked, held, got>>
      /\ outq' = [n \in DOMAIN outq |-> IF n <= MaxInflight THEN Rewound(outq[n])
                                        ELSE [outq[n] EXCEPT !.state = "invalid"]]
      /\ quota' = MaxInflight - Min({MaxInflight, Len(outq)})
  BY DEF mosquitto__reconnect, Opens, reset_out, reset_in
<1>3. /\ outq \in Seq(Message) /\ DOMAIN outq = 1 .. Len(outq) /\ Len(outq) \in Nat
      /\ \A n \in DOMAIN outq : outq[n] \in Message
  <2>1. outq \in Seq(Message)
    BY DEF TypeOK, OutOK, Message
  <2> QED
    BY <2>1
<1>4. Ack("CONNECT", 0) \in Packet(AllMids) /\ Ack("CONNECT", 0).type = "CONNECT"
  BY AckMade
<1>5. /\ up' \in Seq(Packet(AllMids)) /\ IsInjective(up') /\ Range(up') = {Ack("CONNECT", 0)}
      /\ down' \in Seq(Packet(AllMids)) /\ IsInjective(down') /\ Range(down') = {}
  BY <1>2, <1>4, OnePacket, NoPacket
<1>6. ASSUME NEW m \in Message
      PROVE  /\ Rewound(m) \in Message /\ Rewound(m).mid = m.mid /\ Rewound(m).qos = m.qos
             /\ m.qos = 1 => Rewound(m).state = "publish_qos1"
             /\ m.qos = 2 =>
                  /\ m.state = "wait_for_pubrec" => Rewound(m).state = "publish_qos2"
                  /\ m.state = "wait_for_pubcomp" => Rewound(m).state = "resend_pubrel"
                  /\ m.state \notin {"wait_for_pubrec", "wait_for_pubcomp"} => Rewound(m).state = m.state
  <2>1. m.qos \in {1, 2} /\ m.state \in States
    BY DEF Message
  <2>2. CASE m.qos = 1
    <3>1. Rewound(m) = [m EXCEPT !.state = "publish_qos1"]
      BY <2>2 DEF Rewound
    <3> QED
      BY <2>2, <3>1, StateChanged DEF States, Resent
  <2>3. CASE m.qos = 2 /\ m.state = "wait_for_pubrec"
    <3>1. Rewound(m) = [m EXCEPT !.state = "publish_qos2"]
      BY <2>3 DEF Rewound
    <3> QED
      BY <2>3, <3>1, StateChanged DEF States, Resent
  <2>4. CASE m.qos = 2 /\ m.state = "wait_for_pubcomp"
    <3>1. Rewound(m) = [m EXCEPT !.state = "resend_pubrel"]
      BY <2>4 DEF Rewound
    <3> QED
      BY <2>4, <3>1, StateChanged DEF States, Resent
  <2>5. CASE m.qos = 2 /\ m.state \notin {"wait_for_pubrec", "wait_for_pubcomp"}
    <3>1. Rewound(m) = [m EXCEPT !.state = m.state]
      BY <2>5 DEF Rewound
    <3> QED
      BY <2>1, <2>5, <3>1, StateChanged
  <2> QED
    BY <2>1, <2>2, <2>3, <2>4, <2>5
<1>7. /\ DOMAIN outq' = DOMAIN outq /\ outq' \in Seq(Message)
      /\ \A n \in DOMAIN outq :
           /\ outq'[n].mid = outq[n].mid /\ outq'[n].qos = outq[n].qos
           /\ n > MaxInflight => outq'[n].state = "invalid"
           /\ n <= MaxInflight => outq'[n] = Rewound(outq[n])
  <2>1. \A m \in Message : /\ [m EXCEPT !.state = "invalid"] \in Message
                           /\ [m EXCEPT !.state = "invalid"].mid = m.mid
                           /\ [m EXCEPT !.state = "invalid"].qos = m.qos
                           /\ [m EXCEPT !.state = "invalid"].state = "invalid"
    BY StateChanged DEF States
  <2>2. DOMAIN outq' = DOMAIN outq
    BY <1>2
  <2>3. \A n \in DOMAIN outq : outq'[n] = IF n <= MaxInflight THEN Rewound(outq[n])
                                          ELSE [outq[n] EXCEPT !.state = "invalid"]
    BY <1>2
  <2>4. \A n \in DOMAIN outq : outq'[n] \in Message
    BY <1>3, <1>6, <2>1, <2>3, ZenonT(60)
  <2>5. outq' \in [1 .. Len(outq) -> Message]
    BY <1>2, <1>3, <2>4
  <2>6. outq' \in Seq(Message)
    BY <1>3, <2>5
  <2>7. \A n \in DOMAIN outq : /\ outq'[n].mid = outq[n].mid /\ outq'[n].qos = outq[n].qos
                               /\ n > MaxInflight => outq'[n].state = "invalid"
                               /\ n <= MaxInflight => outq'[n] = Rewound(outq[n])
    <3> SUFFICES ASSUME NEW n \in DOMAIN outq
                 PROVE  /\ outq'[n].mid = outq[n].mid /\ outq'[n].qos = outq[n].qos
                        /\ n > MaxInflight => outq'[n].state = "invalid"
                        /\ n <= MaxInflight => outq'[n] = Rewound(outq[n])
      OBVIOUS
    <3>1. outq[n] \in Message /\ n \in Nat
      BY <1>3
    <3>2. CASE n <= MaxInflight
      <4>1. outq'[n] = Rewound(outq[n])
        BY <2>3, <3>1, <3>2
      <4>2. Rewound(outq[n]).mid = outq[n].mid /\ Rewound(outq[n]).qos = outq[n].qos
        BY <1>6, <3>1
      <4> QED
        BY <3>1, <3>2, <4>1, <4>2
    <3>3. CASE ~ (n <= MaxInflight)
      <4>1. outq'[n] = [outq[n] EXCEPT !.state = "invalid"]
        BY <2>3, <3>1, <3>3
      <4>2. /\ [outq[n] EXCEPT !.state = "invalid"].mid = outq[n].mid
            /\ [outq[n] EXCEPT !.state = "invalid"].qos = outq[n].qos
            /\ [outq[n] EXCEPT !.state = "invalid"].state = "invalid"
        BY <2>1, <3>1
      <4> QED
        BY <3>3, <4>1, <4>2
    <3> QED
      BY <3>2, <3>3
  <2> QED
    BY <2>2, <2>6, <2>7
<1>8. \A n \in DOMAIN outq :
        /\ outq'[n].state \in {"invalid", "publish_qos1", "publish_qos2", "resend_pubrel"}
        /\ outq'[n].state = "publish_qos1" => outq[n].qos = 1
        /\ outq'[n].state = "publish_qos2" => outq[n].qos = 2
        /\ outq'[n].state = "resend_pubrel" => outq[n].qos = 2 /\ Received(outq[n]) /\ n <= MaxInflight
        /\ outq[n].qos = 2 /\ Received(outq[n]) /\ n <= MaxInflight => outq'[n].state = "resend_pubrel"
  <2> SUFFICES ASSUME NEW n \in DOMAIN outq
               PROVE  /\ outq'[n].state \in {"invalid", "publish_qos1", "publish_qos2", "resend_pubrel"}
                      /\ outq'[n].state = "publish_qos1" => outq[n].qos = 1
                      /\ outq'[n].state = "publish_qos2" => outq[n].qos = 2
                      /\ outq'[n].state = "resend_pubrel" =>
                           outq[n].qos = 2 /\ Received(outq[n]) /\ n <= MaxInflight
                      /\ outq[n].qos = 2 /\ Received(outq[n]) /\ n <= MaxInflight =>
                           outq'[n].state = "resend_pubrel"
    OBVIOUS
  <2>1. /\ outq[n].qos \in {1, 2} /\ outq[n].state \in States
        /\ outq[n].qos = 2 => outq[n].state \notin {"wait_for_puback", "publish_qos1"}
    BY <1>3 DEF Message, OutIInv, ListInv, Range
  <2>2. n \in Nat
    BY <1>3
  <2>3. CASE n > MaxInflight
    BY <1>7, <2>2, <2>3
  <2>4. CASE n <= MaxInflight /\ outq[n].qos = 1
    BY <1>3, <1>6, <1>7, <2>4
  <2>5. CASE n <= MaxInflight /\ outq[n].qos = 2
    <3>1. /\ outq[n].state = "wait_for_pubrec" => outq'[n].state = "publish_qos2"
          /\ outq[n].state = "wait_for_pubcomp" => outq'[n].state = "resend_pubrel"
          /\ outq[n].state \notin {"wait_for_pubrec", "wait_for_pubcomp"} =>
               outq'[n].state = outq[n].state
      BY <1>3, <1>6, <1>7, <2>5
    <3> QED
      BY <2>1, <2>5, <3>1 DEF States, Waiting, Resent, Received
  <2> QED
    BY <2>1, <2>2, <2>3, <2>4, <2>5
<1>9. TypeOK'
  <2>1. quota' \in 0 .. MaxInflight
    BY <1>2, <1>3, MinOfTwo, SMTT(30)
  <2>2. LinkOK(AllMids)'
    BY <1>2, <1>5 DEF TypeOK, LinkOK
  <2>3. /\ last_mid' \in 0 .. MaxOut /\ acked' \subseteq OutMids /\ held' \subseteq OutMids
        /\ got' \in [OutMids -> Nat]
    BY <1>2 DEF TypeOK, OutOK
  <2> QED
    BY <1>1, <1>2, <1>7, <2>1, <2>2, <2>3, OutTypes
<1>10. WireInv'
  BY <1>2, <1>4, <1>5 DEF WireInv
<1>11. ListInv'
  <2>1. \A n, k \in DOMAIN outq : n < k => outq'[n].mid < outq'[k].mid
    BY <1>7 DEF OutIInv, ListInv
  <2>2. \A n \in DOMAIN outq :
          /\ outq'[n].mid <= last_mid
          /\ outq'[n].state \in {"wait_for_puback", "publish_qos1"} => outq'[n].qos = 1
          /\ outq'[n].state \in {"wait_for_pubrec", "publish_qos2"} => outq'[n].qos = 2
          /\ Received(outq'[n]) => outq'[n].qos = 2 /\ got[outq'[n].mid] > 0
    <3> TAKE n \in DOMAIN outq
    <3>1. /\ outq[n].mid <= last_mid
          /\ Received(outq[n]) => got[outq[n].mid] > 0
      BY DEF OutIInv, ListInv, Range
    <3> QED
      BY <1>7, <1>8, <3>1 DEF Received
  <2>3. \A m \in Range(outq') :
          /\ m.mid <= last_mid
          /\ m.state \in {"wait_for_puback", "publish_qos1"} => m.qos = 1
          /\ m.state \in {"wait_for_pubrec", "publish_qos2"} => m.qos = 2
          /\ Received(m) => m.qos = 2 /\ got[m.mid] > 0
    BY <1>7, <2>2 DEF Range
  <2>4. /\ \A mid \in OutMids : mid > last_mid => got[mid] = 0
        /\ \A mid \in acked \cup held : got[mid] > 0
    BY DEF OutIInv, ListInv
  <2> QED
    BY <1>2, <1>7, <2>1, <2>3, <2>4 DEF ListInv, Received
<1>12. OutWireInv'
  BY <1>4, <1>5 DEF OutWireInv
<1>13. RepeatInv'
  BY <1>4, <1>5, <1>7, <1>8 DEF RepeatInv, Range
<1>14. LimitInv'
  <2>1. \A n \in DOMAIN outq : n > MaxInflight => outq'[n].state = "invalid"
    BY <1>7
  <2> QED
    BY <1>1, <1>7, <2>1 DEF LimitInv, Noted
<1>15. OnceInv'
  BY <1>1, <1>2, <1>7, <1>8 DEF OutIInv, OnceInv, Noted, Received
<1>16. InWireInv' /\ KeptInv'
  <2>1. InQuiet
    BY <1>4, <1>5 DEF InQuiet, OutDown
  <2> QED
    BY <1>1, <1>2, <2>1, InUntouched
<1> QED
  BY <1>9, <1>10, <1>11, <1>12, <1>13, <1>14, <1>15, <1>16 DEF OutIInv

\* The broker reads a packet that is not CONNECT and answers with one packet.
LEMMA BrokerAnswerWire ==
  ASSUME IInv, NEW type, type # "CONNECT", NEW p \in Packet(AllMids), p \notin Range(down),
         BrokerReads(type, <<p>>)
  PROVE  /\ LinkOK(AllMids)' /\ WireInv' /\ UNCHANGED <<conn, drops>>
         /\ Head(up) \in Range(up) /\ Head(up) \in Packet(AllMids) /\ Head(up).type = type
         /\ Range(up') = Range(up) \ {Head(up)}
         /\ Range(down') = Range(down) \cup {p}
         /\ conn # "closed"
<1>1. TypeOK /\ WireInv
  BY DEF IInv
<1>2. <<p>> \in Seq(Packet(AllMids)) /\ IsInjective(<<p>>) /\ Range(<<p>>) = {p}
  BY OnePacket
<1>3. /\ Head(up) \in Range(up) /\ Head(up) \in Packet(AllMids) /\ Head(up).type = type
      /\ up' \in Seq(Packet(AllMids)) /\ IsInjective(up')
      /\ Range(up') = Range(up) \ {Head(up)}
      /\ down' \in Seq(Packet(AllMids)) /\ IsInjective(down')
      /\ Range(down') = Range(down) \cup {p}
      /\ UNCHANGED <<conn, drops>>
  BY <1>1, <1>2, BrokerReadsWire
<1>4. LinkOK(AllMids)'
  BY <1>1, <1>3 DEF TypeOK, LinkOK
<1>5. conn # "closed" /\ \A k \in Range(up) : k.type # "CONNECT"
  BY <1>1, <1>3 DEF WireInv, BrokerReads
<1>6. WireInv'
  BY <1>1, <1>3, <1>5 DEF WireInv
<1> QED
  BY <1>3, <1>4, <1>5, <1>6

\* A PUBLISH that the broker reads belongs to a message that has begun.
LEMMA BrokerPublishes ==
  ASSUME IInv, up # <<>>, Head(up).type = "PUBLISH"
  PROVE  \E i \in DOMAIN outq :
           /\ outq[i].mid = Head(up).mid /\ outq[i].qos = Head(up).qos /\ Begun(outq[i])
           /\ Head(up).mid \in OutMids /\ Head(up).mid <= last_mid
           /\ \A m \in Range(outq) : m.mid = Head(up).mid => m = outq[i]
           /\ \A p \in Range(up) : p.type \in OutUp /\ p # Head(up) => p.mid # Head(up).mid
           /\ \A p \in Range(down) : p.type \in OutDown => p.mid # Head(up).mid
           /\ conn \in {"connecting", "callback"} => outq[i].state \notin Resent
<1> USE DEF IInv
<1> DEFINE mid == Head(up).mid
<1>1. up \in Seq(Packet(AllMids)) /\ IsInjective(up) /\ Head(up) \in Range(up)
  <2>1. up \in Seq(Packet(AllMids)) /\ IsInjective(up)
    BY DEF TypeOK, LinkOK, WireInv, AllMids
  <2> QED
    BY <2>1, TailRange
<1>2. PICK i \in DOMAIN outq : outq[i].mid = mid /\ outq[i].qos = Head(up).qos /\ Begun(outq[i])
  BY <1>1 DEF OutIInv, OutWireInv, Range
<1>3. /\ \A m \in Range(outq) : m.mid = mid => m = outq[i]
      /\ outq[i] \in Range(outq) /\ outq[i] \in Message /\ mid \in OutMids /\ mid <= last_mid
  <2>1. outq[i] \in Range(outq)
    BY DEF Range
  <2>2. outq[i] \in Message /\ \A m \in Range(outq) : m.mid = mid => m = outq[i]
    BY <1>2, <2>1, OneOfANumber DEF TypeOK, OutIInv
  <2> QED
    BY <1>2, <2>1, <2>2 DEF OutIInv, ListInv, Message
<1>4. \A p \in Range(up) : p.type \in OutUp /\ p # Head(up) => p.mid # mid
  <2> SUFFICES ASSUME NEW p \in Range(up), p.type \in OutUp, p # Head(up), p.mid = mid PROVE FALSE
    OBVIOUS
  <2>1. CASE p.type = "PUBLISH"
    <3>1. p.qos = outq[i].qos
      BY <1>3, <2>1 DEF OutIInv, OutWireInv
    <3>2. p \in Packet(AllMids) /\ Head(up) \in Packet(AllMids)
      BY <1>1 DEF Range
    <3> QED
      BY <1>2, <2>1, <3>1, <3>2, PacketTypes
  <2>2. CASE p.type = "PUBREL"
    BY <1>2, <1>3, <2>2 DEF OutIInv, OutWireInv, Begun, Received
  <2> QED
    BY <2>1, <2>2 DEF OutUp
<1>5. \A p \in Range(down) : p.type \in OutDown => p.mid # mid
  <2> SUFFICES ASSUME NEW p \in Range(down), p.type \in OutDown, p.mid = mid PROVE FALSE
    OBVIOUS
  <2>1. p \in Packet(AllMids)
    BY DEF TypeOK, LinkOK, Range, AllMids
  <2>2. CASE p.type \in {"PUBACK", "PUBREC"}
    <3>1. p = Ack(p.type, mid)
      BY <2>1, <2>2, PacketTypes
    <3> QED
      BY <1>1, <2>2, <3>1 DEF OutIInv, OutWireInv
  <2>3. CASE p.type = "PUBCOMP"
    BY <1>2, <1>3, <2>3 DEF OutIInv, OutWireInv, Begun, Received
  <2> QED
    BY <2>2, <2>3 DEF OutDown
<1>6. conn \in {"connecting", "callback"} => outq[i].state \notin Resent
  BY <1>1, <1>2, <1>3 DEF OutIInv, RepeatInv
<1> QED
  BY <1>2, <1>3, <1>4, <1>5, <1>6

\* Both QoS: the broker answers with a PUBACK or a PUBREC and has the message.
LEMMA BrokerHasIt ==
  ASSUME IInv, NEW qos \in {1, 2}, Head(up).qos = qos,
         BrokerReads("PUBLISH", <<Ack(IF qos = 1 THEN "PUBACK" ELSE "PUBREC", Head(up).mid)>>),
         got' \in [OutMids -> Nat], held' \subseteq OutMids,
         \A mid \in OutMids : got'[mid] = got[mid] \/ mid = Head(up).mid,
         got'[Head(up).mid] > 0,
         qos = 1 => got'[Head(up).mid] = 1 /\ held' = held,
         qos = 2 => /\ held' = held \cup {Head(up).mid}
                    /\ got'[Head(up).mid] = IF Head(up).mid \in held THEN got[Head(up).mid]
                                            ELSE got[Head(up).mid] + 1,
         UNCHANGED <<outq, quota, last_mid, acked>>, UNCHANGED inVars, Notes({})
  PROVE  IInv'
<1> USE DEF IInv
<1> DEFINE mid == Head(up).mid
           ack == Ack(IF qos = 1 THEN "PUBACK" ELSE "PUBREC", mid)
<1>1. Noted /\ mishaps' \subseteq {"overLimit", "twiceKept", "pubcompLost"}
  BY NotesKept
<1>2. PICK i \in DOMAIN outq :
        /\ outq[i].mid = mid /\ outq[i].qos = qos /\ Begun(outq[i])
        /\ mid \in OutMids /\ mid <= last_mid
        /\ \A m \in Range(outq) : m.mid = mid => m = outq[i]
        /\ \A p \in Range(up) : p.type \in OutUp /\ p # Head(up) => p.mid # mid
        /\ \A p \in Range(down) : p.type \in OutDown => p.mid # mid
        /\ conn \in {"connecting", "callback"} => outq[i].state \notin Resent
  BY BrokerPublishes DEF BrokerReads
<1>3. /\ ack \in Packet(AllMids) /\ ack.type = (IF qos = 1 THEN "PUBACK" ELSE "PUBREC") /\ ack.mid = mid
  BY <1>2, AckMade, ZenonT(60) DEF AllMids
<1>4. ack \notin Range(down)
  BY <1>2, <1>3 DEF OutDown
<1>5. /\ LinkOK(AllMids)' /\ WireInv' /\ UNCHANGED <<conn, drops>>
      /\ Head(up) \in Range(up) /\ Head(up).type = "PUBLISH"
      /\ Range(up') = Range(up) \ {Head(up)} /\ Range(down') = Range(down) \cup {ack}
  BY <1>3, <1>4, BrokerAnswerWire
<1>6. TypeOK'
  <2>1. /\ outq' \in Seq(Message) /\ quota' \in 0 .. MaxInflight
        /\ last_mid' \in 0 .. MaxOut /\ acked' \subseteq OutMids
    BY DEF TypeOK, OutOK, Message
  <2> QED
    BY <1>1, <1>5, <2>1, OutTypes
<1>7. \A k \in OutMids : got[k] > 0 => got'[k] > 0
  BY <1>2
<1>8. /\ \A m \in Range(outq) : m \in Message /\ m.mid \in OutMids
      /\ \A n \in DOMAIN outq : outq[n] \in Range(outq)
  BY OneOfANumber DEF TypeOK, OutIInv, Message, Range
<1>9. ListInv'
  <2>1. \A k \in OutMids : k > last_mid => got'[k] = 0
    <3> SUFFICES ASSUME NEW k \in OutMids, k > last_mid PROVE got'[k] = 0
      OBVIOUS
    <3>1. k # mid
      BY <1>2 DEF TypeOK, OutOK, OutMids
    <3> QED
      BY <3>1 DEF OutIInv, ListInv
  <2>2. \A k \in acked \cup held' : got'[k] > 0
    BY <1>7 DEF OutIInv, ListInv, TypeOK, OutOK
  <2>3. \A m \in Range(outq) : Received(m) => got'[m.mid] > 0
    BY <1>7, <1>8 DEF OutIInv, ListInv
  <2> QED
    BY <2>1, <2>2, <2>3 DEF OutIInv, ListInv, Received
<1>10. OutWireInv'
  <2>1. ASSUME NEW p \in Range(up'), p.type \in OutUp
        PROVE  p \in Range(up) /\ p.mid # mid
    BY <1>2, <1>5, <2>1
  <2>2. ASSUME NEW p \in Range(up'), p.type \in OutUp, NEW type \in OutDown
        PROVE  Ack(type, p.mid) \in Range(down') => Ack(type, p.mid) \in Range(down)
    <3>1. Ack(type, p.mid).mid = p.mid
      BY DEF Ack
    <3> QED
      BY <1>3, <1>5, <2>1, <2>2, <3>1
  <2>3. ASSUME NEW p \in Range(up'), p.type = "PUBLISH"
        PROVE  /\ \E m \in Range(outq) : m.mid = p.mid /\ m.qos = p.qos /\ Begun(m)
               /\ Ack("PUBACK", p.mid) \notin Range(down') /\ Ack("PUBREC", p.mid) \notin Range(down')
    BY <2>1, <2>2, <2>3 DEF OutIInv, OutWireInv, OutUp, OutDown
  <2>4. ASSUME NEW p \in Range(up'), p.type = "PUBREL"
        PROVE  /\ \E m \in Range(outq) : m.mid = p.mid /\ Received(m)
               /\ Ack("PUBCOMP", p.mid) \notin Range(down')
    BY <2>1, <2>2, <2>4 DEF OutIInv, OutWireInv, OutUp, OutDown
  <2>5. ASSUME NEW p \in Range(down'), p.type \in {"PUBACK", "PUBREC"}
        PROVE  got'[p.mid] > 0 /\ \E m \in Range(outq) : m.mid = p.mid /\ Begun(m)
                                                     /\ m.qos = IF p.type = "PUBACK" THEN 1 ELSE 2
    <3>1. CASE p = ack
      BY <1>2, <1>3, <1>8, <3>1
    <3>2. CASE p \in Range(down)
      <4>1. got[p.mid] > 0 /\ \E m \in Range(outq) : m.mid = p.mid /\ Begun(m)
                                                     /\ m.qos = IF p.type = "PUBACK" THEN 1 ELSE 2
        BY <2>5, <3>2 DEF OutIInv, OutWireInv
      <4> QED
        BY <1>7, <1>8, <4>1
    <3> QED
      BY <1>5, <3>1, <3>2
  <2>6. ASSUME NEW p \in Range(down'), p.type = "PUBCOMP"
        PROVE  \E m \in Range(outq) : m.mid = p.mid /\ Received(m)
    BY <1>3, <1>5, <2>6 DEF OutIInv, OutWireInv
  <2> QED
    BY <2>3, <2>4, <2>5, <2>6 DEF OutWireInv, Begun, Received
<1>11. RepeatInv'
  <2> SUFFICES ASSUME conn \in {"connecting", "callback"}
               PROVE  /\ \A p \in Range(up') : p.type # "PUBREL"
                      /\ \A m \in Range(outq) :
                           /\ m.state # "wait_for_pubcomp"
                           /\ m.state \in Resent =>
                                /\ \A p \in Range(up') : p.type = "PUBLISH" => p.mid # m.mid
                                /\ \A p \in Range(down') : p.type \in OutDown => p.mid # m.mid
    BY <1>5 DEF RepeatInv, OutDown
  <2>1. /\ \A p \in Range(up) : p.type # "PUBREL"
        /\ \A m \in Range(outq) :
             /\ m.state # "wait_for_pubcomp"
             /\ m.state \in Resent =>
                  /\ \A p \in Range(up) : p.type = "PUBLISH" => p.mid # m.mid
                  /\ \A p \in Range(down) : p.type \in OutDown => p.mid # m.mid
    BY DEF OutIInv, RepeatInv, OutDown
  <2>2. \A m \in Range(outq) : m.state \in Resent => m.mid # mid
    BY <1>2
  <2> QED
    BY <1>3, <1>5, <2>1, <2>2
<1>12. LimitInv'
  BY <1>1 DEF OutIInv, LimitInv, Noted
<1>13. OnceInv'
  <2> SUFFICES ASSUME "overLimit" \notin mishaps'
               PROVE  /\ \A k \in OutMids : got'[k] <= 1
                      /\ \A n \in DOMAIN outq :
                           /\ outq[n].qos = 2 /\ ~Received(outq[n]) /\ got'[outq[n].mid] > 0
                                => outq[n].mid \in held'
                           /\ Received(outq[n]) => n <= MaxInflight
    BY DEF OnceInv, Received
  <2>1. /\ \A k \in OutMids : got[k] <= 1
        /\ \A n \in DOMAIN outq :
             /\ outq[n].qos = 2 /\ ~Received(outq[n]) /\ got[outq[n].mid] > 0 => outq[n].mid \in held
             /\ Received(outq[n]) => n <= MaxInflight
    BY <1>1 DEF OutIInv, OnceInv, Noted
  <2>2. qos = 2 /\ mid \notin held => got[mid] = 0
    <3>1. ~Received(outq[i])
      BY <1>2 DEF Begun, Received
    <3>2. got[mid] \in Nat
      BY <1>2 DEF TypeOK, OutOK
    <3> QED
      BY <1>2, <2>1, <3>1, <3>2
  <2>3. got'[mid] <= 1
    BY <1>2, <2>1, <2>2
  <2>4. \A n \in DOMAIN outq : outq[n].qos = 2 /\ ~Received(outq[n]) /\ got'[outq[n].mid] > 0
                                => outq[n].mid \in held'
    <3> SUFFICES ASSUME NEW n \in DOMAIN outq, outq[n].qos = 2, ~Received(outq[n]),
                        got'[outq[n].mid] > 0, outq[n].mid # mid
                 PROVE  outq[n].mid \in held
      BY <1>2, <1>8
    <3> QED
      BY <1>8, <2>1
  <2> QED
    BY <1>2, <2>1, <2>3, <2>4
<1>14. InWireInv' /\ KeptInv'
  <2>1. InQuiet
    BY <1>3, <1>5 DEF InQuiet, OutUp
  <2> QED
    BY <1>1, <2>1, InUntouched
<1> QED
  BY <1>5, <1>6, <1>9, <1>10, <1>11, <1>12, <1>13, <1>14 DEF OutIInv

\* The broker takes a QoS 1 message.
LEMMA BrokerPublish1Step ==
  ASSUME IInv, BrokerPublish1, UNCHANGED inVars, Notes({})
  PROVE  IInv'
<1>1. Head(up).mid \in OutMids
  BY BrokerPublishes DEF BrokerPublish1, BrokerReads
<1>2. /\ got \in [OutMids -> Nat] /\ held \subseteq OutMids
      /\ Head(up).qos = 1 /\ BrokerReads("PUBLISH", <<Ack("PUBACK", Head(up).mid)>>)
      /\ got' = [got EXCEPT ![Head(up).mid] = 1] /\ UNCHANGED <<outq, quota, last_mid, acked, held>>
  BY DEF IInv, TypeOK, OutOK, BrokerPublish1
<1>3. /\ got' \in [OutMids -> Nat] /\ got'[Head(up).mid] = 1
      /\ \A mid \in OutMids : got'[mid] = got[mid] \/ mid = Head(up).mid
  BY <1>1, <1>2
<1> QED
  BY <1>2, <1>3, BrokerHasIt

\* The broker takes a QoS 2 message, and passes it on unless it holds its number.
LEMMA BrokerPublish2Step ==
  ASSUME IInv, BrokerPublish2, UNCHANGED inVars, Notes({})
  PROVE  IInv'
<1>1. Head(up).mid \in OutMids
  BY BrokerPublishes DEF BrokerPublish2, BrokerReads
<1>2. /\ got \in [OutMids -> Nat] /\ held \subseteq OutMids
      /\ Head(up).qos = 2 /\ BrokerReads("PUBLISH", <<Ack("PUBREC", Head(up).mid)>>)
      /\ IF Head(up).mid \in held THEN UNCHANGED got
         ELSE got' = [got EXCEPT ![Head(up).mid] = @ + 1]
      /\ held' = held \cup {Head(up).mid} /\ UNCHANGED <<outq, quota, last_mid, acked>>
  BY DEF IInv, TypeOK, OutOK, BrokerPublish2, PassOn
<1>3. \A mid \in held : got[mid] > 0
  BY DEF IInv, OutIInv, ListInv
<1>4. /\ got' \in [OutMids -> Nat] /\ held' \subseteq OutMids
      /\ \A mid \in OutMids : got'[mid] = got[mid] \/ mid = Head(up).mid
      /\ got'[Head(up).mid] = IF Head(up).mid \in held THEN got[Head(up).mid]
                              ELSE got[Head(up).mid] + 1
  BY <1>1, <1>2
<1>5. got'[Head(up).mid] > 0
  BY <1>1, <1>2, <1>3, <1>4
<1> QED
  BY <1>2, <1>4, <1>5, BrokerHasIt

\* The broker reads a PUBREL, forgets the number and answers.
LEMMA BrokerPubrelStep ==
  ASSUME IInv, BrokerPubrel, UNCHANGED inVars, Notes({})
  PROVE  IInv'
<1> USE DEF IInv
<1> DEFINE mid == Head(up).mid
           pubcomp == Ack("PUBCOMP", mid)
<1>1. Noted /\ mishaps' \subseteq {"overLimit", "twiceKept", "pubcompLost"}
  BY NotesKept
<1>2. /\ BrokerReads("PUBREL", <<pubcomp>>) /\ Head(up).type = "PUBREL"
      /\ held' = held \ {mid} /\ UNCHANGED <<outq, quota, last_mid, acked, got>>
  BY DEF BrokerPubrel, BrokerReads
<1>3. up \in Seq(Packet(AllMids)) /\ IsInjective(up) /\ Head(up) \in Range(up)
      /\ Head(up) \in Packet(AllMids)
  <2>1. up \in Seq(Packet(AllMids)) /\ IsInjective(up) /\ up # <<>>
    BY <1>2 DEF TypeOK, LinkOK, WireInv, AllMids, BrokerReads
  <2> QED
    BY <2>1, TailRange
<1>4. PICK i \in DOMAIN outq : outq[i].mid = mid /\ Received(outq[i])
  BY <1>2, <1>3 DEF OutIInv, OutWireInv, Range
<1>5. /\ outq[i] \in Range(outq) /\ outq[i] \in Message /\ mid \in OutMids
      /\ \A m \in Range(outq) : m.mid = mid => m = outq[i]
  <2>1. outq[i] \in Range(outq)
    BY DEF Range
  <2>2. outq[i] \in Message /\ \A m \in Range(outq) : m.mid = mid => m = outq[i]
    BY <1>4, <2>1, OneOfANumber DEF TypeOK, OutIInv
  <2> QED
    BY <1>4, <2>1, <2>2 DEF Message
<1>6. pubcomp \in Packet(AllMids) /\ pubcomp.type = "PUBCOMP" /\ pubcomp.mid = mid
  BY <1>5, AckMade DEF AllMids
<1>7. pubcomp \notin Range(down)
  BY <1>2, <1>3 DEF OutIInv, OutWireInv
<1>8. /\ LinkOK(AllMids)' /\ WireInv' /\ UNCHANGED <<conn, drops>>
      /\ Range(up') = Range(up) \ {Head(up)} /\ Range(down') = Range(down) \cup {pubcomp}
  BY <1>2, <1>6, <1>7, BrokerAnswerWire
<1>9. conn \notin {"connecting", "callback"}
  BY <1>2, <1>3 DEF OutIInv, RepeatInv
<1>10. \A p \in Range(up) : p.type \in OutUp /\ p # Head(up) => p.mid # mid
  <2> SUFFICES ASSUME NEW p \in Range(up), p.type \in OutUp, p # Head(up), p.mid = mid PROVE FALSE
    OBVIOUS
  <2>1. CASE p.type = "PUBLISH"
    BY <1>4, <1>5, <2>1 DEF OutIInv, OutWireInv, Begun, Received
  <2>2. CASE p.type = "PUBREL"
    <3>1. p \in Packet(AllMids)
      BY <1>3 DEF Range
    <3> QED
      BY <1>2, <1>3, <2>2, <3>1, PacketTypes
  <2> QED
    BY <2>1, <2>2 DEF OutUp
<1>11. TypeOK'
  <2>1. /\ outq' \in Seq(Message) /\ quota' \in 0 .. MaxInflight
        /\ last_mid' \in 0 .. MaxOut /\ acked' \subseteq OutMids /\ held' \subseteq OutMids
        /\ got' \in [OutMids -> Nat]
    BY <1>2 DEF TypeOK, OutOK, Message
  <2> QED
    BY <1>1, <1>8, <2>1, OutTypes
<1>12. ListInv'
  BY <1>2 DEF OutIInv, ListInv, Received
<1>13. OutWireInv'
  <2>1. ASSUME NEW p \in Range(up'), p.type \in OutUp
        PROVE  p \in Range(up) /\ p.mid # mid
    BY <1>8, <1>10, <2>1
  <2>2. ASSUME NEW p \in Range(up'), p.type \in OutUp, NEW type \in OutDown
        PROVE  Ack(type, p.mid) \in Range(down') => Ack(type, p.mid) \in Range(down)
    <3>1. Ack(type, p.mid).mid = p.mid
      BY DEF Ack
    <3> QED
      BY <1>6, <1>8, <2>1, <2>2, <3>1
  <2>3. ASSUME NEW p \in Range(up'), p.type = "PUBLISH"
        PROVE  /\ \E m \in Range(outq) : m.mid = p.mid /\ m.qos = p.qos /\ Begun(m)
               /\ Ack("PUBACK", p.mid) \notin Range(down') /\ Ack("PUBREC", p.mid) \notin Range(down')
    BY <2>1, <2>2, <2>3 DEF OutIInv, OutWireInv, OutUp, OutDown
  <2>4. ASSUME NEW p \in Range(up'), p.type = "PUBREL"
        PROVE  /\ \E m \in Range(outq) : m.mid = p.mid /\ Received(m)
               /\ Ack("PUBCOMP", p.mid) \notin Range(down')
    BY <2>1, <2>2, <2>4 DEF OutIInv, OutWireInv, OutUp, OutDown
  <2>5. ASSUME NEW p \in Range(down'), p.type \in {"PUBACK", "PUBREC"}
        PROVE  got[p.mid] > 0 /\ \E m \in Range(outq) : m.mid = p.mid /\ Begun(m)
                                                     /\ m.qos = IF p.type = "PUBACK" THEN 1 ELSE 2
    BY <1>6, <1>8, <2>5 DEF OutIInv, OutWireInv
  <2>6. ASSUME NEW p \in Range(down'), p.type = "PUBCOMP"
        PROVE  \E m \in Range(outq) : m.mid = p.mid /\ Received(m)
    <3>1. CASE p = pubcomp
      BY <1>4, <1>5, <1>6, <3>1
    <3>2. CASE p \in Range(down)
      BY <2>6, <3>2 DEF OutIInv, OutWireInv
    <3> QED
      BY <1>8, <3>1, <3>2
  <2> QED
    BY <1>2, <2>3, <2>4, <2>5, <2>6 DEF OutWireInv, Begun, Received
<1>14. RepeatInv'
  BY <1>8, <1>9 DEF RepeatInv
<1>15. LimitInv'
  BY <1>1, <1>2 DEF OutIInv, LimitInv, Noted
<1>16. OnceInv'
  <2> SUFFICES ASSUME "overLimit" \notin mishaps'
               PROVE  /\ \A k \in OutMids : got[k] <= 1
                      /\ \A n \in DOMAIN outq :
                           /\ outq[n].qos = 2 /\ ~Received(outq[n]) /\ got[outq[n].mid] > 0
                                => outq[n].mid \in held'
                           /\ Received(outq[n]) => n <= MaxInflight
    BY <1>2 DEF OnceInv, Received
  <2>1. \A n \in DOMAIN outq : ~Received(outq[n]) => outq[n].mid # mid
    BY <1>4, <1>5 DEF Range
  <2> QED
    BY <1>1, <1>2, <2>1 DEF OutIInv, OnceInv, Noted
<1>17. InWireInv' /\ KeptInv'
  <2>1. InQuiet
    BY <1>6, <1>8 DEF InQuiet, OutUp
  <2> QED
    BY <1>1, <2>1, InUntouched
<1> QED
  BY <1>8, <1>11, <1>12, <1>13, <1>14, <1>15, <1>16, <1>17 DEF OutIInv

\* A loss of the connection keeps the invariant.
LEMMA DropStep ==
  ASSUME IInv, Drop, Notes({})
  PROVE  IInv'
<1> USE DEF IInv
<1>1. Noted /\ mishaps' \subseteq {"overLimit", "twiceKept", "pubcompLost"}
  BY NotesKept
<1>2. Lost /\ UNCHANGED outVars /\ UNCHANGED inVars
  BY DEF Drop
<1>3. LinkOK(AllMids)' /\ WireInv' /\ Range(up') = {} /\ Range(down') = {} /\ conn' = "closed"
  BY <1>2, LostWire
<1>4. OutQuiet /\ InQuiet
  BY <1>3 DEF OutQuiet, InQuiet
<1>5. TypeOK'
  BY <1>1, <1>2, <1>3 DEF TypeOK, OutOK, InOK, outVars, inVars, AllMids, OutMids, InMids
<1> QED
  BY <1>1, <1>2, <1>3, <1>4, <1>5, OutUntouched, InUntouched

-----------------------------------------------------------------------------
(* Incoming messages. *)

\* The types of the parts make up TypeOK.
LEMMA InTypes ==
  ASSUME TypeOK, LinkOK(AllMids)', inq' \in Seq(InMids), delivered' \in [InMids -> Nat],
         sending' \in [InMids -> {"new", "published", "released", "done"}],
         UNCHANGED qosOf, UNCHANGED outVars,
         mishaps' \subseteq {"overLimit", "twiceKept", "pubcompLost"}
  PROVE  TypeOK'
BY DEF TypeOK, OutOK, InOK, outVars, AllMids, OutMids, InMids

\* The other packets on their way to the client belong to other messages.
LEMMA OtherDown ==
  ASSUME IInv, NEW h \in Range(down), h.type \in OutUp
  PROVE  \A p \in Range(down) : p.type \in OutUp /\ p # h => p.mid # h.mid
<1> USE DEF IInv
<1> SUFFICES ASSUME NEW p \in Range(down), p.type \in OutUp, p # h, p.mid = h.mid PROVE FALSE
  OBVIOUS
<1>1. p \in Packet(AllMids) /\ h \in Packet(AllMids)
  BY DEF TypeOK, LinkOK, Range, AllMids
<1>2. CASE p.type = "PUBLISH" /\ h.type = "PUBLISH"
  BY <1>1, <1>2, PacketTypes DEF InWireInv
<1>3. CASE p.type = "PUBREL" /\ h.type = "PUBREL"
  BY <1>1, <1>3, PacketTypes
<1>4. CASE p.type # h.type
  BY <1>4 DEF InWireInv, OutUp
<1> QED
  BY <1>2, <1>3, <1>4 DEF OutUp

\* And so do those on their way to the broker.
LEMMA OtherUp ==
  ASSUME IInv, NEW h \in Range(up), h.type \in OutDown
  PROVE  /\ \A p \in Range(up) : p.type \in OutDown /\ p # h => p.mid # h.mid
         /\ \A p \in Range(down) : p.type \in OutUp => p.mid # h.mid
<1> USE DEF IInv
<1>1. \A p \in Range(up) : p \in Packet(AllMids)
  BY DEF TypeOK, LinkOK, Range, AllMids
<1>2. ASSUME NEW p \in Range(up), p.type \in OutDown, p # h, p.mid = h.mid PROVE FALSE
  <2>1. CASE p.type = h.type
    BY <1>1, <1>2, <2>1, PacketTypes DEF OutDown
  <2>2. CASE p.type # h.type
    BY <1>2, <2>2 DEF InWireInv, OutDown
  <2> QED
    BY <2>1, <2>2
<1>3. ASSUME NEW p \in Range(down), p.type \in OutUp, p.mid = h.mid PROVE FALSE
  <2>1. h = Ack(h.type, p.mid)
    BY <1>1, <1>3, PacketTypes DEF OutDown
  <2> QED
    BY <1>3, <2>1 DEF InWireInv, OutDown, OutUp
<1> QED
  BY <1>2, <1>3

\* What has been read and answered does not concern the packets that are still on their
\* way to the client.
LEMMA DownKept ==
  ASSUME IInv, NEW h \in Range(down), h.type \in OutUp, NEW ack, ack.mid = h.mid,
         Range(down') = Range(down) \ {h}, \A p \in Range(up') : p \in Range(up) \/ p = ack,
         UNCHANGED <<sending, qosOf>>
  PROVE  /\ \A p \in Range(down') : p.type = "PUBLISH" =>
              /\ p.mid \in InMids /\ p.qos = qosOf[p.mid] /\ sending[p.mid] = "published"
              /\ Ack("PUBACK", p.mid) \notin Range(up') /\ Ack("PUBREC", p.mid) \notin Range(up')
         /\ \A p \in Range(down') : p.type = "PUBREL" =>
              /\ p.mid \in InMids /\ qosOf[p.mid] = 2 /\ sending[p.mid] = "released"
              /\ Ack("PUBCOMP", p.mid) \notin Range(up')
<1>1. ASSUME NEW p \in Range(down'), p.type \in OutUp, NEW type \in OutDown
      PROVE  p \in Range(down) /\ (Ack(type, p.mid) \in Range(up') => Ack(type, p.mid) \in Range(up))
  <2>1. p \in Range(down) /\ p.mid # h.mid
    BY <1>1, OtherDown
  <2>2. Ack(type, p.mid).mid = p.mid
    BY DEF Ack
  <2> QED
    BY <2>1, <2>2
<1> QED
  BY <1>1 DEF IInv, InWireInv, OutUp, OutDown

\* handle__publish of a QoS 1 message keeps the invariant.
LEMMA Publish1Step ==
  ASSUME IInv, handle__publish1, UNCHANGED outVars, Notes({})
  PROVE  IInv'
<1> USE DEF IInv
<1> DEFINE mid == Head(down).mid
           puback == Ack("PUBACK", mid)
<1>1. Noted /\ mishaps' \subseteq {"overLimit", "twiceKept", "pubcompLost"}
  BY NotesKept
<1>2. /\ Reads("PUBLISH") /\ Head(down).qos = 1 /\ conn = "active" /\ Sends(<<puback>>)
      /\ delivered' = [delivered EXCEPT ![mid] = 1]
      /\ UNCHANGED <<conn, drops, inq, sending, qosOf>>
  BY DEF handle__publish1, Reads, Readable
<1>3. Head(down) \in Range(down) /\ Head(down).type = "PUBLISH"
  BY <1>2, ReadsWire DEF Reads
<1>4. /\ mid \in InMids /\ qosOf[mid] = 1 /\ sending[mid] = "published"
      /\ puback \notin Range(up)
  BY <1>2, <1>3 DEF InWireInv
<1>5. puback \in Packet(AllMids) /\ puback.type = "PUBACK" /\ puback.mid = mid
  BY <1>4, AckMade DEF AllMids
<1>6. /\ LinkOK(AllMids)' /\ WireInv'
      /\ Range(down') = Range(down) \ {Head(down)} /\ Range(up') = Range(up) \cup {puback}
  BY <1>2, <1>4, <1>5, AnswerWire
<1>7. /\ inq \in Seq(InMids) /\ delivered \in [InMids -> Nat]
      /\ sending \in [InMids -> {"new", "published", "released", "done"}]
      /\ qosOf \in [InMids -> {1, 2}]
  BY DEF TypeOK, InOK
<1>8. /\ delivered' \in [InMids -> Nat] /\ delivered'[mid] = 1
      /\ \A k \in InMids : k # mid => delivered'[k] = delivered[k]
  BY <1>2, <1>4, <1>7
<1>9. TypeOK'
  BY <1>1, <1>2, <1>6, <1>7, <1>8, InTypes
<1>10. OutIInv'
  <2>1. OutQuiet
    BY <1>2, <1>5, <1>6 DEF OutQuiet, OutUp
  <2> QED
    BY <1>1, <2>1, OutUntouched
<1>11. InWireInv'
  <2>1. /\ \A p \in Range(down') : p.type = "PUBLISH" =>
             /\ p.mid \in InMids /\ p.qos = qosOf[p.mid] /\ sending[p.mid] = "published"
             /\ Ack("PUBACK", p.mid) \notin Range(up') /\ Ack("PUBREC", p.mid) \notin Range(up')
        /\ \A p \in Range(down') : p.type = "PUBREL" =>
             /\ p.mid \in InMids /\ qosOf[p.mid] = 2 /\ sending[p.mid] = "released"
             /\ Ack("PUBCOMP", p.mid) \notin Range(up')
    BY <1>2, <1>3, <1>5, <1>6, DownKept DEF OutUp
  <2>2. ASSUME NEW p \in Range(up'), p.type \in OutDown
        PROVE  p = puback \/ p \in Range(up)
    BY <1>6
  <2>3. \A k \in InMids : delivered[k] > 0 => delivered'[k] > 0
    BY <1>8
  <2>6. \A p \in Range(up') : p.type = "PUBACK" =>
          /\ p.mid \in InMids /\ qosOf[p.mid] = 1 /\ sending[p.mid] = "published"
          /\ delivered'[p.mid] > 0
    BY <1>4, <1>5, <1>8, <2>2, <2>3 DEF InWireInv, OutDown
  <2>7. \A p \in Range(up') : p.type = "PUBREC" =>
          /\ p.mid \in InMids /\ qosOf[p.mid] = 2 /\ sending[p.mid] = "published"
          /\ p.mid \in Range(inq)
    BY <1>5, <2>2 DEF InWireInv, OutDown
  <2>8. \A p \in Range(up') : p.type = "PUBCOMP" =>
          /\ p.mid \in InMids /\ qosOf[p.mid] = 2 /\ sending[p.mid] = "released"
          /\ delivered'[p.mid] > 0 \/ "pubcompLost" \in mishaps'
    BY <1>1, <1>5, <2>2, <2>3 DEF InWireInv, OutDown, Noted
  <2> QED
    BY <1>2, <2>1, <2>6, <2>7, <2>8 DEF InWireInv
<1>12. KeptInv'
  <2>1. \A k \in Range(inq) : k # mid
    BY <1>4 DEF KeptInv
  <2>2. \A k \in Range(inq) : k \in InMids
    BY <1>7 DEF Range
  <2>3. \A k \in InMids :
          /\ sending[k] = "new" => delivered'[k] = 0
          /\ qosOf[k] = 1 => delivered'[k] <= 1
          /\ qosOf[k] = 2 /\ delivered'[k] > 0 => sending[k] \in {"released", "done"}
          /\ sending[k] = "released" =>
               qosOf[k] = 2 /\ (\/ k \in Range(inq) \/ delivered'[k] > 0 \/ "pubcompLost" \in mishaps')
          /\ sending[k] = "done" => delivered'[k] > 0 \/ "pubcompLost" \in mishaps'
    <3> TAKE k \in InMids
    <3>1. CASE k = mid
      BY <1>4, <1>8, <3>1
    <3>2. CASE k # mid
      BY <1>1, <1>8, <3>2 DEF KeptInv, Noted
    <3> QED
      BY <3>1, <3>2
  <2>4. "twiceKept" \notin mishaps' =>
          /\ IsInjective(inq)
          /\ \A k \in Range(inq) : delivered'[k] = 0
          /\ \A k \in InMids : delivered'[k] <= 1
    BY <1>1, <1>8, <2>1, <2>2 DEF KeptInv, Noted
  <2>5. \A k \in Range(inq) : qosOf[k] = 2 /\ sending[k] # "new"
    BY DEF KeptInv
  <2> QED
    BY <1>2, <2>3, <2>4, <2>5 DEF KeptInv
<1> QED
  BY <1>6, <1>9, <1>10, <1>11, <1>12

\* handle__publish of a QoS 2 message keeps it.
LEMMA Publish2Step ==
  ASSUME IInv, handle__publish2, UNCHANGED outVars, Notes({})
  PROVE  IInv'
<1> USE DEF IInv
<1> DEFINE mid == Head(down).mid
           pubrec == Ack("PUBREC", mid)
<1>1. Noted /\ mishaps' \subseteq {"overLimit", "twiceKept", "pubcompLost"}
  BY NotesKept
<1>2. /\ Reads("PUBLISH") /\ Head(down).qos = 2 /\ conn = "active" /\ Sends(<<pubrec>>)
      /\ inq' = Append(inq, mid) /\ UNCHANGED <<conn, drops, delivered, sending, qosOf>>
  BY DEF handle__publish2, Reads, Readable, Kept
<1>3. Head(down) \in Range(down) /\ Head(down).type = "PUBLISH"
  BY <1>2, ReadsWire DEF Reads
<1>4. /\ mid \in InMids /\ qosOf[mid] = 2 /\ sending[mid] = "published"
      /\ pubrec \notin Range(up)
  BY <1>2, <1>3 DEF InWireInv
<1>5. pubrec \in Packet(AllMids) /\ pubrec.type = "PUBREC" /\ pubrec.mid = mid
  BY <1>4, AckMade DEF AllMids
<1>6. /\ LinkOK(AllMids)' /\ WireInv'
      /\ Range(down') = Range(down) \ {Head(down)} /\ Range(up') = Range(up) \cup {pubrec}
  BY <1>2, <1>4, <1>5, AnswerWire
<1>7. /\ inq \in Seq(InMids) /\ delivered \in [InMids -> Nat]
      /\ sending \in [InMids -> {"new", "published", "released", "done"}]
      /\ qosOf \in [InMids -> {1, 2}]
  BY DEF TypeOK, InOK
<1>8. inq' \in Seq(InMids) /\ Range(inq') = Range(inq) \cup {mid}
  <2>1. /\ inq' \in Seq(InMids) /\ DOMAIN inq' = 1 .. Len(inq) + 1 /\ DOMAIN inq = 1 .. Len(inq)
        /\ Len(inq) \in Nat /\ inq'[Len(inq) + 1] = mid /\ \A n \in 1 .. Len(inq) : inq'[n] = inq[n]
    BY <1>2, <1>4, <1>7
  <2>2. \A x \in Range(inq') : x \in Range(inq) \/ x = mid
    BY <2>1 DEF Range
  <2>3. \A x \in Range(inq) : x \in Range(inq')
    BY <2>1 DEF Range
  <2>4. mid \in Range(inq')
    BY <2>1 DEF Range
  <2> QED
    BY <2>1, <2>2, <2>3, <2>4
<1>9. TypeOK'
  BY <1>1, <1>2, <1>6, <1>7, <1>8, InTypes
<1>10. OutIInv'
  <2>1. OutQuiet
    BY <1>2, <1>5, <1>6 DEF OutQuiet, OutUp
  <2> QED
    BY <1>1, <2>1, OutUntouched
<1>11. InWireInv'
  <2>1. /\ \A p \in Range(down') : p.type = "PUBLISH" =>
             /\ p.mid \in InMids /\ p.qos = qosOf[p.mid] /\ sending[p.mid] = "published"
             /\ Ack("PUBACK", p.mid) \notin Range(up') /\ Ack("PUBREC", p.mid) \notin Range(up')
        /\ \A p \in Range(down') : p.type = "PUBREL" =>
             /\ p.mid \in InMids /\ qosOf[p.mid] = 2 /\ sending[p.mid] = "released"
             /\ Ack("PUBCOMP", p.mid) \notin Range(up')
    BY <1>2, <1>3, <1>5, <1>6, DownKept DEF OutUp
  <2>2. \A p \in Range(up') : p.type = "PUBACK" =>
          /\ p.mid \in InMids /\ qosOf[p.mid] = 1 /\ sending[p.mid] = "published"
          /\ delivered[p.mid] > 0
    BY <1>5, <1>6 DEF InWireInv
  <2>3. \A p \in Range(up') : p.type = "PUBREC" =>
          /\ p.mid \in InMids /\ qosOf[p.mid] = 2 /\ sending[p.mid] = "published"
          /\ p.mid \in Range(inq')
    BY <1>4, <1>5, <1>6, <1>8 DEF InWireInv
  <2>4. \A p \in Range(up') : p.type = "PUBCOMP" =>
          /\ p.mid \in InMids /\ qosOf[p.mid] = 2 /\ sending[p.mid] = "released"
          /\ delivered[p.mid] > 0 \/ "pubcompLost" \in mishaps'
    BY <1>1, <1>5, <1>6 DEF InWireInv, Noted
  <2> QED
    BY <1>2, <2>1, <2>2, <2>3, <2>4 DEF InWireInv
<1>12. KeptInv'
  <2>1. \A k \in Range(inq') : qosOf[k] = 2 /\ sending[k] # "new"
    BY <1>4, <1>8 DEF KeptInv
  <2>2. "twiceKept" \notin mishaps' =>
          /\ IsInjective(inq')
          /\ \A k \in Range(inq') : delivered[k] = 0
          /\ \A k \in InMids : delivered[k] <= 1
    <3> SUFFICES ASSUME "twiceKept" \notin mishaps'
                 PROVE  /\ IsInjective(inq')
                        /\ \A k \in Range(inq') : delivered[k] = 0
                        /\ \A k \in InMids : delivered[k] <= 1
      OBVIOUS
    <3>1. "twiceKept" \notin mishaps /\ ~ TwiceKept'
      BY <1>1 DEF Noted
    <3>2. IsInjective(inq')
      BY <3>1 DEF TwiceKept, IsInjective
    <3>3. delivered[mid] = 0
      <4>1. delivered[mid] \in Nat
        BY <1>4, <1>7
      <4>2. qosOf[mid] = 2 /\ delivered[mid] > 0 => sending[mid] \in {"released", "done"}
        BY <1>4 DEF KeptInv
      <4> QED
        BY <1>4, <4>1, <4>2
    <3> QED
      BY <1>8, <3>1, <3>2, <3>3 DEF KeptInv
  <2> QED
    BY <1>1, <1>2, <1>8, <2>1, <2>2 DEF KeptInv, Noted
<1> QED
  BY <1>6, <1>9, <1>10, <1>11, <1>12

\* message__remove takes one copy of the message with the number, if there is one.
LEMMA RemoveProperties ==
  ASSUME inq \in Seq(InMids), NEW mid \in InMids
  PROVE  /\ message__remove(mid) \in Seq(InMids)
         /\ \A k \in Range(message__remove(mid)) : k \in Range(inq)
         /\ \A k \in Range(inq) : k # mid => k \in Range(message__remove(mid))
         /\ IsInjective(inq) => IsInjective(message__remove(mid)) /\ mid \notin Range(message__remove(mid))
         /\ Contains(inq, mid) <=> mid \in Range(inq)
<1> DEFINE q == message__remove(mid)
<1>1. DOMAIN inq = 1 .. Len(inq) /\ Len(inq) \in Nat
  OBVIOUS
<1>2. Contains(inq, mid) <=> mid \in Range(inq)
  BY <1>1 DEF Contains, Range
<1>3. CASE mid \notin Range(inq)
  <2>1. q = inq
    BY <1>2, <1>3 DEF message__remove
  <2> QED
    BY <1>2, <1>3, <2>1
<1>4. CASE mid \in Range(inq)
  <2>1. q = RemoveFirst(inq, mid)
    BY <1>2, <1>4 DEF message__remove
  <2>2. PICK i \in 1 .. Len(inq) : inq[i] = mid /\ RemoveFirst(inq, mid) = RemoveAt(inq, i)
    BY <1>4, RemoveFirstProperties
  <2>3. /\ q \in Seq(InMids) /\ Len(q) = Len(inq) - 1
        /\ \A n \in 1 .. Len(inq) - 1 : q[n] = IF n < i THEN inq[n] ELSE inq[n + 1]
    BY <2>1, <2>2, RemoveAtRange
  <2>4. DOMAIN q = 1 .. Len(inq) - 1
    BY <2>3
  <2> HIDE DEF q
  <2>5. \A k \in Range(q) : k \in Range(inq)
    <3> SUFFICES ASSUME NEW n \in 1 .. Len(inq) - 1 PROVE q[n] \in Range(inq)
      BY <2>4 DEF Range
    <3>1. n \in DOMAIN inq /\ n + 1 \in DOMAIN inq
      BY <1>1
    <3> QED
      BY <2>3, <3>1 DEF Range
  <2>6. \A k \in Range(inq) : k # mid => k \in Range(q)
    <3> SUFFICES ASSUME NEW n \in 1 .. Len(inq), inq[n] # mid PROVE inq[n] \in Range(q)
      BY <1>1 DEF Range
    <3>1. CASE n < i
      <4>1. n \in DOMAIN q /\ q[n] = inq[n]
        BY <1>1, <2>2, <2>3, <2>4, <3>1
      <4> QED
        BY <4>1 DEF Range
    <3>2. CASE n > i
      <4>1. n - 1 \in DOMAIN q /\ q[n - 1] = inq[n]
        BY <1>1, <2>2, <2>3, <2>4, <3>2
      <4> QED
        BY <4>1 DEF Range
    <3> QED
      BY <2>2, <3>1, <3>2
  <2>7. ASSUME IsInjective(inq) PROVE IsInjective(q) /\ mid \notin Range(q)
    <3>1. \A a, b \in 1 .. Len(inq) : inq[a] = inq[b] => a = b
      BY <1>1, <2>7 DEF IsInjective
    <3>2. \A n \in 1 .. Len(inq) - 1 : q[n] # mid
      BY <1>1, <2>2, <2>3, <3>1
    <3>3. \A a, b \in 1 .. Len(inq) - 1 : q[a] = q[b] => a = b
      BY <1>1, <2>2, <2>3, <3>1
    <3> QED
      BY <2>4, <3>2, <3>3 DEF IsInjective, Range
  <2> QED
    BY <1>2, <2>3, <2>5, <2>6, <2>7 DEF q
<1> QED
  BY <1>3, <1>4

\* Both ways to handle a PUBREL, answered or not.
LEMMA Settled ==
  ASSUME IInv, Readable("PUBREL"), UNCHANGED outVars, Noted, OutQuiet,
         mishaps' \subseteq {"overLimit", "twiceKept", "pubcompLost"},
         inq' = message__remove(Head(down).mid), UNCHANGED <<sending, qosOf>>,
         \/ delivered' = IF Contains(inq, Head(down).mid)
                         THEN [delivered EXCEPT ![Head(down).mid] = @ + 1] ELSE delivered
         \/ UNCHANGED delivered /\ "pubcompLost" \in mishaps',
         LinkOK(AllMids)', WireInv',
         Range(down') = Range(down) \ {Head(down)} \/ Range(down') = {},
         \A p \in Range(up') : p \in Range(up) \/ p = Ack("PUBCOMP", Head(down).mid)
  PROVE  IInv'
<1> USE DEF IInv
<1> DEFINE mid == Head(down).mid
           pubcomp == Ack("PUBCOMP", mid)
<1>1. Head(down) \in Range(down) /\ Head(down).type = "PUBREL"
  <2>1. down \in Seq(Packet(AllMids)) /\ down # <<>> /\ IsInjective(down)
    BY DEF TypeOK, LinkOK, WireInv, Readable, AllMids
  <2> QED
    BY <2>1, TailRange DEF Readable
<1>2. mid \in InMids /\ qosOf[mid] = 2 /\ sending[mid] = "released"
  BY <1>1 DEF InWireInv
<1>3. pubcomp.type = "PUBCOMP" /\ pubcomp.mid = mid
  BY DEF Ack
<1>4. /\ inq \in Seq(InMids) /\ delivered \in [InMids -> Nat]
      /\ sending \in [InMids -> {"new", "published", "released", "done"}]
      /\ qosOf \in [InMids -> {1, 2}]
  BY DEF TypeOK, InOK
<1>5. /\ inq' \in Seq(InMids)
      /\ \A k \in Range(inq') : k \in Range(inq)
      /\ \A k \in Range(inq) : k # mid => k \in Range(inq')
      /\ IsInjective(inq) => IsInjective(inq') /\ mid \notin Range(inq')
      /\ Contains(inq, mid) <=> mid \in Range(inq)
  BY <1>2, <1>4, RemoveProperties
<1>6. /\ delivered' \in [InMids -> Nat]
      /\ \A k \in InMids : k # mid => delivered'[k] = delivered[k]
      /\ delivered'[mid] > 0 \/ "pubcompLost" \in mishaps'
      /\ delivered'[mid] = delivered[mid] \/ (delivered'[mid] = delivered[mid] + 1 /\ mid \in Range(inq))
  <2>1. CASE UNCHANGED delivered /\ "pubcompLost" \in mishaps'
    BY <1>4, <2>1
  <2>2. CASE delivered' = (IF Contains(inq, mid) THEN [delivered EXCEPT ![mid] = @ + 1] ELSE delivered)
    <3>1. CASE Contains(inq, mid)
      BY <1>2, <1>4, <1>5, <2>2, <3>1
    <3>2. CASE ~ Contains(inq, mid)
      <4>1. mid \notin Range(inq)
        BY <1>5, <3>2
      <4>2. delivered[mid] > 0 \/ "pubcompLost" \in mishaps
        BY <1>2, <4>1 DEF KeptInv
      <4> QED
        BY <1>4, <2>2, <3>2, <4>2 DEF Noted
    <3> QED
      BY <3>1, <3>2
  <2> QED
    BY <2>1, <2>2
<1>7. TypeOK'
  BY <1>4, <1>5, <1>6, InTypes
<1>8. OutIInv'
  BY OutUntouched
<1>9. InWireInv'
  <2>1. /\ \A p \in Range(down') : p.type = "PUBLISH" =>
             /\ p.mid \in InMids /\ p.qos = qosOf[p.mid] /\ sending[p.mid] = "published"
             /\ Ack("PUBACK", p.mid) \notin Range(up') /\ Ack("PUBREC", p.mid) \notin Range(up')
        /\ \A p \in Range(down') : p.type = "PUBREL" =>
             /\ p.mid \in InMids /\ qosOf[p.mid] = 2 /\ sending[p.mid] = "released"
             /\ Ack("PUBCOMP", p.mid) \notin Range(up')
    <3>1. CASE Range(down') = Range(down) \ {Head(down)}
      BY <1>1, <1>3, <3>1, DownKept DEF OutUp
    <3>2. CASE Range(down') = {}
      BY <3>2
    <3> QED
      BY <3>1, <3>2
  <2>2. \A k \in InMids : delivered[k] > 0 => delivered'[k] > 0
    BY <1>2, <1>4, <1>6
  <2>3. \A p \in Range(up') : p.type = "PUBACK" =>
          /\ p.mid \in InMids /\ qosOf[p.mid] = 1 /\ sending[p.mid] = "published"
          /\ delivered'[p.mid] > 0
    BY <1>3, <2>2 DEF InWireInv
  <2>4. \A p \in Range(up') : p.type = "PUBREC" =>
          /\ p.mid \in InMids /\ qosOf[p.mid] = 2 /\ sending[p.mid] = "published"
          /\ p.mid \in Range(inq')
    BY <1>2, <1>3, <1>5 DEF InWireInv
  <2>5. \A p \in Range(up') : p.type = "PUBCOMP" =>
          /\ p.mid \in InMids /\ qosOf[p.mid] = 2 /\ sending[p.mid] = "released"
          /\ delivered'[p.mid] > 0 \/ "pubcompLost" \in mishaps'
    <3> TAKE p \in Range(up')
    <3>1. CASE p = pubcomp
      BY <1>2, <1>3, <1>6, <3>1
    <3>2. CASE p \in Range(up)
      BY <2>2, <3>2 DEF InWireInv, Noted
    <3> QED
      BY <3>1, <3>2
  <2> QED
    BY <2>1, <2>3, <2>4, <2>5 DEF InWireInv
<1>10. KeptInv'
  <2>1. \A k \in Range(inq') : qosOf[k] = 2 /\ sending[k] # "new"
    BY <1>5 DEF KeptInv
  <2>2. \A k \in InMids :
          /\ sending[k] = "new" => delivered'[k] = 0
          /\ qosOf[k] = 1 => delivered'[k] <= 1
          /\ qosOf[k] = 2 /\ delivered'[k] > 0 => sending[k] \in {"released", "done"}
          /\ sending[k] = "released" =>
               qosOf[k] = 2 /\ (\/ k \in Range(inq') \/ delivered'[k] > 0 \/ "pubcompLost" \in mishaps')
          /\ sending[k] = "done" => delivered'[k] > 0 \/ "pubcompLost" \in mishaps'
    <3> TAKE k \in InMids
    <3>1. CASE k = mid
      BY <1>2, <1>6, <3>1
    <3>2. CASE k # mid
      BY <1>5, <1>6, <3>2 DEF KeptInv, Noted
    <3> QED
      BY <3>1, <3>2
  <2>3. "twiceKept" \notin mishaps' =>
          /\ IsInjective(inq')
          /\ \A k \in Range(inq') : delivered'[k] = 0
          /\ \A k \in InMids : delivered'[k] <= 1
    <3> SUFFICES ASSUME "twiceKept" \notin mishaps'
                 PROVE  /\ IsInjective(inq')
                        /\ \A k \in Range(inq') : delivered'[k] = 0
                        /\ \A k \in InMids : delivered'[k] <= 1
      OBVIOUS
    <3>1. /\ IsInjective(inq) /\ \A k \in Range(inq) : delivered[k] = 0
          /\ \A k \in InMids : delivered[k] <= 1
      BY DEF KeptInv, Noted
    <3>2. \A k \in Range(inq) : k \in InMids
      BY <1>4 DEF Range
    <3> QED
      BY <1>2, <1>5, <1>6, <3>1, <3>2
  <2> QED
    BY <2>1, <2>2, <2>3 DEF KeptInv
<1> QED
  BY <1>7, <1>8, <1>9, <1>10

\* handle__pubrel that answers keeps the invariant.
LEMMA PubrelStep ==
  ASSUME IInv, handle__pubrel, UNCHANGED outVars, Notes({})
  PROVE  IInv'
<1> USE DEF IInv
<1> DEFINE mid == Head(down).mid
           pubcomp == Ack("PUBCOMP", mid)
<1>1. Noted /\ mishaps' \subseteq {"overLimit", "twiceKept", "pubcompLost"}
  BY NotesKept
<1>2. /\ Reads("PUBREL") /\ Readable("PUBREL") /\ conn = "active" /\ Sends(<<pubcomp>>)
      /\ inq' = message__remove(mid) /\ UNCHANGED <<conn, drops, sending, qosOf>>
      /\ delivered' = IF Contains(inq, mid) THEN [delivered EXCEPT ![mid] = @ + 1] ELSE delivered
  BY DEF handle__pubrel, Reads, Readable, Answer
<1>3. Head(down) \in Range(down) /\ Head(down).type = "PUBREL"
  BY <1>2, ReadsWire DEF Reads
<1>4. mid \in InMids /\ pubcomp \notin Range(up)
  BY <1>3 DEF InWireInv
<1>5. pubcomp \in Packet(AllMids) /\ pubcomp.type = "PUBCOMP"
  BY <1>4, AckMade DEF AllMids
<1>6. /\ LinkOK(AllMids)' /\ WireInv'
      /\ Range(down') = Range(down) \ {Head(down)} /\ Range(up') = Range(up) \cup {pubcomp}
  BY <1>2, <1>4, <1>5, AnswerWire
<1>7. OutQuiet
  BY <1>2, <1>5, <1>6 DEF OutQuiet, OutUp
<1> QED
  BY <1>1, <1>2, <1>6, <1>7, Settled

\* handle__pubrel that cannot answer keeps it, as pubcompLost is noted.
LEMMA PubrelFails ==
  ASSUME IInv, PubcompLost, Notes({"pubcompLost"})
  PROVE  IInv'
<1> USE DEF IInv
<1>1. /\ Noted /\ mishaps' \subseteq {"overLimit", "twiceKept", "pubcompLost"}
      /\ "pubcompLost" \in mishaps'
  BY NotesKept
<1>2. /\ Readable("PUBREL") /\ Lost /\ inq' = message__remove(Head(down).mid)
      /\ UNCHANGED <<delivered, sending, qosOf>> /\ UNCHANGED outVars
  BY DEF PubcompLost, handle__pubrel_fails
<1>3. LinkOK(AllMids)' /\ WireInv' /\ Range(up') = {} /\ Range(down') = {} /\ conn' = "closed"
  BY <1>2, LostWire
<1>4. OutQuiet
  BY <1>3 DEF OutQuiet
<1> QED
  BY <1>1, <1>2, <1>3, <1>4, Settled

\* The broker moves a message whose acknowledgement it has read one step on.
LEMMA BrokerMoves ==
  ASSUME IInv, NEW h \in Range(up), h.type \in OutDown,
         UNCHANGED outVars, Noted, OutQuiet,
         mishaps' \subseteq {"overLimit", "twiceKept", "pubcompLost"},
         sending' = [sending EXCEPT ![h.mid] = IF h.type = "PUBREC" THEN "released" ELSE "done"],
         UNCHANGED <<inq, delivered, qosOf>>, LinkOK(AllMids)', WireInv',
         Range(up') = Range(up) \ {h},
         \A p \in Range(down') : p \in Range(down) \/ (h.type = "PUBREC" /\ p = Ack("PUBREL", h.mid))
  PROVE  IInv'
<1> USE DEF IInv
<1> DEFINE mid == h.mid
<1>1. /\ inq \in Seq(InMids) /\ delivered \in [InMids -> Nat]
      /\ sending \in [InMids -> {"new", "published", "released", "done"}]
      /\ qosOf \in [InMids -> {1, 2}]
  BY DEF TypeOK, InOK
<1>2. /\ mid \in InMids
      /\ h.type = "PUBACK" => qosOf[mid] = 1 /\ delivered[mid] > 0
      /\ h.type = "PUBREC" => qosOf[mid] = 2 /\ mid \in Range(inq)
      /\ h.type = "PUBCOMP" => qosOf[mid] = 2 /\ (delivered[mid] > 0 \/ "pubcompLost" \in mishaps)
  BY DEF InWireInv, OutDown
<1>3. /\ sending' \in [InMids -> {"new", "published", "released", "done"}]
      /\ sending'[mid] = (IF h.type = "PUBREC" THEN "released" ELSE "done")
      /\ \A k \in InMids : k # mid => sending'[k] = sending[k]
  BY <1>1, <1>2
<1>4. TypeOK'
  BY <1>1, <1>3, InTypes
<1>5. OutIInv'
  BY OutUntouched
<1>6. /\ \A p \in Range(up) : p.type \in OutDown /\ p # h => p.mid # mid
      /\ \A p \in Range(down) : p.type \in OutUp => p.mid # mid
  BY OtherUp
<1>7. InWireInv'
  <2>1. ASSUME NEW p \in Range(down'), p.type = "PUBLISH"
        PROVE  /\ p.mid \in InMids /\ p.qos = qosOf[p.mid] /\ sending'[p.mid] = "published"
               /\ Ack("PUBACK", p.mid) \notin Range(up') /\ Ack("PUBREC", p.mid) \notin Range(up')
    <3>1. p \in Range(down) /\ p.mid # mid
      BY <1>6, <2>1 DEF Ack, OutUp
    <3> QED
      BY <1>3, <2>1, <3>1 DEF InWireInv
  <2>2. ASSUME NEW p \in Range(down'), p.type = "PUBREL"
        PROVE  /\ p.mid \in InMids /\ qosOf[p.mid] = 2 /\ sending'[p.mid] = "released"
               /\ Ack("PUBCOMP", p.mid) \notin Range(up')
    <3>1. CASE p \in Range(down)
      <4>1. p.mid # mid
        BY <1>6, <2>2, <3>1 DEF OutUp
      <4> QED
        BY <1>3, <2>2, <3>1, <4>1 DEF InWireInv
    <3>2. CASE h.type = "PUBREC" /\ p = Ack("PUBREL", mid)
      <4>1. p.mid = mid
        BY <3>2 DEF Ack
      <4>2. Ack("PUBCOMP", mid).type = "PUBCOMP" /\ Ack("PUBCOMP", mid).mid = mid
        BY DEF Ack
      <4>3. Ack("PUBCOMP", mid) \notin Range(up')
        BY <1>6, <3>2, <4>2 DEF OutDown
      <4> QED
        BY <1>2, <1>3, <3>2, <4>1, <4>3
    <3> QED
      BY <3>1, <3>2
  <2>3. ASSUME NEW p \in Range(up'), p.type \in OutDown
        PROVE  p \in Range(up) /\ (p.mid \in InMids => sending'[p.mid] = sending[p.mid])
    BY <1>3, <1>6, <2>3
  <2>4. /\ \A p \in Range(up') : p.type = "PUBACK" =>
             /\ p.mid \in InMids /\ qosOf[p.mid] = 1 /\ sending'[p.mid] = "published"
             /\ delivered[p.mid] > 0
        /\ \A p \in Range(up') : p.type = "PUBREC" =>
             /\ p.mid \in InMids /\ qosOf[p.mid] = 2 /\ sending'[p.mid] = "published"
             /\ p.mid \in Range(inq)
        /\ \A p \in Range(up') : p.type = "PUBCOMP" =>
             /\ p.mid \in InMids /\ qosOf[p.mid] = 2 /\ sending'[p.mid] = "released"
             /\ delivered[p.mid] > 0 \/ "pubcompLost" \in mishaps'
    BY <2>3 DEF InWireInv, OutDown, Noted
  <2> QED
    BY <2>1, <2>2, <2>4 DEF InWireInv
<1>8. KeptInv'
  <2>1. \A k \in Range(inq) : k \in InMids
    BY <1>1 DEF Range
  <2>2. \A k \in Range(inq) : qosOf[k] = 2 /\ sending'[k] # "new"
    BY <1>3, <2>1 DEF KeptInv
  <2>3. \A k \in InMids :
          /\ sending'[k] = "new" => delivered[k] = 0
          /\ qosOf[k] = 1 => delivered[k] <= 1
          /\ qosOf[k] = 2 /\ delivered[k] > 0 => sending'[k] \in {"released", "done"}
          /\ sending'[k] = "released" =>
               qosOf[k] = 2 /\ (\/ k \in Range(inq) \/ delivered[k] > 0 \/ "pubcompLost" \in mishaps')
          /\ sending'[k] = "done" => delivered[k] > 0 \/ "pubcompLost" \in mishaps'
    <3> TAKE k \in InMids
    <3>1. CASE k = mid
      BY <1>2, <1>3, <3>1 DEF KeptInv, Noted, OutDown
    <3>2. CASE k # mid
      BY <1>3, <3>2 DEF KeptInv, Noted
    <3> QED
      BY <3>1, <3>2
  <2> QED
    BY <2>2, <2>3 DEF KeptInv, Noted
<1> QED
  BY <1>4, <1>5, <1>7, <1>8

\* The broker reads an acknowledgement and has nothing to answer.
LEMMA BrokerQuietWire ==
  ASSUME IInv, NEW type, type # "CONNECT", BrokerReads(type, <<>>)
  PROVE  /\ LinkOK(AllMids)' /\ WireInv' /\ UNCHANGED <<conn, drops>>
         /\ Head(up) \in Range(up) /\ Head(up).type = type
         /\ Range(up') = Range(up) \ {Head(up)} /\ Range(down') = Range(down)
<1>1. TypeOK /\ WireInv
  BY DEF IInv
<1>2. <<>> \in Seq(Packet(AllMids)) /\ IsInjective(<<>>) /\ Range(<<>>) = {}
  BY NoPacket
<1>3. /\ Head(up) \in Range(up) /\ Head(up).type = type
      /\ up' \in Seq(Packet(AllMids)) /\ IsInjective(up')
      /\ Range(up') = Range(up) \ {Head(up)}
      /\ down' \in Seq(Packet(AllMids)) /\ IsInjective(down')
      /\ Range(down') = Range(down) \cup {}
      /\ UNCHANGED <<conn, drops>>
  BY <1>1, <1>2, BrokerReadsWire
<1>4. LinkOK(AllMids)'
  BY <1>1, <1>3 DEF TypeOK, LinkOK
<1>5. conn # "closed" /\ \A k \in Range(up) : k.type # "CONNECT"
  BY <1>1, <1>3 DEF WireInv, BrokerReads
<1>6. WireInv'
  BY <1>1, <1>3, <1>5 DEF WireInv
<1> QED
  BY <1>3, <1>4, <1>6

\* The broker reads PUBACK, PUBREC or PUBCOMP and goes on with the message.
LEMMA BrokerAckStep ==
  ASSUME IInv, BrokerPuback \/ BrokerPubrec \/ BrokerPubcomp, UNCHANGED outVars, Notes({})
  PROVE  IInv'
<1> USE DEF IInv
<1> DEFINE h == Head(up)
<1>1. Noted /\ mishaps' \subseteq {"overLimit", "twiceKept", "pubcompLost"}
  BY NotesKept
<1>2. CASE BrokerPuback \/ BrokerPubcomp
  <2>1. PICK type \in {"PUBACK", "PUBCOMP"} : BrokerReads(type, <<>>) /\ Now(h.mid, "done")
    BY <1>2 DEF BrokerPuback, BrokerPubcomp
  <2>2. /\ LinkOK(AllMids)' /\ WireInv' /\ UNCHANGED <<conn, drops>>
        /\ h \in Range(up) /\ h.type = type
        /\ Range(up') = Range(up) \ {h} /\ Range(down') = Range(down)
    BY <2>1, BrokerQuietWire
  <2>3. OutQuiet
    BY <2>2 DEF OutQuiet
  <2>4. /\ sending' = [sending EXCEPT ![h.mid] = IF h.type = "PUBREC" THEN "released" ELSE "done"]
        /\ UNCHANGED <<inq, delivered, qosOf>> /\ h.type \in OutDown
    BY <2>1, <2>2 DEF Now, OutDown
  <2> QED
    BY <1>1, <2>2, <2>3, <2>4, BrokerMoves
<1>3. CASE BrokerPubrec
  <2>1. BrokerReads("PUBREC", <<Ack("PUBREL", h.mid)>>) /\ Now(h.mid, "released")
    BY <1>3 DEF BrokerPubrec
  <2>2. h \in Range(up) /\ h.type = "PUBREC"
    <3>1. up \in Seq(Packet(AllMids)) /\ IsInjective(up) /\ up # <<>> /\ h.type = "PUBREC"
      BY <2>1 DEF TypeOK, LinkOK, WireInv, AllMids, BrokerReads
    <3> QED
      BY <3>1, TailRange
  <2>3. h.mid \in InMids
    BY <2>2 DEF InWireInv
  <2>4. /\ Ack("PUBREL", h.mid) \in Packet(AllMids) /\ Ack("PUBREL", h.mid).type = "PUBREL"
        /\ Ack("PUBREL", h.mid).mid = h.mid
    BY <2>3, AckMade DEF AllMids
  <2>5. Ack("PUBREL", h.mid) \notin Range(down)
    BY <2>2, <2>4, OtherUp DEF OutUp, OutDown
  <2>6. /\ LinkOK(AllMids)' /\ WireInv' /\ UNCHANGED <<conn, drops>>
        /\ Range(up') = Range(up) \ {h} /\ Range(down') = Range(down) \cup {Ack("PUBREL", h.mid)}
    BY <2>1, <2>4, <2>5, BrokerAnswerWire
  <2>7. OutQuiet
    BY <2>4, <2>6 DEF OutQuiet, OutDown
  <2>8. /\ sending' = [sending EXCEPT ![h.mid] = IF h.type = "PUBREC" THEN "released" ELSE "done"]
        /\ UNCHANGED <<inq, delivered, qosOf>> /\ h.type \in OutDown
    BY <2>1, <2>2 DEF Now, OutDown
  <2> QED
    BY <1>1, <2>2, <2>6, <2>7, <2>8, BrokerMoves
<1> QED
  BY <1>2, <1>3

\* The broker begins to send a message.
LEMMA BrokerSendStep ==
  ASSUME IInv, NEW m \in InMids, BrokerSend(m), UNCHANGED outVars, Notes({})
  PROVE  IInv'
<1> USE DEF IInv
<1> DEFINE p0 == Publish(m, qosOf[m])
<1>1. Noted /\ mishaps' \subseteq {"overLimit", "twiceKept", "pubcompLost"}
  BY NotesKept
<1>2. /\ Accepted /\ sending[m] = "new" /\ sending' = [sending EXCEPT ![m] = "published"]
      /\ down' = Append(down, p0) /\ UNCHANGED <<conn, up, drops, inq, delivered, qosOf>>
  BY DEF BrokerSend
<1>3. /\ inq \in Seq(InMids) /\ delivered \in [InMids -> Nat]
      /\ sending \in [InMids -> {"new", "published", "released", "done"}]
      /\ qosOf \in [InMids -> {1, 2}]
  BY DEF TypeOK, InOK
<1>4. /\ p0 \in Packet(AllMids) /\ p0.type = "PUBLISH" /\ p0.mid = m /\ p0.qos = qosOf[m]
  <2>1. m \in AllMids /\ qosOf[m] \in {1, 2}
    BY <1>3 DEF AllMids
  <2> QED
    BY <2>1, PublishMade
<1>5. p0 \notin Range(down)
  BY <1>2, <1>4 DEF InWireInv
<1>6. /\ down' \in Seq(Packet(AllMids)) /\ IsInjective(down') /\ Range(down') = Range(down) \cup {p0}
  <2>1. down \in Seq(Packet(AllMids)) /\ IsInjective(down)
    BY DEF TypeOK, LinkOK, WireInv, AllMids
  <2> QED
    BY <1>2, <1>4, <1>5, <2>1, AppendRange
<1>7. LinkOK(AllMids)'
  BY <1>2, <1>6 DEF TypeOK, LinkOK, AllMids
<1>8. WireInv'
  <2>1. conn # "closed" /\ \A p \in Range(up) : p.type # "CONNECT"
    BY <1>2 DEF Accepted, HasSocket, Range
  <2> QED
    BY <1>2, <1>6, <2>1 DEF WireInv
<1>9. /\ sending' \in [InMids -> {"new", "published", "released", "done"}]
      /\ sending'[m] = "published"
      /\ \A k \in InMids : k # m => sending'[k] = sending[k]
  BY <1>2, <1>3
<1>10. TypeOK'
  BY <1>1, <1>2, <1>3, <1>7, <1>9, InTypes
<1>11. OutIInv'
  <2>1. OutQuiet
    BY <1>2, <1>4, <1>6 DEF OutQuiet, OutDown
  <2> QED
    BY <1>1, <2>1, OutUntouched
\* Nothing of the message is on its way yet.
<1>12. /\ \A p \in Range(down) : p.type \in OutUp => p.mid # m
       /\ \A p \in Range(up) : p.type \in OutDown => p.mid # m
  BY <1>2 DEF InWireInv, OutUp, OutDown
<1>13. InWireInv'
  <2>1. \A type \in OutDown : Ack(type, m) \notin Range(up)
    <3>1. \A type \in OutDown : Ack(type, m).type \in OutDown /\ Ack(type, m).mid = m
      BY DEF Ack
    <3> QED
      BY <1>12, <3>1
  <2>2. \A p \in Range(down') : p.type = "PUBLISH" =>
          /\ p.mid \in InMids /\ p.qos = qosOf[p.mid] /\ sending'[p.mid] = "published"
          /\ Ack("PUBACK", p.mid) \notin Range(up) /\ Ack("PUBREC", p.mid) \notin Range(up)
    <3> TAKE p \in Range(down')
    <3>1. CASE p = p0
      BY <1>4, <1>9, <2>1, <3>1 DEF OutDown
    <3>2. CASE p \in Range(down)
      BY <1>9, <1>12, <3>2 DEF InWireInv, OutUp
    <3> QED
      BY <1>6, <3>1, <3>2
  <2>3. \A p \in Range(down') : p.type = "PUBREL" =>
          /\ p.mid \in InMids /\ qosOf[p.mid] = 2 /\ sending'[p.mid] = "released"
          /\ Ack("PUBCOMP", p.mid) \notin Range(up)
    BY <1>4, <1>6, <1>9, <1>12 DEF InWireInv, OutUp
  <2>4. \A p \in Range(up) : p.type \in OutDown /\ p.mid \in InMids => sending'[p.mid] = sending[p.mid]
    BY <1>9, <1>12
  <2>5. /\ \A p \in Range(up) : p.type = "PUBACK" =>
             /\ p.mid \in InMids /\ qosOf[p.mid] = 1 /\ sending'[p.mid] = "published"
             /\ delivered[p.mid] > 0
        /\ \A p \in Range(up) : p.type = "PUBREC" =>
             /\ p.mid \in InMids /\ qosOf[p.mid] = 2 /\ sending'[p.mid] = "published"
             /\ p.mid \in Range(inq)
        /\ \A p \in Range(up) : p.type = "PUBCOMP" =>
             /\ p.mid \in InMids /\ qosOf[p.mid] = 2 /\ sending'[p.mid] = "released"
             /\ delivered[p.mid] > 0 \/ "pubcompLost" \in mishaps'
    BY <1>1, <2>4 DEF InWireInv, OutDown, Noted
  <2> QED
    BY <1>2, <2>2, <2>3, <2>5 DEF InWireInv
<1>14. KeptInv'
  <2>1. \A k \in Range(inq) : k # m /\ k \in InMids
    BY <1>2, <1>3 DEF KeptInv, Range
  <2>2. \A k \in Range(inq) : qosOf[k] = 2 /\ sending'[k] # "new"
    BY <1>9, <2>1 DEF KeptInv
  <2>3. \A k \in InMids :
          /\ sending'[k] = "new" => delivered[k] = 0
          /\ qosOf[k] = 1 => delivered[k] <= 1
          /\ qosOf[k] = 2 /\ delivered[k] > 0 => sending'[k] \in {"released", "done"}
          /\ sending'[k] = "released" =>
               qosOf[k] = 2 /\ (\/ k \in Range(inq) \/ delivered[k] > 0 \/ "pubcompLost" \in mishaps')
          /\ sending'[k] = "done" => delivered[k] > 0 \/ "pubcompLost" \in mishaps'
    <3> TAKE k \in InMids
    <3>1. CASE k = m
      BY <1>2, <1>9, <3>1 DEF KeptInv
    <3>2. CASE k # m
      BY <1>1, <1>9, <3>2 DEF KeptInv, Noted
    <3> QED
      BY <3>1, <3>2
  <2> QED
    BY <1>1, <1>2, <2>2, <2>3 DEF KeptInv, Noted
<1> QED
  BY <1>8, <1>10, <1>11, <1>13, <1>14

\* What the broker sends again when it has accepted a connection.
LEMMA AgainPackets ==
  ASSUME TypeOK, KeptInv
  PROVE  \E s \in Seq(Packet(AllMids)) :
           /\ s = InOrder(Unsettled, Again) /\ IsInjective(s)
           /\ \A p \in Range(s) :
                \/ /\ p.type = "PUBLISH" /\ p.mid \in InMids /\ p.qos = qosOf[p.mid]
                   /\ sending[p.mid] = "published"
                \/ /\ p.type = "PUBREL" /\ p.mid \in InMids /\ qosOf[p.mid] = 2
                   /\ sending[p.mid] = "released"
<1> DEFINE ns == Unsettled
           g == [m \in ns |-> Again(m)]
           s == Listed(ns, g)
<1>1. qosOf \in [InMids -> {1, 2}] /\ ns \in SUBSET InMids /\ InMids \in SUBSET Nat
  BY DEF TypeOK, InOK, Unsettled, InMids
<1>2. IsFiniteSet(ns) /\ ns \in SUBSET Nat
  <2>1. IsFiniteSet(InMids)
    BY FS_Interval DEF InMids
  <2> QED
    BY <1>1, <2>1, FS_Subset
<1>3. ASSUME NEW m \in ns
      PROVE  /\ Again(m) \in Packet(AllMids) /\ Again(m).mid = m /\ m \in InMids
             /\ \/ Again(m).type = "PUBLISH" /\ Again(m).qos = qosOf[m] /\ sending[m] = "published"
                \/ Again(m).type = "PUBREL" /\ qosOf[m] = 2 /\ sending[m] = "released"
  <2>1. m \in AllMids /\ m \in InMids /\ qosOf[m] \in {1, 2} /\ sending[m] \in {"published", "released"}
    BY <1>1, <1>3 DEF AllMids, Unsettled
  <2>2. CASE sending[m] = "published"
    BY <2>1, <2>2, PublishMade DEF Again
  <2>3. CASE sending[m] = "released"
    <3>1. Again(m) = Ack("PUBREL", m) /\ qosOf[m] = 2
      BY <2>1, <2>3 DEF Again, KeptInv
    <3> QED
      BY <2>1, <2>3, <3>1, AckMade
  <2> QED
    BY <2>1, <2>2, <2>3
<1>4. g \in [ns -> Packet(AllMids)] /\ DOMAIN g = ns /\ \A m \in ns : g[m] = Again(m)
  BY <1>3
<1>5. IsInjective(g)
  BY <1>3 DEF IsInjective
<1> HIDE DEF g, ns
<1>6. /\ s \in Seq(Packet(AllMids)) /\ IsInjective(s) /\ Range(s) = Range(g)
      /\ \A k \in 1 .. Cardinality(ns) : Ranked(ns)[k] \in ns
  BY <1>2, <1>4, <1>5, ListedProperties
<1>7. s = [k \in 1 .. Cardinality(ns) |-> Again(Ranked(ns)[k])]
  BY <1>4, <1>6 DEF Listed
<1>8. InOrder(Unsettled, Again) = [k \in 1 .. Cardinality(ns) |-> Again(Ranked(ns)[k])]
  BY DEF InOrder, ns
<1>9. \A p \in Range(s) : \E m \in ns : p = Again(m)
  BY <1>4, <1>6 DEF Range
<1> HIDE DEF s
<1>10. \A p \in Range(s) :
         \/ /\ p.type = "PUBLISH" /\ p.mid \in InMids /\ p.qos = qosOf[p.mid]
            /\ sending[p.mid] = "published"
         \/ /\ p.type = "PUBREL" /\ p.mid \in InMids /\ qosOf[p.mid] = 2
            /\ sending[p.mid] = "released"
  BY <1>3, <1>9
<1> QED
  BY <1>6, <1>7, <1>8, <1>10

\* The broker accepts a connection and sends again what is not settled.
LEMMA BrokerConnectStep ==
  ASSUME IInv, BrokerConnect, UNCHANGED outVars, Notes({})
  PROVE  IInv'
<1> USE DEF IInv
<1> DEFINE connack == Ack("CONNACK", 0)
<1>1. Noted /\ mishaps' \subseteq {"overLimit", "twiceKept", "pubcompLost"}
  BY NotesKept
<1>2. PICK s \in Seq(Packet(AllMids)) :
        /\ s = InOrder(Unsettled, Again) /\ IsInjective(s)
        /\ \A p \in Range(s) :
             \/ /\ p.type = "PUBLISH" /\ p.mid \in InMids /\ p.qos = qosOf[p.mid]
                /\ sending[p.mid] = "published"
             \/ /\ p.type = "PUBREL" /\ p.mid \in InMids /\ qosOf[p.mid] = 2
                /\ sending[p.mid] = "released"
  BY AgainPackets
<1>3. BrokerReads("CONNECT", <<connack>> \o s) /\ UNCHANGED inVars
  BY <1>2 DEF BrokerConnect
<1>4. connack \in Packet(AllMids) /\ connack.type = "CONNACK"
  BY AckMade
<1>5. /\ <<connack>> \o s \in Seq(Packet(AllMids)) /\ IsInjective(<<connack>> \o s)
      /\ Range(<<connack>> \o s) = {connack} \cup Range(s)
  <2>1. <<connack>> \in Seq(Packet(AllMids)) /\ IsInjective(<<connack>>) /\ Range(<<connack>>) = {connack}
    BY <1>4, OnePacket
  <2>2. Range(<<connack>>) \cap Range(s) = {}
    BY <1>2, <1>4, <2>1
  <2> DEFINE c == <<connack>>
  <2>3. c \in Seq(Packet(AllMids)) /\ IsInjective(c) /\ Range(c) = {connack} /\ Range(c) \cap Range(s) = {}
    BY <2>1, <2>2
  <2>4. s \in Seq(Packet(AllMids)) /\ IsInjective(s)
    BY <1>2
  <2> HIDE DEF c
  <2>5. /\ c \o s \in Seq(Packet(AllMids)) /\ IsInjective(c \o s)
        /\ Range(c \o s) = Range(c) \cup Range(s)
    BY <2>3, <2>4, ConcatRange
  <2> QED
    BY <2>3, <2>5 DEF c
<1>6. /\ up \in Seq(Packet(AllMids)) /\ IsInjective(up) /\ Head(up) \in Range(up)
      /\ Head(up).type = "CONNECT" /\ up # <<>>
  <2>1. up \in Seq(Packet(AllMids)) /\ IsInjective(up) /\ up # <<>> /\ Head(up).type = "CONNECT"
    BY <1>3 DEF TypeOK, LinkOK, WireInv, AllMids, BrokerReads
  <2> QED
    BY <2>1, TailRange
<1>7. /\ conn = "connecting" /\ down = <<>> /\ Range(down) = {}
      /\ \A p \in Range(up) : p.type \in {"CONNECT", "PUBLISH"}
      /\ \A p \in Range(up) : p.type = "CONNECT" => p = Head(up)
  BY <1>6, NoPacket DEF WireInv
<1>8. \A p \in Range(<<connack>> \o s) : p \notin Range(down)
  BY <1>7
<1>9. /\ up' \in Seq(Packet(AllMids)) /\ IsInjective(up')
      /\ Range(up') = Range(up) \ {Head(up)}
      /\ down' \in Seq(Packet(AllMids)) /\ IsInjective(down')
      /\ Range(down') = {connack} \cup Range(s)
      /\ UNCHANGED <<conn, drops>>
  BY <1>3, <1>5, <1>7, <1>8, BrokerReadsWire
<1>10. LinkOK(AllMids)'
  BY <1>9 DEF TypeOK, LinkOK
<1>11. WireInv'
  BY <1>7, <1>9 DEF WireInv
<1>12. TypeOK'
  <2>1. /\ inq' \in Seq(InMids) /\ delivered' \in [InMids -> Nat] /\ UNCHANGED qosOf
        /\ sending' \in [InMids -> {"new", "published", "released", "done"}]
    BY <1>3 DEF TypeOK, InOK, inVars
  <2> QED
    BY <1>1, <1>10, <2>1, InTypes
<1>13. OutIInv'
  <2>1. OutQuiet
    BY <1>2, <1>4, <1>9 DEF OutQuiet, OutDown
  <2> QED
    BY <1>1, <2>1, OutUntouched
<1>14. \A p \in Range(up') : p.type \notin OutDown
  BY <1>7, <1>9 DEF OutDown
<1>15. \A mid, type \in OutDown : Ack(type, mid) \notin Range(up')
  BY <1>14 DEF Ack
<1>16. InWireInv'
  <2>1. \A p \in Range(up') : p.type \notin {"PUBACK", "PUBREC", "PUBCOMP"}
    BY <1>14 DEF OutDown
  <2>2. \A mid : /\ Ack("PUBACK", mid) \notin Range(up') /\ Ack("PUBREC", mid) \notin Range(up')
                 /\ Ack("PUBCOMP", mid) \notin Range(up')
    BY <2>1 DEF Ack
  <2> QED
    BY <1>2, <1>3, <1>4, <1>9, <2>1, <2>2 DEF InWireInv, inVars
<1>17. KeptInv'
  BY <1>1, <1>3 DEF KeptInv, Noted, inVars
<1> QED
  BY <1>11, <1>12, <1>13, <1>16, <1>17

-----------------------------------------------------------------------------
\* The initial states satisfy the invariant.
LEMMA InitKeeps ==
  ASSUME Init
  PROVE  IInv
<1> USE DEF Init, LinkInit, OutInit, InInit
<1>1. <<>> \in Seq(Packet(AllMids)) /\ <<>> \in Seq(Message) /\ <<>> \in Seq(InMids)
      /\ IsInjective(<<>>) /\ Range(<<>>) = {} /\ DOMAIN <<>> = {}
  BY NoPacket
<1>2. TypeOK
  <2>1. LinkOK(AllMids)
    BY <1>1 DEF LinkOK
  <2>2. OutOK
    BY <1>1 DEF OutOK, OutMids, Message
  <2>3. InOK
    BY <1>1 DEF InOK, InMids
  <2> QED
    BY <2>1, <2>2, <2>3 DEF TypeOK, AllMids
<1>3. WireInv
  BY <1>1 DEF WireInv
<1>4. ListInv /\ OutWireInv /\ RepeatInv
  BY <1>1 DEF ListInv, OutWireInv, RepeatInv
<1>5. LimitInv
  BY <1>1 DEF LimitInv, OverLimit
<1>6. OnceInv
  BY <1>1 DEF OnceInv
<1>7. InWireInv /\ KeptInv
  BY <1>1 DEF InWireInv, KeptInv
<1> QED
  BY <1>2, <1>3, <1>4, <1>5, <1>6, <1>7 DEF IInv, OutIInv

\* A step that changes nothing keeps it.
LEMMA StutterKeeps ==
  ASSUME IInv, UNCHANGED vars
  PROVE  IInv'
<1> USE DEF IInv, vars, linkVars, outVars, inVars
<1>1. TypeOK'
  BY DEF TypeOK, LinkOK, OutOK, InOK
<1>2. WireInv'
  BY DEF WireInv
<1>3. ListInv' /\ OutWireInv' /\ RepeatInv'
  BY DEF OutIInv, ListInv, OutWireInv, RepeatInv, Begun, Received
<1>4. LimitInv' /\ OnceInv'
  BY DEF OutIInv, LimitInv, OnceInv, OverLimit, Invalid, Received
<1>5. InWireInv' /\ KeptInv'
  BY DEF InWireInv, KeptInv
<1> QED
  BY <1>1, <1>2, <1>3, <1>4, <1>5 DEF OutIInv

\* Every step keeps the invariant.
LEMMA NextKeeps ==
  ASSUME IInv, [Next]_vars
  PROVE  IInv'
<1>1. CASE UNCHANGED vars
  BY <1>1, StutterKeeps
<1>2. CASE Handlers /\ Notes({})
  <2>1. CASE \E type \in {"PUBACK", "PUBCOMP"} : handle__pubackcomp(type) /\ UNCHANGED inVars
    BY <1>2, <2>1, AcknowledgeStep
  <2>2. CASE \E type \in {"PUBACK", "PUBCOMP"} : handle__pubackcomp_fails(type) /\ UNCHANGED inVars
    BY <1>2, <2>2, AcknowledgeFails
  <2>3. CASE handle__pubrec /\ UNCHANGED inVars
    BY <1>2, <2>3, PubrecStep
  <2>4. CASE handle__connack /\ UNCHANGED inVars
    BY <1>2, <2>4, ConnackStep
  <2>5. CASE message__retry_check /\ UNCHANGED inVars
    BY <1>2, <2>5, RetryStep
  <2>6. CASE handle__publish1 /\ UNCHANGED outVars
    BY <1>2, <2>6, Publish1Step
  <2>7. CASE handle__publish2 /\ UNCHANGED outVars
    BY <1>2, <2>7, Publish2Step
  <2>8. CASE handle__pubrel /\ UNCHANGED outVars
    BY <1>2, <2>8, PubrelStep
  <2> QED
    BY <1>2, <2>1, <2>2, <2>3, <2>4, <2>5, <2>6, <2>7, <2>8 DEF Handlers
<1>3. CASE mosquitto__reconnect /\ Notes({})
  BY <1>3, ReconnectStep
<1>4. CASE Application /\ Notes({})
  BY <1>4, PublishStep DEF Application
<1>5. CASE Broker /\ Notes({})
  <2>1. CASE BrokerPublish1 /\ UNCHANGED inVars
    BY <1>5, <2>1, BrokerPublish1Step
  <2>2. CASE BrokerPublish2 /\ UNCHANGED inVars
    BY <1>5, <2>2, BrokerPublish2Step
  <2>3. CASE BrokerPubrel /\ UNCHANGED inVars
    BY <1>5, <2>3, BrokerPubrelStep
  <2>4. CASE (BrokerPuback \/ BrokerPubrec \/ BrokerPubcomp) /\ UNCHANGED outVars
    BY <1>5, <2>4, BrokerAckStep
  <2>5. CASE BrokerConnect /\ UNCHANGED outVars
    BY <1>5, <2>5, BrokerConnectStep
  <2> QED
    BY <1>5, <2>1, <2>2, <2>3, <2>4, <2>5 DEF Broker
<1>6. CASE BrokerSends /\ Notes({})
  BY <1>6, BrokerSendStep DEF BrokerSends
<1>7. CASE Drop /\ Notes({})
  BY <1>7, DropStep
<1>8. CASE PubcompLost /\ Notes({"pubcompLost"})
  BY <1>8, PubrelFails
<1> QED
  BY <1>1, <1>2, <1>3, <1>4, <1>5, <1>6, <1>7, <1>8 DEF Next, Client

\* The invariant that the theorems below rest on: what is on its way goes with what
\* the two ends have noted, through every loss and reset of the connection.
THEOREM Inductive == Spec => []IInv
<1>1. Init => IInv
  BY InitKeeps
<1>2. IInv /\ [Next]_vars => IInv'
  BY NextKeeps
<1> QED
  BY <1>1, <1>2, PTL DEF Spec

\* The quota, the lists and the packets stay in their ranges; no handler takes the
\* quota of message__release_to_inflight below 0 or above inflight_maximum.
THEOREM TypeCorrect == Spec => []TypeOK
<1>1. IInv => TypeOK
  BY DEF IInv
<1> QED
  BY <1>1, Inductive, PTL

\* Outgoing messages: as long as the client keeps to inflight_maximum, the broker passes
\* a QoS 2 message on once at most, and on_publish means that the broker has it, for
\* every inflight_maximum, every number of messages and of losses of the connection.
THEOREM Outgoing == Spec => []OutInv
<1>1. IInv => OutInv
  BY DEF IInv, OutIInv, OutInv, OutOnce, AckedReceived, OnceInv, ListInv
<1> QED
  BY <1>1, Inductive, PTL

\* Incoming messages: a message is handed to on_message once at most unless
\* message__queue has kept it twice, and at least once when the broker is done with it
\* unless the answer to its PUBREL was lost by send__pubcomp.
THEOREM Incoming == Spec => []InInv
<1>1. IInv => InInv
  BY DEF IInv, InInv, InOnce, InDelivered, KeptInv
<1> QED
  BY <1>1, Inductive, PTL
=============================================================================

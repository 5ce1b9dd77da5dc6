------------------------------ MODULE MosqText ------------------------------
(***************************************************************************)
(* The texts of MQTT: which strings libmosquitto takes for UTF-8             *)
(* (utf8_mosq.c), which topics and filters it takes, which topics match a    *)
(* filter (util_topic.c) and how a filter is cut into levels (mosquitto.c).  *)
(* A string of bytes is a sequence of numbers, a topic one of characters.    *)
(***************************************************************************)
EXTENDS Integers, SequencesExt

-----------------------------------------------------------------------------
(* utf8_mosq.c.  Positions count from 0; a NUL is behind the string. *)

At(s, i) == IF i < Len(s) THEN s[i + 1] ELSE 0

\* Bytes of the character that begins with byte; 0 when none does.
codelen(byte) ==
  CASE byte \in 1 .. 127   -> 1
    [] byte \in 194 .. 223 -> 2
    [] byte \in 224 .. 239 -> 3
    [] byte \in 240 .. 244 -> 4
    [] OTHER               -> 0

LeadBits == <<128, 32, 16, 8>>

codepoint(s, i, n) ==
  FoldLeft(LAMBDA code, byte : code * 64 + (byte % 64),
           At(s, i) % LeadBits[n], SubSeq(s, i + 2, i + n))

Overlong_Three(n, code) == n = 4 /\ code < 65536
Overlong(n, code) == (n = 3 /\ code < 2048) \/ (n = 4 /\ code < 65536)

\* Surrogates, what is beyond Unicode, non-characters and control characters.
Excluded(code) ==
  \/ code \in 55296 .. 57343 \/ code > 1114111
  \/ code \in 64976 .. 65007 \/ code % 65536 \in {65534, 65535}
  \/ code <= 31 \/ code \in 127 .. 159

MalformedAt(s, i) ==
  LET n == codelen(At(s, i))
  IN  \/ n = 0
      \/ i = Len(s) - n + 1
      \/ \E j \in 1 .. n - 1 : At(s, i + j) \notin 128 .. 191
      \/ Overlong(n, codepoint(s, i, n)) \/ Excluded(codepoint(s, i, n))

\* The longest string that is looked at; a null pointer, which no caller passes, is
\* refused like a longer one.
MaxText == 65536

mosquitto_validate_utf8(s) ==
  LET from[i \in 0 .. Len(s)] ==
        IF i = Len(s) THEN "SUCCESS"
        ELSE IF MalformedAt(s, i) THEN "MALFORMED_UTF8"
        ELSE from[i + codelen(At(s, i))]
  IN  IF Len(s) > MaxText THEN "INVAL" ELSE from[0]

\* The reference: every character is the shortest encoding of a code point that
\* is not excluded.
Encoding(code) ==
  CASE code < 128   -> <<code>>
    [] code < 2048  -> <<192 + (code \div 64), 128 + (code % 64)>>
    [] code < 65536 -> <<224 + (code \div 4096), 128 + ((code \div 64) % 64), 128 + (code % 64)>>
    [] OTHER        -> <<240 + (code \div 262144), 128 + ((code \div 4096) % 64),
                         128 + ((code \div 64) % 64), 128 + (code % 64)>>

Utf8(s) ==
  LET from[i \in 0 .. Len(s)] ==
        \/ i = Len(s)
        \/ \E n \in 1 .. Min({4, Len(s) - i}) :
             LET code == codepoint(s, i, n)
             IN  SubSeq(s, i + 1, i + n) = Encoding(code) /\ ~Excluded(code) /\ from[i + n]
  IN  from[0]

-----------------------------------------------------------------------------
(* util_topic.c.  Positions count from 1; the empty string is the NUL. *)

Ch(s, i) == IF i <= Len(s) THEN s[i] ELSE ""

Wildcards == {"+", "#"}

LongestTopic == 65535   \* of topics and filters

mosquitto_pub_topic_check(s) == \A i \in 1 .. Len(s) : s[i] \notin Wildcards

StandsAlone(s, i) == (i = 1 \/ s[i - 1] = "/") /\ Ch(s, i + 1) \in {"", "/"}

mosquitto_sub_topic_check(s) ==
  \A i \in 1 .. Len(s) :
    /\ s[i] = "+" => StandsAlone(s, i)
    /\ s[i] = "#" => StandsAlone(s, i) /\ i = Len(s)

\* Where the level of the topic that j is in ends.
LevelEnd(topic, j) == CHOOSE k \in j .. Len(topic) + 1 :
  Ch(topic, k) \in {"", "/"} /\ \A l \in j .. k - 1 : topic[l] # "/"

Clean(topic, j, k) == \A l \in j .. k : topic[l] \notin Wildcards

\* foo matching foo/#, with foo at its end.
ParentOfAll_Not(sub, i, topic, j) == FALSE
ParentOfAll(sub, i, topic, j) ==
  Ch(topic, j + 1) = "" /\ i + 2 = Len(sub) /\ sub[i + 1] = "/" /\ sub[i + 2] = "#"

\* The result, or "INVAL".
mosquitto_topic_matches_sub2(sub, topic) ==
  LET S(i) == Ch(sub, i)
      T(j) == Ch(topic, j)
      Alone(i) == i = 1 \/ sub[i - 1] = "/"
      at[i \in 1 .. Len(sub) + 1, j \in 1 .. Len(topic) + 1] ==
        IF S(i) = "" THEN IF Clean(topic, j, Len(topic)) THEN "no" ELSE "INVAL"
        ELSE IF T(j) \in Wildcards THEN "INVAL"
        ELSE IF S(i) = T(j) THEN
          IF ParentOfAll(sub, i, topic, j) \/ (S(i + 1) = "" /\ T(j + 1) = "") THEN "yes"
          ELSE IF T(j + 1) = "" /\ S(i + 1) = "+" /\ S(i + 2) = ""
               THEN IF S(i) = "/" THEN "yes" ELSE "INVAL"
          ELSE at[i + 1, j + 1]
        ELSE IF S(i) = "+" THEN
          LET k == LevelEnd(topic, j)
          IN  IF ~Alone(i) \/ S(i + 1) \notin {"", "/"} \/ ~Clean(topic, j, k - 1) THEN "INVAL"
              ELSE IF S(i + 1) = "" /\ T(k) = "" THEN "yes"
              ELSE at[i + 1, k]
        ELSE IF S(i) = "#" THEN
          IF ~Alone(i) \/ S(i + 1) # "" \/ ~Clean(topic, j, Len(topic)) THEN "INVAL" ELSE "yes"
        ELSE IF T(j) = "" /\ i > 1 /\ Ch(sub, i - 1) = "+" /\ S(i) = "/" /\ S(i + 1) = "#"
             THEN "yes"
        ELSE IF \E k \in i .. Len(sub) - 1 : sub[k] = "#" THEN "INVAL" ELSE "no"
  IN  IF sub = <<>> \/ topic = <<>> THEN "INVAL"
      ELSE IF (sub[1] = "$") # (topic[1] = "$") THEN "no"
      ELSE at[1, 1]

-----------------------------------------------------------------------------
(* mosquitto.c *)

HierCount_Ends(s) == 1 + Cardinality({i \in 1 .. Len(s) - 1 : s[i] = "/"})
HierCount(s) == 1 + Cardinality({i \in 1 .. Len(s) : s[i] = "/"})

\* An empty level is a null pointer, here the empty sequence.
mosquitto_sub_topic_tokenise(s) ==
  LET stops == SetToSortSeq({i \in 1 .. Len(s) + 1 : Ch(s, i) \in {"", "/"}}, <)
  IN  [hier \in 1 .. HierCount(s) |->
         SubSeq(s, IF hier = 1 THEN 1 ELSE stops[hier - 1] + 1, stops[hier] - 1)]

\* The reference: level by level.
Matches(sub, topic) ==
  LET ls == mosquitto_sub_topic_tokenise(sub)
      lt == mosquitto_sub_topic_tokenise(topic)
      from[i \in 1 .. Len(ls) + 1] ==
        IF i > Len(ls) THEN Len(lt) = Len(ls)
        ELSE \/ ls[i] = <<"#">>
             \/ i <= Len(lt) /\ ls[i] \in {<<"+">>, lt[i]} /\ from[i + 1]
  IN  (sub[1] = "$") = (topic[1] = "$") /\ from[1]
=============================================================================

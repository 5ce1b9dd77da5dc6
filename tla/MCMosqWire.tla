----------------------------- MODULE MCMosqWire -----------------------------
EXTENDS MosqWire

\* One byte on each side of every border that utf8_mosq.c draws.
MCByteValues == {1, 31, 32, 65, 126, 127, 128, 143, 144, 159, 160, 173, 175, 176, 183, 190, 191,
                 192, 193, 194, 223, 224, 237, 239, 240, 244, 245, 255}
MCChars == {"a", "/", "+", "#", "$"}

Long == [i \in 1 .. 121 |-> 97]
MCCandidates ==
  {Property(p[1], <<>>, p[2]) : p \in
    {<<1, <<0>>>>, <<37, <<1>>>>, <<37, <<2>>>>, <<35, <<0>>>>, <<35, <<256>>>>,
     <<39, <<0, 0, 0, 0>>>>, <<39, <<0, 1, 2, 255>>>>,
     <<11, <<0>>>>, <<11, <<127>>>>, <<11, <<128>>>>, <<11, <<16384>>>>, <<11, <<MaxVarint>>>>,
     <<11, <<MaxVarint + 1>>>>, <<9, <<>>>>, <<9, <<0, 255>>>>, <<3, <<>>>>, <<3, <<97>>>>,
     <<3, <<255>>>>, <<12, <<>>>>}}
  \cup {Property(38, <<97>>, <<>>), Property(38, <<>>, <<98, 99>>), Property(38, <<97>>, Long)}

MCRawBytes == {0, 1, 2, 3, 11, 35, 38, 128, 129}

Lists == {<<>>, <<[len |-> 2, topic_alias |-> FALSE]>>, <<[len |-> 3, topic_alias |-> TRUE]>>,
          <<[len |-> 3, topic_alias |-> TRUE], [len |-> 123, topic_alias |-> FALSE]>>,
          <<[len |-> 3, topic_alias |-> TRUE], [len |-> 124, topic_alias |-> FALSE]>>,
          <<[len |-> 125, topic_alias |-> FALSE]>>, <<[len |-> 128, topic_alias |-> FALSE]>>}

MCCalls ==
  [call : {"publish"}, protocol : {4, 5}, max : {0, 20, 129, 131, 132}, topic : {None, 0, 1, 3, 65536},
   payloadlen : 0 .. 5 \cup 110 .. 130 \cup {MaxVarint, MaxVarint + 1}, qos : {0, 1, 2},
   maximum_qos : {1, 2}, properties : Lists, client_generated : BOOLEAN]
  \cup [call : {"subscribe", "unsubscribe"}, protocol : {4, 5}, max : {0, 13, 20, 128, 131},
        topics : {<<>>, <<0>>, <<1, 3>>, <<122>>, <<65536>>, <<3, 118, 1>>}, properties : Lists,
        client_generated : BOOLEAN]
  \cup [call : {"disconnect", "answer", "ping"}, protocol : {4, 5}, reason_code : {0, 4},
        properties : Lists]

MCWillProperties == {<<>>, <<[len |-> 127]>>, <<[len |-> 128]>>}
MCTexts == {None, 3, 65536}
MCUnchecked == {0, 65536}
=============================================================================

---------------------------- MODULE MCMosqConn ----------------------------
(* Instances of MosqConn for TLC. *)
EXTENDS MosqConn

AllModes == {<<FALSE, FALSE>>, <<TRUE, FALSE>>, <<FALSE, TRUE>>}
=============================================================================

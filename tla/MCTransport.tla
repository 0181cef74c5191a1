----------------------------- MODULE MCTransport -----------------------------
(* Instances of Transport: a buffer so short that a sender finds it full.    *)
EXTENDS Transport
=============================================================================

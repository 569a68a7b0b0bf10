--------------------------- MODULE MCRtmqProxySend ---------------------------
(* RtmqProxySend for TLC: senders can be exchanged for one another. *)
EXTENDS RtmqProxySend, TLC

SymTsvr == Permutations(Tsvr)
=============================================================================

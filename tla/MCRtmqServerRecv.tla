-------------------------- MODULE MCRtmqServerRecv --------------------------
EXTENDS RtmqServerRecv

CONSTANTS c1, c2, r1

Message(no, len, kind) == [k \in 1..len |-> [no |-> no, at |-> k, len |-> len, kind |-> kind]]

\* With buffers of four units the first buffer of c1 holds its authentication, two
\* messages and half of the third.
MCStream ==
    c1 :> Message(11, 1, "auth") \o Message(12, 1, "exp") \o Message(13, 1, "exp") \o Message(14, 2, "exp")
    @@ c2 :> Message(21, 1, "auth") \o Message(22, 1, "exp")
MCRsvrOf == c1 :> r1 @@ c2 :> r1
=============================================================================

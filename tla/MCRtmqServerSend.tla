-------------------------- MODULE MCRtmqServerSend --------------------------
EXTENDS RtmqServerSend, TLC

\* Connections 1 and 2 are of one node (and of different threads, or the same if
\* there is one); connection 3 is of another.
NodeOf3 == <<"n1", "n1", "n2">>
NodeOf2 == <<"n1", "n1">>
=============================================================================

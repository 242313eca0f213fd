------------------------------- MODULE MCWire -------------------------------
EXTENDS Wire, TLC

CONSTANTS i1, i2

\* Two sessions of one document on one websocket; the raw key of the first is as
\* long as the number of Ping.
Document == [n \in 1 .. 7 |-> 5]
Sessions == << Document \o <<0, 6>>, Document \o <<0, 6, 6>> >>
\* The plain name and a session.
Mixed == << Document, Document \o <<0, 6>> >>

Together == << i1, i1 >>
Apart == << i1, i2 >>
Identifiers == [i \in {i1, i2} |-> IF i = i1 THEN <<1>> ELSE <<2, 2>>]
=============================================================================

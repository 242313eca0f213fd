------------------------------- MODULE MCRooms -------------------------------
EXTENDS Rooms

MCProps == {[name |-> "n1", token |-> "t1"], [name |-> "n1", token |-> "t2"], [name |-> "n2", token |-> "t1"]}
=============================================================================

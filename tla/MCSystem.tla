------------------------------- MODULE MCSystem -------------------------------
(***************************************************************************)
(* Small networks for System.                                              *)
(***************************************************************************)
EXTENDS System, MCDistanceVector

\* A triangle with one link of cost 2: the way round it costs as much.
HeavyTriangle ==
    [n \in Routers |-> [m \in Routers |->
        IF n = m THEN 0 ELSE IF {Position(n), Position(m)} = {0, 2} THEN 2 ELSE 1]]

From0 == [t \in Transfers |-> 0]
To2 == [t \in Transfers |-> 2]
Twos == [t \in Transfers |-> 2]
Threes == [t \in Transfers |-> 3]
===============================================================================

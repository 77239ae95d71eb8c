------------------------------ MODULE MCDataPlane ------------------------------
(***************************************************************************)
(* Small networks for DataPlane.                                           *)
(***************************************************************************)
EXTENDS DataPlane

\* Routes of the line 1 - 2 - 3.
LineRoute ==
    [n \in Routers |-> [d \in Routers |->
        IF d > n THEN n + 1 ELSE IF d < n THEN n - 1 ELSE n]]

NoChoice == [n \in Routers |-> [d \in Routers |-> {}]]

\* Routes of a triangle to router 3: direct, over the other router, or none.
\* Two routers that each take the way over the other are a loop.
DirectRoute == [n \in Routers |-> [d \in Routers |-> d]]

Detours ==
    [n \in Routers |-> [d \in Routers |->
        IF d = 3 /\ n # 3 THEN {1, 2, 3, NoHop} \ {n} ELSE {}]]

\* Two transfers, 1 and 2.
Pair(a, b) == [t \in Transfers |-> IF t = 1 THEN a ELSE b]

From1And2 == Pair(1, 2)
From1And1 == Pair(1, 1)
To3And3 == Pair(3, 3)
To3And2 == Pair(3, 2)
TwoTwo == Pair(2, 2)
TwoThree == Pair(2, 3)
ThreeTwo == Pair(3, 2)
ThreeThree == Pair(3, 3)

\* Transfer 2 comes the other way, and 3 may be asked for once the direct link of
\* the triangle has become the way from 1 to 3.
LinkReturns ==
    [n \in Routers |-> [d \in Routers |-> IF n = 1 /\ d = 3 THEN {3} ELSE {}]]

OneWayAndBack == [t \in Transfers |-> IF t = 2 THEN 3 ELSE 1]
ThereAndBack == [t \in Transfers |-> IF t = 2 THEN 1 ELSE 3]
Threes == [t \in Transfers |-> 3]
Twos == [t \in Transfers |-> 2]
===============================================================================

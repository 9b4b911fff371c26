------------------------------ MODULE RouteTable ------------------------------
(***************************************************************************)
(* What the routes page promises its user: a table of virtual hosts in     *)
(* which one operation creates, changes or removes one route and leaves     *)
(* every other route as it was.                                             *)
(***************************************************************************)
CONSTANTS
    Ids,     \* route ids
    Routes,  \* what a route can say
    None     \* no route

VARIABLE table

Init == table \in [Ids -> Routes \cup {None}]

Create(i) == table[i] = None /\ \E r \in Routes : table' = [table EXCEPT ![i] = r]
Change(i) == table[i] # None /\ \E r \in Routes : table' = [table EXCEPT ![i] = r]
Remove(i) == table[i] # None /\ table' = [table EXCEPT ![i] = None]

Next == \E i \in Ids : Create(i) \/ Change(i) \/ Remove(i)

Spec == Init /\ [][Next]_table
===============================================================================

------------------------------- MODULE MCGrant -------------------------------
(* A small instance of Grant: one database, a generated and a chosen account. *)
EXTENDS GrantProperties

CONSTANTS d1, u1, chosen

MCOrders   == {1, 2}
MCUserOf   == [d \in {d1} |-> u1]
MCGenPass  == [x \in MCOrders \X {d1} |-> x[1]]
MCPassword == MCOrders \cup {chosen}
MCSpec     == {[user |-> u1, pass |-> chosen]}
=============================================================================

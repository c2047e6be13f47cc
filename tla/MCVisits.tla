------------------------------ MODULE MCVisits ------------------------------
(* Two keys; under each, a first visit to a new customer with everything a *)
(* request can ask for, the same at another date, and one to a customer    *)
(* and a device that exist, for the same order.                            *)
EXTENDS Visits, TLC

CONSTANTS k1, k2, e1, d1, o1, t1, t2, c1, c2, c3

First   == [customer |-> e1, device |-> d1, order |-> o1, next |-> t1, files |-> TRUE]
Later   == [First EXCEPT !.next = t2]
Known   == [customer |-> None, device |-> d1, order |-> None, next |-> None, files |-> FALSE]
Short   == [customer |-> None, device |-> None, order |-> o1, next |-> None, files |-> FALSE]
MCBodies == {First, Later, Known, Short}

MCSymmetry == Permutations({c1, c2, c3}) \cup Permutations({k1, k2})

=============================================================================

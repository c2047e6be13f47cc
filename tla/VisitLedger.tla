---------------------------- MODULE VisitLedger ----------------------------
(* What creating a visit promises to a client that marks its request with  *)
(* an idempotency key: whatever is repeated, overlaps or fails, a key      *)
(* stands for one visit, which is stored once, together with everything    *)
(* that belongs to it, and nobody is told of a visit other than that one.  *)
CONSTANTS
  Keys,            \* idempotency keys
  Bodies,          \* contents of requests
  NoVisit,
  EffectsOf(_, _), \* what storing a key's body leaves in other tables
  Same(_, _)       \* do two bodies ask for the same visit

VARIABLES
  stored,    \* stored[k]: the body of the visit stored under key k
  effects,   \* what all visits have left in other tables
  confirmed  \* the requests whose client was told that they are stored

vars == <<stored, effects, confirmed>>

Init ==
  /\ stored = [k \in Keys |-> NoVisit]
  /\ effects = {}
  /\ confirmed = {}

Store(k, b) ==
  /\ stored[k] = NoVisit
  /\ stored' = [stored EXCEPT ![k] = b]
  /\ effects' = effects \cup EffectsOf(k, b)
  /\ UNCHANGED confirmed

Confirm(k, b) ==
  /\ stored[k] # NoVisit
  /\ Same(stored[k], b)
  /\ confirmed' = confirmed \cup {<<k, b>>}
  /\ UNCHANGED <<stored, effects>>

Next == \E k \in Keys, b \in Bodies : Store(k, b) \/ Confirm(k, b)

Spec == Init /\ [][Next]_vars

=============================================================================

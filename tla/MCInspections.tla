--------------------------- MODULE MCInspections ---------------------------
(* Instances of Inspections for TLC.  A request changes the device's form  *)
(* or its inspection; a device command that does both is the union of the  *)
(* two, and its form adds nothing to the locks.                            *)
EXTENDS InspectionViews, TLC

CONSTANTS c1, c2, d1, d2, d3

MCOwner == (d1 :> c1) @@ (d2 :> c1) @@ (d3 :> c2)

Set(custom, address, date, warranty) ==
  [custom |-> custom, address |-> address, date |-> date, warranty |-> warranty]
MCForms ==
  {Set("on", "full", "set", "keep"), Set("keep", "keep", "keep", "some"),
   Set("off", "keep", "empty", "zero")}

(* d1 is edited, inspected and visited; d2 joins and leaves; d3 belongs to *)
(* another customer.                                                       *)
MCRequests ==
  {r \in UpdateRequests :
     \/ r.op = "none" /\ r.device = d1 /\ r.form \in MCForms
     \/ r.op # "none" /\ r.device \in {d1, d2} /\ r.form = KeepForm
     \/ r.op = "attach" /\ r.device = d3 /\ r.form = KeepForm}
  \cup {r \in CreateRequests : r.device = d2 /\ r.form = Set("off", "full", "empty", "zero")}
  \cup {r \in VisitRequests : r.devices = {d1} /\ r.op = "create"}

MCFilters ==
  {[customer |-> None, statuses |-> None, active |-> FALSE, exclude |-> None],
   [customer |-> c1, statuses |-> None, active |-> TRUE, exclude |-> None]}

Symmetry == Permutations(Txs) \cup Permutations(Orders)
=============================================================================

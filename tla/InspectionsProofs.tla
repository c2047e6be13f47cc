------------------------- MODULE InspectionsProofs -------------------------
(***************************************************************************)
(* Devices and inspections for every set of devices, inspections, requests *)
(* and transactions: the commands keep the inspections of the office's     *)
(* apart, mix no customers, and leave no device row the views refuse.      *)
(***************************************************************************)
EXTENDS Inspections, TLAPS

(* What a request may write.                                               *)
MayWrite(r) ==
  CASE r.kind = "visit"   -> {"complete", "create"}
    [] r.kind # "visit" /\ r.op = "none"       -> {}
    [] r.kind # "visit" /\ r.op = "create"     -> {"create"}
    [] r.kind # "visit" /\ r.op = "attach"     -> {"attach"}
    [] r.kind # "visit" /\ r.op = "reschedule" -> {"reschedule"}
    [] r.kind # "visit" /\ r.op = "detach"     -> {"detach", "delete"}
    [] r.kind # "visit" /\ r.op = "move"       -> {"detach", "delete", "create"}

(* The steps a request goes through, and what it has written by then.      *)
StageFits(r, s, w) ==
  /\ w \subseteq MayWrite(r)
  /\ s = "update" => r.kind = "update"
  /\ s \in {"find", "check", "insert", "attach", "detach", "count", "delete",
            "reschedule"} => r.kind # "visit"
  /\ s \in {"complete", "next"} => r.kind = "visit"
  /\ s = "find" => r.op \in {"attach", "detach", "reschedule", "move"}
  /\ s = "check" => r.op \in {"create", "attach", "move"}
  /\ s \in {"insert", "next"} => r.op \in {"create", "move"}
  /\ s = "attach" => r.op = "attach"
  /\ s \in {"detach", "count", "delete"} => r.op \in {"detach", "move"}
  /\ s = "reschedule" => r.op = "reschedule"
  /\ s = "complete" => r.order # NoOrder
  /\ s \in {"update", "find", "detach"} => w = {}
  /\ "create" \in w => s = "commit" /\ r.op \in {"create", "move"}
  /\ "attach" \in w => s = "commit"
  /\ "reschedule" \in w => s = "commit"
  /\ "complete" \in w => s \in {"next", "commit"}
  /\ "detach" \in w => s \in {"count", "delete", "check", "insert", "commit"}
  /\ "delete" \in w => s \in {"check", "insert", "commit"}
  /\ r.op = "move" /\ (s \in {"count", "delete", "check", "insert"} \/ "create" \in w)
       => "detach" \in w

(* The device row a command works on: the lock of an update, the id drawn  *)
(* for a new device.                                                       *)
HoldsDevice(t, d) ==
  /\ Open(t) /\ Kind(t) # "visit" /\ tx[t].request.device = d
  /\ tx[t].step # "update"

(* The command has found the inspection it attaches its device to.         *)
Joins(t) ==
  Kind(t) # "visit" /\ tx[t].request.op = "attach" /\ tx[t].step \notin {"update", "find"}

(* The command has checked for another active inspection of its device.    *)
Checked(t) ==
  /\ Kind(t) # "visit"
  /\ tx[t].step \in {"insert", "attach"} \/ tx[t].writes \cap {"create", "attach"} # {}

(* What a device command knows of its device row.                          *)
DeviceKnown(t) ==
  LET r == tx[t].request IN
  /\ r.kind = "update" =>
       /\ rows[r.device] # Missing
       /\ Accepted(tx[t].seen, r.form)
       /\ tx[t].step # "update" => RowAllowed(Merge(tx[t].seen, r.form, rows[r.device]))
  /\ r.kind = "create" =>
       rows[r.device] = Missing /\ tx[t].seen = PlainRow /\ Accepted(PlainRow, r.form)
  /\ r.kind = "visit" =>
       \A d \in r.devices : rows[d] # Missing /\ Owner[d] = CustomerOf(r)

(* What a transaction knows of the inspections.  What it has checked stays *)
(* true of the committed rows until it commits, whoever commits meanwhile. *)
OrdersKnown(t) ==
  LET r == tx[t].request IN
  /\ r.order # NoOrder => orders[r.order] # Free
  /\ r.op \in {"create", "move"} <=> tx[t].new # NoOrder
  /\ tx[t].new # NoOrder => orders[tx[t].new] = Free
  /\ Joins(t) /\ Live(r.order) => orders[r.order].customer = Owner[r.device]
  /\ Checked(t) => \A o \in Orders :
       FromUser(o) /\ r.device \in orders[o].devices => o = r.order

UnderWay(t) == Open(t) =>
  /\ tx[t].request \in Requests
  /\ StageFits(tx[t].request, tx[t].step, tx[t].writes)
  /\ DeviceKnown(t)
  /\ OrdersKnown(t)

(* Two transactions work on different device rows and draw different ids.  *)
TxsApart ==
  \A t, u \in Txs : t # u =>
    /\ \A d \in Devices : ~(HoldsDevice(t, d) /\ HoldsDevice(u, d))
    /\ tx[t].new # NoOrder => tx[t].new # tx[u].new

IInv ==
  /\ TypeOK
  /\ \A t \in Txs : UnderWay(t)
  /\ TxsApart
  /\ OneUserInspection
  /\ DevicesOfOneCustomer
  /\ RowsCoherent

-----------------------------------------------------------------------------
(* CustomerOf looks at one device of a visit.                              *)
LEMMA ChosenIn ==
  ASSUME NEW S, S # {}
  PROVE  (CHOOSE e \in S : TRUE) \in S
<1>1. PICK e : e \in S
  OBVIOUS
<1> QED
  BY <1>1

LEMMA RequestFacts ==
  ASSUME NEW r \in Requests
  PROVE  /\ r.kind \in {"update", "create", "visit"} /\ r.at \in Times
         /\ r.order \in Orders \cup {NoOrder} /\ NoOrder \notin Orders
         /\ r # NoRequest
         /\ r.kind # "visit" =>
              /\ r.device \in Devices
              /\ r.op \in {"none", "create", "attach", "detach", "reschedule", "move"}
              /\ r.op \in {"none", "create"} <=> r.order = NoOrder
         /\ r.kind = "create" => r.form \in NewForms
         /\ r.kind = "visit" =>
              r.devices \in (SUBSET Devices) \ {{}} /\ r.op \in {"none", "create"}
<1>1. r \in AllRequests /\ NoRequest \notin AllRequests /\ NoOrder \notin Orders
  BY ConstantsAssumption
<1>2. CASE r \in UpdateRequests
  BY <1>1, <1>2 DEF UpdateRequests
<1>3. CASE r \in CreateRequests
  BY <1>1, <1>3 DEF CreateRequests
<1>4. CASE r \in VisitRequests
  BY <1>1, <1>4 DEF VisitRequests
<1> QED
  BY <1>1, <1>2, <1>3, <1>4 DEF AllRequests

(* Transaction t goes on to step s with w written; no row is committed.    *)
Moves(t, s, w) ==
  /\ UNCHANGED <<rows, orders>>
  /\ tx' \in [Txs -> Transactions]
  /\ \A u \in Others(t) : tx'[u] = tx[u]
  /\ tx'[t].request = tx[t].request /\ tx'[t].seen = tx[t].seen /\ tx'[t].new = tx[t].new
  /\ tx'[t].step = s /\ tx'[t].writes = w

LEMMA GotoMoves ==
  ASSUME TypeOK, NEW t \in Txs, NEW s \in Steps, Goto(t, s), UNCHANGED <<rows, orders>>
  PROVE  Moves(t, s, tx[t].writes)
<1>1. PICK q \in Transactions : q = tx[t]
  BY DEF TypeOK
<1>2. PICK n : n = [q EXCEPT !.step = s]
  OBVIOUS
<1>3. /\ n \in Transactions /\ n.request = q.request /\ n.seen = q.seen /\ n.new = q.new
      /\ n.step = s /\ n.writes = q.writes
  BY <1>2 DEF Transactions
<1>4. tx' = [tx EXCEPT ![t] = n]
  BY <1>1, <1>2 DEF Goto
<1> QED
  BY <1>1, <1>3, <1>4 DEF Moves, Others, TypeOK

LEMMA WriteMoves ==
  ASSUME TypeOK, NEW t \in Txs, NEW what \in SUBSET Writes, NEW s \in Steps,
         Write(t, what, s), UNCHANGED <<rows, orders>>
  PROVE  Moves(t, s, tx[t].writes \cup what)
<1>1. PICK q \in Transactions : q = tx[t]
  BY DEF TypeOK
<1>2. PICK n : n = [q EXCEPT !.writes = q.writes \cup what, !.step = s]
  OBVIOUS
<1>3. /\ n \in Transactions /\ n.request = q.request /\ n.seen = q.seen /\ n.new = q.new
      /\ n.step = s /\ n.writes = q.writes \cup what
  BY <1>2 DEF Transactions
<1>4. tx' = [tx EXCEPT ![t] = n]
  BY <1>1, <1>2 DEF Write
<1> QED
  BY <1>1, <1>3, <1>4 DEF Moves, Others, TypeOK

LEMMA IdleFacts ==
  /\ Idle \in Transactions /\ Idle.step = "idle" /\ Idle.new = NoOrder
  /\ PlainRow \in Rows /\ PlainRow # Missing
<1>1. PlainRow \in Rows
  BY DEF PlainRow, Rows
<1>2. PlainRow # Missing
  BY <1>1, ConstantsAssumption
<1>3. "idle" \in Steps
  BY DEF Steps
<1> QED
  BY <1>1, <1>2, <1>3 DEF Idle, Transactions

-----------------------------------------------------------------------------
(* What a transaction knows is about its own record and the rows.          *)
LEMMA KnownUnchanged ==
  ASSUME NEW t \in Txs, tx'[t] = tx[t], UNCHANGED <<rows, orders>>, UnderWay(t)
  PROVE  UnderWay(t)'
  BY DEF UnderWay, DeviceKnown, OrdersKnown, Joins, Checked, Open, Kind, Named, FromUser,
     Active, Live

(* A step of one transaction that commits nothing.                         *)
LEMMA LocalStep ==
  ASSUME IInv, NEW t \in Txs, NEW s, NEW w, Moves(t, s, w), Open(t), s # "idle",
         StageFits(tx[t].request, s, w), DeviceKnown(t)', OrdersKnown(t)',
         tx[t].step = "update" => \A u \in Others(t) : ~LocksDevice(u, tx[t].request.device)
  PROVE  IInv'
<1> USE DEF IInv
<1>1. TypeOK'
  BY DEF TypeOK, Moves
<1>2. OneUserInspection' /\ DevicesOfOneCustomer' /\ RowsCoherent'
  BY DEF Moves, OneUserInspection, DevicesOfOneCustomer, RowsCoherent, FromUser, Active, Live
<1>3. \A u \in Txs : UnderWay(u)'
  <2>1. UnderWay(t)'
    BY DEF Moves, UnderWay, Open
  <2>2. ASSUME NEW u \in Others(t) PROVE UnderWay(u)'
    BY <2>2, KnownUnchanged DEF Moves, Others
  <2> QED
    BY <2>1, <2>2 DEF Others
<1>4. ASSUME NEW d \in Devices, NEW u \in Others(t), HoldsDevice(t, d)', HoldsDevice(u, d)'
      PROVE  FALSE
  <2>1. HoldsDevice(u, d)
    BY <1>4 DEF Moves, HoldsDevice, Open, Kind
  <2>2. tx[t].request.device = d /\ Kind(t) # "visit" /\ tx[t].request \in Requests
    BY <1>4 DEF Moves, HoldsDevice, Kind, UnderWay
  <2>3. CASE tx[t].step # "update"
    BY <2>1, <2>2, <2>3 DEF HoldsDevice, TxsApart, Others
  <2>4. CASE tx[t].step = "update"
    <3>1. Kind(t) = "update" /\ rows[d] # Missing
      BY <2>2, <2>4 DEF UnderWay, StageFits, DeviceKnown, Kind
    <3>2. ~LocksDevice(u, d)
      BY <2>2, <2>4
    <3>3. tx[u].request \in Requests /\ DeviceKnown(u) /\ tx[u].request.device = d
      BY <2>1 DEF UnderWay, HoldsDevice, Others
    <3>4. Kind(u) = "create"
      BY <2>1, <3>2, <3>3, RequestFacts DEF HoldsDevice, LocksDevice, Kind
    <3> QED
      BY <3>1, <3>3, <3>4 DEF DeviceKnown, Kind
  <2> QED
    BY <2>3, <2>4
<1>5. TxsApart'
  <2> SUFFICES ASSUME NEW x \in Txs, NEW y \in Txs, x # y
               PROVE  /\ \A d \in Devices : ~(HoldsDevice(x, d)' /\ HoldsDevice(y, d)')
                      /\ tx'[x].new # NoOrder => tx'[x].new # tx'[y].new
    BY DEF TxsApart
  <2>1. tx'[x].new = tx[x].new /\ tx'[y].new = tx[y].new
    BY DEF Moves, Others
  <2>2. CASE x = t \/ y = t
    BY <1>4, <2>1, <2>2 DEF Others, TxsApart
  <2>3. CASE x # t /\ y # t
    BY <2>3 DEF TxsApart, Moves, Others, HoldsDevice, Open, Kind
  <2> QED
    BY <2>1, <2>2, <2>3 DEF TxsApart
<1> QED
  BY <1>1, <1>2, <1>3, <1>5

(* A transaction that is rolled back leaves nothing.                       *)
LEMMA RollbackStep ==
  ASSUME IInv, NEW t \in Txs, Rollback(t), UNCHANGED <<rows, orders>>
  PROVE  IInv'
<1> USE DEF IInv
<1>1. /\ tx' \in [Txs -> Transactions] /\ tx'[t] = Idle
      /\ \A u \in Others(t) : tx'[u] = tx[u]
  BY IdleFacts DEF Rollback, TypeOK, Others
<1>2. TypeOK'
  BY <1>1 DEF TypeOK
<1>3. OneUserInspection' /\ DevicesOfOneCustomer' /\ RowsCoherent'
  BY DEF OneUserInspection, DevicesOfOneCustomer, RowsCoherent, FromUser, Active, Live
<1>4. \A u \in Txs : UnderWay(u)'
  <2>1. UnderWay(t)'
    BY <1>1, IdleFacts DEF UnderWay, Open
  <2>2. ASSUME NEW u \in Others(t) PROVE UnderWay(u)'
    BY <1>1, <2>2, KnownUnchanged DEF Others
  <2> QED
    BY <2>1, <2>2 DEF Others
<1>5. TxsApart'
  BY <1>1, IdleFacts DEF TxsApart, Others, HoldsDevice, Open, Kind
<1> QED
  BY <1>2, <1>3, <1>4, <1>5

-----------------------------------------------------------------------------
(* A request begins with what it has just read.                            *)
LEMMA BeginStep ==
  ASSUME IInv, NEW t \in Txs, NEW r \in Requests, NEW seen \in Rows, NEW step \in Steps,
         NEW o \in Orders \cup {NoOrder}, ~Open(t), NewId(r, o), Begin(t, r, seen, o, step),
         UNCHANGED <<rows, orders>>,
         StageFits(r, step, {}), step \notin {"idle", "insert", "attach"},
         r.kind # "visit" /\ r.op = "attach" => step \in {"update", "find"},
         r.order # NoOrder => orders[r.order] # Free,
         DeviceKnown(t)',
         r.kind # "visit" /\ step # "update" =>
           \A u \in Others(t) : ~HoldsDevice(u, r.device)
  PROVE  IInv'
<1> USE DEF IInv
<1> DEFINE n == [request |-> r, step |-> step, seen |-> seen, new |-> o, writes |-> {}]
<1>1. n \in Transactions /\ tx' = [tx EXCEPT ![t] = n]
  BY DEF Begin, Transactions
<1>2. /\ tx' \in [Txs -> Transactions] /\ tx'[t] = n
      /\ \A u \in Others(t) : tx'[u] = tx[u]
  BY <1>1 DEF TypeOK, Others
<1> HIDE DEF n
<1>3. n.request = r /\ n.step = step /\ n.new = o /\ n.writes = {}
  BY DEF n
<1>4. TypeOK'
  BY <1>2 DEF TypeOK
<1>5. OneUserInspection' /\ DevicesOfOneCustomer' /\ RowsCoherent'
  BY DEF OneUserInspection, DevicesOfOneCustomer, RowsCoherent, FromUser, Active, Live
<1>6. r.op \in {"create", "move"} <=> o # NoOrder
  BY RequestFacts DEF NewId, Drawn
<1>7. o # NoOrder => Drawn(o)
  BY <1>6 DEF NewId
<1>8. OrdersKnown(t)'
  BY <1>2, <1>3, <1>6, <1>7 DEF OrdersKnown, Joins, Checked, Kind, Drawn
<1>9. \A u \in Txs : UnderWay(u)'
  <2>1. UnderWay(t)'
    BY <1>2, <1>3, <1>8 DEF UnderWay
  <2>2. ASSUME NEW u \in Others(t) PROVE UnderWay(u)'
    BY <1>2, <2>2, KnownUnchanged DEF Others
  <2> QED
    BY <2>1, <2>2 DEF Others
<1>10. \A d \in Devices, u \in Others(t) : ~(HoldsDevice(t, d)' /\ HoldsDevice(u, d)')
  BY <1>2, <1>3 DEF HoldsDevice, Open, Kind
<1>11. TxsApart'
  <2> SUFFICES ASSUME NEW x \in Txs, NEW y \in Txs, x # y
               PROVE  /\ \A d \in Devices : ~(HoldsDevice(x, d)' /\ HoldsDevice(y, d)')
                      /\ tx'[x].new # NoOrder => tx'[x].new # tx'[y].new
    BY DEF TxsApart
  <2>1. CASE x = t
    BY <1>2, <1>3, <1>7, <1>10, <2>1 DEF Others, Drawn
  <2>2. CASE y = t
    BY <1>2, <1>3, <1>7, <1>10, <2>2 DEF Others, Drawn
  <2>3. CASE x # t /\ y # t
    BY <1>2, <2>3 DEF TxsApart, Others, HoldsDevice, Open, Kind
  <2> QED
    BY <2>1, <2>2, <2>3
<1> QED
  BY <1>4, <1>5, <1>9, <1>11

LEMMA FirstStepFits ==
  ASSUME NEW r \in Requests, r.kind # "visit"
  PROVE  /\ FirstStep(r) \in {"commit", "check", "find"} /\ FirstStep(r) \in Steps
         /\ StageFits(r, FirstStep(r), {})
         /\ r.op = "attach" => FirstStep(r) = "find"
<1>1. r.op \in {"none", "create", "attach", "detach", "reschedule", "move"}
  BY RequestFacts
<1>2. /\ r.op = "none" => FirstStep(r) = "commit"
      /\ r.op = "create" => FirstStep(r) = "check"
      /\ r.op \in {"attach", "detach", "reschedule", "move"} => FirstStep(r) = "find"
  BY DEF FirstStep
<1> QED
  BY <1>1, <1>2 DEF StageFits, Steps

(* Each kind of request begins in a state that fits it.                    *)
LEMMA BeginRequestStep ==
  ASSUME IInv, NEW t \in Txs, BeginRequest(t)
  PROVE  IInv'
<1> USE DEF IInv
<1>1. PICK r \in Requests, o \in Orders \cup {NoOrder} :
        BeginUpdate(t, r, o) \/ BeginCreate(t, r, o) \/ BeginVisit(t, r, o)
  BY DEF BeginRequest
<1>2. CASE BeginUpdate(t, r, o)
  <2>1. r.kind = "update" /\ r.device \in Devices /\ rows[r.device] \in Rows
    BY <1>2, RequestFacts DEF BeginUpdate, TypeOK
  <2>2. "update" \in Steps /\ StageFits(r, "update", {})
    BY <2>1 DEF StageFits, Steps
  <2>3. DeviceKnown(t)'
    <3>1. /\ tx'[t].request = r /\ tx'[t].seen = rows[r.device] /\ tx'[t].step = "update"
          /\ UNCHANGED <<rows, orders>>
      BY <1>2 DEF BeginUpdate, Begin, TypeOK
    <3> QED
      BY <1>2, <2>1, <3>1 DEF DeviceKnown, BeginUpdate
  <2> QED
    BY <1>2, <2>1, <2>2, <2>3, BeginStep DEF BeginUpdate, KnownOrder
<1>3. CASE BeginCreate(t, r, o)
  <2>1. r.kind = "create" /\ r.device \in Devices
    BY <1>3, RequestFacts DEF BeginCreate
  <2>2. DeviceKnown(t)'
    <3>1. /\ tx'[t].request = r /\ tx'[t].seen = PlainRow
          /\ UNCHANGED <<rows, orders>>
      BY <1>3 DEF BeginCreate, Begin, TypeOK
    <3> QED
      BY <1>3, <2>1, <3>1 DEF DeviceKnown, BeginCreate
  <2>3. ASSUME NEW u \in Others(t), HoldsDevice(u, r.device)
        PROVE  FALSE
    <3>1. /\ Open(u) /\ Kind(u) # "visit" /\ tx[u].request.device = r.device
          /\ tx[u].request \in Requests /\ DeviceKnown(u) /\ u \in Txs
      BY <2>3 DEF HoldsDevice, UnderWay, Others
    <3>2. CASE Kind(u) = "update"
      BY <1>3, <3>1, <3>2 DEF DeviceKnown, BeginCreate, Kind
    <3>3. CASE Kind(u) = "create"
      BY <1>3, <3>1, <3>3 DEF BeginCreate
    <3> QED
      BY <3>1, <3>2, <3>3, RequestFacts DEF Kind
  <2> QED
    BY <1>3, <2>1, <2>2, <2>3, BeginStep, FirstStepFits, IdleFacts DEF BeginCreate, KnownOrder
<1>4. CASE BeginVisit(t, r, o)
  <2> DEFINE step == IF r.order # NoOrder THEN "complete" ELSE AfterComplete(r)
  <2>1. /\ r.kind = "visit" /\ r.devices \in (SUBSET Devices) \ {{}}
        /\ r.op \in {"none", "create"}
    BY <1>4, RequestFacts DEF BeginVisit
  <2>2. PICK c \in Customers :
          /\ \A d \in r.devices : rows[d] # Missing /\ Owner[d] = c
          /\ r.order # NoOrder => Live(r.order)
    BY <1>4 DEF BeginVisit
  <2>3. CustomerOf(r) = c
    <3>1. r.devices # {}
      BY <2>1
    <3>2. (CHOOSE d \in r.devices : TRUE) \in r.devices
      BY <3>1, ChosenIn, Zenon
    <3> QED
      BY <2>1, <2>2, <3>2 DEF CustomerOf
  <2>4. DeviceKnown(t)'
    <3>1. tx'[t].request = r /\ UNCHANGED <<rows, orders>>
      BY <1>4 DEF BeginVisit, Begin, TypeOK
    <3> QED
      BY <2>1, <2>2, <2>3, <3>1 DEF DeviceKnown
  <2>5. step \in {"complete", "next", "commit"} /\ step \in Steps /\ StageFits(r, step, {})
    BY <2>1 DEF AfterComplete, StageFits, Steps
  <2>6. r.order # NoOrder => orders[r.order] # Free
    BY <2>2, ConstantsAssumption DEF Live
  <2> HIDE DEF step
  <2>7. Begin(t, r, PlainRow, o, step) /\ NewId(r, o) /\ ~Open(t) /\ UNCHANGED <<rows, orders>>
    BY <1>4 DEF BeginVisit, step
  <2> QED
    BY <2>1, <2>4, <2>5, <2>6, <2>7, BeginStep, IdleFacts
<1> QED
  BY <1>1, <1>2, <1>3, <1>4

-----------------------------------------------------------------------------
(* A statement that learns nothing the invariant records.                  *)
LEMMA PlainMove ==
  ASSUME IInv, NEW t \in Txs, NEW s, NEW w, Moves(t, s, w), Open(t), s # "idle",
         tx[t].step # "update", StageFits(tx[t].request, s, w),
         Joins(t)' => Joins(t), Checked(t)' => Checked(t)
  PROVE  IInv'
<1>1. DeviceKnown(t) /\ OrdersKnown(t)
  BY DEF IInv, UnderWay
<1>2. UNCHANGED <<rows, orders>> /\ tx'[t].request = tx[t].request
      /\ tx'[t].seen = tx[t].seen /\ tx'[t].new = tx[t].new
  BY DEF Moves
<1>3. DeviceKnown(t)'
  BY <1>1, <1>2 DEF DeviceKnown
<1>4. OrdersKnown(t)'
  BY <1>1, <1>2 DEF OrdersKnown, FromUser, Active, Live
<1> QED
  BY <1>3, <1>4, LocalStep

LEMMA UpdateDeviceStep ==
  ASSUME IInv, NEW t \in Txs, UpdateDevice(t)
  PROVE  IInv'
<1> DEFINE r == tx[t].request
<1>1. /\ tx[t].step = "update" /\ Open(t)
      /\ \A u \in Others(t) : ~LocksDevice(u, r.device)
      /\ UNCHANGED <<rows, orders>>
  BY DEF UpdateDevice, Open, Granted, WaitsFor
<1>2. /\ r \in Requests /\ r.kind = "update" /\ tx[t].writes = {}
      /\ DeviceKnown(t) /\ OrdersKnown(t)
  BY <1>1 DEF IInv, UnderWay, StageFits
<1>3. CASE RowAllowed(Merge(tx[t].seen, r.form, rows[r.device]))
  <2> DEFINE s == FirstStep(r)
  <2>1. /\ s \in {"commit", "check", "find"} /\ s \in Steps /\ StageFits(r, s, {})
        /\ r.op = "attach" => s = "find"
    BY <1>2, FirstStepFits
  <2>2. Moves(t, s, {})
    BY <1>1, <1>2, <1>3, <2>1, GotoMoves DEF UpdateDevice, IInv
  <2> HIDE DEF s
  <2>3. DeviceKnown(t)'
    BY <1>2, <1>3, <2>2 DEF DeviceKnown, Moves
  <2>4. ~Joins(t)' /\ ~Checked(t)'
    BY <2>1, <2>2 DEF Joins, Checked, Moves, Kind
  <2>5. OrdersKnown(t)'
    BY <1>2, <2>2, <2>4 DEF OrdersKnown, Moves
  <2> QED
    BY <1>1, <2>1, <2>2, <2>3, <2>5, LocalStep
<1>4. CASE ~RowAllowed(Merge(tx[t].seen, r.form, rows[r.device]))
  BY <1>1, <1>4, RollbackStep DEF UpdateDevice
<1> QED
  BY <1>3, <1>4

LEMMA FindInspectionStep ==
  ASSUME IInv, NEW t \in Txs, FindInspection(t)
  PROVE  IInv'
<1> DEFINE r == tx[t].request
           valid == ValidInspection(r.order, r.device)
           attached == valid /\ r.device \in orders[r.order].devices
<1>1. /\ tx[t].step = "find" /\ Open(t) /\ r.kind # "visit" /\ UNCHANGED <<rows, orders>>
  BY DEF FindInspection, Open
<1>2. /\ r \in Requests /\ tx[t].writes = {} /\ DeviceKnown(t) /\ OrdersKnown(t)
      /\ r.op \in {"attach", "detach", "reschedule", "move"}
  BY <1>1 DEF IInv, UnderWay, StageFits
<1>3. ASSUME NEW s \in Steps, Goto(t, s) PROVE Moves(t, s, {})
  BY <1>1, <1>2, <1>3, GotoMoves DEF IInv
<1>4. CASE r.op = "attach" /\ valid /\ Goto(t, IF attached THEN "commit" ELSE "check")
  <2> DEFINE s == IF attached THEN "commit" ELSE "check"
  <2>1. s \in {"commit", "check"} /\ s \in Steps
    BY DEF Steps
  <2>2. Moves(t, s, {})
    BY <1>3, <1>4, <2>1
  <2> HIDE DEF s
  <2>3. StageFits(r, s, {})
    BY <1>1, <1>4, <2>1 DEF StageFits
  <2>4. orders[r.order].customer = Owner[r.device]
    BY <1>4 DEF ValidInspection
  <2>5. DeviceKnown(t)'
    BY <1>1, <1>2, <2>2 DEF DeviceKnown, Moves
  <2>6. ~Checked(t)'
    BY <2>1, <2>2 DEF Checked, Moves
  <2>7. OrdersKnown(t)'
    BY <1>2, <2>2, <2>4, <2>6 DEF OrdersKnown, Moves
  <2> QED
    BY <1>1, <2>1, <2>2, <2>3, <2>5, <2>7, LocalStep
<1>5. ASSUME r.op # "attach", NEW s \in {"detach", "reschedule"}, Goto(t, s),
             StageFits(r, s, {})
      PROVE  IInv'
  <2>1. Moves(t, s, {})
    BY <1>3, <1>5 DEF Steps
  <2>2. ~Joins(t)' /\ ~Checked(t)'
    BY <1>5, <2>1 DEF Joins, Checked, Moves
  <2> QED
    BY <1>1, <1>5, <2>1, <2>2, PlainMove
<1>6. CASE r.op \in {"detach", "move"} /\ Goto(t, "detach")
  <2>1. StageFits(r, "detach", {})
    BY <1>1, <1>6 DEF StageFits
  <2> QED
    BY <1>5, <1>6, <2>1
<1>7. CASE r.op = "reschedule" /\ Goto(t, "reschedule")
  <2>1. StageFits(r, "reschedule", {})
    BY <1>1, <1>7 DEF StageFits
  <2> QED
    BY <1>5, <1>7, <2>1
<1>8. CASE Rollback(t)
  BY <1>1, <1>8, RollbackStep
<1> QED
  BY <1>4, <1>6, <1>7, <1>8 DEF FindInspection

LEMMA EnsureNoOtherStep ==
  ASSUME IInv, NEW t \in Txs, EnsureNoOther(t)
  PROVE  IInv'
<1> DEFINE r == tx[t].request
           s == IF r.op = "attach" THEN "attach" ELSE "insert"
<1>1. tx[t].step = "check" /\ Open(t) /\ UNCHANGED <<rows, orders>>
  BY DEF EnsureNoOther, Open
<1>2. /\ r \in Requests /\ DeviceKnown(t) /\ OrdersKnown(t) /\ r.kind # "visit"
      /\ r.op \in {"create", "attach", "move"} /\ StageFits(r, "check", tx[t].writes)
  BY <1>1 DEF IInv, UnderWay, StageFits
<1>3. CASE ~OtherActiveInspection(t) /\ Goto(t, s)
  <2>1. s \in {"attach", "insert"} /\ s \in Steps
    BY DEF Steps
  <2>2. Moves(t, s, tx[t].writes)
    BY <1>1, <1>3, <2>1, GotoMoves DEF IInv
  <2>3. StageFits(r, s, tx[t].writes)
    BY <1>2 DEF StageFits, MayWrite
  <2> HIDE DEF s
  <2>4. DeviceKnown(t)'
    BY <1>1, <1>2, <2>2 DEF DeviceKnown, Moves
  <2>5. Joins(t)' => Joins(t)
    BY <1>1, <2>2 DEF Joins, Moves, Kind
  <2>6. \A o \in Orders : FromUser(o) /\ r.device \in orders[o].devices => o = r.order
    BY <1>3 DEF OtherActiveInspection, FromUser, Named
  <2>7. OrdersKnown(t)'
    BY <1>2, <2>2, <2>5, <2>6 DEF OrdersKnown, Moves, FromUser, Active, Live
  <2> QED
    BY <1>1, <2>1, <2>2, <2>3, <2>4, <2>7, LocalStep
<1>4. CASE Rollback(t)
  BY <1>1, <1>4, RollbackStep
<1> QED
  BY <1>3, <1>4 DEF EnsureNoOther

(* The statements that write: what they wrote fits the request, and a row  *)
(* is inserted only after the check for another active inspection.         *)
LEMMA WriteStep ==
  ASSUME IInv, NEW t \in Txs, NEW what \in SUBSET Writes, NEW s \in Steps \ {"idle"},
         Open(t), tx[t].step \notin {"update", "find"}, Write(t, what, s),
         UNCHANGED <<rows, orders>>,
         StageFits(tx[t].request, s, tx[t].writes \cup what),
         s \notin {"insert", "attach"},
         what \cap {"create", "attach"} # {} =>
           tx[t].step \in {"insert", "attach"} \/ Kind(t) = "visit"
  PROVE  IInv'
<1>1. Moves(t, s, tx[t].writes \cup what)
  BY WriteMoves DEF IInv
<1>2. Joins(t)' => Joins(t)
  BY <1>1 DEF Joins, Moves, Kind
<1>3. Checked(t)' => Checked(t)
  BY <1>1 DEF Checked, Moves, Kind
<1> QED
  BY <1>1, <1>2, <1>3, PlainMove

LEMMA InsertStep ==
  ASSUME IInv, NEW t \in Txs,
         CreateInspection(t) \/ CreateNextInspection(t) \/ AttachDevice(t)
  PROVE  IInv'
<1> DEFINE r == tx[t].request
           w == tx[t].writes
<1>1. Open(t) /\ UNCHANGED <<rows, orders>>
  BY DEF CreateInspection, CreateNextInspection, AttachDevice, Open
<1>2. r \in Requests /\ StageFits(r, tx[t].step, w)
  BY <1>1 DEF IInv, UnderWay
<1>3. "commit" \in Steps \ {"idle"} /\ "commit" \notin {"insert", "attach"}
      /\ {"create"} \in SUBSET Writes /\ {"attach"} \in SUBSET Writes
  BY DEF Steps, Writes
<1>4. CASE CreateInspection(t)
  <2>1. tx[t].step = "insert" /\ Write(t, {"create"}, "commit")
    BY <1>4 DEF CreateInspection
  <2>2. StageFits(r, "commit", w \cup {"create"})
    BY <1>2, <2>1 DEF StageFits, MayWrite
  <2>3. tx[t].step \notin {"update", "find"} /\ tx[t].step \in {"insert", "attach"}
    BY <2>1
  <2> QED
    BY <1>1, <1>3, <2>1, <2>2, <2>3, WriteStep
<1>5. CASE CreateNextInspection(t)
  <2>1. tx[t].step = "next" /\ Write(t, {"create"}, "commit")
    BY <1>5 DEF CreateNextInspection
  <2>2. r.kind = "visit" /\ r.op = "create"
    BY <1>2, <2>1, RequestFacts DEF StageFits
  <2>3. StageFits(r, "commit", w \cup {"create"})
    BY <1>2, <2>1, <2>2 DEF StageFits, MayWrite
  <2> QED
    BY <1>1, <1>3, <2>1, <2>2, <2>3, WriteStep DEF Kind
<1>6. CASE AttachDevice(t)
  <2>1. tx[t].step = "attach"
    BY <1>6 DEF AttachDevice
  <2>2. CASE Write(t, {"attach"}, "commit")
    <3>1. StageFits(r, "commit", w \cup {"attach"})
      BY <1>2, <2>1 DEF StageFits, MayWrite
    <3>2. tx[t].step \notin {"update", "find"} /\ tx[t].step \in {"insert", "attach"}
      BY <2>1
    <3> QED
      BY <1>1, <1>3, <2>1, <2>2, <3>1, <3>2, WriteStep
  <2>3. CASE Rollback(t)
    BY <1>1, <2>3, RollbackStep
  <2> QED
    BY <1>6, <2>2, <2>3 DEF AttachDevice
<1> QED
  BY <1>4, <1>5, <1>6

LEMMA LeaveStep ==
  ASSUME IInv, NEW t \in Txs, DetachDevice(t) \/ CountDevices(t) \/ DeleteInspection(t)
  PROVE  IInv'
<1> DEFINE r == tx[t].request
           w == tx[t].writes
<1>1. Open(t) /\ UNCHANGED <<rows, orders>>
  BY DEF DetachDevice, CountDevices, DeleteInspection, Open
<1>2. r \in Requests /\ StageFits(r, tx[t].step, w)
  BY <1>1 DEF IInv, UnderWay
<1>3. {"detach"} \in SUBSET Writes /\ {"delete"} \in SUBSET Writes
      /\ {"count", "check", "commit", "delete"} \subseteq Steps
  BY DEF Steps, Writes
<1>4. AfterDetach(t) = IF r.op = "move" THEN "check" ELSE "commit"
  BY DEF AfterDetach
<1>5. CASE DetachDevice(t)
  <2>1. tx[t].step = "detach" /\ Write(t, {"detach"}, "count")
    BY <1>5 DEF DetachDevice
  <2>2. StageFits(r, "count", w \cup {"detach"})
    BY <1>2, <2>1 DEF StageFits, MayWrite
  <2> QED
    BY <1>1, <1>3, <2>1, <2>2, WriteStep
<1>6. CASE CountDevices(t)
  <2>1. PICK s \in {"delete", AfterDetach(t)} : tx[t].step = "count" /\ Goto(t, s)
    BY <1>6 DEF CountDevices
  <2>2. s \in {"delete", "check", "commit"} /\ (s = "check" => r.op = "move")
    BY <1>4
  <2>3. StageFits(r, s, w)
    BY <1>2, <2>1, <2>2 DEF StageFits
  <2>4. Moves(t, s, w)
    BY <1>1, <1>3, <2>1, <2>2, GotoMoves DEF IInv
  <2>5. (Joins(t)' => Joins(t)) /\ (Checked(t)' => Checked(t))
    BY <2>1, <2>2, <2>4 DEF Joins, Checked, Moves, Kind
  <2> QED
    BY <1>1, <2>1, <2>2, <2>3, <2>4, <2>5, PlainMove
<1>7. CASE DeleteInspection(t)
  <2>1. tx[t].step = "delete"
    BY <1>7 DEF DeleteInspection
  <2>2. CASE Write(t, {"delete"}, AfterDetach(t))
    <3>1. /\ AfterDetach(t) \in {"check", "commit"}
          /\ AfterDetach(t) = "check" => r.op = "move"
      BY <1>4
    <3>2. StageFits(r, AfterDetach(t), w \cup {"delete"})
      BY <1>2, <2>1, <3>1 DEF StageFits, MayWrite
    <3> QED
      BY <1>1, <1>3, <2>1, <2>2, <3>1, <3>2, WriteStep
  <2>3. CASE Rollback(t)
    BY <1>1, <2>3, RollbackStep
  <2> QED
    BY <1>7, <2>2, <2>3 DEF DeleteInspection
<1> QED
  BY <1>5, <1>6, <1>7

LEMMA ChangeStep ==
  ASSUME IInv, NEW t \in Txs, RescheduleInspection(t) \/ CompleteServiceOrder(t)
  PROVE  IInv'
<1> DEFINE r == tx[t].request
           w == tx[t].writes
<1>1. Open(t) /\ UNCHANGED <<rows, orders>>
  BY DEF RescheduleInspection, CompleteServiceOrder, Open
<1>2. r \in Requests /\ StageFits(r, tx[t].step, w)
  BY <1>1 DEF IInv, UnderWay
<1>3. {"reschedule"} \in SUBSET Writes /\ {"complete"} \in SUBSET Writes
      /\ {"commit", "next"} \subseteq Steps
  BY DEF Steps, Writes
<1>4. CASE RescheduleInspection(t)
  <2>1. tx[t].step = "reschedule" /\ Write(t, {"reschedule"}, "commit")
    BY <1>4 DEF RescheduleInspection
  <2>2. StageFits(r, "commit", w \cup {"reschedule"})
    BY <1>2, <2>1 DEF StageFits, MayWrite
  <2> QED
    BY <1>1, <1>3, <2>1, <2>2, WriteStep
<1>5. CASE CompleteServiceOrder(t)
  <2>1. tx[t].step = "complete"
    BY <1>5 DEF CompleteServiceOrder
  <2>2. CASE Write(t, {"complete"}, AfterComplete(r))
    <3>1. /\ AfterComplete(r) \in {"next", "commit"}
          /\ AfterComplete(r) = "next" => r.op = "create"
      BY DEF AfterComplete
    <3>2. StageFits(r, AfterComplete(r), w \cup {"complete"})
      BY <1>2, <2>1, <3>1 DEF StageFits, MayWrite
    <3> QED
      BY <1>1, <1>3, <2>1, <2>2, <3>1, <3>2, WriteStep
  <2>3. CASE Rollback(t)
    BY <1>1, <2>3, RollbackStep
  <2> QED
    BY <1>5, <2>2, <2>3 DEF CompleteServiceOrder
<1> QED
  BY <1>4, <1>5

-----------------------------------------------------------------------------
(* The values a commit publishes.                                          *)

LEMMA NewFacts ==
  ASSUME NEW r \in Requests
  PROVE  /\ NewInspection(r) \in Inspections
         /\ NewInspection(r).customer = CustomerOf(r)
         /\ NewInspection(r).devices = DevicesOf(r)
         /\ NewInspection(r).source = "user" => r.kind # "visit"
<1>1. DevicesOf(r) \in SUBSET Devices
  BY RequestFacts DEF DevicesOf
<1>2. CustomerOf(r) \in Customers
  <2>1. CASE r.kind = "visit"
    <3>1. r.devices # {} /\ r.devices \subseteq Devices
      BY <2>1, RequestFacts
    <3>2. (CHOOSE d \in r.devices : TRUE) \in r.devices
      BY <3>1, ChosenIn, Zenon
    <3> QED
      BY <2>1, <3>1, <3>2, ConstantsAssumption DEF CustomerOf
  <2>2. CASE r.kind # "visit"
    BY <2>2, RequestFacts, ConstantsAssumption DEF CustomerOf
  <2> QED
    BY <2>1, <2>2
<1>3. r.at \in Times
  BY RequestFacts
<1> QED
  BY <1>1, <1>2, <1>3 DEF NewInspection, Inspections, ActiveStatuses

LEMMA ChangedFacts ==
  ASSUME NEW r \in Requests, NEW i \in Inspections, NEW w \in SUBSET MayWrite(r)
  PROVE  /\ Changed(i, r, w) \in Inspections
         /\ Changed(i, r, w).customer = i.customer
         /\ Changed(i, r, w).source = i.source
         /\ Changed(i, r, w).status \in ActiveStatuses => i.status \in ActiveStatuses
         /\ "attach" \in w => Changed(i, r, w).devices = i.devices \cup {r.device}
         /\ "attach" \notin w => Changed(i, r, w).devices \subseteq i.devices
         /\ "detach" \in w => r.device \notin Changed(i, r, w).devices
         /\ \A d \in i.devices \ Changed(i, r, w).devices :
              d = r.device /\ "detach" \in w
<1>1. /\ "attach" \in w => r.kind # "visit" /\ r.device \in Devices
      /\ "detach" \in w => "attach" \notin w
  BY RequestFacts DEF MayWrite
<1>2. r.at \in Times
  BY RequestFacts
<1> DEFINE ds == IF "attach" \in w THEN i.devices \cup {r.device}
                 ELSE IF "detach" \in w THEN i.devices \ {r.device} ELSE i.devices
           at == IF "reschedule" \in w THEN r.at ELSE i.at
           st == IF "complete" \in w THEN "completed" ELSE i.status
<1>3. Changed(i, r, w) = [i EXCEPT !.devices = ds, !.at = at, !.status = st]
  BY DEF Changed
<1>4. ds \in SUBSET Devices /\ at \in Times /\ st \in ActiveStatuses \cup {"completed"}
  BY <1>1, <1>2 DEF Inspections
<1>5. st \in ActiveStatuses => i.status \in ActiveStatuses
  BY DEF ActiveStatuses
<1>6. /\ "attach" \in w => ds = i.devices \cup {r.device}
      /\ "attach" \notin w => ds \subseteq i.devices
      /\ "detach" \in w => r.device \notin ds
      /\ \A d \in i.devices \ ds : d = r.device /\ "detach" \in w
  BY <1>1
<1> HIDE DEF ds, at, st
<1> QED
  BY <1>3, <1>4, <1>5, <1>6 DEF Inspections

LEMMA MergeFacts ==
  ASSUME NEW seen \in Rows, NEW form, NEW now \in Rows
  PROVE  /\ Merge(seen, form, now) \in Rows
         /\ Accepted(seen, form) =>
              (Merge(seen, form, now).warranty => Merge(seen, form, now).dated)
<1>1. Merge(seen, form, now) \in Rows
  BY DEF Merge, Rows
<1>2. /\ Merge(seen, form, now).warranty = Merge(seen, form, seen).warranty
      /\ Merge(seen, form, now).dated = Merge(seen, form, seen).dated
  BY DEF Merge
<1> QED
  BY <1>1, <1>2 DEF Accepted

(* A new device's row passes the table's constraint: the form is complete. *)
LEMMA NewRowFacts ==
  ASSUME NEW form \in NewForms, Accepted(PlainRow, form)
  PROVE  RowAllowed(Merge(PlainRow, form, PlainRow))
<1>1. form.custom # "keep" /\ ~PlainRow.custom /\ ~PlainRow.stored
  BY DEF NewForms, PlainRow
<1> DEFINE custom == form.custom = "on"
           update == AddressUpdate(custom, PlainRow.custom, form)
<1>2. update # "refused"
  BY <1>1 DEF Accepted
<1>3. IF custom THEN update = "replace" ELSE update = "clear"
  BY <1>1, <1>2 DEF AddressUpdate
<1>4. /\ Merge(PlainRow, form, PlainRow).custom = custom
      /\ Merge(PlainRow, form, PlainRow).stored =
           CASE update = "clear" -> FALSE
             [] update = "replace" -> TRUE
             [] OTHER -> PlainRow.stored
  BY <1>1 DEF Merge
<1> QED
  BY <1>3, <1>4 DEF RowAllowed

-----------------------------------------------------------------------------
(* What a commit makes of one inspection.                                  *)

Creates(t, o)  == o = tx[t].new /\ "create" \in tx[t].writes
Deletes(t, o)  == o = Named(t) /\ "delete" \in tx[t].writes
Rewrites(t, o) == o = Named(t) /\ Live(o) /\ "delete" \notin tx[t].writes

LEMMA CommitContext ==
  ASSUME IInv, NEW t \in Txs, Commit(t)
  PROVE  /\ Open(t) /\ tx[t].step = "commit" /\ tx[t].request \in Requests
         /\ tx[t].writes \in SUBSET MayWrite(tx[t].request)
         /\ StageFits(tx[t].request, "commit", tx[t].writes)
         /\ DeviceKnown(t) /\ OrdersKnown(t)
         /\ tx[t].seen \in Rows /\ tx[t].new \in Orders \cup {NoOrder}
         /\ tx'[t] = Idle /\ \A u \in Others(t) : tx'[u] = tx[u]
         /\ tx' \in [Txs -> Transactions]
<1>1. tx[t].step = "commit" /\ Open(t) /\ tx[t] \in Transactions
  BY DEF Commit, Open, IInv, TypeOK
<1>2. tx[t].seen \in Rows /\ tx[t].new \in Orders \cup {NoOrder}
  BY <1>1 DEF Transactions
<1>3. tx'[t] = Idle /\ tx' \in [Txs -> Transactions] /\ \A u \in Others(t) : tx'[u] = tx[u]
  BY IdleFacts DEF Commit, IInv, TypeOK, Others
<1> QED
  BY <1>1, <1>2, <1>3 DEF IInv, UnderWay, StageFits

LEMMA PublishedFacts ==
  ASSUME IInv, NEW t \in Txs, Commit(t), NEW o \in Orders
  PROVE  \/ Creates(t, o) /\ orders[o] = Free /\ orders'[o] = NewInspection(tx[t].request)
         \/ Deletes(t, o) /\ orders[o] # Free /\ orders'[o] = Deleted
         \/ Rewrites(t, o) /\ orders'[o] = Changed(orders[o], tx[t].request, tx[t].writes)
         \/ ~Creates(t, o) /\ ~Deletes(t, o) /\ ~Rewrites(t, o) /\ orders'[o] = orders[o]
<1>1. orders'[o] = Published(o, t)
  BY DEF Commit
<1>2. OrdersKnown(t) /\ NoOrder \notin Orders
  BY CommitContext, ConstantsAssumption
<1>3. CASE Creates(t, o)
  <2>1. orders[o] = Free /\ o # Named(t)
    BY <1>2, <1>3 DEF Creates, OrdersKnown, Named
  <2> QED
    BY <1>1, <1>3, <2>1 DEF Published, Creates
<1>4. CASE ~Creates(t, o) /\ Deletes(t, o)
  <2>1. orders[o] # Free
    BY <1>2, <1>4 DEF Deletes, OrdersKnown, Named
  <2> QED
    BY <1>1, <1>4, <2>1 DEF Published, Creates, Deletes
<1>5. CASE ~Creates(t, o) /\ Rewrites(t, o)
  BY <1>1, <1>5 DEF Published, Creates, Deletes, Rewrites
<1>6. CASE ~Creates(t, o) /\ ~Deletes(t, o) /\ ~Rewrites(t, o)
  BY <1>1, <1>6 DEF Published, Creates, Deletes, Rewrites
<1> QED
  BY <1>3, <1>4, <1>5, <1>6

(* The consequences the invariant needs.                                   *)
LEMMA CommittedOrder ==
  ASSUME IInv, NEW t \in Txs, Commit(t), NEW o \in Orders
  PROVE  /\ orders'[o] \in Inspections \cup {Free, Deleted}
         /\ orders[o] # Free => orders'[o] # Free
         /\ orders[o] = Free /\ ~Creates(t, o) => orders'[o] = Free
         /\ Live(o)' /\ ~Creates(t, o) =>
              /\ Live(o) /\ orders'[o].customer = orders[o].customer
              /\ FromUser(o)' => FromUser(o)
              /\ \A d \in orders'[o].devices \ orders[o].devices :
                   o = Named(t) /\ d = tx[t].request.device /\ "attach" \in tx[t].writes
         /\ Creates(t, o) => orders'[o] = NewInspection(tx[t].request) /\ orders[o] = Free
<1>1. /\ Free \notin Inspections /\ Deleted \notin Inspections /\ Free # Deleted
      /\ orders[o] \in Inspections \cup {Free, Deleted}
  BY ConstantsAssumption DEF IInv, TypeOK
<1>2. /\ tx[t].request \in Requests /\ OrdersKnown(t)
      /\ tx[t].writes \in SUBSET MayWrite(tx[t].request)
  BY CommitContext
<1>3. CASE Creates(t, o) /\ orders[o] = Free /\ orders'[o] = NewInspection(tx[t].request)
  BY <1>1, <1>2, <1>3, NewFacts
<1>4. CASE Deletes(t, o) /\ orders[o] # Free /\ orders'[o] = Deleted
  <2>1. ~Creates(t, o)
    BY <1>2, <1>4, ConstantsAssumption DEF Creates, OrdersKnown
  <2> QED
    BY <1>1, <1>4, <2>1 DEF Live
<1>5. CASE Rewrites(t, o) /\ orders'[o] = Changed(orders[o], tx[t].request, tx[t].writes)
  <2>1. orders[o] \in Inspections /\ o = Named(t)
    BY <1>5 DEF Rewrites, Live
  <2>2. ~Creates(t, o)
    BY <1>1, <1>2, <2>1, ConstantsAssumption DEF Creates, OrdersKnown
  <2>3. /\ orders'[o] \in Inspections /\ orders'[o].customer = orders[o].customer
        /\ orders'[o].source = orders[o].source
        /\ orders'[o].status \in ActiveStatuses => orders[o].status \in ActiveStatuses
        /\ \A d \in orders'[o].devices \ orders[o].devices :
             d = tx[t].request.device /\ "attach" \in tx[t].writes
    BY <1>2, <1>5, <2>1, ChangedFacts
  <2> QED
    BY <1>1, <2>1, <2>2, <2>3 DEF Live, FromUser, Active
<1>6. CASE ~Creates(t, o) /\ orders'[o] = orders[o]
  BY <1>1, <1>6 DEF Live, FromUser, Active
<1> QED
  BY <1>3, <1>4, <1>5, <1>6, PublishedFacts

LEMMA CommittedRows ==
  ASSUME IInv, NEW t \in Txs, Commit(t)
  PROVE  /\ rows' \in [Devices -> Rows \cup {Missing}]
         /\ \A d \in Devices : rows[d] # Missing => rows'[d] # Missing
         /\ \A d \in Devices : rows'[d] # rows[d] =>
              Kind(t) # "visit" /\ d = tx[t].request.device /\ HoldsDevice(t, d)
         /\ Kind(t) # "visit" => rows'[tx[t].request.device] # Missing
         /\ RowsCoherent'
<1> DEFINE r == tx[t].request
<1>1. /\ r \in Requests /\ DeviceKnown(t) /\ tx[t].seen \in Rows /\ Open(t)
      /\ tx[t].step = "commit" /\ Missing \notin Rows
      /\ rows \in [Devices -> Rows \cup {Missing}] /\ RowsCoherent
  BY CommitContext, ConstantsAssumption DEF IInv, TypeOK
<1>2. CASE r.kind = "visit"
  <2>1. rows' = rows
    BY <1>2 DEF Commit
  <2> QED
    BY <1>1, <1>2, <2>1 DEF RowsCoherent, Kind
<1>3. CASE r.kind # "visit"
  <2> DEFINE now == IF rows[r.device] = Missing THEN PlainRow ELSE rows[r.device]
             row == Merge(tx[t].seen, r.form, now)
  <2>1. r.device \in Devices /\ rows' = [rows EXCEPT ![r.device] = row]
    BY <1>1, <1>3, RequestFacts DEF Commit
  <2>2. now \in Rows
    BY <1>1, <2>1, IdleFacts
  <2>3. Accepted(tx[t].seen, r.form) /\ RowAllowed(row)
    <3>1. CASE r.kind = "update"
      BY <1>1, <3>1 DEF DeviceKnown
    <3>2. CASE r.kind = "create"
      <4>1. rows[r.device] = Missing /\ tx[t].seen = PlainRow /\ Accepted(PlainRow, r.form)
        BY <1>1, <3>2 DEF DeviceKnown
      <4>2. r.form \in NewForms
        BY <1>1, <3>2, RequestFacts
      <4> QED
        BY <4>1, <4>2, NewRowFacts
    <3> QED
      BY <1>1, <1>3, <3>1, <3>2, RequestFacts
  <2> HIDE DEF now
  <2>4. row \in Rows /\ (row.warranty => row.dated)
    BY <1>1, <2>2, <2>3, MergeFacts
  <2> HIDE DEF row
  <2>5. HoldsDevice(t, r.device)
    BY <1>1, <1>3 DEF HoldsDevice, Kind
  <2>6. RowsCoherent'
    <3> SUFFICES ASSUME NEW d \in Devices, rows'[d] # Missing
                 PROVE  /\ rows'[d].custom <=> rows'[d].stored
                        /\ rows'[d].warranty => rows'[d].dated
      BY DEF RowsCoherent
    <3>1. CASE d = r.device
      BY <1>1, <2>1, <2>3, <2>4, <3>1 DEF RowAllowed
    <3>2. CASE d # r.device
      BY <1>1, <2>1, <3>2 DEF RowsCoherent
    <3> QED
      BY <3>1, <3>2
  <2>7. row # Missing
    BY <1>1, <2>4
  <2> QED
    BY <1>1, <1>3, <2>1, <2>4, <2>5, <2>6, <2>7 DEF Kind
<1> QED
  BY <1>2, <1>3

(* A device is put on an inspection only by a command that has checked for *)
(* another one, and that still holds the device.                           *)
LEMMA CommittedDevice ==
  ASSUME IInv, NEW t \in Txs, Commit(t), NEW o \in Orders, FromUser(o)',
         NEW d \in orders'[o].devices, ~(FromUser(o) /\ d \in orders[o].devices)
  PROVE  /\ Kind(t) # "visit" /\ Checked(t) /\ HoldsDevice(t, d)
         /\ d = tx[t].request.device
         /\ Creates(t, o) \/ (o = Named(t) /\ "attach" \in tx[t].writes)
<1>1. /\ Open(t) /\ tx[t].step = "commit" /\ tx[t].request \in Requests
      /\ tx[t].writes \in SUBSET MayWrite(tx[t].request)
  BY CommitContext
<1>2. CASE Creates(t, o)
  <2>1. orders'[o] = NewInspection(tx[t].request)
    BY <1>2, CommittedOrder
  <2>2. Kind(t) # "visit" /\ d \in DevicesOf(tx[t].request)
    BY <1>1, <2>1, NewFacts DEF FromUser, Kind
  <2>3. d = tx[t].request.device
    BY <2>2 DEF DevicesOf, Kind
  <2>4. Checked(t) /\ HoldsDevice(t, d)
    BY <1>1, <1>2, <2>2, <2>3 DEF Creates, Checked, HoldsDevice
  <2> QED
    BY <1>2, <2>2, <2>3, <2>4
<1>3. CASE ~Creates(t, o)
  <2>1. Live(o)' /\ FromUser(o)'
    BY DEF FromUser, Active
  <2>2. /\ FromUser(o)
        /\ d \notin orders[o].devices =>
             o = Named(t) /\ d = tx[t].request.device /\ "attach" \in tx[t].writes
    BY <1>3, <2>1, CommittedOrder
  <2>3. o = Named(t) /\ d = tx[t].request.device /\ "attach" \in tx[t].writes
    BY <2>2
  <2>4. Kind(t) # "visit"
    BY <1>1, <2>3 DEF MayWrite, Kind
  <2> QED
    BY <1>1, <2>3, <2>4 DEF Checked, HoldsDevice
<1> QED
  BY <1>2, <1>3

LEMMA CommitKeepsApart ==
  ASSUME IInv, NEW t \in Txs, Commit(t)
  PROVE  OneUserInspection' /\ DevicesOfOneCustomer'
<1> DEFINE r == tx[t].request
           w == tx[t].writes
<1>1. /\ r \in Requests /\ DeviceKnown(t) /\ OrdersKnown(t) /\ tx[t].step = "commit"
      /\ w \in SUBSET MayWrite(r) /\ StageFits(r, "commit", w)
  BY CommitContext
<1>2. ASSUME NEW o \in Orders, NEW p \in Orders, o # p, FromUser(o)', FromUser(p)',
             NEW d, d \in orders'[o].devices, d \in orders'[p].devices,
             ~(FromUser(o) /\ d \in orders[o].devices)
      PROVE  FALSE
  <2>1. /\ Kind(t) # "visit" /\ Checked(t) /\ d = r.device
        /\ Creates(t, o) \/ (o = Named(t) /\ "attach" \in w)
    BY <1>2, CommittedDevice
  <2>2. CASE FromUser(p) /\ d \in orders[p].devices
    <3>1. p = Named(t) /\ Creates(t, o)
      BY <1>1, <1>2, <2>1, <2>2 DEF OrdersKnown, Named
    <3>2. r.order # NoOrder /\ r.op \in {"create", "move"} /\ "create" \in w
      BY <1>1, <3>1, ConstantsAssumption DEF Creates, StageFits, Named
    <3>3. "detach" \in w /\ ~Creates(t, p)
      BY <1>1, <1>2, <2>1, <3>1, <3>2, RequestFacts DEF StageFits, Kind, Creates
    <3>4. CASE Rewrites(t, p) /\ orders'[p] = Changed(orders[p], r, w)
      <4>1. orders[p] \in Inspections
        BY <3>4 DEF Rewrites, Live
      <4> QED
        BY <1>1, <1>2, <2>1, <3>3, <3>4, <4>1, ChangedFacts
    <3>5. CASE orders'[p] = Deleted
      BY <1>2, <3>5, ConstantsAssumption DEF FromUser, Active, Live
    <3>6. CASE ~Deletes(t, p) /\ ~Rewrites(t, p)
      BY <2>2, <3>1, <3>6 DEF Deletes, Rewrites, FromUser, Active
    <3> QED
      BY <3>3, <3>4, <3>5, <3>6, PublishedFacts
  <2>3. CASE ~(FromUser(p) /\ d \in orders[p].devices)
    <3>1. Creates(t, p) \/ (p = Named(t) /\ "attach" \in w)
      BY <1>2, <2>3, CommittedDevice
    <3>2. "create" \in w /\ "attach" \in w
      BY <1>2, <2>1, <3>1 DEF Creates
    <3> QED
      BY <1>1, <3>2, RequestFacts DEF MayWrite
  <2> QED
    BY <2>2, <2>3
<1>3. OneUserInspection'
  <2> SUFFICES ASSUME NEW o \in Orders, NEW p \in Orders, o # p, FromUser(o)', FromUser(p)',
                      NEW d, d \in orders'[o].devices, d \in orders'[p].devices
               PROVE  FALSE
    BY DEF OneUserInspection
  <2>1. FromUser(o) /\ d \in orders[o].devices
    BY <1>2
  <2>2. FromUser(p) /\ d \in orders[p].devices
    BY <1>2
  <2> QED
    BY <2>1, <2>2 DEF IInv, OneUserInspection
<1>4. DevicesOfOneCustomer'
  <2> SUFFICES ASSUME NEW o \in Orders, Live(o)', NEW d \in orders'[o].devices
               PROVE  rows'[d] # Missing /\ Owner[d] = orders'[o].customer
    BY DEF DevicesOfOneCustomer
  <2>1. CASE Creates(t, o)
    <3>1. orders'[o] = NewInspection(r)
      BY <2>1, CommittedOrder
    <3>2. orders'[o].customer = CustomerOf(r) /\ d \in DevicesOf(r)
      BY <1>1, <3>1, NewFacts
    <3>3. CASE r.kind = "visit"
      <4>1. d \in Devices /\ rows[d] # Missing /\ Owner[d] = CustomerOf(r)
        BY <1>1, <3>2, <3>3, RequestFacts DEF DeviceKnown, DevicesOf
      <4> QED
        BY <3>2, <4>1, CommittedRows
    <3>4. CASE r.kind # "visit"
      BY <3>2, <3>4, CommittedRows DEF DevicesOf, CustomerOf, Kind
    <3> QED
      BY <3>3, <3>4
  <2>2. CASE ~Creates(t, o)
    <3>1. /\ Live(o) /\ orders'[o].customer = orders[o].customer
          /\ d \notin orders[o].devices =>
               o = Named(t) /\ d = r.device /\ "attach" \in w
      BY <2>2, CommittedOrder
    <3>2. CASE d \in orders[o].devices
      <4>1. rows[d] # Missing /\ Owner[d] = orders[o].customer /\ d \in Devices
        BY <3>1, <3>2 DEF IInv, DevicesOfOneCustomer, Live, Inspections
      <4> QED
        BY <3>1, <4>1, CommittedRows
    <3>3. CASE o = Named(t) /\ d = r.device /\ "attach" \in w
      <4>1. Kind(t) # "visit" /\ r.op = "attach"
        BY <1>1, <3>3, RequestFacts DEF MayWrite, Kind
      <4>2. orders[o].customer = Owner[d]
        BY <1>1, <3>1, <3>3, <4>1 DEF OrdersKnown, Joins, Named
      <4> QED
        BY <3>1, <3>3, <4>1, <4>2, CommittedRows
    <3> QED
      BY <3>1, <3>2, <3>3
  <2> QED
    BY <2>1, <2>2
<1> QED
  BY <1>3, <1>4

(* What the others know survives a commit.                                 *)
LEMMA CommitKnown ==
  ASSUME IInv, NEW t \in Txs, Commit(t), NEW u \in Others(t), Open(u)
  PROVE  UnderWay(u)'
<1> DEFINE r == tx[u].request
<1>1. tx'[u] = tx[u] /\ u \in Txs /\ u # t
  BY CommitContext DEF Others
<1>2. /\ r \in Requests /\ StageFits(r, tx[u].step, tx[u].writes)
      /\ DeviceKnown(u) /\ OrdersKnown(u)
  BY <1>1 DEF IInv, UnderWay
<1>3. ASSUME r.kind # "visit", tx[u].step # "update"
      PROVE  /\ rows'[r.device] = rows[r.device]
             /\ ~HoldsDevice(t, r.device)
  <2>1. r.device \in Devices /\ HoldsDevice(u, r.device)
    BY <1>2, <1>3, RequestFacts DEF HoldsDevice, Kind
  <2>2. ~HoldsDevice(t, r.device)
    BY <1>1, <2>1 DEF IInv, TxsApart
  <2> QED
    BY <2>1, <2>2, CommittedRows
<1>4. DeviceKnown(u)'
  <2>1. r.kind = "update" =>
          /\ rows'[r.device] # Missing
          /\ tx[u].step # "update" => RowAllowed(Merge(tx[u].seen, r.form, rows'[r.device]))
    BY <1>2, <1>3, CommittedRows, RequestFacts DEF DeviceKnown
  <2>2. r.kind = "create" => rows'[r.device] = Missing
    BY <1>2, <1>3 DEF DeviceKnown, StageFits
  <2>3. r.kind = "visit" => \A d \in r.devices : rows'[d] # Missing
    BY <1>2, CommittedRows, RequestFacts DEF DeviceKnown
  <2> QED
    BY <1>1, <1>2, <2>1, <2>2, <2>3 DEF DeviceKnown
<1>5. r.order # NoOrder =>
        /\ orders'[r.order] # Free
        /\ ~Creates(t, r.order)
  BY <1>2, CommittedOrder, RequestFacts DEF OrdersKnown
<1>6. tx[u].new # NoOrder => orders'[tx[u].new] = Free
  <2> SUFFICES ASSUME tx[u].new # NoOrder PROVE orders'[tx[u].new] = Free
    OBVIOUS
  <2>1. tx[u].new \in Orders /\ tx[u].new # tx[t].new
    BY <1>1 DEF IInv, TypeOK, Transactions, TxsApart
  <2>2. ~Creates(t, tx[u].new) /\ orders[tx[u].new] = Free
    BY <1>2, <2>1 DEF Creates, OrdersKnown
  <2> QED
    BY <2>1, <2>2, CommittedOrder
<1>7. Joins(u) /\ orders'[r.order] \in Inspections =>
        orders'[r.order].customer = Owner[r.device]
  <2> SUFFICES ASSUME Joins(u), orders'[r.order] \in Inspections
               PROVE  orders'[r.order].customer = Owner[r.device]
    OBVIOUS
  <2>1. r.order \in Orders /\ r.order # NoOrder
    BY <1>2, RequestFacts DEF Joins, Kind
  <2>2. Live(r.order) /\ orders'[r.order].customer = orders[r.order].customer
    BY <1>5, <2>1, CommittedOrder DEF Live
  <2> QED
    BY <1>2, <2>2 DEF OrdersKnown
<1>8. ASSUME Checked(u), NEW o \in Orders, FromUser(o)', r.device \in orders'[o].devices
      PROVE  o = r.order
  <2>1. r.kind # "visit" /\ tx[u].step # "update"
    BY <1>2, <1>8 DEF Checked, StageFits, Kind
  <2>2. ~HoldsDevice(t, r.device)
    BY <1>3, <2>1
  <2>3. FromUser(o) /\ r.device \in orders[o].devices
    BY <1>8, <2>2, CommittedDevice
  <2> QED
    BY <1>2, <1>8, <2>3 DEF OrdersKnown
<1>9. (Joins(u)' <=> Joins(u)) /\ (Checked(u)' <=> Checked(u))
  BY <1>1 DEF Joins, Checked, Kind
<1>10. OrdersKnown(u)'
  BY <1>1, <1>2, <1>5, <1>6, <1>7, <1>8, <1>9 DEF OrdersKnown, Live
<1> QED
  BY <1>1, <1>2, <1>4, <1>10 DEF UnderWay

LEMMA CommitStep ==
  ASSUME IInv, NEW t \in Txs, Commit(t)
  PROVE  IInv'
<1>1. /\ tx'[t] = Idle /\ tx' \in [Txs -> Transactions]
      /\ \A u \in Others(t) : tx'[u] = tx[u]
  BY CommitContext
<1>2. TypeOK'
  <2>1. orders' \in [Orders -> Inspections \cup {Free, Deleted}]
    BY CommittedOrder DEF Commit
  <2> QED
    BY <1>1, <2>1, CommittedRows DEF TypeOK
<1>3. \A u \in Txs : UnderWay(u)'
  <2>1. UnderWay(t)'
    BY <1>1, IdleFacts DEF UnderWay, Open
  <2>2. ASSUME NEW u \in Others(t) PROVE UnderWay(u)'
    <3>1. CASE Open(u)
      BY <2>2, <3>1, CommitKnown
    <3>2. CASE ~Open(u)
      BY <1>1, <2>2, <3>2 DEF UnderWay, Open
    <3> QED
      BY <3>1, <3>2
  <2> QED
    BY <2>1, <2>2 DEF Others
<1>4. TxsApart'
  BY <1>1, IdleFacts DEF IInv, TxsApart, Others, HoldsDevice, Open, Kind
<1> QED
  BY <1>2, <1>3, <1>4, CommittedRows, CommitKeepsApart DEF IInv

-----------------------------------------------------------------------------
LEMMA InitIInv == Init => IInv
<1> SUFFICES ASSUME Init PROVE IInv
  OBVIOUS
<1>1. PICK c \in Customers, shared \in SUBSET Initial, first \in Orders, at \in Times :
        /\ \A d \in shared : Owner[d] = c
        /\ orders = [o \in Orders |->
                       IF o = first /\ shared # {}
                       THEN [customer |-> c, source |-> "user", status |-> "new",
                             at |-> at, devices |-> shared]
                       ELSE Free]
  BY DEF Init
<1> DEFINE shown == [customer |-> c, source |-> "user", status |-> "new",
                     at |-> at, devices |-> shared]
<1>2. /\ shown \in Inspections /\ shown.customer = c /\ shown.devices = shared
      /\ shared \subseteq Devices
  BY ConstantsAssumption DEF Inspections, ActiveStatuses
<1>3. \A o \in Orders : orders[o] = Free \/ (o = first /\ orders[o] = shown)
  BY <1>1
<1> HIDE DEF shown
<1>4. rows = [d \in Devices |-> IF d \in Initial THEN PlainRow ELSE Missing]
      /\ tx = [t \in Txs |-> Idle]
  BY DEF Init
<1>5. TypeOK
  <2>1. orders \in [Orders -> Inspections \cup {Free, Deleted}]
    <3>1. orders = [o \in Orders |-> IF o = first /\ shared # {} THEN shown ELSE Free]
      BY <1>1 DEF shown
    <3> QED
      BY <1>2, <3>1
  <2> QED
    BY <1>4, <2>1, IdleFacts DEF TypeOK
<1>6. \A t \in Txs : UnderWay(t)
  BY <1>4, IdleFacts DEF UnderWay, Open
<1>7. TxsApart
  BY <1>4, IdleFacts DEF TxsApart, HoldsDevice, Open
<1>8. OneUserInspection
  BY <1>3, ConstantsAssumption DEF OneUserInspection, FromUser, Active, Live
<1>9. DevicesOfOneCustomer
  BY <1>1, <1>2, <1>3, <1>4, IdleFacts, ConstantsAssumption DEF DevicesOfOneCustomer, Live
<1>10. RowsCoherent
  BY <1>4 DEF RowsCoherent, PlainRow
<1> QED
  BY <1>5, <1>6, <1>7, <1>8, <1>9, <1>10 DEF IInv

LEMMA NextIInv == IInv /\ [Next]_vars => IInv'
<1> SUFFICES ASSUME IInv, [Next]_vars PROVE IInv'
  OBVIOUS
<1>1. ASSUME NEW t \in Txs, BeginRequest(t) PROVE IInv'
  BY <1>1, BeginRequestStep
<1>2. ASSUME NEW t \in Txs, Progress(t) PROVE IInv'
  BY <1>2, UpdateDeviceStep, FindInspectionStep, EnsureNoOtherStep, InsertStep, LeaveStep,
     ChangeStep, CommitStep DEF Progress
<1>3. ASSUME NEW t \in Txs, Fail(t) PROVE IInv'
  BY <1>3, RollbackStep DEF Fail
<1>4. CASE UNCHANGED vars
  BY <1>4 DEF vars, IInv, TypeOK, UnderWay, StageFits, DeviceKnown, OrdersKnown, TxsApart,
     OneUserInspection, DevicesOfOneCustomer, RowsCoherent, HoldsDevice, Joins, Checked,
     FromUser, Active, Live, Open, Kind, Named
<1> QED
  BY <1>1, <1>2, <1>3, <1>4 DEF Next

THEOREM Invariance == Spec => []IInv
BY InitIInv, NextIInv, PTL DEF Spec

(* Every variable keeps its type.                                          *)
THEOREM TypeCorrect == Spec => []TypeOK
<1>1. IInv => TypeOK
  BY DEF IInv
<1> QED
  BY <1>1, Invariance, PTL

(* However many commands and visits overlap, the inspections of the        *)
(* office's share no device and none mixes customers: what a command has   *)
(* checked under its device's lock is still true when it commits.          *)
THEOREM InspectionsStayApart == Spec => []InspectionsApart
<1>1. IInv => InspectionsApart
  BY DEF IInv, InspectionsApart
<1> QED
  BY <1>1, Invariance, PTL

(* No command commits a row that the device views refuse, although it      *)
(* merges its form into the row it read before it had the lock.            *)
THEOREM RowsStayCoherent == Spec => []RowsCoherent
<1>1. IInv => RowsCoherent
  BY DEF IInv
<1> QED
  BY <1>1, Invariance, PTL

-----------------------------------------------------------------------------
(* No circle of waits.                                                     *)

Leaving(t) == tx[t].step \in {"detach", "count", "delete"}

(* A device that was found on an inspection stays there until the command  *)
(* that holds it has left, or the inspection is gone.                      *)
DeviceStays ==
  \A t \in Txs : Leaving(t) /\ Live(Named(t)) =>
    tx[t].request.device \in orders[Named(t)].devices

(* At most one command is about to delete an inspection that is there.     *)
OneDeletes ==
  \A t, u \in Txs :
    t # u /\ tx[t].step = "delete" /\ tx[u].step = "delete" /\ Named(t) = Named(u)
      => ~Live(Named(t))

WaitInv == DeviceStays /\ OneDeletes

LEMMA LeavingFacts ==
  ASSUME IInv, NEW t \in Txs, Leaving(t)
  PROVE  /\ Named(t) \in Orders /\ orders[Named(t)] # Free
         /\ tx[t].request.device \in Devices
         /\ HoldsDevice(t, tx[t].request.device)
<1>1. Open(t)
  BY DEF Leaving, Open
<1>2. /\ tx[t].request \in Requests /\ OrdersKnown(t)
      /\ tx[t].request.kind # "visit" /\ tx[t].request.op \in {"detach", "move"}
  BY <1>1 DEF IInv, UnderWay, StageFits, Leaving
<1>3. Named(t) \in Orders /\ Named(t) # NoOrder /\ tx[t].request.device \in Devices
  BY <1>2, RequestFacts DEF Named
<1> QED
  BY <1>1, <1>2, <1>3 DEF OrdersKnown, Named, HoldsDevice, Kind, Leaving

(* A step that commits nothing: a command that goes on to leave an         *)
(* inspection is on it, and deletes it only when it is the last one there. *)
LEMMA WaitLocal ==
  ASSUME IInv, WaitInv, NEW t \in Txs, UNCHANGED <<rows, orders>>,
         \A u \in Others(t) : tx'[u] = tx[u],
         Leaving(t)' =>
           /\ tx'[t].request = tx[t].request /\ HoldsDevice(t, tx[t].request.device)
           /\ Live(Named(t)) =>
                /\ tx[t].request.device \in orders[Named(t)].devices
                /\ tx'[t].step = "delete" =>
                     orders[Named(t)].devices \subseteq {tx[t].request.device}
  PROVE  WaitInv'
<1>1. \A o : Live(o)' <=> Live(o)
  BY DEF Live
<1>2. \A u \in Others(t) :
        (Leaving(u)' <=> Leaving(u)) /\ Named(u)' = Named(u) /\ u \in Txs /\ u # t
  BY DEF Leaving, Named, Others
<1>3. Leaving(t)' => Named(t)' = Named(t)
  BY DEF Named
<1>4. DeviceStays'
  <2> SUFFICES ASSUME NEW u \in Txs, Leaving(u)', Live(Named(u)')
               PROVE  tx'[u].request.device \in orders[Named(u)'].devices
    BY <1>1 DEF DeviceStays, Live
  <2>1. CASE u = t
    BY <1>3, <2>1 DEF Live
  <2>2. CASE u # t
    BY <1>2, <2>2 DEF WaitInv, DeviceStays, Others, Live
  <2> QED
    BY <2>1, <2>2
<1>5. ASSUME NEW u \in Others(t), tx'[t].step = "delete", tx[u].step = "delete",
             Named(t)' = Named(u), Live(Named(u))
      PROVE  FALSE
  <2>1. Leaving(t)' /\ Leaving(u) /\ Named(u) = Named(t)
    BY <1>3, <1>5 DEF Leaving
  <2>2. tx[u].request.device \in orders[Named(u)].devices
    BY <1>2, <1>5, <2>1 DEF WaitInv, DeviceStays
  <2>3. tx[u].request.device = tx[t].request.device
    BY <1>5, <2>1, <2>2
  <2>4. HoldsDevice(u, tx[u].request.device) /\ tx[u].request.device \in Devices
    BY <1>2, <2>1, LeavingFacts
  <2> QED
    BY <1>2, <2>1, <2>3, <2>4 DEF IInv, TxsApart
<1>6. OneDeletes'
  <2> SUFFICES ASSUME NEW x \in Txs, NEW y \in Txs, x # y, tx'[x].step = "delete",
                      tx'[y].step = "delete", Named(x)' = Named(y)', Live(Named(x)')
               PROVE  FALSE
    BY <1>1 DEF OneDeletes, Live
  <2>1. CASE x = t
    BY <1>2, <1>5, <2>1 DEF Others
  <2>2. CASE y = t
    BY <1>2, <1>5, <2>2 DEF Others
  <2>3. CASE x # t /\ y # t
    BY <1>2, <2>3 DEF WaitInv, OneDeletes, Others
  <2> QED
    BY <2>1, <2>2, <2>3
<1> QED
  BY <1>4, <1>6 DEF WaitInv

LEMMA WaitCommit ==
  ASSUME IInv, WaitInv, NEW t \in Txs, Commit(t)
  PROVE  WaitInv'
<1>1. /\ tx'[t] = Idle /\ \A u \in Others(t) : tx'[u] = tx[u]
      /\ tx[t].request \in Requests /\ tx[t].writes \in SUBSET MayWrite(tx[t].request)
      /\ tx[t].step = "commit" /\ Open(t)
  BY CommitContext
<1>2. ASSUME NEW u \in Txs, Leaving(u)'
      PROVE  /\ u # t /\ tx'[u] = tx[u] /\ Named(u)' = Named(u) /\ Leaving(u)
             /\ Named(u) \in Orders /\ orders[Named(u)] # Free
             /\ Live(Named(u))' => Live(Named(u))
  <2>1. u # t
    BY <1>1, <1>2, IdleFacts DEF Leaving
  <2>2. tx'[u] = tx[u] /\ Named(u)' = Named(u) /\ Leaving(u)
    BY <1>1, <1>2, <2>1 DEF Others, Named, Leaving
  <2>3. Named(u) \in Orders /\ orders[Named(u)] # Free
    BY <2>2, LeavingFacts
  <2>4. Live(Named(u))' => Live(Named(u))
    BY <2>2, <2>3, CommittedOrder DEF Live
  <2> QED
    BY <2>1, <2>2, <2>3, <2>4
<1>3. DeviceStays'
  <2> SUFFICES ASSUME NEW u \in Txs, Leaving(u)', orders'[Named(u)] \in Inspections
               PROVE  tx[u].request.device \in orders'[Named(u)].devices
    BY <1>2 DEF DeviceStays, Live
  <2> DEFINE o == Named(u)
             d == tx[u].request.device
  <2>1. /\ u # t /\ Leaving(u) /\ o \in Orders /\ orders[o] # Free /\ Live(o)
        /\ d \in Devices /\ HoldsDevice(u, d)
    BY <1>2, LeavingFacts DEF Live
  <2>2. d \in orders[o].devices
    BY <2>1 DEF WaitInv, DeviceStays
  <2>3. CASE Rewrites(t, o) /\ orders'[o] = Changed(orders[o], tx[t].request, tx[t].writes)
    <3>1. d \notin orders'[o].devices =>
            d = tx[t].request.device /\ "detach" \in tx[t].writes
      <4>1. orders[o] \in Inspections
        BY <2>1 DEF Live
      <4> HIDE DEF o, d
      <4> QED
        BY <1>1, <2>2, <2>3, <4>1, ChangedFacts
    <3>2. "detach" \in tx[t].writes => Kind(t) # "visit"
      BY <1>1 DEF MayWrite, Kind
    <3>3. ~HoldsDevice(t, d)
      BY <2>1 DEF IInv, TxsApart
    <3> QED
      BY <1>1, <3>1, <3>2, <3>3 DEF HoldsDevice
  <2>4. CASE orders'[o] = Deleted
    BY <2>4, ConstantsAssumption
  <2>5. CASE orders'[o] = orders[o]
    BY <2>2, <2>5
  <2> QED
    BY <2>1, <2>3, <2>4, <2>5, PublishedFacts
<1>4. OneDeletes'
  <2> SUFFICES ASSUME NEW x \in Txs, NEW y \in Txs, x # y, tx'[x].step = "delete",
                      tx'[y].step = "delete", Named(x)' = Named(y)', Live(Named(x))'
               PROVE  FALSE
    BY DEF OneDeletes
  <2>1. Leaving(x)' /\ Leaving(y)'
    BY DEF Leaving
  <2> QED
    BY <1>2, <2>1 DEF WaitInv, OneDeletes
<1> QED
  BY <1>3, <1>4 DEF WaitInv

(* Each statement that brings a command closer to deleting an inspection.  *)
LEMMA WaitProgress ==
  ASSUME IInv, WaitInv, NEW t \in Txs, Progress(t)
  PROVE  WaitInv'
<1>1. TypeOK
  BY DEF IInv
<1>2. ASSUME Rollback(t), UNCHANGED <<rows, orders>> PROVE WaitInv'
  <2>1. tx'[t] = Idle /\ \A u \in Others(t) : tx'[u] = tx[u]
    BY <1>1, <1>2 DEF Rollback, TypeOK, Others
  <2>2. ~Leaving(t)'
    BY <2>1, IdleFacts DEF Leaving
  <2> QED
    BY <1>2, <2>1, <2>2, WaitLocal
<1>3. ASSUME NEW s \in Steps, NEW w, Moves(t, s, w),
             s \in {"detach", "count", "delete"} =>
               /\ HoldsDevice(t, tx[t].request.device)
               /\ Live(Named(t)) =>
                    /\ tx[t].request.device \in orders[Named(t)].devices
                    /\ s = "delete" =>
                         orders[Named(t)].devices \subseteq {tx[t].request.device}
      PROVE  WaitInv'
  <2>1. /\ UNCHANGED <<rows, orders>> /\ \A u \in Others(t) : tx'[u] = tx[u]
        /\ tx'[t].request = tx[t].request /\ tx'[t].step = s
    BY <1>3 DEF Moves
  <2>2. Leaving(t)' => s \in {"detach", "count", "delete"}
    BY <2>1 DEF Leaving
  <2> QED
    BY <1>3, <2>1, <2>2, WaitLocal
<1>4. CASE UpdateDevice(t)
  <2>1. tx[t].step = "update" /\ Open(t) /\ UNCHANGED <<rows, orders>>
    BY <1>4 DEF UpdateDevice, Open
  <2>2. tx[t].request \in Requests /\ tx[t].request.kind = "update"
    BY <2>1 DEF IInv, UnderWay, StageFits
  <2>3. FirstStep(tx[t].request) \in {"commit", "check", "find"}
        /\ FirstStep(tx[t].request) \in Steps
    BY <2>2, FirstStepFits
  <2>4. CASE Goto(t, FirstStep(tx[t].request))
    <3>1. Moves(t, FirstStep(tx[t].request), tx[t].writes)
      BY <1>1, <2>1, <2>3, <2>4, GotoMoves
    <3> QED
      BY <1>3, <2>3, <3>1
  <2> QED
    BY <1>2, <1>4, <2>1, <2>4 DEF UpdateDevice
<1>5. CASE FindInspection(t)
  <2>1. tx[t].step = "find" /\ Open(t) /\ Kind(t) # "visit" /\ UNCHANGED <<rows, orders>>
    BY <1>5 DEF FindInspection, Open, Kind
  <2>2. HoldsDevice(t, tx[t].request.device)
    BY <2>1 DEF HoldsDevice
  <2>3. ASSUME NEW s \in {"commit", "check", "reschedule"}, Goto(t, s) PROVE WaitInv'
    <3>1. s \in Steps
      BY DEF Steps
    <3>2. Moves(t, s, tx[t].writes)
      BY <1>1, <2>1, <2>3, <3>1, GotoMoves
    <3> QED
      BY <1>3, <3>1, <3>2
  <2>4. ASSUME Goto(t, "detach"), tx[t].request.device \in orders[Named(t)].devices
        PROVE  WaitInv'
    <3>1. "detach" \in Steps
      BY DEF Steps
    <3>2. Moves(t, "detach", tx[t].writes)
      BY <1>1, <2>1, <2>4, <3>1, GotoMoves
    <3> QED
      BY <1>3, <2>2, <2>4, <3>1, <3>2
  <2> QED
    BY <1>2, <1>5, <2>1, <2>3, <2>4 DEF FindInspection, Named
<1>6. CASE DetachDevice(t) \/ CountDevices(t)
  <2>1. Leaving(t) /\ tx[t].step # "delete" /\ UNCHANGED <<rows, orders>>
    BY <1>6 DEF DetachDevice, CountDevices, Leaving
  <2>2. /\ HoldsDevice(t, tx[t].request.device)
        /\ Live(Named(t)) => tx[t].request.device \in orders[Named(t)].devices
    BY <2>1, LeavingFacts DEF WaitInv, DeviceStays
  <2>3. /\ {"detach"} \in SUBSET Writes
        /\ {"count", "check", "commit", "delete"} \subseteq Steps
        /\ AfterDetach(t) \in {"check", "commit"}
    BY DEF Steps, Writes, AfterDetach
  <2>4. CASE DetachDevice(t)
    <3>1. Moves(t, "count", tx[t].writes \cup {"detach"})
      BY <1>1, <2>1, <2>3, <2>4, WriteMoves DEF DetachDevice
    <3> QED
      BY <1>3, <2>2, <2>3, <3>1
  <2>5. CASE CountDevices(t)
    <3>1. PICK s \in {"delete", AfterDetach(t)} :
            /\ Goto(t, s)
            /\ s = "delete" /\ Live(Named(t)) =>
                 orders[Named(t)].devices \ {tx[t].request.device} = {}
      BY <2>3, <2>5 DEF CountDevices
    <3>2. s \in Steps /\ Moves(t, s, tx[t].writes)
      BY <1>1, <2>1, <2>3, <3>1, GotoMoves
    <3> QED
      BY <1>3, <2>2, <2>3, <3>1, <3>2
  <2> QED
    BY <1>6, <2>4, <2>5
<1>7. CASE EnsureNoOther(t)
  <2> DEFINE s == IF tx[t].request.op = "attach" THEN "attach" ELSE "insert"
  <2>1. s \in Steps /\ s \in {"attach", "insert"} /\ UNCHANGED <<rows, orders>>
    BY <1>7 DEF EnsureNoOther, Steps
  <2>2. CASE Goto(t, s)
    <3>1. Moves(t, s, tx[t].writes)
      BY <1>1, <2>1, <2>2, GotoMoves
    <3> HIDE DEF s
    <3> QED
      BY <1>3, <2>1, <3>1
  <2> QED
    BY <1>2, <1>7, <2>1, <2>2 DEF EnsureNoOther
<1>8. ASSUME NEW what \in SUBSET Writes, NEW s \in {"commit", "next", "check"},
             Write(t, what, s), UNCHANGED <<rows, orders>>
      PROVE  WaitInv'
  <2>1. s \in Steps
    BY DEF Steps
  <2>2. Moves(t, s, tx[t].writes \cup what)
    BY <1>1, <1>8, <2>1, WriteMoves
  <2> QED
    BY <1>3, <2>1, <2>2
<1>9. CASE \/ CreateInspection(t) \/ AttachDevice(t) \/ DeleteInspection(t)
           \/ RescheduleInspection(t) \/ CompleteServiceOrder(t) \/ CreateNextInspection(t)
  <2>1. /\ \A what \in {"create", "attach", "delete", "reschedule", "complete"} :
             {what} \in SUBSET Writes
        /\ AfterDetach(t) \in {"check", "commit"}
        /\ AfterComplete(tx[t].request) \in {"next", "commit"}
    BY DEF Writes, AfterDetach, AfterComplete
  <2>2. UNCHANGED <<rows, orders>>
    BY <1>9 DEF CreateInspection, AttachDevice, DeleteInspection, RescheduleInspection,
       CompleteServiceOrder, CreateNextInspection
  <2>3. \/ Rollback(t)
        \/ \E what \in SUBSET Writes, s \in {"commit", "next", "check"} : Write(t, what, s)
    BY <1>9, <2>1 DEF CreateInspection, AttachDevice, DeleteInspection, RescheduleInspection,
       CompleteServiceOrder, CreateNextInspection
  <2> QED
    BY <1>2, <1>8, <2>2, <2>3
<1> QED
  BY <1>4, <1>5, <1>6, <1>7, <1>9, WaitCommit DEF Progress

LEMMA WaitNext == IInv /\ WaitInv /\ [Next]_vars => WaitInv'
<1> SUFFICES ASSUME IInv, WaitInv, [Next]_vars PROVE WaitInv'
  OBVIOUS
<1>1. ASSUME NEW t \in Txs, BeginRequest(t) PROVE WaitInv'
  <2>1. PICK r \in Requests, o \in Orders \cup {NoOrder} :
          BeginUpdate(t, r, o) \/ BeginCreate(t, r, o) \/ BeginVisit(t, r, o)
    BY <1>1 DEF BeginRequest
  <2>2. UNCHANGED <<rows, orders>>
    BY <2>1 DEF BeginUpdate, BeginCreate, BeginVisit
  <2>3. PICK s \in {"update", "commit", "check", "find", "complete", "next"} :
          \E seen : Begin(t, r, seen, o, s)
    <3>1. /\ FirstStep(r) \in {"commit", "check", "find"}
          /\ AfterComplete(r) \in {"next", "commit"}
      BY DEF FirstStep, AfterComplete
    <3> QED
      BY <2>1, <3>1 DEF BeginUpdate, BeginCreate, BeginVisit
  <2>4. tx'[t].step = s /\ \A u \in Others(t) : tx'[u] = tx[u]
    BY <2>3 DEF Begin, IInv, TypeOK, Others
  <2>5. ~Leaving(t)'
    BY <2>4 DEF Leaving
  <2> QED
    BY <2>2, <2>4, <2>5, WaitLocal
<1>2. ASSUME NEW t \in Txs, Fail(t) PROVE WaitInv'
  <2>1. tx'[t] = Idle /\ \A u \in Others(t) : tx'[u] = tx[u]
    BY <1>2 DEF Fail, Rollback, IInv, TypeOK, Others
  <2>2. ~Leaving(t)' /\ UNCHANGED <<rows, orders>>
    BY <1>2, <2>1, IdleFacts DEF Leaving, Fail
  <2> QED
    BY <2>1, <2>2, WaitLocal
<1>3. CASE UNCHANGED vars
  BY <1>3 DEF vars, WaitInv, DeviceStays, OneDeletes, Leaving, Named, Live
<1> QED
  BY <1>1, <1>2, <1>3, WaitProgress DEF Next

(* Whoever is at an update holds no row yet; the other statements wait     *)
(* only for transactions past their last lock, or at a delete of the same  *)
(* inspection, and of these there is one.                                  *)
LEMMA WaitsEnd == IInv /\ WaitInv => NoDeadlock
<1> SUFFICES ASSUME IInv, WaitInv, NEW x \in Txs, Open(x)
             PROVE  \E t \in Txs : Open(t) /\ Granted(t)
  BY DEF NoDeadlock
<1> DEFINE Runs == {"find", "check", "insert", "count", "next", "commit"}
<1>1. ASSUME NEW t \in Txs, Open(t), tx[t].step \in Runs PROVE Granted(t)
  <2>1. LockedBy(tx[t].step) = {} /\ tx[t].step # "update"
    BY <1>1 DEF LockedBy
  <2> QED
    BY <2>1 DEF Granted, WaitsFor, Holds
<1>2. ASSUME NEW u \in Txs, NEW o, Holds(u, o, Writes)
      PROVE  /\ Open(u) /\ Named(u) = o /\ Live(o)
             /\ tx[u].step \in Runs \cup {"delete"}
             /\ Holds(u, o, {"delete", "reschedule", "complete"}) => tx[u].step \in Runs
  BY <1>2 DEF Holds, Writes, IInv, UnderWay, StageFits
<1>3. CASE \E t \in Txs : Open(t) /\ tx[t].step \in Runs
  BY <1>1, <1>3
<1>4. CASE \A t \in Txs : Open(t) => tx[t].step \notin Runs
  <2>1. ASSUME NEW t \in Txs, Open(t),
               tx[t].step \in {"attach", "detach", "reschedule", "complete"}
        PROVE  Granted(t)
    <3>1. /\ LockedBy(tx[t].step) \subseteq {"delete", "reschedule", "complete"}
          /\ {"delete", "reschedule", "complete"} \subseteq Writes
          /\ tx[t].step # "update"
      BY <2>1 DEF LockedBy, Writes
    <3>2. ASSUME NEW u \in Others(t), Holds(u, Named(t), LockedBy(tx[t].step))
          PROVE  FALSE
      <4>1. /\ u \in Txs /\ Holds(u, Named(t), Writes)
            /\ Holds(u, Named(t), {"delete", "reschedule", "complete"})
        BY <3>1, <3>2 DEF Others, Holds
      <4> QED
        BY <1>2, <1>4, <4>1
    <3> QED
      BY <3>1, <3>2 DEF Granted, WaitsFor
  <2>2. ASSUME NEW t \in Txs, Open(t), tx[t].step = "delete" PROVE Granted(t)
    <3>1. ASSUME NEW u \in Others(t), Holds(u, Named(t), Writes) PROVE FALSE
      <4>1. u \in Txs /\ u # t /\ Open(u) /\ Named(u) = Named(t) /\ Live(Named(t))
        BY <1>2, <3>1 DEF Others
      <4>2. tx[u].step = "delete"
        BY <1>2, <1>4, <3>1, <4>1
      <4> QED
        BY <2>2, <4>1, <4>2 DEF WaitInv, OneDeletes
    <3> QED
      BY <2>2, <3>1 DEF Granted, WaitsFor, LockedBy
  <2>3. ASSUME \A t \in Txs : Open(t) => tx[t].step = "update" PROVE Granted(x)
    <3>1. tx[x].step = "update"
      BY <2>3
    <3>2. LockedBy("update") = {}
      BY DEF LockedBy
    <3> QED
      BY <2>3, <3>1, <3>2 DEF Granted, WaitsFor, LocksDevice, Holds, Others
  <2>4. \A t \in Txs : Open(t) =>
          tx[t].step \in {"update", "attach", "detach", "delete", "reschedule", "complete"}
    BY <1>4 DEF IInv, TypeOK, Transactions, Steps, Open
  <2> QED
    BY <2>1, <2>2, <2>3, <2>4
<1> QED
  BY <1>3, <1>4

(* However many commands and visits are under way, one of them can always  *)
(* go on: nobody holds what an update waits for while at an update, other  *)
(* statements wait only for transactions past their last lock, and the     *)
(* count before a delete leaves no two deletes of one inspection.          *)
THEOREM CommandsNeverDeadlock == Spec => []NoDeadlock
<1>1. Init => WaitInv
  <2>1. Init => \A t \in Txs : tx[t].step = "idle"
    BY IdleFacts DEF Init
  <2> QED
    BY <2>1 DEF WaitInv, DeviceStays, OneDeletes, Leaving
<1> QED
  BY <1>1, WaitNext, WaitsEnd, Invariance, PTL DEF Spec

=============================================================================

---------------------------- MODULE VisitsProofs ----------------------------
(***************************************************************************)
(* Creating visits implements the ledger: whatever the number of keys,     *)
(* contents and calls, a key stores one visit with all its effects, and    *)
(* only that visit is ever confirmed.                                      *)
(***************************************************************************)
EXTENDS Visits, TLAPS

Holding  == {"complete", "next", "commit"}
Verified == {"replayNext", "reloadNext", "forms", "ok"}

(* What a transaction has written when it is about to take a step.         *)
ExpectedRows(k, b, step) ==
  LET people == Optional(b.customer, CustomerRow(k, b))
      things == people \cup Optional(b.device, DeviceRow(k, b))
      visit  == things \cup {Row("visits", k, k)}
      order  == visit \cup Optional(b.order, OrderRow(k, b))
  IN  CASE step = "device" -> people
        [] step \in {"order", "visit"} -> things
        [] step = "complete" -> visit
        [] step = "next" -> order
        [] step = "commit" -> order \cup Optional(b.next, NextRow(k))
        [] OTHER -> {}

StepFits(b, step) ==
  /\ step = "customer" => b.customer # None
  /\ step = "complete" => b.order # None
  /\ step = "next" => b.next # None

Sent(c) == call[c].step # "unsent"

WroteByStep ==
  \A c \in Calls : Sent(c) =>
    /\ call[c].wrote = ExpectedRows(Key(c), Body(c), call[c].step)
    /\ StepFits(Body(c), call[c].step)

(* The unique constraint on visits: the transaction that has inserted the  *)
(* visit of a key is the only one, and no visit of the key is committed.   *)
OneHolder ==
  \A c \in Calls : call[c].step \in Holding =>
    /\ ~Stored(Key(c))
    /\ \A d \in Calls \ {c} : call[d].step \in Holding => Key(d) # Key(c)

(* What a call goes on with, or has confirmed, is the visit it asked for.  *)
Recognised ==
  \A c \in Calls : call[c].step \in Verified =>
    Stored(Key(c)) /\ SameVisit(visits[Key(c)], Body(c))

IInv == TypeOK /\ WroteByStep /\ OneHolder /\ Recognised

-----------------------------------------------------------------------------
RowType == [table : Tables, key : Keys,
            id : Keys \cup Emails \cup Orders \cup (Keys \X NewDevices)]

SentCalls == [key : Keys, body : Bodies, step : Steps \ {"unsent"},
              wrote : SUBSET RowType, late : BOOLEAN]

(* A call that was sent is a record of its type.                           *)
LEMMA CallFacts ==
  ASSUME TypeOK, NEW c \in Calls, Sent(c)
  PROVE  /\ Key(c) \in Keys /\ Body(c) \in Bodies /\ Body(c) \in AllBodies
         /\ call[c] \in SentCalls
<1>1. call[c] \in CallRecords /\ call[c] # Unsent
  BY DEF TypeOK, Sent, Unsent
<1>2. call[c] \in SentCalls
  BY <1>1 DEF CallRecords, RowType, SentCalls
<1> QED
  BY <1>2, ConstantsAssumption DEF SentCalls, Key, Body

(* The rows a transaction writes are rows of the tables.                   *)
LEMMA ExpectedType ==
  ASSUME NEW k \in Keys, NEW b \in AllBodies, NEW step
  PROVE  ExpectedRows(k, b, step) \subseteq RowType
<1>1. /\ b.customer # None => CustomerRow(k, b) \in RowType
      /\ b.device # None => DeviceRow(k, b) \in RowType
      /\ b.order # None => OrderRow(k, b) \in RowType
      /\ NextRow(k) \in RowType
      /\ Row("visits", k, k) \in RowType
  BY DEF AllBodies, RowType, Tables, Row, CustomerRow, DeviceRow, OrderRow, NextRow
<1> QED
  BY <1>1 DEF ExpectedRows, Optional

(* Only past its insert a transaction holds the visit row of its key.      *)
LEMMA HoldsVisitRow ==
  ASSUME IInv, NEW c \in Calls, NEW d \in Calls, Sent(d), Sent(c),
         call[d].step \in Holding, Key(d) = Key(c)
  PROVE  VisitRow(c) \in call[d].wrote
<1>1. call[d].wrote = ExpectedRows(Key(d), Body(d), call[d].step)
  BY DEF IInv, WroteByStep
<1> QED
  BY <1>1 DEF ExpectedRows, VisitRow, Holding

(* Call c goes on to step s with rows w written; nothing else changes.     *)
Becomes(c, s, w) ==
  /\ UNCHANGED <<visits, rows, plan, touched, deleted>>
  /\ call' = [d \in Calls |-> call'[d]]
  /\ \A d \in Calls \ {c} : call'[d] = call[d]
  /\ call'[c].key = call[c].key /\ call'[c].body = call[c].body
  /\ call'[c].step = s /\ call'[c].wrote = w
  /\ call'[c] \in SentCalls

LEMMA GotoBecomes ==
  ASSUME TypeOK, NEW c \in Calls, Sent(c), NEW s \in Steps \ {"unsent"},
         Goto(c, s)
  PROVE  Becomes(c, s, call[c].wrote)
<1>1. call[c] \in SentCalls /\ call \in [Calls -> CallRecords]
  BY CallFacts DEF TypeOK
<1>2. PICK r \in SentCalls : r = call[c]
  BY <1>1
<1>3. PICK q : q = [r EXCEPT !.step = s]
  OBVIOUS
<1>4. /\ q.key = r.key /\ q.body = r.body /\ q.step = s /\ q.wrote = r.wrote
      /\ q \in SentCalls
  BY <1>3 DEF SentCalls
<1>5. call'[c] = q /\ \A d \in Calls \ {c} : call'[d] = call[d]
  BY <1>1, <1>2, <1>3 DEF Goto
<1>6. call' = [d \in Calls |-> call'[d]]
  BY <1>1 DEF Goto
<1> QED
  BY <1>2, <1>4, <1>5, <1>6 DEF Becomes, Goto

LEMMA RollbackBecomes ==
  ASSUME TypeOK, NEW c \in Calls, Sent(c), NEW s \in Steps \ {"unsent"},
         Rollback(c, s)
  PROVE  Becomes(c, s, {})
<1>1. call[c] \in SentCalls /\ call \in [Calls -> CallRecords]
  BY CallFacts DEF TypeOK
<1>2. PICK r \in SentCalls : r = call[c]
  BY <1>1
<1>3. PICK q : q = [r EXCEPT !.step = s, !.wrote = {}]
  OBVIOUS
<1>4. /\ q.key = r.key /\ q.body = r.body /\ q.step = s /\ q.wrote = {}
      /\ q \in SentCalls
  BY <1>3 DEF SentCalls
<1>5. call'[c] = q /\ \A d \in Calls \ {c} : call'[d] = call[d]
  BY <1>1, <1>2, <1>3 DEF Rollback
<1>6. call' = [d \in Calls |-> call'[d]]
  BY <1>1 DEF Rollback
<1> QED
  BY <1>2, <1>4, <1>5, <1>6 DEF Becomes, Rollback

LEMMA WriteBecomes ==
  ASSUME TypeOK, NEW c \in Calls, Sent(c), NEW s \in Steps \ {"unsent"},
         NEW row \in RowType, Write(c, row, s)
  PROVE  Becomes(c, s, call[c].wrote \cup {row})
<1>1. call[c] \in SentCalls /\ call \in [Calls -> CallRecords]
  BY CallFacts DEF TypeOK
<1>2. PICK r \in SentCalls : r = call[c]
  BY <1>1
<1>3. PICK q : q = [r EXCEPT !.step = s, !.wrote = r.wrote \cup {row}]
  OBVIOUS
<1>4. /\ q.key = r.key /\ q.body = r.body /\ q.step = s
      /\ q.wrote = r.wrote \cup {row}
      /\ q \in SentCalls
  BY <1>3 DEF SentCalls
<1>5. call'[c] = q /\ \A d \in Calls \ {c} : call'[d] = call[d]
  BY <1>1, <1>2, <1>3 DEF Write
<1>6. call' = [d \in Calls |-> call'[d]]
  BY <1>1 DEF Write
<1> QED
  BY <1>2, <1>4, <1>5, <1>6 DEF Becomes, Write

(* A step of one call that changes no table keeps the invariant when it    *)
(* leaves that call with what its next step expects.                       *)
LEMMA PrivateStep ==
  ASSUME IInv, NEW c \in Calls, Sent(c),
         NEW s \in Steps \ {"unsent"}, NEW w,
         Becomes(c, s, w),
         w = ExpectedRows(Key(c), Body(c), s), StepFits(Body(c), s),
         s \in Holding =>
           /\ ~Stored(Key(c))
           /\ \A d \in Calls \ {c} : call[d].step \in Holding => Key(d) # Key(c),
         s \in Verified => Stored(Key(c)) /\ SameVisit(visits[Key(c)], Body(c))
  PROVE  IInv'
<1>1. Key(c) \in Keys /\ Body(c) \in Bodies /\ Body(c) \in AllBodies /\ call[c] \in SentCalls
  BY CallFacts DEF IInv
<1>2. w \in SUBSET RowType
  BY <1>1, ExpectedType
<1>3. call \in [Calls -> CallRecords]
  BY DEF IInv, TypeOK
<1>4. /\ call'[c].key = call[c].key /\ call'[c].body = call[c].body
      /\ call'[c].step = s /\ call'[c].wrote = w
      /\ call'[c] \in SentCalls
  BY <1>1, <1>2 DEF Becomes, SentCalls
<1>5. /\ \A d \in Calls \ {c} : call'[d] = call[d]
      /\ call' = [d \in Calls |-> call'[d]]
      /\ UNCHANGED <<visits, rows, plan, touched, deleted>>
  BY DEF Becomes
<1>6. call'[c] \in CallRecords
  BY <1>4 DEF CallRecords, SentCalls, RowType
<1>7. TypeOK'
  BY <1>3, <1>5, <1>6 DEF IInv, TypeOK
<1>8. WroteByStep'
  BY <1>4, <1>5 DEF IInv, WroteByStep, Sent, Key, Body
<1>9. OneHolder'
  <2> SUFFICES ASSUME NEW x \in Calls, call'[x].step \in Holding
               PROVE  /\ ~Stored(Key(x))'
                      /\ \A d \in Calls \ {x} : call'[d].step \in Holding => Key(d)' # Key(x)'
    BY DEF OneHolder
  <2>1. \A d \in Calls : Key(d)' = Key(d)
    BY <1>4, <1>5 DEF Key
  <2>2. \A k : Stored(k)' <=> Stored(k)
    BY <1>5 DEF Stored
  <2>3. CASE x = c
    BY <1>4, <1>5, <2>1, <2>2, <2>3
  <2>4. CASE x # c
    BY <1>4, <1>5, <2>1, <2>2, <2>4 DEF IInv, OneHolder
  <2> QED
    BY <2>3, <2>4
<1>10. Recognised'
  BY <1>4, <1>5 DEF IInv, Recognised, Key, Body, Stored
<1> QED
  BY <1>7, <1>8, <1>9, <1>10 DEF IInv

-----------------------------------------------------------------------------
(* What the ledger sees: the confirmed requests, and nothing of a step     *)
(* that neither confirms nor stores.                                       *)
Confirmed == {<<Key(c), Body(c)>> : c \in {d \in Calls : At(d, "ok")}}

LEMMA PrivateStutter ==
  ASSUME IInv, NEW c \in Calls, NEW s, NEW w, Becomes(c, s, w),
         s # "ok", call[c].step # "ok"
  PROVE  UNCHANGED Ledger!vars
<1>1. \A d \in Calls : /\ At(d, "ok")' <=> At(d, "ok")
                       /\ Key(d)' = Key(d) /\ Body(d)' = Body(d)
  BY DEF Becomes, At, Key, Body
<1>2. Confirmed' = Confirmed
  BY <1>1 DEF Confirmed
<1>3. visits' = visits /\ rows' = rows
  BY DEF Becomes
<1> QED
  BY <1>2, <1>3 DEF Ledger!vars, Confirmed

(* One step of a call that is not its commit and not its confirmation.     *)
LEMMA InTransactionStep ==
  ASSUME IInv, NEW c \in Calls,
         \/ ReplayVisit(c) \/ ReplayNext(c) \/ ReloadVisit(c) \/ ReloadNext(c)
         \/ FindEmail(c) \/ CreateCustomer(c) \/ ResolveDevice(c) \/ FindOrder(c)
         \/ CreateVisit(c) \/ CompleteOrder(c) \/ CreateNextInspection(c) \/ Fail(c)
  PROVE  IInv' /\ UNCHANGED Ledger!vars
<1> DEFINE k == Key(c)
           b == Body(c)
           Fits(s, w) ==
             /\ Becomes(c, s, w)
             /\ w = ExpectedRows(k, b, s) /\ StepFits(b, s)
             /\ s \in Holding =>
                  /\ ~Stored(k)
                  /\ \A d \in Calls \ {c} : call[d].step \in Holding => Key(d) # k
             /\ s \in Verified => Stored(k) /\ SameVisit(visits[k], b)
<1> USE DEF IInv
<1>1. Sent(c) /\ call[c].step # "ok"
  BY DEF Sent, ReplayVisit, ReplayNext, ReloadVisit, ReloadNext, FindEmail, CreateCustomer,
         ResolveDevice, FindOrder, CreateVisit, CompleteOrder, CreateNextInspection, Fail,
         At, UnderWay, InTransaction, AfterTransaction
<1>2. k \in Keys /\ b \in AllBodies
  BY <1>1, CallFacts
<1>3. call[c].wrote = ExpectedRows(k, b, call[c].step) /\ StepFits(b, call[c].step)
  BY <1>1 DEF WroteByStep
<1>4. \A s \in Steps \ {"unsent"} : Goto(c, s) => Becomes(c, s, call[c].wrote)
  BY <1>1, GotoBecomes
<1>5. \A s \in Steps \ {"unsent"} : Rollback(c, s) => Becomes(c, s, {})
  BY <1>1, RollbackBecomes
<1>6. \A s \in Steps \ {"unsent"}, row \in RowType :
        Write(c, row, s) => Becomes(c, s, call[c].wrote \cup {row})
  BY <1>1, WriteBecomes
<1>7. /\ b.customer # None => CustomerRow(k, b) \in RowType
      /\ b.device # None => DeviceRow(k, b) \in RowType
      /\ b.order # None => OrderRow(k, b) \in RowType
      /\ NextRow(k) \in RowType
      /\ VisitRow(c) \in RowType
  BY <1>2 DEF AllBodies, RowType, Tables, Row, CustomerRow, DeviceRow, OrderRow, NextRow, VisitRow
<1>8. SUFFICES \E s \in Steps \ {"unsent", "ok"} : \E w : Fits(s, w)
  BY <1>1, PrivateStep, PrivateStutter
<1>9. \A s \in {"reload", "taken", "missing", "error", "reused"} :
        Becomes(c, s, {}) => Fits(s, {})
  BY DEF ExpectedRows, StepFits, Holding, Verified
<1>10. {"reload", "taken", "missing", "error", "reused"} \subseteq Steps \ {"unsent", "ok"}
  BY DEF Steps, InTransaction, AfterTransaction, Answers
<1>11. ASSUME call[c].step \in Steps \ ({"device", "order", "visit"} \cup Holding)
       PROVE  call[c].wrote = {}
  BY <1>3, <1>11 DEF ExpectedRows, Holding
<1>12. CASE ReplayVisit(c)
  <2>1. call[c].wrote = {}
    BY <1>11, <1>12 DEF ReplayVisit, At, Steps, InTransaction, Holding
  <2>2. CASE Goto(c, "email")
    <3>1. Fits("email", {})
      BY <1>4, <2>1, <2>2 DEF Steps, InTransaction, ExpectedRows, StepFits, Holding, Verified
    <3> QED
      BY <3>1 DEF Steps, InTransaction
  <2>3. CASE Stored(k) /\ Replays(k, b) /\ Goto(c, "replayNext")
    <3>1. Fits("replayNext", {})
      BY <1>4, <2>1, <2>3
         DEF Steps, InTransaction, ExpectedRows, StepFits, Holding, Verified, Replays
    <3> QED
      BY <3>1 DEF Steps, InTransaction
  <2>4. CASE Goto(c, "reused")
    BY <1>4, <1>9, <1>10, <2>1, <2>4
  <2> QED
    BY <1>12, <2>2, <2>3, <2>4 DEF ReplayVisit, FindReplay
<1>13. CASE ReloadVisit(c)
  <2>1. call[c].wrote = {}
    BY <1>11, <1>13 DEF ReloadVisit, At, Steps, AfterTransaction, Holding
  <2>2. CASE Stored(k) /\ Replays(k, b) /\ Goto(c, "reloadNext")
    <3>1. Fits("reloadNext", {})
      BY <1>4, <2>1, <2>2
         DEF Steps, AfterTransaction, ExpectedRows, StepFits, Holding, Verified, Replays
    <3> QED
      BY <3>1 DEF Steps, AfterTransaction
  <2>3. CASE \E s \in {"taken", "reused"} : Goto(c, s)
    BY <1>4, <1>9, <1>10, <2>1, <2>3
  <2> QED
    BY <1>13, <2>2, <2>3 DEF ReloadVisit, FindReplay
<1>14. CASE ReplayNext(c) \/ ReloadNext(c)
  <2>1. call[c].wrote = {} /\ call[c].step \in Verified
    BY <1>11, <1>14 DEF ReplayNext, ReloadNext, At, Steps, InTransaction, AfterTransaction,
       Holding, Verified
  <2>2. CASE Goto(c, "forms")
    <3>1. Fits("forms", {})
      BY <1>4, <2>1, <2>2
         DEF Steps, AfterTransaction, ExpectedRows, StepFits, Holding, Verified, Recognised
    <3> QED
      BY <3>1 DEF Steps, AfterTransaction
  <2>3. CASE Goto(c, "reused")
    BY <1>4, <1>9, <1>10, <2>1, <2>3
  <2> QED
    BY <1>14, <2>2, <2>3 DEF ReplayNext, ReloadNext, CompareNext
<1>15. CASE FindEmail(c)
  <2>1. call[c].wrote = {}
    BY <1>11, <1>15 DEF FindEmail, At, Steps, InTransaction, Holding
  <2>2. CASE b.customer = None /\ Goto(c, "device")
    <3>1. Fits("device", {})
      BY <1>4, <2>1, <2>2
         DEF Steps, InTransaction, ExpectedRows, StepFits, Holding, Verified, Optional
    <3> QED
      BY <3>1 DEF Steps, InTransaction
  <2>3. CASE b.customer # None /\ Goto(c, "customer")
    <3>1. Fits("customer", {})
      BY <1>4, <2>1, <2>3 DEF Steps, InTransaction, ExpectedRows, StepFits, Holding, Verified
    <3> QED
      BY <3>1 DEF Steps, InTransaction
  <2>4. CASE Goto(c, "taken")
    BY <1>4, <1>9, <1>10, <2>1, <2>4
  <2> QED
    BY <1>15, <2>2, <2>3, <2>4 DEF FindEmail
<1>16. \A s, row : Insert(c, row, s) => Rollback(c, "reload") \/ Write(c, row, s)
  BY DEF Insert
<1>17. Rollback(c, "reload") => \E s \in Steps \ {"unsent", "ok"} : \E w : Fits(s, w)
  BY <1>5, <1>9, <1>10
<1>18. CASE CreateCustomer(c)
  <2>1. call[c].wrote = {} /\ b.customer # None
    BY <1>3, <1>11, <1>18 DEF CreateCustomer, At, Steps, InTransaction, Holding, StepFits
  <2>2. CASE Write(c, CustomerRow(k, b), "device")
    <3>1. Fits("device", {CustomerRow(k, b)})
      BY <1>6, <1>7, <2>1, <2>2
         DEF Steps, InTransaction, ExpectedRows, StepFits, Holding, Verified, Optional
    <3> QED
      BY <3>1 DEF Steps, InTransaction
  <2> QED
    BY <1>16, <1>17, <1>18, <2>2 DEF CreateCustomer
<1>19. CASE ResolveDevice(c)
  <2> DEFINE step == IF b.order = None THEN "visit" ELSE "order"
  <2>1. call[c].wrote = Optional(b.customer, CustomerRow(k, b))
    BY <1>3, <1>19 DEF ResolveDevice, At, ExpectedRows
  <2>2. step \in {"order", "visit"} /\ step \in Steps \ {"unsent", "ok"}
    BY DEF Steps, InTransaction
  <2>3. \A w : /\ Becomes(c, step, w)
             /\ w = call[c].wrote \cup Optional(b.device, DeviceRow(k, b))
             => Fits(step, w)
    BY <2>1, <2>2 DEF ExpectedRows, StepFits, Holding, Verified
  <2>4. CASE b.device = None /\ Goto(c, step)
    <3>1. Becomes(c, step, call[c].wrote)
      BY <1>4, <2>2, <2>4
    <3>2. call[c].wrote = call[c].wrote \cup Optional(b.device, DeviceRow(k, b))
      BY <2>4 DEF Optional
    <3> QED
      BY <2>2, <2>3, <3>1, <3>2
  <2>5. CASE b.device # None /\ Write(c, DeviceRow(k, b), step)
    <3>1. Becomes(c, step, call[c].wrote \cup {DeviceRow(k, b)})
      BY <1>6, <1>7, <2>2, <2>5
    <3>2. Optional(b.device, DeviceRow(k, b)) = {DeviceRow(k, b)}
      BY <2>5 DEF Optional
    <3> QED
      BY <2>2, <2>3, <3>1, <3>2
  <2> QED
    BY <1>16, <1>17, <1>19, <2>4, <2>5 DEF ResolveDevice
<1>20. CASE FindOrder(c)
  <2>1. call[c].wrote = ExpectedRows(k, b, "visit")
    BY <1>3, <1>20 DEF FindOrder, At, ExpectedRows
  <2>2. CASE Goto(c, "visit")
    <3>1. Fits("visit", call[c].wrote)
      BY <1>4, <2>1, <2>2 DEF Steps, InTransaction, StepFits, Holding, Verified
    <3> QED
      BY <3>1 DEF Steps, InTransaction
  <2>3. CASE Rollback(c, "missing")
    BY <1>5, <1>9, <1>10, <2>3
  <2> QED
    BY <1>20, <2>2, <2>3 DEF FindOrder
<1>21. AfterComplete(c) \in {"next", "commit"} /\ StepFits(b, AfterComplete(c))
  BY DEF AfterComplete, StepFits
<1>22. CASE CreateVisit(c)
  <2> DEFINE step == IF b.order = None THEN AfterComplete(c) ELSE "complete"
  <2>1. call[c].wrote = Optional(b.customer, CustomerRow(k, b))
                          \cup Optional(b.device, DeviceRow(k, b))
    BY <1>3, <1>22 DEF CreateVisit, At, ExpectedRows
  <2>2. step \in Holding /\ step \in Steps \ {"unsent", "ok"} /\ StepFits(b, step)
    BY <1>21 DEF Steps, InTransaction, Holding, StepFits
  <2>3. CASE Rollback(c, "error")
    BY <1>5, <1>9, <1>10, <2>3
  <2>4. CASE Insert(c, VisitRow(c), step)
    <3>1. CASE Write(c, VisitRow(c), step)
      <4>1. ~Stored(k)
        <5>1. VisitRow(c).table = "visits" /\ VisitRow(c).id = k
          BY DEF VisitRow, Row
        <5>2. CASE Committed(VisitRow(c))
          <6>1. Rollback(c, "reload")
            BY <2>4, <5>2 DEF Insert
          <6>2. call'[c].step = "reload"
            BY <1>5, <1>10, <6>1 DEF Becomes
          <6>3. call'[c].step = step
            BY <1>6, <1>7, <2>2, <3>1 DEF Becomes
          <6> QED
            BY <2>2, <6>2, <6>3 DEF Holding
        <5> QED
          BY <5>1, <5>2 DEF Committed
      <4>2. ASSUME NEW d \in Calls \ {c}, call[d].step \in Holding
            PROVE  Key(d) # k
        <5>1. SUFFICES ASSUME Key(d) = k PROVE FALSE
          OBVIOUS
        <5>2. VisitRow(c) \in call[d].wrote
          BY <1>1, <4>2, <5>1, HoldsVisitRow DEF Sent, Holding
        <5>3. WrittenBySomeoneElse(c, VisitRow(c))
          BY <5>2 DEF WrittenBySomeoneElse, Clash
        <5>4. RowsToWrite(c) = {VisitRow(c)}
          BY <1>22 DEF CreateVisit, RowsToWrite, At
        <5> QED
          BY <2>4, <5>3, <5>4 DEF Insert, Waits
      <4>3. Becomes(c, step, call[c].wrote \cup {VisitRow(c)})
        BY <1>6, <1>7, <2>2, <3>1
      <4>4. call[c].wrote \cup {VisitRow(c)} = ExpectedRows(k, b, step)
        <5>1. CASE step = "complete"
          BY <2>1, <5>1 DEF ExpectedRows, VisitRow
        <5>2. CASE step = "next" /\ b.order = None
          BY <2>1, <5>2 DEF ExpectedRows, VisitRow, Optional
        <5>3. CASE step = "commit" /\ b.order = None /\ b.next = None
          BY <2>1, <5>3 DEF ExpectedRows, VisitRow, Optional
        <5> QED
          BY <1>21, <5>1, <5>2, <5>3 DEF AfterComplete
      <4>5. Fits(step, call[c].wrote \cup {VisitRow(c)})
        BY <2>2, <4>1, <4>2, <4>3, <4>4 DEF Holding, Verified
      <4> QED
        BY <2>2, <4>5
    <3> QED
      BY <1>16, <1>17, <2>4, <3>1
  <2> QED
    BY <1>22, <2>3, <2>4 DEF CreateVisit
<1>23. ASSUME call[c].step \in Holding
       PROVE  /\ ~Stored(k)
              /\ \A d \in Calls \ {c} : call[d].step \in Holding => Key(d) # k
  BY <1>23 DEF OneHolder
<1>24. CASE CompleteOrder(c)
  <2>1. call[c].wrote = ExpectedRows(k, b, "complete") /\ call[c].step \in Holding
        /\ b.order # None
    BY <1>3, <1>24 DEF CompleteOrder, At, Holding, StepFits
  <2>2. AfterComplete(c) \in Steps \ {"unsent", "ok"} /\ AfterComplete(c) \in Holding
    BY <1>21 DEF Steps, InTransaction, Holding
  <2>3. Becomes(c, AfterComplete(c), call[c].wrote \cup {OrderRow(k, b)})
    BY <1>6, <1>7, <1>24, <2>1, <2>2 DEF CompleteOrder
  <2>4. call[c].wrote \cup {OrderRow(k, b)} = ExpectedRows(k, b, AfterComplete(c))
    <3>1. CASE AfterComplete(c) = "next"
      BY <2>1, <3>1 DEF ExpectedRows, Optional
    <3>2. CASE AfterComplete(c) = "commit" /\ b.next = None
      BY <2>1, <3>2 DEF ExpectedRows, Optional
    <3> QED
      BY <3>1, <3>2 DEF AfterComplete
  <2>5. Fits(AfterComplete(c), call[c].wrote \cup {OrderRow(k, b)})
    BY <1>21, <1>23, <2>1, <2>3, <2>4 DEF Verified
  <2> QED
    BY <2>2, <2>5
<1>25. CASE CreateNextInspection(c)
  <2>1. call[c].wrote = ExpectedRows(k, b, "next") /\ call[c].step \in Holding
        /\ b.next # None
    BY <1>3, <1>25 DEF CreateNextInspection, At, Holding, StepFits
  <2>2. CASE Write(c, NextRow(k), "commit")
    <3>1. call[c].wrote \cup {NextRow(k)} = ExpectedRows(k, b, "commit")
      BY <2>1 DEF ExpectedRows, Optional
    <3>2. Fits("commit", call[c].wrote \cup {NextRow(k)})
      BY <1>6, <1>7, <1>23, <2>1, <2>2, <3>1
         DEF Steps, InTransaction, StepFits, Verified
    <3> QED
      BY <3>2 DEF Steps, InTransaction
  <2> QED
    BY <1>16, <1>17, <1>25, <2>2 DEF CreateNextInspection
<1>26. CASE Fail(c)
  BY <1>5, <1>9, <1>10, <1>26 DEF Fail
<1> QED
  BY <1>12, <1>13, <1>14, <1>15, <1>18, <1>19, <1>20, <1>22, <1>24, <1>25, <1>26

(* The upload forms are signed: the client learns of its visit.            *)
LEMMA ConfirmStep ==
  ASSUME IInv, NEW c \in Calls, SignForms(c)
  PROVE  IInv' /\ Ledger!Confirm(Key(c), Body(c))
<1> USE DEF IInv
<1>1. Sent(c) /\ call[c].step = "forms"
  BY DEF Sent, SignForms, At
<1>2. call[c].wrote = {} /\ Stored(Key(c)) /\ SameVisit(visits[Key(c)], Body(c))
  BY <1>1 DEF WroteByStep, ExpectedRows, Recognised, Verified
<1>3. "ok" \in Steps \ {"unsent"}
  BY DEF Steps, Answers
<1>4. Becomes(c, "ok", {})
  BY <1>1, <1>2, <1>3, GotoBecomes DEF SignForms
<1>5. IInv'
  BY <1>1, <1>2, <1>3, <1>4, PrivateStep
     DEF ExpectedRows, StepFits, Holding, Verified
<1>6. \A d \in Calls : /\ At(d, "ok")' <=> (At(d, "ok") \/ d = c)
                       /\ Key(d)' = Key(d) /\ Body(d)' = Body(d)
  BY <1>4 DEF Becomes, At, Key, Body
<1>7. Confirmed' = Confirmed \cup {<<Key(c), Body(c)>>}
  BY <1>6 DEF Confirmed
<1>8. visits' = visits /\ rows' = rows
  BY <1>4 DEF Becomes
<1> QED
  BY <1>2, <1>5, <1>7, <1>8 DEF Ledger!Confirm, Confirmed, Stored

(* The commit publishes the visit and everything that belongs to it.       *)
LEMMA CommitStep ==
  ASSUME IInv, NEW c \in Calls, Commit(c)
  PROVE  IInv' /\ Ledger!Store(Key(c), Body(c))
<1> DEFINE k == Key(c)
           b == Body(c)
<1> USE DEF IInv
<1>1. Sent(c) /\ call[c].step = "commit"
  BY DEF Sent, Commit, At
<1>2. k \in Keys /\ b \in Bodies /\ b \in AllBodies /\ call[c] \in SentCalls
  BY <1>1, CallFacts
<1>3. ~Stored(k) /\ \A d \in Calls \ {c} : call[d].step \in Holding => Key(d) # k
  BY <1>1 DEF OneHolder, Holding
<1>4. call[c].wrote = EffectsOf(k, b) \cup {VisitRow(c)}
  BY <1>1 DEF WroteByStep, ExpectedRows, EffectsOf, VisitRow
<1>5. \A w \in EffectsOf(k, b) : w.table \in Tables \ {"visits"} /\ w.key = k
  BY DEF EffectsOf, Optional, CustomerRow, DeviceRow, OrderRow, NextRow, Row, Tables
<1>6. call[c].wrote \ {VisitRow(c)} = EffectsOf(k, b)
  <2>1. VisitRow(c).table = "visits"
    BY DEF VisitRow, Row
  <2> QED
    BY <1>4, <1>5, <2>1
<1>7. call \in [Calls -> CallRecords] /\ visits \in [Keys -> Bodies \cup {NoVisit}]
  BY DEF TypeOK
<1>8. /\ \A d \in Calls \ {c} : call'[d] = call[d]
      /\ call' = [d \in Calls |-> call'[d]]
      /\ call'[c] \in SentCalls
      /\ call'[c].key = k /\ call'[c].body = b
      /\ call'[c].step = "forms" /\ call'[c].wrote = {}
  <2>1. PICK r \in SentCalls : r = call[c]
    BY <1>2
  <2>2. PICK q : q = [r EXCEPT !.step = "forms", !.wrote = {}]
    OBVIOUS
  <2>3. "forms" \in Steps \ {"unsent"}
    BY DEF Steps, AfterTransaction
  <2>4. /\ q.key = r.key /\ q.body = r.body /\ q.step = "forms" /\ q.wrote = {}
        /\ q \in SentCalls
    BY <2>2, <2>3 DEF SentCalls
  <2>5. call'[c] = q /\ \A d \in Calls \ {c} : call'[d] = call[d]
    BY <1>7, <2>1, <2>2 DEF Commit
  <2>6. call' = [d \in Calls |-> call'[d]]
    BY <1>7 DEF Commit
  <2> QED
    BY <2>1, <2>4, <2>5, <2>6 DEF Key, Body
<1>9. visits' = [visits EXCEPT ![k] = b] /\ rows' = rows \cup EffectsOf(k, b)
  BY <1>6 DEF Commit
<1>10. /\ b # NoVisit /\ b.next \in Dates \cup {None}
       /\ \A j \in Keys \ {k} : visits'[j] = visits[j]
       /\ visits'[k] = b
  BY <1>2, <1>7, <1>9, ConstantsAssumption DEF AllBodies
<1>11. TypeOK'
  <2>1. visits' \in [Keys -> Bodies \cup {NoVisit}]
    BY <1>2, <1>7, <1>9
  <2>2. \A w \in rows' : w.table \in Tables \ {"visits"} /\ w.key \in Keys \cup {Office}
    BY <1>2, <1>5, <1>9 DEF TypeOK
  <2>3. plan' \in [Keys -> Dates \cup {None}]
    BY <1>2, <1>10 DEF Commit, TypeOK, PlannedFor
  <2>4. call'[c] \in CallRecords
    BY <1>8 DEF SentCalls, CallRecords, RowType
  <2>5. call' \in [Calls -> CallRecords]
    BY <1>7, <1>8, <2>4
  <2>6. touched' = touched /\ deleted' = deleted
    BY DEF Commit
  <2> QED
    BY <2>1, <2>2, <2>3, <2>5, <2>6 DEF TypeOK
<1>12. WroteByStep'
  BY <1>8 DEF WroteByStep, Sent, Key, Body, ExpectedRows, StepFits
<1>13. OneHolder'
  <2> SUFFICES ASSUME NEW x \in Calls, call'[x].step \in Holding
               PROVE  /\ ~Stored(Key(x))'
                      /\ \A d \in Calls \ {x} : call'[d].step \in Holding => Key(d)' # Key(x)'
    BY DEF OneHolder
  <2>1. x # c /\ call'[x] = call[x]
    BY <1>8 DEF Holding
  <2>2. Key(x) # k /\ ~Stored(Key(x)) /\ Key(x)' = Key(x) /\ Key(x) \in Keys
    BY <1>3, <2>1, CallFacts DEF OneHolder, Key, Sent, Holding
  <2>3. ~Stored(Key(x))'
    BY <1>10, <2>2 DEF Stored
  <2>4. \A d \in Calls \ {x} : call'[d].step \in Holding => Key(d)' # Key(x)'
    BY <1>8, <2>1 DEF OneHolder, Holding, Key
  <2> QED
    BY <2>3, <2>4
<1>14. Recognised'
  <2> SUFFICES ASSUME NEW x \in Calls, call'[x].step \in Verified
               PROVE  Stored(Key(x))' /\ SameVisit(visits[Key(x)], Body(x))'
    BY DEF Recognised
  <2>1. CASE x = c
    BY <1>8, <1>10, <2>1 DEF Stored, SameVisit, VisitPart, Key, Body
  <2>2. CASE x # c
    <3>1. call'[x] = call[x] /\ Stored(Key(x)) /\ SameVisit(visits[Key(x)], Body(x))
      BY <1>8, <2>2 DEF Recognised
    <3>2. Key(x) # k /\ Key(x) \in Keys
      BY <1>3, <1>8, <2>2, <3>1, CallFacts DEF Sent, Verified
    <3>3. visits'[Key(x)] = visits[Key(x)]
      BY <1>10, <3>2
    <3> QED
      BY <3>1, <3>3 DEF Stored, SameVisit, VisitPart, Key, Body
  <2> QED
    BY <2>1, <2>2
<1>15. Confirmed' = Confirmed
  <2>1. \A d \in Calls : /\ At(d, "ok")' <=> At(d, "ok")
                         /\ Key(d)' = Key(d) /\ Body(d)' = Body(d)
    BY <1>1, <1>8 DEF At, Key, Body
  <2> QED
    BY <2>1 DEF Confirmed
<1>16. {w \in rows' : w.key # Office} = {w \in rows : w.key # Office} \cup EffectsOf(k, b)
  BY <1>2, <1>5, <1>9, ConstantsAssumption
<1> QED
  BY <1>3, <1>9, <1>11, <1>12, <1>13, <1>14, <1>15, <1>16 DEF Ledger!Store, Confirmed, Stored

(* A call that starts has written nothing and claims nothing.              *)
LEMMA SendStep ==
  ASSUME IInv, NEW c \in Calls, NEW k \in Keys, NEW b \in Bodies, Send(c, k, b)
  PROVE  IInv' /\ UNCHANGED Ledger!vars
<1> USE DEF IInv
<1>1. call \in [Calls -> CallRecords]
  BY DEF TypeOK
<1>2. call'[c] = [key |-> k, body |-> b, step |-> "replay", wrote |-> {}, late |-> Stored(k)]
  BY <1>1 DEF Send
<1>3. /\ \A d \in Calls \ {c} : call'[d] = call[d]
      /\ call' = [d \in Calls |-> call'[d]]
  BY <1>1 DEF Send
<1>4. Stored(k) \in BOOLEAN /\ "replay" \in Steps \ {"unsent"}
  BY DEF Stored, Steps, InTransaction
<1>5. call'[c] \in CallRecords
  BY <1>2, <1>4 DEF CallRecords
<1>6. UNCHANGED <<visits, rows, plan, touched, deleted>>
  BY DEF Send
<1>7. TypeOK'
  BY <1>1, <1>3, <1>5, <1>6 DEF TypeOK
<1>8. WroteByStep'
  <2>1. call'[c].wrote = ExpectedRows(k, b, "replay") /\ StepFits(b, "replay")
    BY <1>2 DEF ExpectedRows, StepFits
  <2> QED
    BY <1>2, <1>3, <2>1 DEF WroteByStep, Sent, Key, Body
<1>9. OneHolder'
  BY <1>2, <1>3, <1>6 DEF OneHolder, Holding, Key, Stored
<1>10. Recognised'
  BY <1>2, <1>3, <1>6 DEF Recognised, Verified, Key, Body, Stored
<1>11. \A d \in Calls : At(d, "ok")' <=> At(d, "ok")
  BY <1>2, <1>3 DEF At, Send
<1>12. \A d \in Calls : At(d, "ok") => Key(d)' = Key(d) /\ Body(d)' = Body(d)
  BY <1>3 DEF At, Send, Key, Body
<1>13. Confirmed' = Confirmed
  BY <1>11, <1>12 DEF Confirmed
<1> QED
  BY <1>6, <1>7, <1>8, <1>9, <1>10, <1>13 DEF Ledger!vars, Confirmed

(* What others change is none of the ledger's business.                    *)
LEMMA EnvironmentStep ==
  ASSUME IInv, Environment
  PROVE  IInv' /\ UNCHANGED Ledger!vars
<1> USE DEF IInv
<1>1. call' = call /\ visits' = visits
  BY DEF Environment, OfficeCustomer, OfficePlan, FileEvent, OfficeDelete
<1>2. WroteByStep' /\ OneHolder' /\ Recognised'
  BY <1>1 DEF WroteByStep, OneHolder, Recognised, Sent, Key, Body, Stored
<1>3. /\ \A w \in rows' : w.table \in Tables \ {"visits"} /\ w.key \in Keys \cup {Office}
      /\ {w \in rows' : w.key # Office} = {w \in rows : w.key # Office}
  <2>1. CASE rows' = rows
    BY <2>1 DEF TypeOK
  <2>2. ASSUME NEW e \in Emails, OfficeCustomer(e)
        PROVE  <1>3!:
    BY <2>2 DEF OfficeCustomer, TypeOK, Row, Tables
  <2> QED
    BY <2>1, <2>2 DEF Environment, OfficePlan, FileEvent, OfficeDelete
<1>4. /\ plan' \in [Keys -> Dates \cup {None}]
      /\ touched' \in [Keys -> SUBSET {"plan", "file"}]
      /\ deleted' \in SUBSET Orders
  BY DEF Environment, OfficeCustomer, OfficePlan, FileEvent, OfficeDelete, TypeOK
<1>5. TypeOK'
  BY <1>1, <1>3, <1>4 DEF TypeOK
<1>6. Confirmed' = Confirmed
  BY <1>1 DEF Confirmed, At, Key, Body
<1> QED
  BY <1>1, <1>2, <1>3, <1>5, <1>6 DEF Ledger!vars, Confirmed

LEMMA InitStep == Init => IInv /\ Ledger!Init
<1> SUFFICES ASSUME Init PROVE IInv /\ Ledger!Init
  OBVIOUS
<1>1. \A c \in Calls : call[c] = Unsent /\ call[c].step = "unsent"
  BY DEF Init, Unsent
<1>2. TypeOK
  BY DEF Init, TypeOK, CallRecords
<1>3. WroteByStep /\ OneHolder /\ Recognised
  BY <1>1 DEF WroteByStep, OneHolder, Recognised, Sent, Holding, Verified
<1>4. Confirmed = {}
  BY <1>1 DEF Confirmed, At
<1> QED
  BY <1>2, <1>3, <1>4 DEF IInv, Init, Ledger!Init, Confirmed

(* One step: the invariant is kept, and the ledger makes a step or none.   *)
LEMMA NextStep ==
  IInv /\ [Next]_vars => IInv' /\ [Ledger!Next]_Ledger!vars
<1> SUFFICES ASSUME IInv, [Next]_vars PROVE IInv' /\ [Ledger!Next]_Ledger!vars
  OBVIOUS
<1>1. CASE UNCHANGED vars
  BY <1>1 DEF vars, IInv, TypeOK, WroteByStep, OneHolder, Recognised, Sent, Key, Body, Stored,
     Ledger!vars, At
<1>2. CASE Environment
  BY <1>2, EnvironmentStep
<1>3. ASSUME NEW c \in Calls, NEW k \in Keys, NEW b \in Bodies, Send(c, k, b)
      PROVE  IInv' /\ [Ledger!Next]_Ledger!vars
  BY <1>3, SendStep
<1>4. ASSUME NEW c \in Calls, Commit(c)
      PROVE  IInv' /\ [Ledger!Next]_Ledger!vars
  <2>1. Key(c) \in Keys /\ Body(c) \in Bodies
    BY <1>4, CallFacts DEF IInv, Commit, At, Sent
  <2>2. IInv' /\ Ledger!Store(Key(c), Body(c))
    BY <1>4, CommitStep
  <2>3. \E k \in Keys, b \in Bodies : Ledger!Store(k, b)
    <3>1. PICK k \in Keys, b \in Bodies : k = Key(c) /\ b = Body(c)
      BY <2>1
    <3>2. Ledger!Store(k, b)
      BY <2>2, <3>1 DEF Ledger!Store
    <3> QED
      BY <3>2
  <2>4. Ledger!Next
    BY <2>3 DEF Ledger!Next
  <2> QED
    BY <2>2, <2>4
<1>5. ASSUME NEW c \in Calls, SignForms(c)
      PROVE  IInv' /\ [Ledger!Next]_Ledger!vars
  <2>1. Key(c) \in Keys /\ Body(c) \in Bodies
    BY <1>5, CallFacts DEF IInv, SignForms, At, Sent
  <2> QED
    BY <1>5, <2>1, ConfirmStep DEF Ledger!Next
<1>6. ASSUME NEW c \in Calls, Progress(c) \/ Fail(c), ~Commit(c), ~SignForms(c)
      PROVE  IInv' /\ [Ledger!Next]_Ledger!vars
  BY <1>6, InTransactionStep DEF Progress
<1> QED
  BY <1>1, <1>2, <1>3, <1>4, <1>5, <1>6 DEF Next, Progress

(* Every reachable state satisfies the inductive invariant.                *)
THEOREM Invariance == Spec => []IInv
<1> QED
  BY InitStep, NextStep, PTL DEF Spec

(* The state stays in its types, for any number of keys and calls.         *)
THEOREM TypeCorrect == Spec => []TypeOK
<1>1. IInv => TypeOK
  BY DEF IInv
<1> QED
  BY <1>1, Invariance, PTL

(* Creating visits implements the ledger: a key stores one visit, whole or *)
(* not at all, and no client is told of a visit that is not the stored one.*)
THEOREM LedgerImplemented == Spec => ImplementsLedger
<1> QED
  BY InitStep, NextStep, Invariance, PTL DEF Spec, ImplementsLedger, Ledger!Spec

-----------------------------------------------------------------------------
(* What the answers of a call rest on.                                     *)

(* A row that was not written by the office belongs to the visit that is   *)
(* stored under its key.                                                   *)
RowsOfVisits ==
  \A w \in rows :
    \/ w.key = Office /\ w.table = "customers"
    \/ w.key \in Keys /\ Stored(w.key) /\ w \in EffectsOf(w.key, visits[w.key])

(* The next inspection of a visit is as the visit asked for it, unless     *)
(* others have changed it.                                                 *)
PlanKept ==
  \A k \in Keys : Stored(k) => plan[k] = visits[k].next \/ "plan" \in touched[k]

LateSteps == {"replay", "replayNext", "forms", "ok", "reused", "error"}

(* A broken unique constraint is either the visit's own or the address's.  *)
Collided(k, b) == Stored(k) \/ Committed(CustomerRow(k, b))
Refusable(k, b) == Stored(k) /\ (visits[k] # b \/ touched[k] # {})

Justified(k, b, step, late) ==
  /\ late => Stored(k) /\ step \in LateSteps
  /\ step = "reload" => Collided(k, b)
  /\ step = "taken" => Committed(CustomerRow(k, b))
  /\ step = "reused" => Refusable(k, b)

CallsJustified ==
  \A c \in Calls : Sent(c) => Justified(Key(c), Body(c), call[c].step, call[c].late)

AnswersInv == RowsOfVisits /\ PlanKept /\ CallsJustified

(* What is stored stays stored.                                            *)
LEMMA StoredStays ==
  ASSUME IInv, [Next]_vars
  PROVE  /\ \A k \in Keys : Stored(k) => visits'[k] = visits[k] /\ Stored(k)'
         /\ rows \subseteq rows'
         /\ \A k \in Keys : touched[k] \subseteq touched'[k]
<1>1. ASSUME NEW c \in Calls, Commit(c)
      PROVE  \A k \in Keys : Stored(k) => visits'[k] = visits[k]
  <2>1. ~Stored(Key(c))
    BY <1>1 DEF IInv, OneHolder, Holding, Commit, At
  <2>2. visits' = [visits EXCEPT ![Key(c)] = Body(c)] /\ visits \in [Keys -> Bodies \cup {NoVisit}]
    BY <1>1 DEF Commit, IInv, TypeOK
  <2> QED
    BY <2>1, <2>2
<1>2. (\A c \in Calls : ~Commit(c)) => visits' = visits
  BY DEF Next, vars, Progress, Send, ReplayVisit, ReplayNext, ReloadVisit, ReloadNext,
     FindReplay, CompareNext, FindEmail, CreateCustomer, ResolveDevice, FindOrder, CreateVisit,
     CompleteOrder, CreateNextInspection, SignForms, Fail, Insert, Goto, Rollback, Write,
     Environment, OfficeCustomer, OfficePlan, FileEvent, OfficeDelete
<1>3. rows \subseteq rows'
  BY DEF Next, vars, Progress, Send, ReplayVisit, ReplayNext, ReloadVisit, ReloadNext,
     FindReplay, CompareNext, FindEmail, CreateCustomer, ResolveDevice, FindOrder, CreateVisit,
     CompleteOrder, CreateNextInspection, SignForms, Fail, Insert, Goto, Rollback, Write,
     Commit, Environment, OfficeCustomer, OfficePlan, FileEvent, OfficeDelete
<1>4. CASE touched' = touched
  BY <1>1, <1>2, <1>3, <1>4 DEF Stored
<1>5. ASSUME NEW k \in Keys, NEW d, OfficePlan(k, d) \/ FileEvent(k)
      PROVE  \A j \in Keys : touched[j] \subseteq touched'[j]
  BY <1>5 DEF OfficePlan, FileEvent, IInv, TypeOK
<1>6. touched' = touched \/ \E k \in Keys, d \in Dates \cup {None} : OfficePlan(k, d) \/ FileEvent(k)
  BY DEF Next, vars, Progress, Send, ReplayVisit, ReplayNext, ReloadVisit, ReloadNext,
     FindReplay, CompareNext, FindEmail, CreateCustomer, ResolveDevice, FindOrder, CreateVisit,
     CompleteOrder, CreateNextInspection, SignForms, Fail, Insert, Goto, Rollback, Write,
     Commit, Environment, OfficeCustomer, OfficePlan, FileEvent, OfficeDelete
<1> QED
  BY <1>1, <1>2, <1>3, <1>4, <1>5, <1>6 DEF Stored

LEMMA JustifiedStays ==
  ASSUME IInv, [Next]_vars, NEW k \in Keys, NEW b, NEW step, NEW late,
         Justified(k, b, step, late)
  PROVE  Justified(k, b, step, late)'
<1>1. /\ Stored(k) => Stored(k)' /\ visits'[k] = visits[k]
      /\ touched[k] \subseteq touched'[k] /\ rows \subseteq rows'
  BY StoredStays
<1>2. Committed(CustomerRow(k, b)) => Committed(CustomerRow(k, b))'
  BY <1>1 DEF Committed, CustomerRow, Row, Clash
<1> QED
  BY <1>1, <1>2 DEF Justified, Collided, Refusable

(* A row that breaks a constraint for call c justifies its second look.    *)
LEMMA ClashCollides ==
  ASSUME IInv, RowsOfVisits, NEW k \in Keys, NEW b, NEW row, Committed(row),
         row \in {CustomerRow(k, b), DeviceRow(k, b), Row("visits", k, k), NextRow(k)}
  PROVE  Collided(k, b)
<1>1. CASE row = CustomerRow(k, b)
  BY <1>1 DEF Collided
<1>2. CASE row = Row("visits", k, k)
  BY <1>2 DEF Collided, Committed, Row
<1>3. CASE row \in {DeviceRow(k, b), NextRow(k)}
  <2>1. PICK w \in rows : w.table = row.table /\ w.id = row.id
    BY <1>3 DEF Committed, DeviceRow, NextRow, Row, Clash
  <2>2. w.table # "customers"
    BY <1>3, <2>1 DEF DeviceRow, NextRow, Row
  <2>3. w.key \in Keys /\ Stored(w.key) /\ w \in EffectsOf(w.key, visits[w.key])
    BY <2>2 DEF RowsOfVisits
  <2>4. CASE row = DeviceRow(k, b)
    <3>1. w.table = "devices" /\ w.id = <<k, b.device>>
      BY <2>1, <2>4 DEF DeviceRow, Row
    <3>2. w = DeviceRow(w.key, visits[w.key])
      BY <2>3, <3>1 DEF EffectsOf, Optional, CustomerRow, DeviceRow, OrderRow, NextRow, Row
    <3>3. w.id = <<w.key, visits[w.key].device>>
      BY <3>2 DEF DeviceRow, Row
    <3>4. w.key = k
      BY <3>1, <3>3
    <3> QED
      BY <2>3, <3>4 DEF Collided
  <2>5. CASE row = NextRow(k)
    <3>1. w.table = "next" /\ w.id = k
      BY <2>1, <2>5 DEF NextRow, Row
    <3>2. w = NextRow(w.key)
      BY <2>3, <3>1 DEF EffectsOf, Optional, CustomerRow, DeviceRow, OrderRow, NextRow, Row
    <3>3. w.key = k
      BY <3>1, <3>2 DEF NextRow, Row
    <3> QED
      BY <2>3, <3>3 DEF Collided
  <2> QED
    BY <1>3, <2>4, <2>5
<1> QED
  BY <1>1, <1>2, <1>3

(* The moving call keeps its key, its contents and its lateness.           *)
LEMMA MoveKeeps ==
  ASSUME TypeOK, NEW c \in Calls, Sent(c), NEW s,
         Goto(c, s) \/ Rollback(c, s) \/ \E row : Write(c, row, s)
  PROVE  /\ \A d \in Calls \ {c} : call'[d] = call[d]
         /\ call'[c].key = call[c].key /\ call'[c].body = call[c].body
         /\ call'[c].late = call[c].late /\ call'[c].step = s
<1>1. PICK r \in SentCalls : r = call[c]
  BY CallFacts
<1>2. PICK q : /\ call' = [call EXCEPT ![c] = q]
               /\ \/ q = [r EXCEPT !.step = s]
                  \/ \E w : q = [r EXCEPT !.step = s, !.wrote = w]
  <2>1. CASE Goto(c, s)
    BY <1>1, <2>1 DEF Goto
  <2>2. CASE Rollback(c, s)
    BY <1>1, <2>2 DEF Rollback
  <2>3. ASSUME NEW row, Write(c, row, s)
        PROVE  call' = [call EXCEPT ![c] = [r EXCEPT !.step = s, !.wrote = r.wrote \cup {row}]]
    BY <1>1, <2>3 DEF Write
  <2> QED
    BY <2>1, <2>2, <2>3
<1>3. q.key = r.key /\ q.body = r.body /\ q.late = r.late /\ q.step = s
  BY <1>2 DEF SentCalls
<1> QED
  BY <1>1, <1>2, <1>3 DEF TypeOK

(* A call moves on to a step that the tables justify.                      *)
LEMMA MoveJustified ==
  ASSUME IInv, CallsJustified, [Next]_vars, NEW c \in Calls, Sent(c), NEW s,
         Goto(c, s) \/ Rollback(c, s) \/ \E row : Write(c, row, s),
         Justified(Key(c), Body(c), s, call[c].late)
  PROVE  CallsJustified'
<1>1. /\ \A d \in Calls \ {c} : call'[d] = call[d]
      /\ call'[c].key = Key(c) /\ call'[c].body = Body(c)
      /\ call'[c].late = call[c].late /\ call'[c].step = s
  BY MoveKeeps DEF IInv, Key, Body
<1>2. ASSUME NEW d \in Calls \ {c}, Sent(d)'
      PROVE  Justified(Key(d), Body(d), call[d].step, call[d].late)'
  <2>1. Sent(d) /\ Justified(Key(d), Body(d), call[d].step, call[d].late)
    BY <1>1, <1>2 DEF CallsJustified, Sent
  <2>2. Key(d) \in Keys
    BY <2>1, CallFacts DEF IInv
  <2>3. PICK k \in Keys, b \in {Body(d)}, st \in {call[d].step}, l \in {call[d].late} :
          k = Key(d)
    BY <2>2
  <2>4. Justified(k, b, st, l)'
    BY <2>1, <2>3, JustifiedStays
  <2>5. Key(d)' = k /\ Body(d)' = b /\ call'[d].step = st /\ call'[d].late = l
    BY <1>1, <2>3 DEF Key, Body
  <2> QED
    BY <2>4, <2>5 DEF Justified, Collided, Refusable, Stored, Committed, CustomerRow
<1>3. Justified(Key(c), Body(c), call[c].step, call[c].late)'
  <2>1. PICK k \in Keys, b \in {Body(c)}, l \in {call[c].late} : k = Key(c)
    BY CallFacts DEF IInv
  <2>2. Justified(k, b, s, l)'
    BY <2>1, JustifiedStays
  <2>3. Key(c)' = k /\ Body(c)' = b /\ call'[c].step = s /\ call'[c].late = l
    BY <1>1, <2>1 DEF Key, Body
  <2> QED
    BY <2>2, <2>3 DEF Justified, Collided, Refusable, Stored, Committed, CustomerRow
<1> QED
  BY <1>2, <1>3 DEF CallsJustified

(* Every step of a call but its commit leads to a justified step.          *)
LEMMA ProgressJustified ==
  ASSUME IInv, AnswersInv, [Next]_vars, NEW c \in Calls, Progress(c) \/ Fail(c), ~Commit(c)
  PROVE  CallsJustified'
<1> DEFINE k == Key(c)
           b == Body(c)
           late == call[c].late
           Moves(s) == Goto(c, s) \/ Rollback(c, s) \/ \E row : Write(c, row, s)
<1> USE DEF IInv, AnswersInv
<1>1. Sent(c)
  BY DEF Progress, Fail, Sent, ReplayVisit, ReplayNext, ReloadVisit, ReloadNext, FindEmail,
     CreateCustomer, ResolveDevice, FindOrder, CreateVisit, CompleteOrder,
     CreateNextInspection, SignForms, At, UnderWay, InTransaction, AfterTransaction
<1>2. k \in Keys /\ Justified(k, b, call[c].step, late)
  BY <1>1, CallFacts DEF CallsJustified
<1>3. SUFFICES \E s : Moves(s) /\ Justified(k, b, s, late)
  BY <1>1, MoveJustified
<1>4. late => Stored(k) /\ call[c].step \in LateSteps
  BY <1>2 DEF Justified
<1>5. ASSUME NEW s \in {"error", "replayNext", "forms", "ok"}
      PROVE  Justified(k, b, s, late)
  BY <1>4, <1>5 DEF Justified, LateSteps
<1>6. ASSUME NEW s, s \notin {"reload", "taken", "reused"}, ~late
      PROVE  Justified(k, b, s, late)
  BY <1>6 DEF Justified
<1>7. ASSUME Refusable(k, b) PROVE Justified(k, b, "reused", late)
  BY <1>4, <1>7 DEF Justified, LateSteps
<1>8. ASSUME Stored(k), ~Replays(k, b) PROVE Refusable(k, b)
  BY <1>8 DEF Replays, SameVisit, VisitPart, Refusable
<1>9. CASE ReplayVisit(c)
  BY <1>4, <1>5, <1>6, <1>7, <1>8, <1>9 DEF ReplayVisit, FindReplay
<1>10. CASE ReplayNext(c) \/ ReloadNext(c)
  <2>1. Stored(k)
    BY <1>10 DEF Recognised, Verified, ReplayNext, ReloadNext, At
  <2>2. plan[k] # b.next => Refusable(k, b)
    BY <1>2, <2>1 DEF PlanKept, Refusable
  <2> QED
    BY <1>5, <1>7, <1>10, <2>2 DEF ReplayNext, ReloadNext, CompareNext
<1>11. CASE ReloadVisit(c)
  <2>1. ~late /\ Collided(k, b)
    BY <1>2, <1>4, <1>11 DEF ReloadVisit, At, LateSteps, Justified
  <2>2. ~Stored(k) => Justified(k, b, "taken", late)
    BY <2>1 DEF Collided, Justified
  <2> QED
    BY <1>6, <1>7, <1>8, <1>11, <2>1, <2>2 DEF ReloadVisit, FindReplay
<1>12. ASSUME call[c].step \notin LateSteps PROVE ~late
  BY <1>4, <1>12
<1>13. CASE FindEmail(c)
  <2>1. ~late
    BY <1>12, <1>13 DEF FindEmail, At, LateSteps
  <2>2. Committed(CustomerRow(k, b)) => Justified(k, b, "taken", late)
    BY <2>1 DEF Justified
  <2> QED
    BY <1>6, <1>13, <2>1, <2>2 DEF FindEmail
<1>14. ASSUME ~late, NEW row, NEW s, s \notin {"reload", "taken", "reused"}, Insert(c, row, s),
              row \in {CustomerRow(k, b), DeviceRow(k, b), Row("visits", k, k), NextRow(k)}
       PROVE  \E st : Moves(st) /\ Justified(k, b, st, late)
  <2>1. CASE Committed(row) /\ Rollback(c, "reload")
    <3>1. Collided(k, b)
      BY <1>2, <1>14, <2>1, ClashCollides
    <3>2. Justified(k, b, "reload", late)
      BY <1>14, <3>1 DEF Justified
    <3> QED
      BY <2>1, <3>2
  <2>2. CASE Write(c, row, s)
    BY <1>6, <1>14, <2>2
  <2> QED
    BY <1>14, <2>1, <2>2 DEF Insert
<1>15. AfterComplete(c) \in {"commit", "next"}
  BY DEF AfterComplete
<1>16. CASE CreateCustomer(c)
  <2>1. ~late
    BY <1>12, <1>16 DEF CreateCustomer, At, LateSteps
  <2> QED
    BY <1>14, <1>16, <2>1 DEF CreateCustomer
<1>17. CASE ResolveDevice(c)
  <2>1. ~late
    BY <1>12, <1>17 DEF ResolveDevice, At, LateSteps
  <2>2. PICK s \in {"visit", "order"} : Goto(c, s) \/ Insert(c, DeviceRow(k, b), s)
    BY <1>17 DEF ResolveDevice
  <2> QED
    BY <1>6, <1>14, <2>1, <2>2
<1>18. CASE FindOrder(c)
  <2>1. ~late
    BY <1>12, <1>18 DEF FindOrder, At, LateSteps
  <2> QED
    BY <1>6, <1>18, <2>1 DEF FindOrder
<1>19. CASE CreateVisit(c)
  <2>1. ~late
    BY <1>12, <1>19 DEF CreateVisit, At, LateSteps
  <2>2. Rollback(c, "error")
        \/ \E s \in {"commit", "next", "complete"} : Insert(c, Row("visits", k, k), s)
    BY <1>15, <1>19 DEF CreateVisit, VisitRow
  <2> QED
    BY <1>5, <1>14, <2>1, <2>2
<1>20. CASE CompleteOrder(c)
  <2>1. ~late
    BY <1>12, <1>20 DEF CompleteOrder, At, LateSteps
  <2> QED
    BY <1>6, <1>15, <1>20, <2>1 DEF CompleteOrder
<1>21. CASE CreateNextInspection(c)
  <2>1. ~late
    BY <1>12, <1>21 DEF CreateNextInspection, At, LateSteps
  <2> QED
    BY <1>14, <1>21, <2>1 DEF CreateNextInspection
<1>22. CASE SignForms(c)
  BY <1>5, <1>22 DEF SignForms
<1>23. CASE Fail(c)
  BY <1>5, <1>23 DEF Fail
<1> QED
  BY <1>9, <1>10, <1>11, <1>13, <1>16, <1>17, <1>18, <1>19, <1>20, <1>21, <1>22, <1>23
     DEF Progress

(* Calls that do not move stay justified; one that starts or commits is.   *)
LEMMA OthersJustified ==
  ASSUME IInv, CallsJustified, [Next]_vars, NEW d \in Calls, call'[d] = call[d], Sent(d)'
  PROVE  Justified(Key(d), Body(d), call[d].step, call[d].late)'
<1>1. Sent(d) /\ Justified(Key(d), Body(d), call[d].step, call[d].late)
  BY DEF CallsJustified, Sent
<1>2. PICK k \in Keys, b \in {Body(d)}, st \in {call[d].step}, l \in {call[d].late} :
        k = Key(d)
  BY <1>1, CallFacts DEF IInv
<1>3. Justified(k, b, st, l)'
  BY <1>1, <1>2, JustifiedStays
<1>4. Key(d)' = k /\ Body(d)' = b /\ call'[d].step = st /\ call'[d].late = l
  BY <1>2 DEF Key, Body
<1> QED
  BY <1>3, <1>4 DEF Justified, Collided, Refusable, Stored, Committed, CustomerRow

LEMMA NextJustified ==
  ASSUME IInv, AnswersInv, [Next]_vars
  PROVE  CallsJustified'
<1>1. CASE UNCHANGED vars \/ Environment
  <2>1. call' = call
    BY <1>1 DEF vars, Environment, OfficeCustomer, OfficePlan, FileEvent, OfficeDelete
  <2> QED
    BY <2>1, OthersJustified DEF CallsJustified, AnswersInv
<1>2. ASSUME NEW c \in Calls, NEW k \in Keys, NEW b \in Bodies, Send(c, k, b)
      PROVE  CallsJustified'
  <2>1. /\ call'[c] = [key |-> k, body |-> b, step |-> "replay", wrote |-> {},
                       late |-> Stored(k)]
        /\ \A d \in Calls \ {c} : call'[d] = call[d]
        /\ visits' = visits
    BY <1>2 DEF Send, IInv, TypeOK
  <2>2. Justified(Key(c), Body(c), call[c].step, call[c].late)'
    <3>1. /\ call'[c].late = Stored(k)' /\ Key(c)' = k
          /\ call'[c].step = "replay"
      BY <2>1 DEF Key, Stored
    <3> QED
      BY <3>1 DEF Justified, LateSteps
  <2> QED
    BY <2>1, <2>2, OthersJustified DEF CallsJustified, AnswersInv
<1>3. ASSUME NEW c \in Calls, Commit(c)
      PROVE  CallsJustified'
  <2>1. PICK r \in SentCalls : r = call[c] /\ r.step = "commit" /\ r.key \in Keys
    BY <1>3, CallFacts DEF Commit, At, Sent, IInv, Key
  <2>2. ~r.late
    BY <2>1 DEF AnswersInv, CallsJustified, Justified, LateSteps, Sent
  <2>3. PICK q : q = [r EXCEPT !.step = "forms", !.wrote = {}]
    OBVIOUS
  <2>4. q.step = "forms" /\ ~q.late
    BY <2>2, <2>3 DEF SentCalls
  <2>5. call'[c] = q /\ \A d \in Calls \ {c} : call'[d] = call[d]
    BY <1>3, <2>1, <2>3 DEF Commit, IInv, TypeOK
  <2>6. Justified(Key(c), Body(c), call[c].step, call[c].late)'
    BY <2>4, <2>5 DEF Justified
  <2> QED
    BY <2>5, <2>6, OthersJustified DEF CallsJustified, AnswersInv
<1> QED
  BY <1>1, <1>2, <1>3, ProgressJustified DEF Next

(* What the commit publishes belongs to the visit it stores.               *)
LEMMA NextRowsOfVisits ==
  ASSUME IInv, AnswersInv, [Next]_vars
  PROVE  RowsOfVisits' /\ PlanKept'
<1> USE DEF AnswersInv
<1>1. ASSUME NEW w \in rows
      PROVE  \/ w.key = Office /\ w.table = "customers"
             \/ w.key \in Keys /\ Stored(w.key)' /\ w \in EffectsOf(w.key, visits'[w.key])
  BY StoredStays DEF RowsOfVisits
<1>2. ASSUME NEW c \in Calls, Commit(c)
      PROVE  RowsOfVisits' /\ PlanKept'
  <2> DEFINE k == Key(c)
             b == Body(c)
  <2>1. Sent(c) /\ call[c].step = "commit"
    BY <1>2 DEF Commit, At, Sent
  <2>2. k \in Keys /\ b \in Bodies /\ b # NoVisit /\ b \in AllBodies
    BY <2>1, CallFacts, ConstantsAssumption DEF IInv
  <2>3. call[c].wrote = EffectsOf(k, b) \cup {VisitRow(c)}
    BY <2>1 DEF IInv, WroteByStep, ExpectedRows, EffectsOf, VisitRow
  <2>4. visits' = [visits EXCEPT ![k] = b] /\ plan' = [plan EXCEPT ![k] = b.next]
        /\ rows' \subseteq rows \cup EffectsOf(k, b) /\ touched' = touched
    BY <1>2, <2>3 DEF Commit, PlannedFor
  <2>5. visits'[k] = b /\ plan'[k] = b.next
        /\ \A j \in Keys \ {k} : visits'[j] = visits[j] /\ plan'[j] = plan[j]
    BY <2>2, <2>4 DEF IInv, TypeOK
  <2>6. \A w \in EffectsOf(k, b) : w.key = k
    BY DEF EffectsOf, Optional, CustomerRow, DeviceRow, OrderRow, NextRow, Row
  <2> HIDE DEF k, b
  <2>7. RowsOfVisits'
    <3> SUFFICES ASSUME NEW w \in rows'
                 PROVE  \/ w.key = Office /\ w.table = "customers"
                        \/ w.key \in Keys /\ Stored(w.key)' /\ w \in EffectsOf(w.key, visits'[w.key])
      BY DEF RowsOfVisits
    <3>1. CASE w \in rows
      BY <1>1, <3>1
    <3>2. CASE w \in EffectsOf(k, b)
      BY <2>2, <2>5, <2>6, <3>2 DEF Stored
    <3> QED
      BY <2>4, <3>1, <3>2
  <2>8. PlanKept'
    BY <2>4, <2>5 DEF PlanKept, Stored
  <2> QED
    BY <2>7, <2>8
<1>3. ASSUME \A c \in Calls : ~Commit(c)
      PROVE  /\ visits' = visits
             /\ rows' = rows \/ \E e \in Emails : OfficeCustomer(e)
             /\ plan' = plan \/ \E k \in Keys, d \in Dates \cup {None} : OfficePlan(k, d)
  BY <1>3 DEF Next, vars, Progress, Send, ReplayVisit, ReplayNext, ReloadVisit, ReloadNext,
     FindReplay, CompareNext, FindEmail, CreateCustomer, ResolveDevice, FindOrder, CreateVisit,
     CompleteOrder, CreateNextInspection, SignForms, Fail, Insert, Goto, Rollback, Write,
     Environment, OfficeCustomer, OfficePlan, FileEvent, OfficeDelete
<1>4. CASE \A c \in Calls : ~Commit(c)
  <2>1. RowsOfVisits'
    <3> SUFFICES ASSUME NEW w \in rows'
                 PROVE  \/ w.key = Office /\ w.table = "customers"
                        \/ w.key \in Keys /\ Stored(w.key)' /\ w \in EffectsOf(w.key, visits'[w.key])
      BY DEF RowsOfVisits
    <3>1. CASE w \in rows
      BY <1>1, <3>1
    <3>2. CASE w \notin rows
      <4>1. PICK e \in Emails : rows' = rows \cup {Row("customers", e, Office)}
        BY <1>3, <1>4, <3>2 DEF OfficeCustomer
      <4> QED
        BY <3>2, <4>1 DEF Row
    <3> QED
      BY <3>1, <3>2
  <2>2. PlanKept'
    <3>1. CASE plan' = plan
      BY <1>3, <1>4, <3>1, StoredStays DEF PlanKept, Stored
    <3>2. ASSUME NEW k \in Keys, NEW d \in Dates \cup {None}, OfficePlan(k, d)
          PROVE  PlanKept'
      BY <3>2, <1>3, <1>4 DEF OfficePlan, PlanKept, Stored, IInv, TypeOK
    <3> QED
      BY <1>3, <1>4, <3>1, <3>2
  <2> QED
    BY <2>1, <2>2
<1> QED
  BY <1>2, <1>4

THEOREM AnswersInvariance == Spec => [](IInv /\ AnswersInv)
<1>1. Init => AnswersInv
  BY DEF Init, AnswersInv, RowsOfVisits, PlanKept, CallsJustified, Stored, Sent, Unsent
<1>2. IInv /\ AnswersInv /\ [Next]_vars => AnswersInv'
  BY NextJustified, NextRowsOfVisits DEF AnswersInv
<1> QED
  BY <1>1, <1>2, Invariance, PTL DEF Spec

(* A call is told that the address is taken only when there is a customer  *)
(* with that address: a broken constraint of its own derived ids, or       *)
(* another failure, never gives this answer.                               *)
THEOREM TakenAnswersRight == Spec => []TakenIsTrue
<1>1. AnswersInv => TakenIsTrue
  BY DEF AnswersInv, CallsJustified, Justified, TakenIsTrue, At, Sent
<1> QED
  BY <1>1, AnswersInvariance, PTL

(* A repetition made after its visit was stored writes nothing, and a key  *)
(* is refused as used before only when the contents differ from what is    *)
(* stored or others changed the visit's inspection or files.               *)
THEOREM RepetitionsRecognised == Spec => []RepetitionRecognised
<1>1. IInv /\ AnswersInv => RepetitionRecognised
  <2> SUFFICES ASSUME IInv, AnswersInv, NEW c \in Calls
               PROVE  /\ call[c].late => call[c].wrote = {} /\ ~At(c, "taken")
                      /\ At(c, "reused") =>
                           Stored(Key(c)) /\ (visits[Key(c)] # Body(c) \/ touched[Key(c)] # {})
    BY DEF RepetitionRecognised
  <2>1. CASE ~Sent(c)
    <3>1. call[c] = Unsent
      BY <2>1 DEF IInv, TypeOK, CallRecords, Sent
    <3> QED
      BY <3>1 DEF Unsent, At
  <2>2. CASE Sent(c)
    <3>1. Justified(Key(c), Body(c), call[c].step, call[c].late)
      BY <2>2 DEF AnswersInv, CallsJustified
    <3>2. call[c].step \in LateSteps => call[c].wrote = {}
      BY <2>2 DEF IInv, WroteByStep, ExpectedRows, LateSteps
    <3> QED
      BY <3>1, <3>2 DEF Justified, Refusable, At, LateSteps
  <2> QED
    BY <2>1, <2>2
<1> QED
  BY <1>1, AnswersInvariance, PTL

-----------------------------------------------------------------------------
(* No circle of waits.  The rows a call has written tell how far it is.    *)
LEMMA WrittenStage ==
  ASSUME IInv, NEW c \in Calls, NEW w \in call[c].wrote
  PROVE  /\ UnderWay(c)
         /\ w.table = "customers" =>
              call[c].step \in {"device", "order", "visit", "complete", "next", "commit"}
         /\ w.table = "devices" =>
              call[c].step \in {"order", "visit", "complete", "next", "commit"}
         /\ w.table = "visits" => call[c].step \in {"complete", "next", "commit"}
         /\ w.table = "orders" => call[c].step \in {"next", "commit"}
         /\ w.table = "next" => call[c].step = "commit"
<1>1. Sent(c)
  BY DEF Sent, IInv, TypeOK, CallRecords, Unsent
<1>2. w \in ExpectedRows(Key(c), Body(c), call[c].step)
  BY <1>1 DEF IInv, WroteByStep
<1>3. call[c].step \in {"device", "order", "visit", "complete", "next", "commit"}
  BY <1>2 DEF ExpectedRows
<1> QED
  BY <1>2, <1>3 DEF ExpectedRows, Optional, CustomerRow, DeviceRow, OrderRow, NextRow, Row,
     UnderWay, InTransaction

(* A transaction writes the tables in one order, so that a call waits only *)
(* for calls that are further on than itself.                              *)
LEMMA WaitsAhead ==
  ASSUME IInv, NEW c \in Calls, Waits(c)
  PROVE  \E d \in Calls :
           /\ UnderWay(d)
           /\ \/ At(c, "next") /\ At(d, "commit")
              \/ At(c, "complete") /\ call[d].step \in {"next", "commit"}
              \/ At(c, "visit") /\ call[d].step \in {"complete", "next", "commit"}
              \/ /\ At(c, "device")
                 /\ call[d].step \in {"order", "visit", "complete", "next", "commit"}
              \/ /\ At(c, "customer")
                 /\ call[d].step \in {"device", "order", "visit", "complete", "next", "commit"}
<1>1. PICK row \in RowsToWrite(c) : WrittenBySomeoneElse(c, row)
  BY DEF Waits
<1>2. PICK d \in Calls : \E w \in call[d].wrote : w.table = row.table
  BY <1>1 DEF WrittenBySomeoneElse, Clash
<1>3. \/ At(c, "next") /\ row.table = "next"
      \/ At(c, "complete") /\ row.table = "orders"
      \/ At(c, "visit") /\ row.table = "visits"
      \/ At(c, "device") /\ row.table = "devices"
      \/ At(c, "customer") /\ row.table = "customers"
  BY DEF RowsToWrite, Optional, CustomerRow, DeviceRow, OrderRow, NextRow, VisitRow, Row, At
<1> QED
  BY <1>2, <1>3, WrittenStage DEF At

(* However many calls overlap, those under way never all wait: the one     *)
(* that is furthest on waits for nobody, and no call that has ended holds  *)
(* a row.                                                                  *)
THEOREM CallsNeverDeadlock == Spec => []NoDeadlock
<1>1. IInv => NoDeadlock
  <2> SUFFICES ASSUME IInv, NEW x \in Calls, UnderWay(x), \A c \in Calls : UnderWay(c) => Waits(c)
               PROVE  FALSE
    BY DEF NoDeadlock
  <2>1. \A c \in Calls : ~At(c, "commit")
    BY WaitsAhead DEF At, UnderWay, InTransaction
  <2>2. \A c \in Calls : ~At(c, "next")
    BY <2>1, WaitsAhead DEF At, UnderWay, InTransaction
  <2>3. \A c \in Calls : ~At(c, "complete")
    BY <2>1, <2>2, WaitsAhead DEF At, UnderWay, InTransaction
  <2>4. \A c \in Calls : ~At(c, "visit")
    BY <2>1, <2>2, <2>3, WaitsAhead DEF At, UnderWay, InTransaction
  <2>5. \A c \in Calls : ~At(c, "device") /\ ~At(c, "order")
    BY <2>1, <2>2, <2>3, <2>4, WaitsAhead DEF At, UnderWay, InTransaction
  <2> QED
    BY <2>1, <2>2, <2>3, <2>4, <2>5, WaitsAhead DEF At
<1> QED
  BY <1>1, Invariance, PTL

=============================================================================

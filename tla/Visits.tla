------------------------------ MODULE Visits ------------------------------
(***************************************************************************)
(* Creating a visit (CreateVisitHandler), for one tenant.                  *)
(*                                                                         *)
(* A client sends a request under an idempotency key and repeats it until  *)
(* it is answered; repetitions may overlap, and a key may come back with   *)
(* other contents.  The ids of everything a request stores are derived     *)
(* from its key, so that the unique constraints of the tables tell a       *)
(* repetition from a first call.  One READ COMMITTED transaction looks for *)
(* the visit of the key, stores a new customer and device, the visit with  *)
(* its attachments, completes the service order, plans the next            *)
(* inspection, and commits; after it the upload forms are signed.          *)
(*                                                                         *)
(* An insert waits for another open transaction that wrote the same unique *)
(* value, and breaks the constraint (P2002) when that one has committed.   *)
(***************************************************************************)
EXTENDS FiniteSets

CONSTANTS
  Keys,       \* idempotency keys
  Emails,     \* addresses of customers
  NewDevices, \* contents of a device to create
  Orders,     \* service orders, open and of the visit's customer at first
  Dates,      \* dates the next inspection can be planned for
  Bodies,     \* the contents of requests, a subset of AllBodies
  Calls,      \* the calls clients make, repetitions included
  Office,     \* stands for the key of what no visit created
  NoVisit,
  NoCall,     \* a call that was not made
  None        \* no service order, no next inspection, no new row

(* What a request says as far as the handler tells requests apart: a new   *)
(* customer's address, a new device, the order to complete, the date of    *)
(* the next inspection, files to upload.  None: a customer or a device     *)
(* that exists, no order, no inspection.                                   *)
AllBodies == [customer : Emails \cup {None}, device : NewDevices \cup {None},
              order : Orders \cup {None}, next : Dates \cup {None},
              files : BOOLEAN]

Row(table, id, key) == [table |-> table, id |-> id, key |-> key]
Tables == {"customers", "devices", "visits", "orders", "next"}

InTransaction == {"replay", "replayNext", "email", "customer", "device", "order",
                  "visit", "complete", "next", "commit"}
AfterTransaction == {"reload", "reloadNext", "forms"}
Answers == {"ok", "reused", "taken", "missing", "error"}
Steps == {"unsent"} \cup InTransaction \cup AfterTransaction \cup Answers

ASSUME ConstantsAssumption ==
  /\ Bodies \subseteq AllBodies
  /\ Office \notin Keys
  /\ NoVisit \notin AllBodies /\ NoCall \notin AllBodies
  /\ None \notin Emails \cup NewDevices \cup Orders \cup Dates

VARIABLES
  visits,   \* visits[k]: the request whose visit is stored under key k
  rows,     \* the rows of other tables: customers, devices, the completions
            \* of service orders and the next inspections visits planned
  plan,     \* plan[k]: the date of the next inspection of the visit of k
  touched,  \* touched[k]: what others changed of it since: "plan", "file"
  deleted,  \* service orders deleted by the office
  call      \* call[c]: key, body and step of a call, the rows its
            \* transaction wrote, and whether its visit was there at first

vars == <<visits, rows, plan, touched, deleted, call>>

Unsent == [key |-> Office, body |-> NoCall, step |-> "unsent", wrote |-> {},
           late |-> FALSE]

Key(c)  == call[c].key
Body(c) == call[c].body
At(c, step) == call[c].step = step
UnderWay(c) == call[c].step \in InTransaction \cup AfterTransaction
Stored(k) == visits[k] # NoVisit

-----------------------------------------------------------------------------
Init ==
  /\ visits = [k \in Keys |-> NoVisit]
  /\ rows = {}
  /\ plan = [k \in Keys |-> None]
  /\ touched = [k \in Keys |-> {}]
  /\ deleted = {}
  /\ call = [c \in Calls |-> Unsent]

Goto(c, step) ==
  /\ call' = [call EXCEPT ![c].step = step]
  /\ UNCHANGED <<visits, rows, plan, touched, deleted>>

(* Mutant: a failed transaction is not closed and keeps its locks.         *)
Rollback_Open(c, step) == Goto(c, step)
(* The transaction is rolled back: nothing it wrote remains.               *)
Rollback(c, step) ==
  /\ call' = [call EXCEPT ![c].step = step, ![c].wrote = {}]
  /\ UNCHANGED <<visits, rows, plan, touched, deleted>>

Write(c, row, step) ==
  /\ call' = [call EXCEPT ![c].step = step, ![c].wrote = @ \cup {row}]
  /\ UNCHANGED <<visits, rows, plan, touched, deleted>>

(* deriveCommandUuid: the id of what a call stores is a function of its    *)
(* key and, for a customer and a device, of their contents.                *)
VisitRow(c) == Row("visits", Key(c), Key(c))
CustomerRow(k, b) == Row("customers", b.customer, k)

(* Mutant: the id of a device is derived from its contents alone.          *)
DeviceRow_Contents(k, b) == Row("devices", b.device, k)
DeviceRow(k, b) == Row("devices", <<k, b.device>>, k)

OrderRow(k, b)  == Row("orders", b.order, k)
NextRow(k)      == Row("next", k, k)

Clash(v, w) == v.table = w.table /\ v.id = w.id
WrittenBySomeoneElse(c, row) ==
  \E d \in Calls \ {c} : \E w \in call[d].wrote : Clash(w, row)
Committed(row) ==
  IF row.table = "visits" THEN Stored(row.id) ELSE \E w \in rows : Clash(w, row)

Optional(value, row) == IF value = None THEN {} ELSE {row}

(* The row the next statement of a call writes, if it writes one: the      *)
(* statement waits while another transaction holds it.                     *)
RowsToWrite(c) ==
  LET k == Key(c)
      b == Body(c)
  IN  CASE At(c, "customer") -> {CustomerRow(k, b)}
        [] At(c, "device")   -> Optional(b.device, DeviceRow(k, b))
        [] At(c, "visit")    -> {VisitRow(c)}
        [] At(c, "complete") -> {OrderRow(k, b)}
        [] At(c, "next")     -> {NextRow(k)}
        [] OTHER             -> {}
Waits(c) == \E row \in RowsToWrite(c) : WrittenBySomeoneElse(c, row)

(* An insert under a unique constraint: isUniqueConstraintError sends the  *)
(* call to loadReplay, outside of the transaction that failed.             *)
Insert(c, row, step) ==
  /\ ~Waits(c)
  /\ IF Committed(row) THEN Rollback(c, "reload") ELSE Write(c, row, step)

-----------------------------------------------------------------------------
(* A client makes a call, for the first time or again.                     *)
Send(c, k, b) ==
  /\ At(c, "unsent")
  /\ call' = [call EXCEPT ![c] = [key |-> k, body |-> b, step |-> "replay",
                                  wrote |-> {}, late |-> Stored(k)]]
  /\ UNCHANGED <<visits, rows, plan, touched, deleted>>

(* Everything the visit itself consists of; the next inspection is an      *)
(* order of its own.                                                       *)
VisitPart(b) == <<b.customer, b.device, b.order, b.files>>
SameVisit(stored, b) == VisitPart(stored) = VisitPart(b)

(* Mutant: any visit stored under the key passes for the one asked for.    *)
Replays_Any(k, b) == TRUE
(* sameVisit of loadReplay, over the rows that are stored now: a storage   *)
(* event may have overwritten size and type of a file.                     *)
Replays(k, b) == SameVisit(visits[k], b) /\ (b.files => "file" \notin touched[k])

(* Mutant: the key is only looked up when an insert has failed.            *)
FindReplay_Insert(c, missing, found) == Goto(c, missing)
(* loadReplay up to its first comparison.                                  *)
FindReplay(c, missing, found) ==
  CASE ~Stored(Key(c)) -> Goto(c, missing)
    [] Stored(Key(c)) /\ Replays(Key(c), Body(c)) -> Goto(c, found)
    [] OTHER -> Goto(c, "reused")

(* The rest of loadReplay: the next inspection is there exactly when the   *)
(* request asks for one, on the date it asks for.                          *)
CompareNext(c) ==
  Goto(c, IF plan[Key(c)] = Body(c).next THEN "forms" ELSE "reused")

ReplayVisit(c) == At(c, "replay") /\ FindReplay(c, "email", "replayNext")
ReplayNext(c)  == At(c, "replayNext") /\ CompareNext(c)
ReloadVisit(c) == At(c, "reload") /\ FindReplay(c, "taken", "reloadNext")
ReloadNext(c)  == At(c, "reloadNext") /\ CompareNext(c)

-----------------------------------------------------------------------------
(* resolveCustomer: a customer that exists is only read.                   *)
FindEmail(c) ==
  /\ At(c, "email")
  /\ Goto(c, CASE Body(c).customer = None -> "device"
               [] Body(c).customer # None /\ Committed(CustomerRow(Key(c), Body(c))) -> "taken"
               [] OTHER -> "customer")

(* Mutant: the customer is created outside of the visit's transaction.     *)
CreateCustomer_NoTransaction(c) ==
  LET row == CustomerRow(Key(c), Body(c)) IN
  /\ At(c, "customer")
  /\ ~Waits(c)
  /\ IF Committed(row) THEN Rollback(c, "reload")
     ELSE /\ rows' = rows \cup {row}
          /\ call' = [call EXCEPT ![c].step = "device"]
          /\ UNCHANGED <<visits, plan, touched, deleted>>
CreateCustomer(c) ==
  /\ At(c, "customer")
  /\ Insert(c, CustomerRow(Key(c), Body(c)), "device")

(* resolveDevices, and whether there is an order to look for.              *)
ResolveDevice(c) ==
  LET step == IF Body(c).order = None THEN "visit" ELSE "order" IN
  /\ At(c, "device")
  /\ IF Body(c).device = None THEN Goto(c, step)
     ELSE Insert(c, DeviceRow(Key(c), Body(c)), step)

(* findServiceOrderForCompletion: its status is not looked at.             *)
FindOrder(c) ==
  /\ At(c, "order")
  /\ IF Body(c).order \in deleted THEN Rollback(c, "missing") ELSE Goto(c, "visit")

AfterComplete(c) == IF Body(c).next = None THEN "commit" ELSE "next"

(* createVisit and createPendingMany.  The foreign key locks the order,    *)
(* and breaks (P2003) when the order is gone by now.                       *)
CreateVisit(c) ==
  /\ At(c, "visit")
  /\ IF Body(c).order \in deleted THEN Rollback(c, "error")
     ELSE Insert(c, VisitRow(c),
                 IF Body(c).order = None THEN AfterComplete(c) ELSE "complete")

(* completeServiceOrder: the update waits for another one of the order.    *)
CompleteOrder(c) ==
  /\ At(c, "complete")
  /\ ~Waits(c)
  /\ Write(c, OrderRow(Key(c), Body(c)), AfterComplete(c))

CreateNextInspection(c) ==
  /\ At(c, "next")
  /\ Insert(c, NextRow(Key(c)), "commit")

(* Mutant: the next inspection is stored without its date.                 *)
PlannedFor_Unset(b) == None
(* The date of the next inspection, if one is asked for.                   *)
PlannedFor(b) == b.next

Commit(c) ==
  LET k == Key(c) IN
  /\ At(c, "commit")
  /\ visits' = [visits EXCEPT ![k] = Body(c)]
  /\ rows' = rows \cup (call[c].wrote \ {VisitRow(c)})
  /\ plan' = [plan EXCEPT ![k] = PlannedFor(Body(c))]
  /\ call' = [call EXCEPT ![c].step = "forms", ![c].wrote = {}]
  /\ UNCHANGED <<touched, deleted>>

(* createUploadForms and the response.                                     *)
SignForms(c) == At(c, "forms") /\ Goto(c, "ok")

(* Mutant: whatever goes wrong is taken for a broken unique constraint.    *)
Fail_Unique(c) ==
  IF call[c].step \in InTransaction THEN Rollback(c, "reload")
  ELSE call[c].step \in AfterTransaction /\ Goto(c, "error")
(* Any step may fail, by a lost connection, the time limit of the          *)
(* transaction, a storage error or a crash; so may the way of the answer   *)
(* to the client.                                                          *)
Fail(c) ==
  /\ UnderWay(c)
  /\ Rollback(c, "error")

-----------------------------------------------------------------------------
(* What others change meanwhile.                                           *)

(* The office creates a customer with an address (CreateCustomerHandler),  *)
(* and is refused when it is in use; its insert waits like any other.      *)
OfficeCustomer(e) ==
  LET row == Row("customers", e, Office) IN
  /\ ~Committed(row)
  /\ \A c \in Calls : ~WrittenBySomeoneElse(c, row)
  /\ rows' = rows \cup {row}
  /\ UNCHANGED <<visits, plan, touched, deleted, call>>

(* The office puts the next inspection off, or removes its devices and     *)
(* with them the inspection (module Inspections).                          *)
OfficePlan(k, date) ==
  /\ plan[k] # None /\ date # plan[k]
  /\ plan' = [plan EXCEPT ![k] = date]
  /\ touched' = [touched EXCEPT ![k] = @ \cup {"plan"}]
  /\ UNCHANGED <<visits, rows, deleted, call>>

(* A storage event finds a file other than announced and stores what it    *)
(* found (module Attachments).                                             *)
FileEvent(k) ==
  /\ Stored(k) /\ visits[k].files /\ "file" \notin touched[k]
  /\ touched' = [touched EXCEPT ![k] = @ \cup {"file"}]
  /\ UNCHANGED <<visits, rows, plan, deleted, call>>

(* The last device leaves an order: it is deleted, unless a visit names    *)
(* it or is just being stored for it.                                      *)
OfficeDelete(o) ==
  /\ o \notin deleted
  /\ \A k \in Keys : Stored(k) => visits[k].order # o
  /\ \A c \in Calls : Body(c) # NoCall /\ Body(c).order = o =>
       VisitRow(c) \notin call[c].wrote
  /\ deleted' = deleted \cup {o}
  /\ UNCHANGED <<visits, rows, plan, touched, call>>

Progress(c) ==
  \/ ReplayVisit(c) \/ ReplayNext(c) \/ ReloadVisit(c) \/ ReloadNext(c)
  \/ FindEmail(c) \/ CreateCustomer(c) \/ ResolveDevice(c) \/ FindOrder(c)
  \/ CreateVisit(c) \/ CompleteOrder(c) \/ CreateNextInspection(c)
  \/ Commit(c) \/ SignForms(c)

Environment ==
  \/ \E e \in Emails : OfficeCustomer(e)
  \/ \E k \in Keys, date \in Dates \cup {None} : OfficePlan(k, date)
  \/ \E k \in Keys : FileEvent(k)
  \/ \E o \in Orders : OfficeDelete(o)

Next ==
  \/ \E c \in Calls : \/ \E k \in Keys, b \in Bodies : Send(c, k, b)
                     \/ Progress(c)
                     \/ Fail(c)
  \/ Environment

Spec == Init /\ [][Next]_vars

-----------------------------------------------------------------------------
CallRecords ==
  {Unsent} \cup
  [key : Keys, body : Bodies, step : Steps \ {"unsent"},
   wrote : SUBSET [table : Tables, key : Keys,
                   id : Keys \cup Emails \cup Orders \cup (Keys \X NewDevices)],
   late : BOOLEAN]

(* Every variable has its type.                                            *)
TypeOK ==
  /\ visits \in [Keys -> Bodies \cup {NoVisit}]
  /\ \A w \in rows : w.table \in Tables \ {"visits"} /\ w.key \in Keys \cup {Office}
  /\ plan \in [Keys -> Dates \cup {None}]
  /\ touched \in [Keys -> SUBSET {"plan", "file"}]
  /\ deleted \in SUBSET Orders
  /\ call \in [Calls -> CallRecords]

(* A call that is refused because the address is taken is right: there is  *)
(* a customer with that address.  No other broken constraint, and no other *)
(* failure, is reported as this one (isUniqueConstraintError, loadReplay   *)
(* after a rollback).                                                      *)
TakenIsTrue ==
  \A c \in Calls : At(c, "taken") => Committed(CustomerRow(Key(c), Body(c)))

(* A repetition made after its visit was stored writes nothing and does    *)
(* not run into the customer it has created itself; and only contents that *)
(* differ from the stored request, or a change others made to the visit's  *)
(* next inspection or files, get a key refused as used before (loadReplay  *)
(* reproduces from the tables what the request said).                      *)
RepetitionRecognised ==
  \A c \in Calls :
    /\ call[c].late => call[c].wrote = {} /\ ~At(c, "taken")
    /\ At(c, "reused") => Stored(Key(c)) /\ (visits[Key(c)] # Body(c) \/ touched[Key(c)] # {})

(* Calls never wait for each other, or for a transaction nobody will end:  *)
(* while a call is under way, some call can take its next step.            *)
NoDeadlock ==
  (\E c \in Calls : UnderWay(c)) => \E c \in Calls : UnderWay(c) /\ ~Waits(c)

EffectsOf(k, b) ==
  Optional(b.customer, CustomerRow(k, b)) \cup Optional(b.device, DeviceRow(k, b))
  \cup Optional(b.order, OrderRow(k, b)) \cup Optional(b.next, NextRow(k))

Ledger == INSTANCE VisitLedger
  WITH stored    <- visits,
       effects   <- {w \in rows : w.key # Office},
       confirmed <- {<<Key(c), Body(c)>> : c \in {d \in Calls : At(d, "ok")}},
       Same      <- SameVisit

(* Under repetitions, overlapping calls, failures and changed contents, a  *)
(* key stores at most one visit, all of it at once or nothing, and nobody  *)
(* is told of a visit that is not the stored one (the transaction, the     *)
(* derived ids, sameVisit).                                                *)
ImplementsLedger == Ledger!Spec

=============================================================================

---------------------------- MODULE Inspections ----------------------------
(***************************************************************************)
(* Devices and the inspections they are assigned to, for one tenant.       *)
(*                                                                         *)
(* Creating or updating a device may create, join, leave, move or          *)
(* reschedule an inspection; the whole command is one READ COMMITTED       *)
(* transaction whose statements interleave with those of the others.  A    *)
(* visit completes a service order and plans the next inspection of its    *)
(* devices, in a transaction of its own (module Visits has its details).   *)
(*                                                                         *)
(* A statement reads the committed rows and those its own transaction has  *)
(* written.  What keeps transactions apart are the row locks: the update   *)
(* of a device row, and on a service order the locks of a child row's      *)
(* foreign key, of an update and of a delete.  tx[t].writes records what   *)
(* transaction t has written; it is published by Commit.                   *)
(***************************************************************************)
EXTENDS Integers, FiniteSets

CONSTANTS
  Customers,
  Devices,     \* device ids, those drawn for a new device included
  Orders,      \* ids of inspections, each drawn once; bounds their number
  Txs,         \* transactions under way at a time
  Times,       \* dates an inspection can be scheduled for
  Requests,    \* the requests clients make, a subset of AllRequests
  Owner,       \* Owner[d]: the customer a device belongs to
  Initial,     \* the devices that exist at the start
  Missing,     \* a device that does not exist
  Free,        \* an inspection that was not created yet
  Deleted,     \* an inspection that was deleted
  NoOrder,     \* a request that names no inspection
  NoRequest    \* a transaction that is not under way

(* The form of a device, as far as its checks look: whether the custom     *)
(* address is switched, whether address fields are sent, and the date of   *)
(* installation and the months of warranty.  "keep" is a field not sent.   *)
Forms == [custom : {"keep", "on", "off"}, address : {"keep", "partial", "full"},
          date : {"keep", "set", "empty"}, warranty : {"keep", "some", "zero"}]
KeepForm == [custom |-> "keep", address |-> "keep", date |-> "keep",
             warranty |-> "keep"]
NewForms == {f \in Forms : "keep" \notin {f.custom, f.address, f.date, f.warranty}}

UpdateRequests ==
  [kind : {"update"}, device : Devices, form : Forms,
   op : {"none", "create"}, order : {NoOrder}, at : Times]
  \cup
  [kind : {"update"}, device : Devices, form : Forms,
   op : {"attach", "detach", "reschedule", "move"}, order : Orders, at : Times]
CreateRequests ==
  [kind : {"create"}, device : Devices, form : NewForms,
   op : {"none", "create"}, order : {NoOrder}, at : Times]
  \cup
  [kind : {"create"}, device : Devices, form : NewForms, op : {"attach"},
   order : Orders, at : Times]
VisitRequests ==
  [kind : {"visit"}, devices : (SUBSET Devices) \ {{}},
   op : {"none", "create"}, order : Orders \cup {NoOrder}, at : Times]
AllRequests == UpdateRequests \cup CreateRequests \cup VisitRequests

Rows == [custom : BOOLEAN, stored : BOOLEAN, dated : BOOLEAN, warranty : BOOLEAN]
PlainRow == [custom |-> FALSE, stored |-> FALSE, dated |-> FALSE, warranty |-> FALSE]

(* ACTIVE_INSPECTION_STATUSES are new, contact_required and scheduled;     *)
(* nothing here tells them apart.                                          *)
ActiveStatuses == {"new"}
Inspections == [customer : Customers, source : {"user", "system"},
                status : ActiveStatuses \cup {"completed"}, at : Times,
                devices : SUBSET Devices]
Steps == {"idle", "update", "find", "check", "insert", "attach", "detach",
          "count", "delete", "reschedule", "complete", "next", "commit"}
Writes == {"create", "attach", "detach", "delete", "reschedule", "complete"}

Transactions ==
  [request : Requests \cup {NoRequest}, step : Steps, seen : Rows,
   new : Orders \cup {NoOrder}, writes : SUBSET Writes]

ASSUME ConstantsAssumption ==
  /\ Requests \subseteq AllRequests
  /\ Owner \in [Devices -> Customers]
  /\ Initial \subseteq Devices
  /\ Missing \notin Rows
  /\ Free \notin Inspections /\ Deleted \notin Inspections /\ Free # Deleted
  /\ NoOrder \notin Orders
  /\ NoRequest \notin AllRequests

VARIABLES
  rows,    \* rows[d]: the committed row of device d
  orders,  \* orders[o]: the committed inspection o with its device rows
  tx       \* tx[t]: the request of transaction t, its next statement, the
           \* device row it read first, the id it drew and what it wrote

vars == <<rows, orders, tx>>

Idle == [request |-> NoRequest, step |-> "idle", seen |-> PlainRow,
         new |-> NoOrder, writes |-> {}]

Open(t)    == tx[t].step # "idle"
Kind(t)    == tx[t].request.kind
Named(t)   == tx[t].request.order
Live(o)    == orders[o] \in Inspections
Active(o)  == Live(o) /\ orders[o].status \in ActiveStatuses

-----------------------------------------------------------------------------
(* The form of a device.                                                   *)

(* resolveCustomInstallationAddressUpdate: the address is cleared, kept,   *)
(* replaced, or refused as incomplete.                                     *)
AddressUpdate(custom, had, form) ==
  CASE ~custom -> "clear"
    [] custom /\ form.address = "keep" /\ had -> "preserve"
    [] custom /\ form.address = "full" -> "replace"
    [] OTHER -> "refused"

(* Mutant: the row is built from the fields that were sent, and the fields *)
(* that were not sent keep what the table holds now.                       *)
Merge_SentOnly(seen, form, now) ==
  LET custom == IF form.custom = "keep" THEN seen.custom ELSE form.custom = "on"
      update == AddressUpdate(custom, seen.custom, form)
  IN  [custom   |-> custom,
       stored   |-> CASE update = "clear" -> FALSE
                      [] update = "replace" -> TRUE
                      [] OTHER -> now.stored,
       dated    |-> IF form.date = "keep" THEN now.dated ELSE form.date = "set",
       warranty |-> IF form.warranty = "keep" THEN now.warranty
                    ELSE form.warranty = "some"]
(* The row an update stores: the request over the row that was read.  Only *)
(* a preserved address is left to the row in the table.                    *)
Merge(seen, form, now) ==
  LET custom == IF form.custom = "keep" THEN seen.custom ELSE form.custom = "on"
      update == AddressUpdate(custom, seen.custom, form)
  IN  [custom   |-> custom,
       stored   |-> CASE update = "clear" -> FALSE
                      [] update = "replace" -> TRUE
                      [] OTHER -> now.stored,
       dated    |-> IF form.date = "keep" THEN seen.dated ELSE form.date = "set",
       warranty |-> IF form.warranty = "keep" THEN seen.warranty
                    ELSE form.warranty = "some"]

(* What the handlers refuse before they write: an incomplete address, a    *)
(* warranty without a date of installation.                                *)
Accepted(seen, form) ==
  LET custom == IF form.custom = "keep" THEN seen.custom ELSE form.custom = "on"
      merged == Merge(seen, form, seen)
  IN  /\ AddressUpdate(custom, seen.custom, form) # "refused"
      /\ merged.warranty => merged.dated

(* Mutant: no CHECK constraint on the table.                               *)
RowAllowed_Any(row) == TRUE
(* devices_custom_installation_address_encryption_valid.                   *)
RowAllowed(row) == row.custom <=> row.stored

-----------------------------------------------------------------------------
(* Locks held until the end of the transaction.                            *)

(* Mutant: the row is not written when the request only changes the        *)
(* inspection.                                                             *)
LocksDevice_Changed(t, d) ==
  /\ Open(t) /\ Kind(t) = "update" /\ tx[t].request.device = d
  /\ tx[t].step # "update"
  /\ tx[t].request.form # KeepForm
(* The updated device row.                                                 *)
LocksDevice(t, d) ==
  /\ Open(t) /\ Kind(t) = "update" /\ tx[t].request.device = d
  /\ tx[t].step # "update"

(* The inspection row: deleted, updated, or referenced by a new child row. *)
(* A statement that finds the inspection gone changes no row and locks     *)
(* none.                                                                   *)
Holds(t, o, writes) ==
  Open(t) /\ Named(t) = o /\ tx[t].writes \cap writes # {} /\ Live(o)
Others(t) == Txs \ {t}

(* The writes of others that lock what the statement needs: a new or a     *)
(* deleted child row waits for a delete of the inspection, an update for   *)
(* every other write of its row, and a delete for the child rows too,      *)
(* which it takes with it.                                                 *)
LockedBy(step) ==
  CASE step \in {"attach", "detach"}       -> {"delete"}
    [] step \in {"reschedule", "complete"} -> {"delete", "reschedule", "complete"}
    [] step = "delete"                     -> Writes
    [] OTHER                               -> {}
WaitsFor(t, u) ==
  \/ tx[t].step = "update" /\ LocksDevice(u, tx[t].request.device)
  \/ Holds(u, Named(t), LockedBy(tx[t].step))
Granted(t) == \A u \in Others(t) : ~WaitsFor(t, u)

-----------------------------------------------------------------------------
Init ==
  /\ rows = [d \in Devices |-> IF d \in Initial THEN PlainRow ELSE Missing]
  /\ \E c \in Customers, shared \in SUBSET Initial, first \in Orders, at \in Times :
       /\ \A d \in shared : Owner[d] = c
       /\ orders = [o \in Orders |->
                      IF o = first /\ shared # {}
                      THEN [customer |-> c, source |-> "user", status |-> "new",
                            at |-> at, devices |-> shared]
                      ELSE Free]
  /\ tx = [t \in Txs |-> Idle]

Goto(t, step) == tx' = [tx EXCEPT ![t].step = step]
Write(t, what, step) ==
  tx' = [tx EXCEPT ![t].writes = @ \cup what, ![t].step = step]

(* An error in the handler, a broken constraint, a deadlock, the time      *)
(* limit of the transaction or a crash: everything is rolled back.         *)
Rollback(t) == tx' = [tx EXCEPT ![t] = Idle]

FirstStep(r) ==
  CASE r.op = "none" -> "commit"
    [] r.op = "create" -> "check"
    [] OTHER -> "find"

(* The id randomUUID draws for a new inspection.                           *)
Drawn(o) ==
  /\ o \in Orders
  /\ orders[o] = Free
  /\ \A t \in Txs : tx[t].new # o
NewId(r, o) == IF r.op \in {"create", "move"} THEN Drawn(o) ELSE o = NoOrder

(* A client names only inspections that were there once.                   *)
KnownOrder(r) == r.order # NoOrder => orders[r.order] # Free

Begin(t, r, seen, o, step) ==
  tx' = [tx EXCEPT ![t] = [request |-> r, step |-> step, seen |-> seen,
                           new |-> o, writes |-> {}]]

(* UpdateDeviceHandler up to the update: the device is read, the request   *)
(* is merged into what was read, and the result is checked.                *)
BeginUpdate(t, r, o) ==
  /\ ~Open(t)
  /\ r.kind = "update"
  /\ rows[r.device] # Missing
  /\ Accepted(rows[r.device], r.form)
  /\ KnownOrder(r) /\ NewId(r, o)
  /\ Begin(t, r, rows[r.device], o, "update")
  /\ UNCHANGED <<rows, orders>>

(* CreateDeviceHandler up to the inspection: the device id is drawn and    *)
(* its row inserted.                                                       *)
BeginCreate(t, r, o) ==
  /\ ~Open(t)
  /\ r.kind = "create"
  /\ rows[r.device] = Missing
  /\ \A u \in Txs : Open(u) /\ Kind(u) = "create" => tx[u].request.device # r.device
  /\ Accepted(PlainRow, r.form)
  /\ KnownOrder(r) /\ NewId(r, o)
  /\ Begin(t, r, PlainRow, o, FirstStep(r))
  /\ UNCHANGED <<rows, orders>>

(* The update of the device row: it waits for the row's lock.              *)
UpdateDevice(t) ==
  LET r == tx[t].request IN
  /\ tx[t].step = "update"
  /\ Granted(t)
  /\ IF RowAllowed(Merge(tx[t].seen, r.form, rows[r.device]))
     THEN Goto(t, FirstStep(r)) ELSE Rollback(t)
  /\ UNCHANGED <<rows, orders>>

-----------------------------------------------------------------------------
(* ApplyDeviceInspectionOperationHandler.                                  *)

(* Mutant: the customer of the inspection is not compared.                 *)
ValidInspection_Customer(o, d) == Active(o)
(* getValidInspection.                                                     *)
ValidInspection(o, d) == Active(o) /\ orders[o].customer = Owner[d]

(* getValidInspection, the early return of attach, ensureDeviceAttached.   *)
FindInspection(t) ==
  LET r == tx[t].request
      valid == ValidInspection(r.order, r.device)
      attached == valid /\ r.device \in orders[r.order].devices
  IN
  /\ tx[t].step = "find"
  /\ r.kind # "visit"
  /\ \/ /\ r.op = "attach" /\ valid
        /\ Goto(t, IF attached THEN "commit" ELSE "check")
     \/ /\ r.op \in {"detach", "move"} /\ attached
        /\ Goto(t, "detach")
     \/ /\ r.op = "reschedule" /\ attached
        /\ Goto(t, "reschedule")
     \/ /\ ~valid \/ (r.op # "attach" /\ ~attached)
        /\ Rollback(t)
  /\ UNCHANGED <<rows, orders>>

(* findActiveInspectionIdForDevice.  The inspection that is excluded is    *)
(* the one to attach to; the one a move has left is not seen either.       *)
OtherActiveInspection(t) ==
  \E o \in Orders \ {Named(t)} : Active(o) /\ tx[t].request.device \in orders[o].devices

(* ensureDeviceHasNoOtherActiveInspection.                                 *)
EnsureNoOther(t) ==
  /\ tx[t].step = "check"
  /\ IF OtherActiveInspection(t) THEN Rollback(t)
     ELSE Goto(t, IF tx[t].request.op = "attach" THEN "attach" ELSE "insert")
  /\ UNCHANGED <<rows, orders>>

CreateInspection(t) ==
  /\ tx[t].step = "insert"
  /\ Write(t, {"create"}, "commit")
  /\ UNCHANGED <<rows, orders>>

(* The insert locks the inspection its foreign key names: it waits for a   *)
(* delete of it, and fails when it is gone.                                *)
AttachDevice(t) ==
  /\ tx[t].step = "attach"
  /\ Granted(t)
  /\ IF Live(Named(t)) THEN Write(t, {"attach"}, "commit") ELSE Rollback(t)
  /\ UNCHANGED <<rows, orders>>

DetachDevice(t) ==
  /\ tx[t].step = "detach"
  /\ Granted(t)
  /\ Write(t, {"detach"}, "count")
  /\ UNCHANGED <<rows, orders>>

AfterDetach(t) == IF tx[t].request.op = "move" THEN "check" ELSE "commit"

(* Mutant: the inspection is deleted without counting what is left.        *)
CountDevices_Always(t) ==
  /\ tx[t].step = "count"
  /\ Goto(t, "delete")
  /\ UNCHANGED <<rows, orders>>
(* countDevices sees the committed rows, less the one just deleted.        *)
CountDevices(t) ==
  LET left == IF Live(Named(t))
              THEN orders[Named(t)].devices \ {tx[t].request.device} ELSE {}
  IN
  /\ tx[t].step = "count"
  /\ Goto(t, IF left = {} THEN "delete" ELSE AfterDetach(t))
  /\ UNCHANGED <<rows, orders>>

(* deleteInspection waits for whoever holds the inspection or a device row *)
(* of it, and then takes every device row with it; the foreign key of a    *)
(* visit refuses it.                                                       *)
DeleteInspection(t) ==
  /\ tx[t].step = "delete"
  /\ Granted(t)
  /\ IF Live(Named(t)) /\ ~Active(Named(t)) THEN Rollback(t)
     ELSE Write(t, {"delete"}, AfterDetach(t))
  /\ UNCHANGED <<rows, orders>>

RescheduleInspection(t) ==
  /\ tx[t].step = "reschedule"
  /\ Granted(t)
  /\ Write(t, {"reschedule"}, "commit")
  /\ UNCHANGED <<rows, orders>>

-----------------------------------------------------------------------------
(* The service orders of a visit.                                          *)

AfterComplete(r) == IF r.op = "create" THEN "next" ELSE "commit"

(* The devices exist and belong to the visit's customer, and so does the   *)
(* service order.                                                          *)
BeginVisit(t, r, o) ==
  /\ ~Open(t)
  /\ r.kind = "visit"
  /\ \E c \in Customers :
       /\ \A d \in r.devices : rows[d] # Missing /\ Owner[d] = c
       /\ r.order # NoOrder => Live(r.order) /\ orders[r.order].customer = c
  /\ NewId(r, o)
  /\ Begin(t, r, PlainRow, o, IF r.order # NoOrder THEN "complete" ELSE AfterComplete(r))
  /\ UNCHANGED <<rows, orders>>

(* createVisit's foreign key and completeServiceOrder, whatever the status *)
(* of the order is by then.                                                *)
CompleteServiceOrder(t) ==
  /\ tx[t].step = "complete"
  /\ Granted(t)
  /\ IF Live(Named(t)) THEN Write(t, {"complete"}, AfterComplete(tx[t].request))
     ELSE Rollback(t)
  /\ UNCHANGED <<rows, orders>>

(* No device is locked and none of its other inspections is looked for.    *)
CreateNextInspection(t) ==
  /\ tx[t].step = "next"
  /\ Write(t, {"create"}, "commit")
  /\ UNCHANGED <<rows, orders>>

-----------------------------------------------------------------------------
CustomerOf(r) ==
  IF r.kind = "visit" THEN Owner[CHOOSE d \in r.devices : TRUE] ELSE Owner[r.device]
DevicesOf(r) == IF r.kind = "visit" THEN r.devices ELSE {r.device}

(* Mutant: the inspection is created without the date it is planned for.   *)
NewInspection_Undated(r) ==
  [customer |-> CustomerOf(r), status |-> "new",
   source |-> IF r.kind = "visit" THEN "system" ELSE "user",
   devices |-> DevicesOf(r)]
NewInspection(r) ==
  [customer |-> CustomerOf(r), status |-> "new", at |-> r.at,
   source |-> IF r.kind = "visit" THEN "system" ELSE "user",
   devices |-> DevicesOf(r)]

(* The named inspection with what the transaction wrote to it.             *)
Changed(i, r, writes) ==
  [i EXCEPT !.devices = IF "attach" \in writes THEN @ \cup {r.device}
                        ELSE IF "detach" \in writes THEN @ \ {r.device} ELSE @,
            !.at     = IF "reschedule" \in writes THEN r.at ELSE @,
            !.status = IF "complete" \in writes THEN "completed" ELSE @]

Published(o, t) ==
  CASE o = tx[t].new /\ "create" \in tx[t].writes -> NewInspection(tx[t].request)
    [] o = Named(t) /\ "delete" \in tx[t].writes -> Deleted
    [] o = Named(t) /\ Live(o) /\ "delete" \notin tx[t].writes ->
         Changed(orders[o], tx[t].request, tx[t].writes)
    [] OTHER -> orders[o]

Commit(t) ==
  LET r == tx[t].request IN
  /\ tx[t].step = "commit"
  /\ rows' = IF r.kind = "visit" THEN rows
             ELSE [rows EXCEPT ![r.device] =
                     Merge(tx[t].seen, r.form, IF @ = Missing THEN PlainRow ELSE @)]
  /\ orders' = [o \in Orders |-> Published(o, t)]
  /\ tx' = [tx EXCEPT ![t] = Idle]

Fail(t) ==
  /\ Open(t)
  /\ Rollback(t)
  /\ UNCHANGED <<rows, orders>>

BeginRequest(t) ==
  \E r \in Requests, o \in Orders \cup {NoOrder} :
    BeginUpdate(t, r, o) \/ BeginCreate(t, r, o) \/ BeginVisit(t, r, o)

Progress(t) ==
  \/ UpdateDevice(t) \/ FindInspection(t) \/ EnsureNoOther(t)
  \/ CreateInspection(t) \/ AttachDevice(t) \/ DetachDevice(t)
  \/ CountDevices(t) \/ DeleteInspection(t) \/ RescheduleInspection(t)
  \/ CompleteServiceOrder(t) \/ CreateNextInspection(t) \/ Commit(t)

Next == \E t \in Txs : BeginRequest(t) \/ Progress(t) \/ Fail(t)

Spec == Init /\ [][Next]_vars

-----------------------------------------------------------------------------
(* Every variable has its type.                                            *)
TypeOK ==
  /\ rows \in [Devices -> Rows \cup {Missing}]
  /\ orders \in [Orders -> Inspections \cup {Free, Deleted}]
  /\ tx \in [Txs -> Transactions]

FromUser(o) == Active(o) /\ orders[o].source = "user"

(* However the commands of the office overlap, and whatever visits commit  *)
(* between their statements, they never put a device on a second active    *)
(* inspection of the office's: the check for another active inspection and *)
(* the write after it happen under the lock of the device row.             *)
OneUserInspection ==
  \A o, p \in Orders :
    FromUser(o) /\ FromUser(p) /\ o # p => orders[o].devices \cap orders[p].devices = {}

(* An inspection holds devices of its own customer only, whether it was    *)
(* created, joined or planned by a visit (getValidInspection, the customer *)
(* of createInspection and of createNextInspection).                       *)
DevicesOfOneCustomer ==
  \A o \in Orders : Live(o) =>
    \A d \in orders[o].devices : rows[d] # Missing /\ Owner[d] = orders[o].customer

(* Inspections of the office's do not share devices, and no inspection     *)
(* mixes customers.                                                        *)
InspectionsApart == OneUserInspection /\ DevicesOfOneCustomer

(* Updates that read a device at the same time never leave a row that the  *)
(* device views refuse: a custom address is announced exactly when one is  *)
(* stored, and a warranty has a date to run from.                          *)
RowsCoherent ==
  \A d \in Devices : rows[d] # Missing =>
    /\ rows[d].custom <=> rows[d].stored
    /\ rows[d].warranty => rows[d].dated

(* No transactions wait for each other in a circle: a command locks its    *)
(* device, then what it changes of one inspection, and deletes that one    *)
(* only when no other device is left whose rows another command may hold.  *)
NoDeadlock ==
  (\E t \in Txs : Open(t)) => \E t \in Txs : Open(t) /\ Granted(t)

=============================================================================

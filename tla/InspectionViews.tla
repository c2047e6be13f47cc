-------------------------- MODULE InspectionViews --------------------------
(* What the queries answer about devices and their inspections, over the   *)
(* committed rows of module Inspections.  A page of the application is put *)
(* together by one of several handlers, each with its own query, its own   *)
(* order and its own mapping of the same rows.                             *)
EXTENDS Inspections, Paging

CONSTANTS
  None,     \* no inspection, no customer, no device
  Filters   \* the filters clients set on lists, a subset of AllFilters

Statuses == ActiveStatuses \cup {"completed"}
AllFilters ==
  [customer : Customers \cup {None}, statuses : (SUBSET Statuses) \cup {None},
   active : BOOLEAN, exclude : Devices \cup {None}]

(* What is answered of an inspection.                                      *)
Summaries == [id : Orders, status : Statuses, source : {"user", "system"}, at : Times]
Dtos ==
  [order : Summaries, customer : Customers,
   devices : SUBSET [id : Devices, address : {"own", "none", "customer", "missing"}]]

ASSUME ViewsAssumption ==
  /\ Filters \subseteq AllFilters
  /\ None \notin Customers \cup Devices \cup Orders
  /\ None \notin Dtos
  /\ IsFiniteSet(Orders) /\ IsFiniteSet(Devices)
  /\ Times \subseteq Int /\ Null \notin Int  \* dates are compared as numbers

-----------------------------------------------------------------------------
(* One device, one inspection.                                             *)

(* The address a device is shown at: its own, else the one at hand.  Every *)
(* mapper reads it like this, and one that does not find the address that  *)
(* is announced throws, and with it the whole answer fails.                *)
AddressOf(d, otherwise) ==
  CASE ~rows[d].custom                  -> otherwise
    [] rows[d].custom /\ rows[d].stored -> "own"
    [] OTHER                            -> "missing"

(* DevicesMapper.mapDevice, for the page of one device, and                *)
(* mapDeviceListItem.                                                      *)
DeviceDto(d)      == [id |-> d, address |-> AddressOf(d, "none")]
DeviceListItem(d) == [id |-> d, address |-> AddressOf(d, "customer")]

(* The devices of an inspection: mapInspectionDevice for the page of a     *)
(* device, mapDevice of a mapper of orders for lists and details.          *)
InspectionDevice(d) == [id |-> d, address |-> AddressOf(d, "customer")]
OrderDevice(d)      == [id |-> d, address |-> AddressOf(d, "customer")]

Answered(devices) == \A device \in devices : device.address # "missing"

(* What a query stores of the row of an inspection before it is mapped.    *)
Summary(o) == [id |-> o, status |-> orders[o].status, source |-> orders[o].source,
               at |-> orders[o].at]

(* An order with a snapshot takes its customer from it; inspections have   *)
(* none, and take the customer's row.                                      *)
OrderCustomer(o) == orders[o].customer

ListItem(o) ==
  [order |-> Summary(o), customer |-> OrderCustomer(o),
   devices |-> {OrderDevice(d) : d \in orders[o].devices}]

(* The details of an inspection; nothing here stores messages, notes or    *)
(* photos of orders.                                                       *)
DetailsDto(o) ==
  [order |-> Summary(o), customer |-> OrderCustomer(o),
   devices |-> {OrderDevice(d) : d \in orders[o].devices}]
(* GetServiceOrderDetailsHandler.                                          *)
OrderDetails(o) == IF Live(o) THEN DetailsDto(o) ELSE None

-----------------------------------------------------------------------------
(* Lists of inspections.                                                   *)

(* Mutant: a filter for active inspections is dropped when statuses are    *)
(* not asked for.                                                          *)
ResolveStatuses_AsAsked(f) ==
  IF f.statuses = None THEN Statuses ELSE f.statuses
(* resolveStatuses of the list of service orders.                          *)
ResolveStatuses(f) ==
  LET wanted == IF f.active THEN ActiveStatuses ELSE Statuses
  IN  IF f.statuses = None THEN wanted ELSE f.statuses \cap wanted

Matches(o, f) ==
  /\ Live(o)
  /\ orders[o].status \in ResolveStatuses(f)
  /\ f.customer = None \/ f.customer = orders[o].customer
  /\ f.exclude = None \/ f.exclude \notin orders[o].devices

FindList(f) == {o \in Orders : Matches(o, f)}

(* resolveStatuses of the list of inspections, which is always of one      *)
(* customer: the active ones unless statuses are asked for.                *)
ResolveInspectionStatuses(f) ==
  LET requested == IF f.statuses = None THEN ActiveStatuses ELSE f.statuses
  IN  IF f.active THEN requested \cap ActiveStatuses ELSE requested
FindInspections(f) ==
  {o \in Orders :
     /\ Live(o)
     /\ orders[o].customer = f.customer
     /\ orders[o].status \in ResolveInspectionStatuses(f)
     /\ f.exclude = None \/ f.exclude \notin orders[o].devices}
InspectionDto(o) ==
  [order |-> Summary(o), customer |-> orders[o].customer,
   devices |-> {[id |-> d, address |-> AddressOf(d, "customer")] : d \in orders[o].devices}]

(* scheduledAt of the orders a list holds.                                 *)
Listed(f) == [o \in FindList(f) |-> orders[o].at]

(* The devices of the tenant, the newest first.                            *)
FindAllDevices == {d \in Devices : rows[d] # Missing}
ListDevices(found, rank) == Descending(found, rank)

-----------------------------------------------------------------------------
(* The page of a device and the page of its customer.  rank is an order of *)
(* the order dates, and of the ids where two dates are the same.           *)

(* findActiveInspectionForDevice: the first by date and id, descending.    *)
DeviceInspection(d, rank) ==
  LET found == {o \in Orders : Active(o) /\ d \in orders[o].devices}
  IN  IF found = {} THEN None
      ELSE CHOOSE o \in found : \A p \in found : rank[p] <= rank[o]

(* mapInspection of the device mapper.                                     *)
DeviceInspectionDto(o) ==
  [order |-> Summary(o), customer |-> OrderCustomer(o),
   devices |-> {InspectionDevice(d) : d \in orders[o].devices}]

(* GetDeviceDetailsHandler.                                                *)
DeviceDetails(d, rank) ==
  LET o == DeviceInspection(d, rank) IN
  [device     |-> DeviceDto(d),
   inspection |-> IF o = None THEN None ELSE DeviceInspectionDto(o)]

(* findDetails: the customer's orders by date and id, descending.          *)
CustomerOrders(c, rank) == Descending({o \in Orders : Live(o) /\ orders[o].customer = c}, rank)

(* Where the list has active inspections that name the device.             *)
ActiveIn(list, d) == {i \in DOMAIN list : Active(list[i]) /\ d \in orders[list[i]].devices}

(* Mutant: the last active inspection of the list stays in the map.        *)
CustomerInspection_Last(c, d, rank) ==
  LET list   == CustomerOrders(c, rank)
      active == ActiveIn(list, d)
  IN  IF active = {} THEN None ELSE list[Max(active)]
(* activeInspectionByDeviceId: the first active inspection in the list     *)
(* that names the device.                                                  *)
CustomerInspection(c, d, rank) ==
  LET list   == CustomerOrders(c, rank)
      active == ActiveIn(list, d)
  IN  IF active = {} THEN None ELSE list[Min(active)]

(* GetCustomerDetailsHandler.                                              *)
CustomerDevice(c, d, rank) ==
  [id |-> d, address |-> AddressOf(d, "customer"),
   inspection |-> CustomerInspection(c, d, rank)]
CustomerDetails(c, rank) ==
  {CustomerDevice(c, d, rank) : d \in {x \in FindAllDevices : Owner[x] = c}}

-----------------------------------------------------------------------------
(* The answers depend on committed rows alone, and whatever is committed   *)
(* is also reached with no transaction under way, since each may fail.     *)
Quiet == \A t \in Txs : ~Open(t)

(* The filter of the form in which a client picks an inspection to join.   *)
ToJoin(d, exclude) ==
  [customer |-> Owner[d], statuses |-> None, active |-> TRUE, exclude |-> exclude]

(* The page of d, its entry in the list of devices and on the page of its  *)
(* customer, and the devices of its inspection answer.                     *)
ViewsAnswer(d, rank) ==
  LET page == DeviceDetails(d, rank)
      dto  == page.inspection
      same == CHOOSE x \in CustomerDetails(Owner[d], rank) : x.id = d
  IN  /\ Answered({page.device, DeviceListItem(d), same})
      /\ dto # None => Answered(dto.devices)

(* The lists from which an inspection is picked hold the one on the page   *)
(* of d, and none with d when the page shows none; lists and details show  *)
(* it with the same contents.                                              *)
ListsFollowPage(d, rank) ==
  LET dto == DeviceDetails(d, rank).inspection IN
  /\ dto = None => \A o \in FindList(ToJoin(d, None)) : d \notin orders[o].devices
  /\ dto # None =>
       /\ dto.order.id \in FindList(ToJoin(d, None))
       /\ dto = OrderDetails(dto.order.id)
       /\ dto = ListItem(dto.order.id) /\ dto = InspectionDto(dto.order.id)

(* The page of the customer shows the inspection that the page of d does.  *)
CustomerPageFollows(d, rank) ==
  LET dto  == DeviceDetails(d, rank).inspection
      same == CHOOSE x \in CustomerDetails(Owner[d], rank) : x.id = d
  IN  same.inspection = IF dto = None THEN None ELSE dto.order.id

(* Whatever commands and visits have committed, the page of a device, the  *)
(* page of its customer, the lists and the details all answer, and show    *)
(* the same inspection for the device, with the same contents: also when a *)
(* visit's next inspection has made it the second one.                     *)
ViewsAgree == Quiet =>
  \A d \in FindAllDevices, rank \in Rankings(Orders) :
    ViewsAnswer(d, rank) /\ ListsFollowPage(d, rank) /\ CustomerPageFollows(d, rank)

(* Every inspection a client is offered for a device passes the check of   *)
(* the command that attaches it, and no active one of its customer is held *)
(* back but those it is on: lists and command agree on what is active.     *)
OfferedIsAttachable == Quiet =>
  \A d \in FindAllDevices :
    LET attachable == {o \in Orders : ValidInspection(o, d) /\ d \notin orders[o].devices}
    IN  /\ FindList(ToJoin(d, d)) = attachable
        /\ FindInspections(ToJoin(d, d)) = attachable
        /\ FindInspections([ToJoin(d, d) EXCEPT !.active = FALSE]) = attachable

(* Two answers of the list of orders, read in the order of any field and   *)
(* direction, with the database returning the rows in any order each time: *)
(* nothing that is in both is left out.                                    *)
OrdersComplete(before, after) ==
  \A rank \in Rankings(Orders), multiplier \in {1, -1}, byDate \in BOOLEAN,
     pageSize \in 1 .. Cardinality(Orders),
     first \in SetToSeqs(DOMAIN before), second \in SetToSeqs(DOMAIN after) :
    LET sorted == Sorted(first, IF byDate THEN rank ELSE before, rank, multiplier)
        later  == Sorted(second, IF byDate THEN rank ELSE after, rank, multiplier)
    IN  \A p \in 1 .. LastPage(sorted, pageSize, 0) :
          DOMAIN before \subseteq ShownInTwo(sorted, later, p, pageSize, 0)

DevicesComplete(before, after) ==
  \A rank \in Rankings(Devices), limit \in 0 .. Cardinality(Devices),
     pageSize \in 1 .. Cardinality(Devices) :
    LET sorted == ListDevices(before, rank)
        later  == ListDevices(after, rank)
    IN  \A p \in 1 .. LastPage(sorted, pageSize, limit) :
          before \subseteq ShownInTwo(sorted, later, p, pageSize, limit)

(* The pairs of answers, of orders with their dates or of devices, of      *)
(* which the second only adds to the first and one is shown in neither.    *)
Answers == UNION {[S -> Times] : S \in SUBSET Orders}
OnlyAdds(before, after) ==
  /\ DOMAIN before \subseteq DOMAIN after
  /\ \A o \in DOMAIN before : before[o] = after[o]
IncompleteOrders ==
  {pair \in {<<before, after>> : before \in Answers, after \in Answers} :
     OnlyAdds(pair[1], pair[2]) /\ ~OrdersComplete(pair[1], pair[2])}
IncompleteDevices ==
  {pair \in {<<B, A>> : B \in SUBSET Devices, A \in SUBSET Devices} :
     pair[1] \subseteq pair[2] /\ ~DevicesComplete(pair[1], pair[2])}

(* A client that pages through the service orders or the devices while     *)
(* others commit is shown everything that matches its filter all the time, *)
(* unless an order was rescheduled or left the list: what is added only    *)
(* repeats, and a list that grows over the limit starts to be cut.         *)
NothingSkipped ==
  [][/\ \A f \in Filters : <<Listed(f), Listed(f)'>> \notin IncompleteOrders
     /\ <<FindAllDevices, FindAllDevices'>> \notin IncompleteDevices]_<<rows, orders>>

=============================================================================

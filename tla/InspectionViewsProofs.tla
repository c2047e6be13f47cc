----------------------- MODULE InspectionViewsProofs -----------------------
(***************************************************************************)
(* What the queries answer for every set of devices and inspections: no    *)
(* committed row makes a page fail, the page of a device, the lists and    *)
(* the details show the same inspection, and what is offered for a device  *)
(* is what the command takes.                                              *)
(***************************************************************************)
EXTENDS InspectionViews, InspectionsProofs, FiniteSetTheorems, WellFoundedInduction,
        SequenceTheorems

(* The filters of the form are the filters of the lists.                   *)
LEMMA ToJoinFacts ==
  ASSUME NEW d \in Devices, NEW exclude \in Devices \cup {None}
  PROVE  LET f == ToJoin(d, exclude) IN
         /\ f.customer = Owner[d] /\ f.customer # None
         /\ ResolveStatuses(f) = ActiveStatuses
         /\ ResolveInspectionStatuses(f) = ActiveStatuses
         /\ ResolveInspectionStatuses([f EXCEPT !.active = FALSE]) = ActiveStatuses
         /\ [f EXCEPT !.active = FALSE].customer = Owner[d]
         /\ f.exclude = exclude
         /\ [f EXCEPT !.active = FALSE].exclude = exclude
BY ConstantsAssumption, ViewsAssumption DEF ToJoin, ResolveStatuses, ResolveInspectionStatuses,
   Statuses

(* A device is offered the inspections that getValidInspection accepts for *)
(* it, save those it is on: the lists and the command agree on which are   *)
(* active, live and of the customer.                                       *)
LEMMA OfferedAttachable ==
  ASSUME TypeOK
  PROVE  OfferedIsAttachable
<1> SUFFICES ASSUME NEW d \in FindAllDevices
             PROVE  LET attachable == {o \in Orders : ValidInspection(o, d)
                                                      /\ d \notin orders[o].devices}
                    IN  /\ FindList(ToJoin(d, d)) = attachable
                        /\ FindInspections(ToJoin(d, d)) = attachable
                        /\ FindInspections([ToJoin(d, d) EXCEPT !.active = FALSE])
                             = attachable
  BY DEF OfferedIsAttachable
<1>1. d \in Devices /\ d # None
  BY ViewsAssumption DEF FindAllDevices
<1> DEFINE f == ToJoin(d, d)
           g == [ToJoin(d, d) EXCEPT !.active = FALSE]
<1>2. /\ f.customer = Owner[d] /\ f.customer # None /\ f.exclude = d
      /\ ResolveStatuses(f) = ActiveStatuses
      /\ ResolveInspectionStatuses(f) = ActiveStatuses
      /\ g.customer = Owner[d] /\ g.exclude = d
      /\ ResolveInspectionStatuses(g) = ActiveStatuses
  BY <1>1, ToJoinFacts
<1> HIDE DEF f, g
<1> QED
  BY <1>1, <1>2 DEF FindList, Matches, FindInspections, ValidInspection, Active, f, g

(* However commands and visits overlap, whatever a client is offered for a *)
(* device passes the check of the command that attaches it.                *)
THEOREM OfferedPassesCheck == Spec => []OfferedIsAttachable
<1>1. Spec => []TypeOK
  BY TypeCorrect
<1>2. TypeOK => OfferedIsAttachable
  BY OfferedAttachable
<1> QED
  BY <1>1, <1>2, PTL

-----------------------------------------------------------------------------
(* The pages.                                                              *)

(* Some order of a set comes last.                                         *)
LEMMA LastOrder ==
  ASSUME NEW rank \in Rankings(Orders), NEW S \in SUBSET Orders, S # {}
  PROVE  \E o \in S : \A p \in S : rank[p] <= rank[o]
<1> DEFINE N == Cardinality(Orders)
           T == {N - rank[o] : o \in S}
<1>1. N \in Nat /\ \A o \in S : rank[o] \in 1 .. N
  BY ViewsAssumption, FS_CardinalityType DEF Rankings
<1>2. T \subseteq Nat /\ T # {}
  BY <1>1
<1>3. PICK x \in T : \A y \in T : <<y, x>> \notin OpToRel(<, Nat)
  BY <1>2, NatLessThanWellFounded, WFMin
<1>4. \A y \in T : ~(y < x)
  BY <1>2, <1>3 DEF OpToRel
<1>5. PICK o \in S : x = N - rank[o]
  OBVIOUS
<1>6. ASSUME NEW p \in S
      PROVE  rank[p] <= rank[o]
  <2>1. ~(N - rank[p] < N - rank[o])
    BY <1>4, <1>5
  <2> QED
    BY <1>1, <2>1
<1> QED
  BY <1>6

(* The inspection on the page of a device is an active one with it.        *)
LEMMA PageInspection ==
  ASSUME NEW d \in Devices, NEW rank \in Rankings(Orders)
  PROVE  LET o     == DeviceInspection(d, rank)
             found == {p \in Orders : Active(p) /\ d \in orders[p].devices}
         IN  IF o = None THEN found = {} ELSE o \in found
<1> DEFINE found == {p \in Orders : Active(p) /\ d \in orders[p].devices}
<1>1. CASE found = {}
  BY <1>1 DEF DeviceInspection
<1>2. CASE found # {}
  <2>1. \E o \in found : \A p \in found : rank[p] <= rank[o]
    BY <1>2, LastOrder
  <2>2. (CHOOSE o \in found : \A p \in found : rank[p] <= rank[o]) \in found
    BY <2>1
  <2> QED
    BY <1>2, <2>2, ViewsAssumption DEF DeviceInspection
<1> QED
  BY <1>1, <1>2

(* What is answered of an inspection is not mistaken for no inspection.    *)
LEMMA DtoFacts ==
  ASSUME TypeOK, DevicesOfOneCustomer, NEW o \in Orders, Live(o)
  PROVE  /\ DeviceInspectionDto(o) # None
         /\ DeviceInspectionDto(o).order.id = o
         /\ DeviceInspectionDto(o) = OrderDetails(o)
         /\ DeviceInspectionDto(o) = ListItem(o)
         /\ DeviceInspectionDto(o) = InspectionDto(o)
<1>1. Summary(o) \in Summaries
  BY DEF Live, Inspections, Summary, Summaries, Statuses
<1>2. \A d : AddressOf(d, "customer") \in {"own", "none", "customer", "missing"}
  BY DEF AddressOf
<1>3. {InspectionDevice(d) : d \in orders[o].devices}
        \in SUBSET [id : Devices, address : {"own", "none", "customer", "missing"}]
  BY <1>2 DEF InspectionDevice, Live, Inspections
<1>4. OrderCustomer(o) \in Customers
  BY DEF OrderCustomer, Live, Inspections
<1>5. DeviceInspectionDto(o) \in Dtos
  BY <1>1, <1>3, <1>4 DEF DeviceInspectionDto, Dtos
<1> QED
  BY <1>5, ViewsAssumption DEF DeviceInspectionDto, OrderDetails, DetailsDto, ListItem,
     InspectionDto, Summary, OrderCustomer, InspectionDevice, OrderDevice

(* A stored device is shown, wherever an address is announced.             *)
LEMMA AddressShown ==
  ASSUME TypeOK, RowsCoherent, NEW d \in Devices, rows[d] # Missing, NEW otherwise,
         otherwise # "missing"
  PROVE  AddressOf(d, otherwise) # "missing"
BY DEF AddressOf, RowsCoherent, TypeOK, Rows

(* The page of d, its entries in the lists and its inspection's devices    *)
(* answer: the mappers throw on a row that announces an address it has not *)
(* got.                                                                    *)
LEMMA PagesAnswer ==
  ASSUME TypeOK, RowsCoherent, DevicesOfOneCustomer,
         NEW d \in FindAllDevices, NEW rank \in Rankings(Orders)
  PROVE  ViewsAnswer(d, rank)
<1> DEFINE page == DeviceDetails(d, rank)
           dto  == page.inspection
           same == CHOOSE x \in CustomerDetails(Owner[d], rank) : x.id = d
           o    == DeviceInspection(d, rank)
<1>1. d \in Devices /\ rows[d] # Missing
  BY DEF FindAllDevices
<1>2. same.address # "missing"
  <2>1. CustomerDevice(Owner[d], d, rank) \in CustomerDetails(Owner[d], rank)
    BY <1>1 DEF CustomerDetails
  <2>2. CustomerDevice(Owner[d], d, rank).id = d
    BY DEF CustomerDevice
  <2>3. same \in CustomerDetails(Owner[d], rank) /\ same.id = d
    BY <2>1, <2>2
  <2>4. PICK x \in FindAllDevices : same = CustomerDevice(Owner[d], x, rank)
    BY <2>3 DEF CustomerDetails
  <2>5. x \in Devices /\ rows[x] # Missing
    BY DEF FindAllDevices
  <2> HIDE DEF same
  <2> QED
    BY <2>4, <2>5, AddressShown DEF CustomerDevice
<1>3. page.device.address # "missing" /\ DeviceListItem(d).address # "missing"
  BY <1>1, AddressShown DEF DeviceDetails, DeviceDto, DeviceListItem
<1>4. ASSUME dto # None
      PROVE  Answered(dto.devices)
  <2>1. o # None /\ dto = DeviceInspectionDto(o)
    BY <1>4 DEF DeviceDetails
  <2>2. o \in Orders /\ Live(o)
    BY <1>1, <2>1, PageInspection DEF Active
  <2>3. \A e \in orders[o].devices : e \in Devices /\ rows[e] # Missing
    BY <2>2 DEF DevicesOfOneCustomer, Live, Inspections
  <2> HIDE DEF o
  <2>4. \A e \in orders[o].devices : InspectionDevice(e).address # "missing"
    BY <2>3, AddressShown DEF InspectionDevice
  <2>5. dto.devices = {InspectionDevice(e) : e \in orders[o].devices}
    BY <2>1 DEF DeviceInspectionDto
  <2> QED
    BY <2>4, <2>5 DEF Answered
<1> QED
  BY <1>2, <1>3, <1>4 DEF ViewsAnswer, Answered

(* The lists show what the page of d shows.                                *)
LEMMA ListsFollow ==
  ASSUME TypeOK, DevicesOfOneCustomer,
         NEW d \in FindAllDevices, NEW rank \in Rankings(Orders)
  PROVE  ListsFollowPage(d, rank)
<1> DEFINE o     == DeviceInspection(d, rank)
           dto   == DeviceDetails(d, rank).inspection
           f     == ToJoin(d, None)
           found == {p \in Orders : Active(p) /\ d \in orders[p].devices}
<1>1. d \in Devices
  BY DEF FindAllDevices
<1>2. /\ f.customer = Owner[d] /\ f.exclude = None
      /\ ResolveStatuses(f) = ActiveStatuses
  BY <1>1, ToJoinFacts
<1>3. IF o = None THEN found = {} ELSE o \in found
  BY <1>1, PageInspection
<1>4. dto = IF o = None THEN None ELSE DeviceInspectionDto(o)
  BY DEF DeviceDetails
<1>5. CASE o = None
  <2>1. \A p \in FindList(f) : p \in Orders /\ Active(p)
    BY <1>2 DEF FindList, Matches, Active
  <2>2. \A p \in FindList(f) : d \notin orders[p].devices
    BY <1>3, <1>5, <2>1
  <2> QED
    BY <1>4, <1>5, <2>2 DEF ListsFollowPage
<1>6. CASE o # None
  <2>1. o \in Orders /\ Active(o) /\ Live(o) /\ d \in orders[o].devices
    BY <1>3, <1>6 DEF Active
  <2>2. orders[o].customer = Owner[d]
    BY <2>1 DEF DevicesOfOneCustomer
  <2> HIDE DEF o, f
  <2>3. o \in FindList(f)
    BY <1>2, <2>1, <2>2 DEF FindList, Matches, Active
  <2>4. /\ dto # None /\ dto.order.id = o /\ dto = OrderDetails(o)
        /\ dto = ListItem(o) /\ dto = InspectionDto(o)
    BY <1>4, <1>6, <2>1, DtoFacts
  <2> QED
    BY <2>3, <2>4 DEF ListsFollowPage, f
<1> QED
  BY <1>5, <1>6

-----------------------------------------------------------------------------
(* Lists in an order.                                                      *)

(* R orders the elements of S, without ties.                               *)
StrictOrder(S, R) ==
  /\ \A x \in S : <<x, x>> \notin R
  /\ \A x, y \in S : x # y => <<x, y>> \in R \/ <<y, x>> \in R
  /\ \A x, y, z \in S : <<x, y>> \in R /\ <<y, z>> \in R => <<x, z>> \in R

Before(S, R, x) == {y \in S : <<y, x>> \in R}
Place(S, R, x)  == Cardinality(Before(S, R, x)) + 1

LEMMA PlaceFacts ==
  ASSUME NEW S, IsFiniteSet(S), NEW R, StrictOrder(S, R)
  PROVE  /\ Cardinality(S) \in Nat
         /\ \A x \in S : Place(S, R, x) \in 1 .. Cardinality(S)
         /\ \A x, y \in S : <<x, y>> \in R => Place(S, R, x) < Place(S, R, y)
<1>1. Cardinality(S) \in Nat
  BY FS_CardinalityType
<1>2. \A x \in S : /\ IsFiniteSet(Before(S, R, x))
                   /\ Cardinality(Before(S, R, x)) \in Nat
  <2> SUFFICES ASSUME NEW x \in S
               PROVE  IsFiniteSet(Before(S, R, x)) /\ Cardinality(Before(S, R, x)) \in Nat
    OBVIOUS
  <2>1. Before(S, R, x) \in SUBSET S
    BY DEF Before
  <2> QED
    BY <2>1, FS_Subset, FS_CardinalityType
<1>3. ASSUME NEW x \in S
      PROVE  Place(S, R, x) \in 1 .. Cardinality(S)
  <2>1. /\ IsFiniteSet(S \ {x}) /\ Cardinality(S \ {x}) = Cardinality(S) - 1
    BY FS_RemoveElement
  <2>2. Before(S, R, x) \in SUBSET (S \ {x})
    BY DEF Before, StrictOrder
  <2>3. Cardinality(Before(S, R, x)) <= Cardinality(S) - 1
    BY <2>1, <2>2, FS_Subset
  <2> QED
    BY <1>1, <1>2, <2>3 DEF Place
<1>4. ASSUME NEW x \in S, NEW y \in S, <<x, y>> \in R
      PROVE  Place(S, R, x) < Place(S, R, y)
  <2>1. x \notin Before(S, R, x)
    BY DEF Before, StrictOrder
  <2>2. /\ IsFiniteSet(Before(S, R, x) \cup {x})
        /\ Cardinality(Before(S, R, x) \cup {x}) = Cardinality(Before(S, R, x)) + 1
    BY <1>2, <2>1, FS_AddElement
  <2>3. Before(S, R, x) \cup {x} \in SUBSET Before(S, R, y)
    BY <1>4 DEF Before, StrictOrder
  <2>4. Cardinality(Before(S, R, x) \cup {x}) <= Cardinality(Before(S, R, y))
    BY <1>2, <2>3, FS_Subset
  <2> QED
    BY <1>2, <2>2, <2>4 DEF Place
<1> QED
  BY <1>1, <1>3, <1>4

(* InOrder lists every element once, each at its place.                    *)
LEMMA InOrderFacts ==
  ASSUME NEW S, IsFiniteSet(S), NEW R, StrictOrder(S, R)
  PROVE  /\ InOrder(S, R) \in [1 .. Cardinality(S) -> S]
         /\ \A i \in 1 .. Cardinality(S) : Place(S, R, InOrder(S, R)[i]) = i
         /\ \A x \in S : InOrder(S, R)[Place(S, R, x)] = x
<1> DEFINE n == Cardinality(S)
           f == [x \in S |-> Place(S, R, x)]
<1>1. n \in Nat /\ f \in [S -> 1 .. n]
  BY PlaceFacts
<1>2. \A x, y \in S : Place(S, R, x) = Place(S, R, y) => x = y
  <2> SUFFICES ASSUME NEW x \in S, NEW y \in S, x # y, Place(S, R, x) = Place(S, R, y)
               PROVE  FALSE
    OBVIOUS
  <2>1. <<x, y>> \in R \/ <<y, x>> \in R
    BY DEF StrictOrder
  <2>2. Place(S, R, x) \in Int /\ Place(S, R, y) \in Int
    BY PlaceFacts
  <2>3. Place(S, R, x) < Place(S, R, y) \/ Place(S, R, y) < Place(S, R, x)
    BY <2>1, PlaceFacts
  <2> QED
    BY <2>2, <2>3
<1>3. f \in Injection(S, 1 .. n)
  BY <1>1, <1>2 DEF Injection, IsInjective
<1>4. IsFiniteSet(1 .. n) /\ Cardinality(1 .. n) = n
  BY <1>1, FS_Interval
<1>5. f \in Surjection(S, 1 .. n)
  BY <1>3, <1>4, FS_Injection
<1>6. \A i \in 1 .. n : \E x \in S : Place(S, R, x) = i
  BY <1>5 DEF Surjection
<1> DEFINE at(i) == CHOOSE x \in S : Cardinality(Before(S, R, x)) = i - 1
<1>7. InOrder(S, R) = [i \in 1 .. n |-> at(i)]
  BY DEF InOrder, Before
<1>8. ASSUME NEW i \in 1 .. n
      PROVE  at(i) \in S /\ Place(S, R, at(i)) = i
  <2>1. \A x \in S : Cardinality(Before(S, R, x)) \in Int
    <3> SUFFICES ASSUME NEW x \in S PROVE Cardinality(Before(S, R, x)) \in Int
      OBVIOUS
    <3>1. Before(S, R, x) \in SUBSET S
      BY DEF Before
    <3> QED
      BY <3>1, FS_Subset, FS_CardinalityType
  <2>2. PICK x \in S : Place(S, R, x) = i
    BY <1>6
  <2>3. Cardinality(Before(S, R, x)) = i - 1
    BY <2>1, <2>2 DEF Place
  <2>4. at(i) \in S /\ Cardinality(Before(S, R, at(i))) = i - 1
    BY <2>3
  <2> HIDE DEF at
  <2> QED
    BY <2>4 DEF Place
<1> HIDE DEF at
<1>9. ASSUME NEW x \in S PROVE InOrder(S, R)[Place(S, R, x)] = x
  BY <1>2, <1>7, <1>8, PlaceFacts
<1> QED
  BY <1>7, <1>8, <1>9

(* A list of the elements of S, each once, in the order R.                 *)
GoesThrough(list, S, R) ==
  /\ list \in [1 .. Cardinality(S) -> S]
  /\ \A x \in S : \E i \in 1 .. Cardinality(S) : list[i] = x
  /\ \A i, j \in 1 .. Cardinality(S) : i < j => <<list[i], list[j]>> \in R

LEMMA InOrderGoesThrough ==
  ASSUME NEW S, IsFiniteSet(S), NEW R, StrictOrder(S, R)
  PROVE  GoesThrough(InOrder(S, R), S, R)
<1> DEFINE n    == Cardinality(S)
           list == InOrder(S, R)
<1>1. n \in Nat /\ list \in [1 .. n -> S] /\ \A i \in 1 .. n : Place(S, R, list[i]) = i
  BY InOrderFacts, PlaceFacts
<1>2. \A x \in S : \E i \in 1 .. n : list[i] = x
  BY InOrderFacts, PlaceFacts
<1>3. ASSUME NEW i \in 1 .. n, NEW j \in 1 .. n, i < j
      PROVE  <<list[i], list[j]>> \in R
  <2> HIDE DEF list
  <2>1. list[i] \in S /\ list[j] \in S /\ list[i] # list[j]
    BY <1>1, <1>3
  <2>2. ~(<<list[j], list[i]>> \in R)
    BY <1>1, <1>3, <2>1, PlaceFacts
  <2> QED
    BY <2>1, <2>2 DEF StrictOrder
<1> QED
  BY <1>1, <1>2, <1>3 DEF GoesThrough

(* The ranks give an order without ties.                                   *)
HigherFirst(S, rank) == {pair \in S \X S : rank[pair[1]] > rank[pair[2]]}

LEMMA DescendingOrder ==
  ASSUME NEW S, IsFiniteSet(S), NEW rank, \A x \in S : rank[x] \in Int,
         \A x, y \in S : rank[x] = rank[y] => x = y
  PROVE  /\ StrictOrder(S, HigherFirst(S, rank))
         /\ GoesThrough(Descending(S, rank), S, HigherFirst(S, rank))
<1>1. \A x, y \in S : <<x, y>> \in HigherFirst(S, rank) <=> rank[x] > rank[y]
  BY DEF HigherFirst
<1>2. StrictOrder(S, HigherFirst(S, rank))
  BY <1>1 DEF StrictOrder
<1>3. Descending(S, rank) = InOrder(S, HigherFirst(S, rank))
  BY DEF Descending, HigherFirst
<1> QED
  BY <1>2, <1>3, InOrderGoesThrough

(* A descending list holds every element, the higher rank first.           *)
LEMMA DescendingFacts ==
  ASSUME NEW S, IsFiniteSet(S), NEW rank, \A x \in S : rank[x] \in Int,
         \A x, y \in S : rank[x] = rank[y] => x = y
  PROVE  /\ Cardinality(S) \in Nat
         /\ Descending(S, rank) \in [1 .. Cardinality(S) -> S]
         /\ \A x \in S : \E i \in 1 .. Cardinality(S) : Descending(S, rank)[i] = x
         /\ \A i, j \in 1 .. Cardinality(S) :
              i < j => rank[Descending(S, rank)[i]] > rank[Descending(S, rank)[j]]
<1>1. Cardinality(S) \in Nat
  BY FS_CardinalityType
<1>2. GoesThrough(Descending(S, rank), S, HigherFirst(S, rank))
  BY DescendingOrder
<1>3. \A x, y \in S : <<x, y>> \in HigherFirst(S, rank) <=> rank[x] > rank[y]
  BY DEF HigherFirst
<1> QED
  BY <1>1, <1>2, <1>3 DEF GoesThrough

LEMMA LeastIndex ==
  ASSUME NEW T \in SUBSET Nat, T # {}
  PROVE  Min(T) \in T /\ \A y \in T : Min(T) <= y
<1>1. T \subseteq Nat
  OBVIOUS
<1>2. PICK x \in T : \A y \in T : <<y, x>> \notin OpToRel(<, Nat)
  BY <1>1, NatLessThanWellFounded, WFMin
<1>3. \A y \in T : ~(y < x)
  BY <1>1, <1>2 DEF OpToRel
<1>4. \A y \in T : x <= y
  BY <1>1, <1>3
<1> QED
  BY <1>4 DEF Min

(* The page of the customer goes through the orders in the order in which  *)
(* the page of the device takes the first one.                             *)
LEMMA CustomerPageFollowsPage ==
  ASSUME TypeOK, DevicesOfOneCustomer,
         NEW d \in FindAllDevices, NEW rank \in Rankings(Orders)
  PROVE  CustomerPageFollows(d, rank)
<1> DEFINE c     == Owner[d]
           S     == {p \in Orders : Live(p) /\ orders[p].customer = c}
           list  == CustomerOrders(c, rank)
           n     == Cardinality(S)
           found == {p \in Orders : Active(p) /\ d \in orders[p].devices}
           o     == DeviceInspection(d, rank)
           dto   == DeviceDetails(d, rank).inspection
           same  == CHOOSE x \in CustomerDetails(c, rank) : x.id = d
           at    == ActiveIn(list, d)
<1>1. d \in Devices /\ found \subseteq S
  BY DEF FindAllDevices, Active, DevicesOfOneCustomer
<1>2. IsFiniteSet(S)
  <2>1. S \in SUBSET Orders
    OBVIOUS
  <2> HIDE DEF S
  <2> QED
    BY <2>1, ViewsAssumption, FS_Subset
<1>3. /\ \A x \in Orders : rank[x] \in Int
      /\ \A x, y \in Orders : rank[x] = rank[y] => x = y
  <2>1. Cardinality(Orders) \in Nat
    BY ViewsAssumption, FS_CardinalityType
  <2> QED
    BY <2>1 DEF Rankings
<1>4. /\ n \in Nat /\ list \in [1 .. n -> S]
      /\ \A x \in S : \E i \in 1 .. n : list[i] = x
      /\ \A i, j \in 1 .. n : i < j => rank[list[i]] > rank[list[j]]
  <2>1. /\ \A x \in S : rank[x] \in Int
        /\ \A x, y \in S : rank[x] = rank[y] => x = y
        /\ list = Descending(S, rank)
    BY <1>3 DEF CustomerOrders
  <2> HIDE DEF S, list
  <2> QED
    BY <1>2, <2>1, DescendingFacts
<1>5. same.inspection = CustomerInspection(c, d, rank)
  <2>1. CustomerDevice(c, d, rank) \in CustomerDetails(c, rank)
    BY DEF CustomerDetails, FindAllDevices
  <2>2. CustomerDevice(c, d, rank).id = d
    BY DEF CustomerDevice
  <2>3. same \in CustomerDetails(c, rank) /\ same.id = d
    BY <2>1, <2>2
  <2>4. PICK x \in FindAllDevices : same = CustomerDevice(c, x, rank)
    BY <2>3 DEF CustomerDetails
  <2>5. x = d
    BY <2>3, <2>4 DEF CustomerDevice
  <2> HIDE DEF same
  <2> QED
    BY <2>4, <2>5 DEF CustomerDevice
<1>6. CustomerInspection(c, d, rank) = IF at = {} THEN None ELSE list[Min(at)]
  BY DEF CustomerInspection
<1>7. \A i : i \in at <=> i \in 1 .. n /\ list[i] \in found
  <2>1. DOMAIN list = 1 .. n /\ \A i \in 1 .. n : list[i] \in Orders
    BY <1>4
  <2> HIDE DEF list, n
  <2> QED
    BY <2>1 DEF ActiveIn
<1>8. IF o = None THEN found = {} ELSE o \in found
  BY <1>1, PageInspection
<1>9. dto = IF o = None THEN None ELSE DeviceInspectionDto(o)
  BY DEF DeviceDetails
<1>10. CASE o = None
  <2>1. at = {}
    BY <1>7, <1>8, <1>10
  <2> QED
    BY <1>5, <1>6, <1>9, <1>10, <2>1 DEF CustomerPageFollows
<1>11. CASE o # None
  <2>1. o \in found /\ \A p \in found : rank[p] <= rank[o]
    <3>1. found # {} /\ o = CHOOSE q \in found : \A p \in found : rank[p] <= rank[q]
      BY <1>11 DEF DeviceInspection
    <3> HIDE DEF o
    <3>2. \E q \in found : \A p \in found : rank[p] <= rank[q]
      BY <3>1, LastOrder
    <3> QED
      BY <3>1, <3>2
  <2> HIDE DEF o, found, at, list, n
  <2>2. PICK i \in 1 .. n : list[i] = o
    BY <1>1, <1>4, <2>1
  <2>3. at \in SUBSET Nat /\ i \in at
    BY <1>4, <1>7, <2>1, <2>2
  <2>4. Min(at) \in at /\ Min(at) <= i
    BY <2>3, LeastIndex
  <2>5. Min(at) \in 1 .. n /\ list[Min(at)] \in found
    BY <1>7, <2>4
  <2>6. ~(Min(at) < i)
    <3>1. rank[list[Min(at)]] <= rank[o] /\ rank[o] \in Int /\ rank[list[Min(at)]] \in Int
      BY <1>1, <1>3, <1>4, <2>1, <2>5
    <3> QED
      BY <1>4, <2>2, <2>5, <3>1
  <2>7. list[Min(at)] = o
    BY <1>4, <2>2, <2>4, <2>5, <2>6
  <2>8. o \in Orders /\ Live(o)
    BY <2>1 DEF found, Active
  <2>9. dto # None /\ dto.order.id = o
    BY <1>9, <1>11, <2>8, DtoFacts
  <2> QED
    BY <1>5, <1>6, <2>3, <2>7, <2>9 DEF CustomerPageFollows
<1> QED
  BY <1>10, <1>11

(* Whatever commands and visits have committed, in the middle of others    *)
(* too, every page of a device answers, and the lists, the details and the *)
(* page of the customer show the inspection that its page shows.           *)
THEOREM PagesAgreeAnyTime ==
  Spec => [](\A d \in FindAllDevices, rank \in Rankings(Orders) :
               ViewsAnswer(d, rank) /\ ListsFollowPage(d, rank) /\ CustomerPageFollows(d, rank))
<1>1. IInv => \A d \in FindAllDevices, rank \in Rankings(Orders) :
                ViewsAnswer(d, rank) /\ ListsFollowPage(d, rank) /\ CustomerPageFollows(d, rank)
  BY PagesAnswer, ListsFollow, CustomerPageFollowsPage DEF IInv
<1>2. Spec => []IInv
  BY Invariance
<1> QED
  BY <1>1, <1>2, PTL

(* The same of the states the runs look at, those with no transaction      *)
(* under way.                                                              *)
THEOREM ViewsAlwaysAgree == Spec => []ViewsAgree
<1>1. (\A d \in FindAllDevices, rank \in Rankings(Orders) :
         ViewsAnswer(d, rank) /\ ListsFollowPage(d, rank) /\ CustomerPageFollows(d, rank))
        => ViewsAgree
  BY DEF ViewsAgree
<1> QED
  BY <1>1, PagesAgreeAnyTime, PTL

-----------------------------------------------------------------------------
(* Lists that are read page by page.                                       *)

(* The comparator orders rows that have different ids, whether or not they *)
(* differ in the field that is sorted by, and in both directions.          *)
Preceding(S, key, id, multiplier) ==
  {pair \in S \X S : Precedes(pair[1], pair[2], key, id, multiplier)}

LEMMA PrecedesOrders ==
  ASSUME NEW S, NEW key, NEW id, NEW multiplier \in {1, -1},
         \A x \in S : key[x] \in Int /\ id[x] \in Int,
         \A x, y \in S : id[x] = id[y] => x = y
  PROVE  StrictOrder(S, Preceding(S, key, id, multiplier))
<1>1. \A x, y \in S : <<x, y>> \in Preceding(S, key, id, multiplier) <=>
        IF key[x] = key[y] THEN id[x] * multiplier < id[y] * multiplier
        ELSE key[x] * multiplier < key[y] * multiplier
  BY ViewsAssumption DEF Preceding, Precedes
<1>2. CASE multiplier = 1
  <2>1. \A x, y \in S : <<x, y>> \in Preceding(S, key, id, multiplier) <=>
          IF key[x] = key[y] THEN id[x] < id[y] ELSE key[x] < key[y]
    <3>1. \A x \in S : key[x] * multiplier = key[x] /\ id[x] * multiplier = id[x]
      BY <1>2
    <3> QED
      BY <1>1, <3>1
  <2> QED
    BY <2>1 DEF StrictOrder
<1>3. CASE multiplier = -1
  <2>1. \A x, y \in S : <<x, y>> \in Preceding(S, key, id, multiplier) <=>
          IF key[x] = key[y] THEN id[y] < id[x] ELSE key[y] < key[x]
    <3>1. \A x \in S : key[x] * multiplier = 0 - key[x] /\ id[x] * multiplier = 0 - id[x]
      BY <1>3
    <3> SUFFICES ASSUME NEW x \in S, NEW y \in S
                 PROVE  <<x, y>> \in Preceding(S, key, id, multiplier) <=>
                          IF key[x] = key[y] THEN id[y] < id[x] ELSE key[y] < key[x]
      OBVIOUS
    <3>2. /\ 0 - key[x] < 0 - key[y] <=> key[y] < key[x]
          /\ 0 - id[x] < 0 - id[y] <=> id[y] < id[x]
      OBVIOUS
    <3>3. <<x, y>> \in Preceding(S, key, id, multiplier) <=>
            IF key[x] = key[y] THEN 0 - id[x] < 0 - id[y] ELSE 0 - key[x] < 0 - key[y]
      BY <1>1, <3>1
    <3> QED
      BY <3>2, <3>3
  <2> QED
    BY <2>1 DEF StrictOrder
<1> QED
  BY <1>2, <1>3

(* The sorted list does not depend on the order the database returned.     *)
LEMMA SortedGoesThrough ==
  ASSUME NEW S, IsFiniteSet(S), NEW listing \in SetToSeqs(S),
         NEW key, NEW id, NEW multiplier,
         StrictOrder(S, Preceding(S, key, id, multiplier))
  PROVE  GoesThrough(Sorted(listing, key, id, multiplier), S,
                     Preceding(S, key, id, multiplier))
<1> DEFINE n      == Cardinality(S)
           R      == Preceding(S, key, id, multiplier)
           P      == SortOrder(listing, key, id, multiplier)
           places == InOrder(1 .. n, P)
<1>1. n \in Nat /\ IsFiniteSet(1 .. n) /\ Cardinality(1 .. n) = n
  BY FS_CardinalityType, FS_Interval
<1>2. /\ listing \in [1 .. n -> S] /\ Len(listing) = n
      /\ \A i, j \in 1 .. n : listing[i] = listing[j] => i = j
  BY <1>1 DEF SetToSeqs
<1>3. \A x \in S : \E i \in 1 .. n : listing[i] = x
  <2>1. listing \in Injection(1 .. n, S)
    BY <1>2 DEF Injection, IsInjective
  <2>2. listing \in Surjection(1 .. n, S)
    BY <1>1, <2>1, FS_Injection
  <2> QED
    BY <2>2 DEF Surjection
<1>4. \A i, j \in 1 .. n : <<i, j>> \in P <=> <<listing[i], listing[j]>> \in R
  <2> SUFFICES ASSUME NEW i \in 1 .. n, NEW j \in 1 .. n
               PROVE  <<i, j>> \in P <=> <<listing[i], listing[j]>> \in R
    OBVIOUS
  <2> DEFINE Less(a, b) == Precedes(listing[a], listing[b], key, id, multiplier)
  <2>1. <<i, j>> \in P <=> Less(i, j) \/ (~Less(j, i) /\ i < j)
    BY <1>2 DEF SortOrder
  <2>2. /\ <<listing[i], listing[j]>> \in R <=> Less(i, j)
        /\ <<listing[j], listing[i]>> \in R <=> Less(j, i)
    BY <1>2 DEF Preceding
  <2>3. i < j => Less(i, j) \/ Less(j, i)
    BY <1>2, <2>2 DEF StrictOrder
  <2> QED
    BY <2>1, <2>2, <2>3
<1>5. StrictOrder(1 .. n, P)
  <2> HIDE DEF P, R, n
  <2>1. StrictOrder(S, R)
    BY DEF R
  <2>2. \A i \in 1 .. n : <<i, i>> \notin P
    BY <1>2, <1>4, <2>1 DEF StrictOrder
  <2>3. \A i, j \in 1 .. n : i # j => <<i, j>> \in P \/ <<j, i>> \in P
    BY <1>2, <1>4, <2>1 DEF StrictOrder
  <2>4. ASSUME NEW i \in 1 .. n, NEW j \in 1 .. n, NEW k \in 1 .. n,
               <<i, j>> \in P, <<j, k>> \in P
        PROVE  <<i, k>> \in P
    <3>1. <<listing[i], listing[j]>> \in R /\ <<listing[j], listing[k]>> \in R
      BY <1>4, <2>4
    <3>2. <<listing[i], listing[k]>> \in R
      BY <1>2, <2>1, <3>1 DEF StrictOrder
    <3> QED
      BY <1>4, <3>2
  <2> QED
    BY <2>2, <2>3, <2>4 DEF StrictOrder
<1>6. GoesThrough(places, 1 .. n, P)
  BY <1>1, <1>5, InOrderGoesThrough
<1>7. Sorted(listing, key, id, multiplier) = [i \in 1 .. n |-> listing[places[i]]]
  BY <1>2 DEF Sorted
<1> DEFINE list == Sorted(listing, key, id, multiplier)
<1>8. /\ places \in [1 .. n -> 1 .. n]
      /\ \A i \in 1 .. n : \E k \in 1 .. n : places[k] = i
      /\ \A i, j \in 1 .. n : i < j => <<places[i], places[j]>> \in P
  BY <1>1, <1>6 DEF GoesThrough
<1> HIDE DEF n, P, places, list
<1>9. list \in [1 .. n -> S] /\ \A i \in 1 .. n : list[i] = listing[places[i]]
  BY <1>2, <1>7, <1>8 DEF list
<1>10. ASSUME NEW x \in S
       PROVE  \E k \in 1 .. n : list[k] = x
  <2>1. PICK i \in 1 .. n : listing[i] = x
    BY <1>3
  <2>2. PICK k \in 1 .. n : places[k] = i
    BY <1>8
  <2> QED
    BY <1>9, <2>1, <2>2
<1>11. ASSUME NEW i \in 1 .. n, NEW j \in 1 .. n, i < j
       PROVE  <<list[i], list[j]>> \in R
  <2>1. places[i] \in 1 .. n /\ places[j] \in 1 .. n /\ <<places[i], places[j]>> \in P
    BY <1>8, <1>11
  <2> HIDE DEF R
  <2>2. <<listing[places[i]], listing[places[j]]>> \in R
    BY <1>4, <2>1
  <2> QED
    BY <1>9, <2>2
<1> QED
  BY <1>9, <1>10, <1>11 DEF GoesThrough, n, list

(* What is added to a list only moves what was there towards its end.      *)
LEMMA NoneMovesUp ==
  ASSUME NEW S, IsFiniteSet(S), NEW T, IsFiniteSet(T), S \subseteq T,
         NEW R, NEW Q, StrictOrder(S, R), StrictOrder(T, Q),
         \A x, y \in S : <<x, y>> \in R => <<x, y>> \in Q,
         NEW list, NEW later, GoesThrough(list, S, R), GoesThrough(later, T, Q),
         NEW i \in 1 .. Cardinality(S), NEW j \in 1 .. Cardinality(T),
         list[i] = later[j]
  PROVE  i <= j
<1> DEFINE n == Cardinality(S)
           m == Cardinality(T)
           f == [k \in 1 .. i |-> CHOOSE l \in 1 .. m : later[l] = list[k]]
<1>1. n \in Nat /\ m \in Nat
  BY FS_CardinalityType
<1>2. \A k \in 1 .. i : k \in 1 .. n /\ list[k] \in S /\ list[k] \in T
  <2>1. i \in 1 .. n /\ list \in [1 .. n -> S]
    BY DEF GoesThrough
  <2> HIDE DEF n
  <2> QED
    BY <1>1, <2>1
<1>3. \A k \in 1 .. i : f[k] \in 1 .. m /\ later[f[k]] = list[k]
  <2> SUFFICES ASSUME NEW k \in 1 .. i
               PROVE  f[k] \in 1 .. m /\ later[f[k]] = list[k]
    OBVIOUS
  <2>1. \E l \in 1 .. m : later[l] = list[k]
    BY <1>2 DEF GoesThrough
  <2> QED
    BY <2>1
<1> HIDE DEF n, m
<1>4. ASSUME NEW k \in 1 .. i
      PROVE  f[k] \in 1 .. j
  <2>1. CASE k = i
    <3>1. ~(j < f[k])
      BY <1>2, <1>3, <2>1 DEF GoesThrough, StrictOrder, m, n
    <3> QED
      BY <1>1, <1>3, <3>1 DEF m
  <2>2. CASE k # i
    <3>1. <<list[k], list[i]>> \in Q
      BY <1>2, <2>2 DEF GoesThrough, n
    <3>2. ~(j < f[k])
      BY <1>2, <1>3, <3>1 DEF GoesThrough, StrictOrder, m
    <3> QED
      BY <1>1, <1>3, <3>2 DEF m
  <2> QED
    BY <2>1, <2>2
<1>5. ASSUME NEW k \in 1 .. i, NEW l \in 1 .. i, f[k] = f[l]
      PROVE  k = l
  <2>1. list[k] = list[l]
    BY <1>3, <1>5
  <2>2. ~(k < l) /\ ~(l < k)
    BY <1>2, <2>1 DEF GoesThrough, StrictOrder, n
  <2> QED
    BY <2>2
<1>6. f \in Injection(1 .. i, 1 .. j)
  BY <1>4, <1>5 DEF Injection, IsInjective
<1>7. /\ IsFiniteSet(1 .. j) /\ Cardinality(1 .. j) = j
      /\ Cardinality(1 .. i) = i
  BY FS_Interval
<1> HIDE DEF f
<1> QED
  BY <1>6, <1>7, FS_Injection

(* A page shows what lies on it.                                           *)
LEMMA SliceShows ==
  ASSUME NEW n \in Nat, NEW S, NEW items \in [1 .. n -> S],
         NEW pageSize \in Nat \ {0}, NEW page \in Nat \ {0}, NEW i \in 1 .. n,
         (page - 1) * pageSize < i, i <= page * pageSize
  PROVE  items[i] \in ToSet(Slice(items, page, pageSize))
<1> DEFINE start == (page - 1) * pageSize
           end   == start + pageSize
           last  == IF end < Len(items) THEN end ELSE Len(items)
           slice == SubSeq(items, start + 1, last)
<1>1. Len(items) = n
  OBVIOUS
<1>2. start \in Nat /\ end = page * pageSize
  OBVIOUS
<1> HIDE DEF start
<1>3. last \in Int /\ last <= n /\ start + 1 <= i /\ i <= last
  BY <1>1, <1>2 DEF start
<1> HIDE DEF last
<1>4. \A k \in start + 1 .. last : items[k] \in S
  BY <1>2, <1>3
<1>5. /\ slice \in Seq(S) /\ Len(slice) = last - start
      /\ \A k \in 1 .. last - start : slice[k] = items[start + k]
  <2>1. start + 1 \in Int /\ start + 1 <= last
    BY <1>2, <1>3
  <2>2. /\ slice \in Seq(S)
        /\ Len(slice) = last - (start + 1) + 1
        /\ \A k \in 1 .. last - (start + 1) + 1 : slice[k] = items[(start + 1) + k - 1]
    BY <1>3, <1>4, <2>1, SubSeqProperties
  <2> HIDE DEF slice
  <2>3. last - (start + 1) + 1 = last - start
    BY <1>2, <1>3
  <2>4. \A k \in 1 .. last - start : (start + 1) + k - 1 = start + k
    BY <1>2, <1>3
  <2> QED
    BY <2>2, <2>3, <2>4
<1>6. i - start \in 1 .. last - start /\ start + (i - start) = i
  BY <1>2, <1>3
<1>7. slice[i - start] = items[i] /\ i - start \in DOMAIN slice
  <2> HIDE DEF slice
  <2> QED
    BY <1>5, <1>6
<1>8. Slice(items, page, pageSize) = slice
  BY DEF Slice, start, last
<1> HIDE DEF slice
<1> QED
  BY <1>7, <1>8 DEF ToSet

(* Every item lies on a page, and on one of the pages there are.           *)
LEMMA PageOf ==
  ASSUME NEW n \in Nat, NEW pageSize \in Nat \ {0}, NEW i \in 1 .. n
  PROVE  \E page \in 1 .. TotalPages(n, pageSize) :
           (page - 1) * pageSize < i /\ i <= page * pageSize
<1> DEFINE before == (i - 1) \div pageSize
           total  == TotalPages(n, pageSize)
<1>1. before \in Nat /\ before * pageSize <= i - 1 /\ i - 1 < (before + 1) * pageSize
  OBVIOUS
<1>2. total \in Nat /\ n <= total * pageSize
  BY DEF TotalPages
<1> HIDE DEF before, total
<1>3. before < total
  <2>1. ASSUME total <= before
        PROVE  total * pageSize <= before * pageSize
    BY <1>1, <1>2, <2>1
  <2>2. before * pageSize \in Int /\ total * pageSize \in Int
    BY <1>1, <1>2
  <2> QED
    BY <1>1, <1>2, <2>1, <2>2
<1>4. /\ before + 1 \in 1 .. total /\ (before + 1) - 1 = before
      /\ before * pageSize < i /\ i <= (before + 1) * pageSize
  BY <1>1, <1>2, <1>3
<1> QED
  BY <1>4 DEF total

LEMMA PagesInOrder ==
  ASSUME NEW a \in Nat, NEW b \in Nat, NEW pageSize \in Nat \ {0},
         (a - 1) * pageSize < b * pageSize
  PROVE  a <= b
<1>1. ASSUME b <= a - 1
      PROVE  b * pageSize <= (a - 1) * pageSize
  <2>1. (a - 1) - b \in Nat
    BY <1>1
  <2>2. ((a - 1) - b) * pageSize \in Nat
    BY <2>1
  <2>3. ((a - 1) - b) * pageSize = (a - 1) * pageSize - b * pageSize
    OBVIOUS
  <2>4. b * pageSize \in Int /\ (a - 1) * pageSize \in Int
    OBVIOUS
  <2> QED
    BY <2>2, <2>3, <2>4
<1>2. b * pageSize \in Int /\ (a - 1) * pageSize \in Int
  OBVIOUS
<1> QED
  BY <1>1, <1>2

(* An item that is not on the pages read of the first answer is on one of  *)
(* those read of the second, if it has only moved towards the end.         *)
LEMMA ShownOnSomePage ==
  ASSUME NEW n \in Nat, NEW m \in Nat, n <= m, NEW S, NEW T,
         NEW list \in [1 .. n -> S], NEW later \in [1 .. m -> T],
         NEW pageSize \in Nat \ {0}, NEW limit \in Nat,
         NEW p \in 1 .. LastPage(list, pageSize, limit),
         NEW i \in 1 .. n, NEW j \in 1 .. m, list[i] = later[j], i <= j
  PROVE  list[i] \in ShownInTwo(list, later, p, pageSize, limit)
<1>1. Len(list) = n /\ Len(later) = m
  OBVIOUS
<1>2. SUFFICES \/ \E page \in 1 .. p : list[i] \in ToSet(Answer(list, page, pageSize, limit))
               \/ \E page \in (p + 1) .. LastPage(later, pageSize, limit) :
                    list[i] \in ToSet(Answer(later, page, pageSize, limit))
  BY DEF ShownInTwo
<1>3. CASE n <= limit
  <2>1. LastPage(list, pageSize, limit) = 1
    BY <1>1, <1>3 DEF LastPage
  <2>2. p = 1 /\ Answer(list, 1, pageSize, limit) = list
    BY <1>1, <1>3, <2>1 DEF Answer
  <2>3. list[i] \in ToSet(list)
    BY DEF ToSet
  <2> QED
    BY <2>2, <2>3
<1>4. CASE ~(n <= limit)
  <2>1. /\ LastPage(list, pageSize, limit) = TotalPages(n, pageSize)
        /\ LastPage(later, pageSize, limit) = TotalPages(m, pageSize)
    BY <1>1, <1>4 DEF LastPage
  <2>2. /\ \A page : Answer(list, page, pageSize, limit) = Slice(list, page, pageSize)
        /\ \A page : Answer(later, page, pageSize, limit) = Slice(later, page, pageSize)
    BY <1>1, <1>4 DEF Answer
  <2>3. p \in Nat \ {0}
    <3>1. TotalPages(n, pageSize) \in Int
      BY DEF TotalPages
    <3> QED
      BY <2>1, <3>1
  <2>4. p * pageSize \in Nat
    BY <2>3
  <2>5. CASE i <= p * pageSize
    <3>1. PICK page \in 1 .. TotalPages(n, pageSize) :
            (page - 1) * pageSize < i /\ i <= page * pageSize
      BY PageOf
    <3>2. page \in Nat \ {0}
      BY <3>1, <2>3 DEF TotalPages
    <3>3. (page - 1) * pageSize \in Int
      BY <3>2
    <3>4. page <= p
      BY <2>3, <2>4, <2>5, <3>1, <3>2, <3>3, PagesInOrder
    <3>5. list[i] \in ToSet(Slice(list, page, pageSize))
      BY <3>1, <3>2, SliceShows
    <3> QED
      BY <2>2, <2>3, <3>2, <3>4, <3>5
  <2>6. CASE ~(i <= p * pageSize)
    <3>1. PICK page \in 1 .. TotalPages(m, pageSize) :
            (page - 1) * pageSize < j /\ j <= page * pageSize
      BY PageOf
    <3>2. page \in Nat \ {0}
      BY <3>1 DEF TotalPages
    <3>3. page * pageSize \in Int /\ ((p + 1) - 1) * pageSize = p * pageSize
      BY <2>3, <3>2
    <3>4. p + 1 <= page
      BY <2>3, <2>4, <2>6, <3>1, <3>2, <3>3, PagesInOrder
    <3>5. later[j] \in ToSet(Slice(later, page, pageSize))
      BY <3>1, <3>2, SliceShows
    <3> QED
      BY <2>1, <2>2, <2>3, <3>1, <3>2, <3>4, <3>5
  <2> QED
    BY <2>5, <2>6
<1> QED
  BY <1>3, <1>4

(* A list that is read in two answers, of which the second has only more   *)
(* items, shows all of the first.                                          *)
LEMMA ListShown ==
  ASSUME NEW S, NEW T, IsFiniteSet(T), S \subseteq T,
         NEW R, NEW Q, StrictOrder(S, R), StrictOrder(T, Q),
         \A x, y \in S : <<x, y>> \in R => <<x, y>> \in Q,
         NEW list, NEW later, GoesThrough(list, S, R), GoesThrough(later, T, Q),
         NEW pageSize \in Nat \ {0}, NEW limit \in Nat,
         NEW p \in 1 .. LastPage(list, pageSize, limit)
  PROVE  S \subseteq ShownInTwo(list, later, p, pageSize, limit)
<1> DEFINE n == Cardinality(S)
           m == Cardinality(T)
<1>1. IsFiniteSet(S) /\ n \in Nat /\ m \in Nat /\ n <= m
  BY FS_Subset, FS_CardinalityType
<1> SUFFICES ASSUME NEW x \in S
             PROVE  x \in ShownInTwo(list, later, p, pageSize, limit)
  OBVIOUS
<1>2. PICK i \in 1 .. n : list[i] = x
  BY DEF GoesThrough
<1>3. PICK j \in 1 .. m : later[j] = x
  BY DEF GoesThrough
<1>4. i <= j
  BY <1>1, <1>2, <1>3, NoneMovesUp
<1>5. list \in [1 .. n -> S] /\ later \in [1 .. m -> T]
  BY DEF GoesThrough
<1>6. list[i] = later[j]
  BY <1>2, <1>3
<1> HIDE DEF n, m
<1>7. list[i] \in ShownInTwo(list, later, p, pageSize, limit)
  BY <1>1, <1>4, <1>5, <1>6, ShownOnSomePage
<1> QED
  BY <1>2, <1>7

-----------------------------------------------------------------------------
(* What a client that pages through a list is shown.                       *)

LEMMA RankFacts ==
  ASSUME NEW S, IsFiniteSet(S), NEW rank \in Rankings(S)
  PROVE  /\ \A x \in S : rank[x] \in Int
         /\ \A x, y \in S : rank[x] = rank[y] => x = y
<1>1. Cardinality(S) \in Nat
  BY FS_CardinalityType
<1> QED
  BY <1>1 DEF Rankings

(* The orders sorted by an attribute that is a number and stays the same.  *)
LEMMA OrdersShown ==
  ASSUME NEW S \in SUBSET Orders, NEW T \in SUBSET Orders, S \subseteq T,
         NEW rank \in Rankings(Orders), NEW multiplier \in {1, -1},
         NEW key, NEW laterKey, \A o \in S : key[o] \in Int /\ laterKey[o] = key[o],
         \A o \in T : laterKey[o] \in Int,
         NEW first \in SetToSeqs(S), NEW second \in SetToSeqs(T),
         NEW pageSize \in Nat \ {0},
         NEW p \in 1 .. LastPage(Sorted(first, key, rank, multiplier), pageSize, 0)
  PROVE  S \subseteq ShownInTwo(Sorted(first, key, rank, multiplier),
                              Sorted(second, laterKey, rank, multiplier), p, pageSize, 0)
<1> DEFINE R == Preceding(S, key, rank, multiplier)
           Q == Preceding(T, laterKey, rank, multiplier)
<1>1. IsFiniteSet(S) /\ IsFiniteSet(T)
  BY ViewsAssumption, FS_Subset
<1>2. /\ \A o \in Orders : rank[o] \in Int
      /\ \A x, y \in Orders : rank[x] = rank[y] => x = y
  BY ViewsAssumption, RankFacts
<1>3. StrictOrder(S, R) /\ StrictOrder(T, Q)
  <2>1. /\ \A o \in S : key[o] \in Int /\ rank[o] \in Int
        /\ \A x, y \in S : rank[x] = rank[y] => x = y
    BY <1>2
  <2>2. /\ \A o \in T : laterKey[o] \in Int /\ rank[o] \in Int
        /\ \A x, y \in T : rank[x] = rank[y] => x = y
    BY <1>2
  <2> QED
    BY <2>1, <2>2, PrecedesOrders
<1>4. \A x, y \in S : <<x, y>> \in R => <<x, y>> \in Q
  BY DEF Preceding, Precedes
<1>5. /\ GoesThrough(Sorted(first, key, rank, multiplier), S, R)
      /\ GoesThrough(Sorted(second, laterKey, rank, multiplier), T, Q)
  BY <1>1, <1>3, SortedGoesThrough
<1> HIDE DEF R, Q
<1>6. 0 \in Nat
  OBVIOUS
<1> QED
  BY <1>1, <1>3, <1>4, <1>5, <1>6, ListShown

LEMMA AddedOrdersComplete ==
  ASSUME NEW before \in Answers, NEW after \in Answers, OnlyAdds(before, after)
  PROVE  OrdersComplete(before, after)
<1>1. /\ DOMAIN before \in SUBSET Orders /\ DOMAIN after \in SUBSET Orders
      /\ \A o \in DOMAIN before : before[o] \in Int
      /\ \A o \in DOMAIN after : after[o] \in Int
  <2>1. PICK S \in SUBSET Orders : before \in [S -> Times]
    BY DEF Answers
  <2>2. PICK S2 \in SUBSET Orders : after \in [S2 -> Times]
    BY DEF Answers
  <2> QED
    BY <2>1, <2>2, ViewsAssumption
<1>2. DOMAIN before \subseteq DOMAIN after /\ \A o \in DOMAIN before : after[o] = before[o]
  BY DEF OnlyAdds
<1> SUFFICES ASSUME NEW rank \in Rankings(Orders), NEW multiplier \in {1, -1},
                    NEW byDate \in BOOLEAN, NEW pageSize \in 1 .. Cardinality(Orders),
                    NEW first \in SetToSeqs(DOMAIN before),
                    NEW second \in SetToSeqs(DOMAIN after),
                    NEW p \in 1 .. LastPage(Sorted(first, IF byDate THEN rank ELSE before,
                                                  rank, multiplier), pageSize, 0)
             PROVE  DOMAIN before \subseteq
                      ShownInTwo(Sorted(first, IF byDate THEN rank ELSE before, rank, multiplier),
                                 Sorted(second, IF byDate THEN rank ELSE after, rank, multiplier),
                                 p, pageSize, 0)
  BY DEF OrdersComplete
<1>3. pageSize \in Nat \ {0}
  BY ViewsAssumption, FS_CardinalityType
<1>4. CASE byDate
  <2>1. \A o \in DOMAIN after : rank[o] \in Int
    BY <1>1, ViewsAssumption, RankFacts
  <2>2. \A o \in DOMAIN before : rank[o] \in Int
    BY <1>2, <2>1
  <2> QED
    BY <1>1, <1>2, <1>3, <1>4, <2>1, <2>2, OrdersShown
<1>5. CASE ~byDate
  BY <1>1, <1>2, <1>3, <1>5, OrdersShown
<1> QED
  BY <1>4, <1>5

LEMMA AddedDevicesComplete ==
  ASSUME NEW before \in SUBSET Devices, NEW after \in SUBSET Devices, before \subseteq after
  PROVE  DevicesComplete(before, after)
<1> SUFFICES ASSUME NEW rank \in Rankings(Devices), NEW limit \in 0 .. Cardinality(Devices),
                    NEW pageSize \in 1 .. Cardinality(Devices),
                    NEW p \in 1 .. LastPage(ListDevices(before, rank), pageSize, limit)
             PROVE  before \subseteq
                      ShownInTwo(ListDevices(before, rank), ListDevices(after, rank),
                                 p, pageSize, limit)
  BY DEF DevicesComplete
<1>1. pageSize \in Nat \ {0} /\ limit \in Nat
  BY ViewsAssumption, FS_CardinalityType
<1>2. IsFiniteSet(before) /\ IsFiniteSet(after)
  BY ViewsAssumption, FS_Subset
<1>3. /\ \A d \in Devices : rank[d] \in Int
      /\ \A x, y \in Devices : rank[x] = rank[y] => x = y
  BY ViewsAssumption, RankFacts
<1>4. /\ StrictOrder(before, HigherFirst(before, rank))
      /\ GoesThrough(ListDevices(before, rank), before, HigherFirst(before, rank))
      /\ StrictOrder(after, HigherFirst(after, rank))
      /\ GoesThrough(ListDevices(after, rank), after, HigherFirst(after, rank))
  <2>1. /\ \A d \in before : rank[d] \in Int
        /\ \A x, y \in before : rank[x] = rank[y] => x = y
    BY <1>3
  <2>2. /\ \A d \in after : rank[d] \in Int
        /\ \A x, y \in after : rank[x] = rank[y] => x = y
    BY <1>3
  <2> QED
    BY <1>2, <2>1, <2>2, DescendingOrder DEF ListDevices
<1>5. \A x, y \in before :
        <<x, y>> \in HigherFirst(before, rank) => <<x, y>> \in HigherFirst(after, rank)
  BY DEF HigherFirst
<1> QED
  BY <1>1, <1>2, <1>4, <1>5, ListShown

(* The answers that are compared are of the sets the property looks at.    *)
AnswersListed ==
  /\ \A f \in Filters : Listed(f) \in Answers
  /\ FindAllDevices \in SUBSET Devices

LEMMA ListedAreAnswers == TypeOK => AnswersListed
<1> SUFFICES ASSUME TypeOK, NEW f \in Filters
             PROVE  Listed(f) \in Answers
  BY DEF AnswersListed, FindAllDevices
<1>1. FindList(f) \in SUBSET Orders /\ \A o \in FindList(f) : orders[o].at \in Times
  BY DEF FindList, Matches, Live, Inspections
<1>2. Listed(f) \in [FindList(f) -> Times]
  BY <1>1 DEF Listed
<1> QED
  BY <1>1, <1>2 DEF Answers

(* A client that pages through the service orders or the devices while     *)
(* others commit is shown everything that stays in the answers, whatever   *)
(* order the database returns, field and direction it sorts by, size of a  *)
(* page, page it has reached and limit: when the second answer only adds   *)
(* to the first, all of the first is shown.                                *)
THEOREM WhatStaysIsShown ==
  Spec => [][/\ \A f \in Filters :
                  OnlyAdds(Listed(f), Listed(f)') => OrdersComplete(Listed(f), Listed(f)')
             /\ FindAllDevices \subseteq FindAllDevices'
                  => DevicesComplete(FindAllDevices, FindAllDevices')]_<<rows, orders>>
<1>1. AnswersListed /\ AnswersListed' =>
        [/\ \A f \in Filters :
              OnlyAdds(Listed(f), Listed(f)') => OrdersComplete(Listed(f), Listed(f)')
         /\ FindAllDevices \subseteq FindAllDevices'
              => DevicesComplete(FindAllDevices, FindAllDevices')]_<<rows, orders>>
  <2> SUFFICES ASSUME AnswersListed, AnswersListed'
               PROVE  /\ \A f \in Filters :
                           OnlyAdds(Listed(f), Listed(f)')
                             => OrdersComplete(Listed(f), Listed(f)')
                      /\ FindAllDevices \subseteq FindAllDevices'
                           => DevicesComplete(FindAllDevices, FindAllDevices')
    OBVIOUS
  <2>1. ASSUME NEW f \in Filters, OnlyAdds(Listed(f), Listed(f)')
        PROVE  OrdersComplete(Listed(f), Listed(f)')
    <3>1. Listed(f) \in Answers /\ Listed(f)' \in Answers
      BY DEF AnswersListed
    <3> QED
      BY <2>1, <3>1, AddedOrdersComplete
  <2>2. ASSUME FindAllDevices \subseteq FindAllDevices'
        PROVE  DevicesComplete(FindAllDevices, FindAllDevices')
    <3>1. FindAllDevices \in SUBSET Devices /\ FindAllDevices' \in SUBSET Devices
      BY DEF AnswersListed
    <3> QED
      BY <2>2, <3>1, AddedDevicesComplete
  <2> QED
    BY <2>1, <2>2
<1> QED
  BY <1>1, TypeCorrect, ListedAreAnswers, PTL

(* The same as the run states it: no step leads from an answer to one with *)
(* which it would leave something out.                                     *)
THEOREM NothingEverSkipped == Spec => NothingSkipped
<1>1. IncompleteOrders = {} /\ IncompleteDevices = {}
  BY AddedOrdersComplete, AddedDevicesComplete DEF IncompleteOrders, IncompleteDevices
<1>2. [/\ \A f \in Filters : <<Listed(f), Listed(f)'>> \notin IncompleteOrders
       /\ <<FindAllDevices, FindAllDevices'>> \notin IncompleteDevices]_<<rows, orders>>
  BY <1>1
<1> QED
  BY <1>2, PTL DEF NothingSkipped

=============================================================================

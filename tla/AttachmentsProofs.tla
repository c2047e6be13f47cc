------------------------- MODULE AttachmentsProofs -------------------------
(***************************************************************************)
(* Type correctness of Attachments, that only scanned files of the         *)
(* declared size are served, and that no status is ever taken back.        *)
(***************************************************************************)
EXTENDS Attachments, TLAPS

(* The scanner has only seen what was posted.                              *)
ScannedWasPosted ==
  \A o \in found : Object(o.upload, "unscanned") \in found

(* Outside quarantine the size column still is the declared one, in the    *)
(* table and in every copy of the row a handler has read.                  *)
SizeKept ==
  /\ row.status # "quarantined" => row.size = Declared
  /\ \A h \in Handlers :
       job[h] # NoJob /\ job[h].status # "quarantined" => job[h].size = Declared

(* Handlers work on objects that exist.                                    *)
JobsOnObjects == \A h \in Handlers : job[h] # NoJob => job[h].event \in found

IInv == TypeOK /\ ScannedWasPosted /\ SizeKept /\ JobsOnObjects /\ OnlyScannedServed

-----------------------------------------------------------------------------
(* What the row becomes when the policy lets a handler update it.          *)

(* A row leaves quarantine by no update, and a status that is not          *)
(* quarantine is written only for an object that equals the row read.      *)
LEMMA PolicyFacts ==
  ASSUME NEW j \in Jobs, TypeOK, CanTransition(j.status, NextStatus(j))
  PROVE  /\ Updated(j) \in Rows
         /\ Rank[NextStatus(j)] >= Rank[j.status]
         /\ NextStatus(j) # "quarantined" =>
              /\ j.status # "quarantined"
              /\ MetadataMatches(j)
         /\ NextStatus(j) = "clean" => j.event.bucket = "clean"
<1>1. /\ j.event.bucket \in Buckets
      /\ j.event.upload \in Uploads
      /\ j.event \in Objects
      /\ j.status \in Statuses
      /\ size[j.event.upload] \in Sizes
  BY DEF Jobs, Objects, TypeOK
<1>2. /\ NextStatus(j) \in Statuses
      /\ NextStatus(j) = "clean" => j.event.bucket = "clean"
      /\ NextStatus(j) # "quarantined" => MetadataMatches(j)
  BY <1>1 DEF NextStatus, DestinationStatus, Buckets, Statuses
<1>3. Updated(j) \in Rows
  <2>1. MetadataMatches(j) \in BOOLEAN
    BY DEF MetadataMatches
  <2> QED
    BY <1>1, <1>2, <2>1 DEF Updated, Rows
<1>4. /\ Rank[NextStatus(j)] >= Rank[j.status]
      /\ NextStatus(j) # "quarantined" => j.status # "quarantined"
  BY <1>1, <1>2 DEF CanTransition, AllowedNextStatuses, Rank, Statuses
<1> QED
  BY <1>2, <1>3, <1>4

LEMMA InitIInv == Init => IInv
<1> SUFFICES ASSUME Init PROVE IInv
  OBVIOUS
<1>1. TypeOK
  BY ConstantsAssumption DEF Init, TypeOK, Rows, Statuses
<1>2. ScannedWasPosted /\ SizeKept /\ JobsOnObjects /\ OnlyScannedServed
  BY DEF Init, ScannedWasPosted, SizeKept, JobsOnObjects, OnlyScannedServed, Downloadable
<1> QED
  BY <1>1, <1>2 DEF IInv

(* A new object and its event.                                             *)
LEMMA PublishKeepsTypes ==
  ASSUME TypeOK, NEW o \in Objects, Publish(o), UNCHANGED lost
  PROVE  /\ found' \in SUBSET Objects
         /\ unacked' \in SUBSET found'
         /\ found \subseteq found'
         /\ lost' \in SUBSET Uploads
BY DEF TypeOK, Publish

LEMMA NextIInv == IInv /\ [Next]_vars => IInv'
<1> SUFFICES ASSUME IInv, [Next]_vars PROVE IInv'
  OBVIOUS
<1> USE ConstantsAssumption
<1>1. CASE UNCHANGED vars
  BY <1>1 DEF IInv, TypeOK, ScannedWasPosted, SizeKept, JobsOnObjects,
              OnlyScannedServed, Downloadable, vars
<1>2. CASE CreateUploadForms
  BY <1>2 DEF CreateUploadForms, IInv, TypeOK, ScannedWasPosted, SizeKept, JobsOnObjects,
              OnlyScannedServed, Downloadable
<1>3. ASSUME NEW u \in Uploads, NEW n \in Sizes, Post(u, n) PROVE IInv'
  <2>1. Object(u, "unscanned") \in Objects
    BY DEF Object, Objects, Buckets
  <2>2. TypeOK'
    BY <1>3, <2>1, PublishKeepsTypes DEF Post, IInv, TypeOK
  <2>3. ScannedWasPosted'
    <3>1. Object(u, "unscanned").upload = u
      BY DEF Object
    <3>2. found' = found \cup {Object(u, "unscanned")}
      BY <1>3 DEF Post, Publish
    <3> QED
      BY <3>1, <3>2 DEF IInv, ScannedWasPosted
  <2>4. SizeKept' /\ JobsOnObjects'
    BY <1>3 DEF Post, Publish, IInv, SizeKept, JobsOnObjects
  <2>5. OnlyScannedServed'
    <3> SUFFICES ASSUME row.status = "clean"
                 PROVE  /\ row.object \in found'
                        /\ row.object.bucket = "clean"
                        /\ size'[row.object.upload] = Declared
                        /\ ~row.failure
      BY <1>3 DEF Post, OnlyScannedServed, Downloadable
    <3>1. /\ row.object \in found
          /\ row.object.bucket = "clean"
          /\ size[row.object.upload] = Declared
          /\ ~row.failure
      BY DEF IInv, OnlyScannedServed, Downloadable
    <3>2. row.object.upload # u
      BY <1>3, <3>1 DEF Post, IInv, ScannedWasPosted
    <3>3. row.object.upload \in Uploads
      BY <3>1 DEF IInv, TypeOK, Objects
    <3>4. size'[row.object.upload] = size[row.object.upload]
      BY <1>3, <3>2, <3>3 DEF Post, IInv, TypeOK
    <3> QED
      BY <1>3, <3>1, <3>4 DEF Post, Publish
  <2> QED
    BY <2>2, <2>3, <2>4, <2>5 DEF IInv
<1>4. ASSUME NEW u \in Uploads, NEW v \in Buckets, Scan(u, v) PROVE IInv'
  <2>1. Object(u, v) \in Objects
    BY DEF Object, Objects
  <2>2. TypeOK'
    BY <1>4, <2>1, PublishKeepsTypes DEF Scan, IInv, TypeOK
  <2>3. ScannedWasPosted'
    <3>1. Object(u, v).upload = u
      BY DEF Object
    <3>2. /\ found' = found \cup {Object(u, v)}
          /\ Object(u, "unscanned") \in found
      BY <1>4 DEF Scan, Publish
    <3> QED
      BY <3>1, <3>2 DEF IInv, ScannedWasPosted
  <2>4. SizeKept' /\ JobsOnObjects'
    BY <1>4 DEF Scan, Publish, IInv, SizeKept, JobsOnObjects
  <2>5. OnlyScannedServed'
    BY <1>4 DEF Scan, Publish, IInv, OnlyScannedServed, Downloadable
  <2> QED
    BY <2>2, <2>3, <2>4, <2>5 DEF IInv
<1>5. ASSUME NEW e \in Objects, Redeliver(e) PROVE IInv'
  BY <1>5 DEF Redeliver, IInv, TypeOK, ScannedWasPosted, SizeKept, JobsOnObjects,
              OnlyScannedServed, Downloadable
<1>6. ASSUME NEW h \in Handlers, NEW e \in Objects, FindByObjectKey(h, e) PROVE IInv'
  <2>1. /\ job' = [job EXCEPT ![h] = [event |-> e, status |-> row.status, size |-> row.size]]
        /\ UNCHANGED <<row, form, size, found, unacked, lost>>
        /\ e \in found
    BY <1>6 DEF FindByObjectKey, IInv, TypeOK
  <2>2. [event |-> e, status |-> row.status, size |-> row.size] \in Jobs
    BY DEF IInv, TypeOK, Rows, Jobs
  <2>3. TypeOK'
    BY <2>1, <2>2 DEF IInv, TypeOK
  <2>4. ScannedWasPosted' /\ OnlyScannedServed'
    BY <2>1 DEF IInv, ScannedWasPosted, OnlyScannedServed, Downloadable
  <2>5. JobsOnObjects' /\ SizeKept'
    BY <2>1 DEF IInv, TypeOK, JobsOnObjects, SizeKept
  <2> QED
    BY <2>3, <2>4, <2>5 DEF IInv
<1>7. ASSUME NEW h \in Handlers, IgnoreStale(h) \/ EventFails(h) PROVE IInv'
  BY <1>7 DEF IgnoreStale, EventFails, Acknowledge, Done, IInv, TypeOK, ScannedWasPosted,
              SizeKept, JobsOnObjects, OnlyScannedServed, Downloadable
<1>8. ASSUME NEW h \in Handlers, ChangedConcurrently(h) PROVE IInv'
  BY <1>8 DEF ChangedConcurrently, Acknowledge, Done, IInv, TypeOK, ScannedWasPosted,
              SizeKept, JobsOnObjects, OnlyScannedServed, Downloadable
<1>9. ASSUME NEW h \in Handlers, UpdateFromStorageEvent(h) PROVE IInv'
  <2> DEFINE j == job[h]
  <2>1. /\ j # NoJob
        /\ CanTransition(j.status, NextStatus(j))
        /\ row' = Updated(j)
        /\ job' = [job EXCEPT ![h] = NoJob]
        /\ unacked' = unacked \ {j.event}
        /\ UNCHANGED <<form, size, found, lost>>
    BY <1>9 DEF UpdateFromStorageEvent, Acknowledge, Done
  <2>2. j \in Jobs /\ j.event \in found /\ TypeOK
    BY <2>1 DEF IInv, TypeOK, JobsOnObjects
  <2> HIDE DEF j
  <2>3. /\ Updated(j) \in Rows
        /\ NextStatus(j) # "quarantined" => j.status # "quarantined" /\ MetadataMatches(j)
        /\ NextStatus(j) = "clean" => j.event.bucket = "clean"
    BY <2>1, <2>2, PolicyFacts
  <2>4. NextStatus(j) # "quarantined" => size[j.event.upload] = Declared
    <3>1. j.status # "quarantined" => j.size = Declared
      BY <2>1 DEF j, IInv, SizeKept
    <3> QED
      BY <2>3, <3>1 DEF MetadataMatches
  <2>5. TypeOK'
    BY <2>1, <2>3 DEF IInv, TypeOK
  <2>6. ScannedWasPosted' /\ JobsOnObjects'
    BY <2>1 DEF IInv, TypeOK, ScannedWasPosted, JobsOnObjects
  <2>7. SizeKept'
    BY <2>1, <2>4 DEF IInv, TypeOK, SizeKept, Updated
  <2>8. OnlyScannedServed'
    BY <2>1, <2>2, <2>3, <2>4 DEF OnlyScannedServed, Downloadable, Updated
  <2> QED
    BY <2>5, <2>6, <2>7, <2>8 DEF IInv
<1> QED
  BY <1>1, <1>2, <1>3, <1>4, <1>5, <1>6, <1>7, <1>8, <1>9 DEF Next, Process

(* Every reachable state satisfies the inductive invariant.                *)
THEOREM Invariance == Spec => []IInv
<1>1. Init => IInv
  BY InitIInv
<1>2. IInv /\ [Next]_vars => IInv'
  BY NextIInv
<1> QED
  BY <1>1, <1>2, PTL DEF Spec

(* The state stays in its types, whatever the number of uploads, handlers  *)
(* and sizes.                                                              *)
THEOREM TypeCorrect == Spec => []TypeOK
<1>1. IInv => TypeOK
  BY DEF IInv
<1> QED
  BY <1>1, Invariance, PTL

(* assertDownloadable never lets a link be signed for an object that the   *)
(* scanner did not find clean or that is not what was declared.            *)
THEOREM ServedIsScanned == Spec => []OnlyScannedServed
<1>1. IInv => OnlyScannedServed
  BY DEF IInv
<1> QED
  BY <1>1, Invariance, PTL

(* No step of any handler takes a status back: quarantine is final.        *)
THEOREM QuarantineIsFinal == Spec => StatusOnlyAdvances
<1>1. IInv /\ [Next]_vars => [Rank[row'.status] >= Rank[row.status]]_row
  <2> SUFFICES ASSUME IInv, Next, row' # row
               PROVE  Rank[row'.status] >= Rank[row.status]
    BY DEF vars
  <2>1. PICK h \in Handlers : UpdateFromStorageEvent(h)
    BY DEF Next, Process, CreateUploadForms, Post, Scan, Redeliver, FindByObjectKey,
           IgnoreStale, ChangedConcurrently, EventFails
  <2>2. job[h] \in Jobs /\ TypeOK
    BY <2>1 DEF IInv, TypeOK, UpdateFromStorageEvent
  <2>3. Rank[NextStatus(job[h])] >= Rank[job[h].status]
    BY <2>1, <2>2, PolicyFacts DEF UpdateFromStorageEvent
  <2>4. row.status = job[h].status /\ row'.status = NextStatus(job[h])
    BY <2>1 DEF UpdateFromStorageEvent, Updated
  <2> QED
    BY <2>3, <2>4
<1> QED
  BY <1>1, Invariance, PTL DEF Spec, StatusOnlyAdvances

-----------------------------------------------------------------------------
(* What the storing of a verdict rests on.                                 *)

(* A quarantined object's event is delivered until the row says so or the  *)
(* handler has logged that it gave up.                                     *)
VerdictsOwed ==
  \A u \in Uploads :
    Object(u, "quarantined") \in found =>
      \/ Object(u, "quarantined") \in unacked
      \/ row.status = "quarantined"
      \/ u \in lost

(* The policy lets such an event through from every status.                *)
LEMMA QuarantinePasses ==
  ASSUME NEW j \in Jobs, j.event.bucket = "quarantined"
  PROVE  NextStatus(j) = "quarantined" /\ CanTransition(j.status, NextStatus(j))
BY DEF NextStatus, DestinationStatus, CanTransition, AllowedNextStatuses, Jobs, Statuses

(* Quarantine stays, in the row and in what was lost.                      *)
LEMMA QuarantineStays ==
  ASSUME IInv, [Next]_vars
  PROVE  /\ row.status = "quarantined" => row'.status = "quarantined"
         /\ lost \subseteq lost'
<1>1. ASSUME NEW h \in Handlers, UpdateFromStorageEvent(h), row.status = "quarantined"
      PROVE  row'.status = "quarantined"
  <2>1. job[h] \in Jobs /\ TypeOK /\ job[h].status = "quarantined"
    BY <1>1 DEF IInv, TypeOK, UpdateFromStorageEvent
  <2>2. NextStatus(job[h]) = "quarantined"
    BY <1>1, <2>1, PolicyFacts DEF UpdateFromStorageEvent
  <2> QED
    BY <1>1, <2>2 DEF UpdateFromStorageEvent, Updated
<1>2. \/ UNCHANGED row
      \/ \E h \in Handlers : UpdateFromStorageEvent(h)
  BY DEF Next, Process, CreateUploadForms, Post, Scan, Redeliver, FindByObjectKey,
         IgnoreStale, ChangedConcurrently, EventFails, vars
<1>3. lost \subseteq lost'
  BY DEF Next, Process, CreateUploadForms, Post, Scan, Redeliver, FindByObjectKey,
         IgnoreStale, ChangedConcurrently, EventFails, UpdateFromStorageEvent, vars
<1> QED
  BY <1>1, <1>2, <1>3

LEMMA VerdictsInductive ==
  ASSUME IInv, VerdictsOwed, [Next]_vars
  PROVE  VerdictsOwed'
<1> SUFFICES ASSUME NEW u \in Uploads, Object(u, "quarantined") \in found',
                    Object(u, "quarantined") \notin unacked',
                    row'.status # "quarantined"
             PROVE  u \in lost'
  BY DEF VerdictsOwed
<1> DEFINE e == Object(u, "quarantined")
<1>1. ASSUME NEW o \in Objects, Publish(o)
      PROVE  e \in found /\ e \notin unacked
  BY <1>1 DEF Publish
<1>2. ASSUME NEW h \in Handlers, job[h] # NoJob, Acknowledge(h), UNCHANGED found,
             IgnoreStale(h) \/ UpdateFromStorageEvent(h) \/ ChangedConcurrently(h)
      PROVE  u \in lost'
  <2>1. CASE job[h].event = e
    <3>1. job[h] \in Jobs /\ job[h].event.bucket = "quarantined"
      BY <1>2, <2>1 DEF IInv, TypeOK, Object
    <3>2. NextStatus(job[h]) = "quarantined" /\ CanTransition(job[h].status, NextStatus(job[h]))
      BY <3>1, QuarantinePasses
    <3>3. ~IgnoreStale(h) /\ ~UpdateFromStorageEvent(h)
      BY <3>2 DEF IgnoreStale, UpdateFromStorageEvent, Updated
    <3> QED
      BY <1>2, <2>1, <3>3 DEF ChangedConcurrently
  <2>2. CASE job[h].event # e
    BY <1>2, <2>2, QuarantineStays DEF Acknowledge, VerdictsOwed
  <2> QED
    BY <2>1, <2>2
<1>3. CASE \E h \in Handlers : Process(h)
  BY <1>2, <1>3 DEF Process, IgnoreStale, UpdateFromStorageEvent, ChangedConcurrently
<1>4. CASE UNCHANGED found /\ unacked \subseteq unacked'
  BY <1>4, QuarantineStays DEF VerdictsOwed
<1>5. CASE \E o \in Objects : Publish(o)
  BY <1>1, <1>5, QuarantineStays DEF VerdictsOwed
<1>6. \A v \in Uploads, b \in Buckets : Object(v, b) \in Objects
  BY DEF Object, Objects
<1> QED
  BY <1>3, <1>4, <1>5, <1>6 DEF Next, CreateUploadForms, Post, Scan, Redeliver, FindByObjectKey,
     EventFails, Buckets, vars

(* Whatever fails, is repeated or handled twice at a time, a verdict that  *)
(* is not stored is still to be delivered, or was given up by the one      *)
(* branch that only logs: no error, crash or stale event acknowledges it.  *)
THEOREM NoVerdictForgotten == Spec => []VerdictsOwed
<1>1. Init => VerdictsOwed
  BY DEF Init, VerdictsOwed
<1>2. IInv /\ VerdictsOwed /\ [Next]_vars => VerdictsOwed'
  BY VerdictsInductive
<1> QED
  BY <1>1, <1>2, Invariance, PTL DEF Spec

=============================================================================

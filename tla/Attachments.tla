---------------------------- MODULE Attachments ----------------------------
(***************************************************************************)
(* The life of one attachment: a row with a scan status, the uploads a     *)
(* client makes with its signed form, the scanner that moves each uploaded *)
(* object to the clean or to the quarantined bucket, and the handlers of   *)
(* the storage events that Pub/Sub pushes.                                 *)
(*                                                                         *)
(* The form may be posted more than once (a client that lost the answer),  *)
(* and every post is an object generation of its own under the same key.   *)
(* Pub/Sub delivers each event at least once, in any order, also to two    *)
(* instances at a time, and again until it is acknowledged.                *)
(*                                                                         *)
(* An event is named by the upload and the bucket its object lies in; this *)
(* is also what the object's storage generation identifies.  A size stands *)
(* for size and content type together.                                     *)
(***************************************************************************)
EXTENDS Integers

CONSTANTS
  Uploads,    \* posts of the upload form
  Handlers,   \* concurrent deliveries of events
  Sizes,      \* sizes a file can have
  Declared,   \* the size announced when the upload was prepared
  NoObject,   \* no storage generation
  NoJob       \* a handler that is not processing an event

Buckets == {"unscanned", "clean", "quarantined"}
Objects == [upload : Uploads, bucket : Buckets]
Statuses == {"pending_upload", "scanning", "clean", "quarantined"}

Rows == [status : Statuses, size : Sizes, object : Objects \cup {NoObject},
         failure : BOOLEAN]
Jobs == [event : Objects, status : Statuses, size : Sizes]

ASSUME ConstantsAssumption ==
  /\ Declared \in Sizes
  /\ NoObject \notin Objects
  /\ NoJob \notin Jobs

VARIABLES
  row,      \* the row of photoAttachments
  form,     \* TRUE once the client has the signed upload form
  size,     \* size[u]: the size of what upload u posted
  found,    \* the objects that exist, each announced by an event
  unacked,  \* the events Pub/Sub has to deliver (again)
  job,      \* job[h]: the event handler h works on, and the row it has read
  lost      \* the uploads whose quarantine verdict was acknowledged as
            \* "changed concurrently"

vars == <<row, form, size, found, unacked, job, lost>>

Object(u, b) == [upload |-> u, bucket |-> b]

-----------------------------------------------------------------------------
(* Preparing the upload: the row is stored, then the form is signed.       *)

Init ==
  /\ row = [status |-> "pending_upload", size |-> Declared, object |-> NoObject,
            failure |-> FALSE]
  /\ form = FALSE
  /\ size = [u \in Uploads |-> Declared]
  /\ found = {}
  /\ unacked = {}
  /\ job = [h \in Handlers |-> NoJob]
  /\ lost = {}

(* Signing may fail; the row then stays as it is.                          *)
CreateUploadForms ==
  /\ ~form
  /\ form' = TRUE
  /\ UNCHANGED <<row, size, found, unacked, job, lost>>

-----------------------------------------------------------------------------
(* Storage and scanner.                                                    *)

Publish(object) ==
  /\ found' = found \cup {object}
  /\ unacked' = unacked \cup {object}

(* The client posts a file.  The policy fixes the content type and bounds  *)
(* the size; it does not hold the client to the declared size.             *)
Post(u, n) ==
  /\ form
  /\ Object(u, "unscanned") \notin found
  /\ size' = [size EXCEPT ![u] = n]
  /\ Publish(Object(u, "unscanned"))
  /\ UNCHANGED <<row, form, job, lost>>

(* The scanner reaches a verdict and moves the object to its bucket.       *)
Scan(u, verdict) ==
  /\ Object(u, "unscanned") \in found
  /\ verdict \in {"clean", "quarantined"}
  /\ \A b \in {"clean", "quarantined"} : Object(u, b) \notin found
  /\ Publish(Object(u, verdict))
  /\ UNCHANGED <<row, form, size, job, lost>>

(* An event is delivered once more although it was acknowledged, or the    *)
(* acknowledgement was lost.                                               *)
Redeliver(e) ==
  /\ e \in found \ unacked
  /\ unacked' = unacked \cup {e}
  /\ UNCHANGED <<row, form, size, found, job, lost>>

-----------------------------------------------------------------------------
(* ProcessAttachmentFileEventHandler.                                      *)

(* destinations: the status an object's bucket stands for.                 *)
DestinationStatus(b) == IF b = "unscanned" THEN "scanning" ELSE b

AllowedNextStatuses ==
  [pending_upload |-> {"scanning", "clean", "quarantined"},
   scanning       |-> {"clean", "quarantined"},
   clean          |-> {"quarantined"},
   quarantined    |-> {}]

CanTransition(current, next) ==
  current = next \/ next \in AllowedNextStatuses[current]

(* Mutant: the object is not compared with what was declared.              *)
MetadataMatches_Always(j) == TRUE
(* Same size and type as the row read from the table; a clean object's     *)
(* metadata, fetched by generation, are those of the event or not there.   *)
MetadataMatches(j) == size[j.event.upload] = j.size

NextStatus(j) ==
  IF MetadataMatches(j) THEN DestinationStatus(j.event.bucket) ELSE "quarantined"

Done(h)         == job' = [job EXCEPT ![h] = NoJob]
Acknowledge(h)  == unacked' = unacked \ {job[h].event}

(* findByObjectKey.                                                        *)
FindByObjectKey(h, e) ==
  /\ job[h] = NoJob
  /\ e \in unacked
  /\ job' = [job EXCEPT ![h] = [event |-> e, status |-> row.status, size |-> row.size]]
  /\ UNCHANGED <<row, form, size, found, unacked, lost>>

(* "Ignoring stale storage event": the policy refuses the transition.      *)
IgnoreStale(h) ==
  /\ job[h] # NoJob
  /\ ~CanTransition(job[h].status, NextStatus(job[h]))
  /\ Acknowledge(h)
  /\ Done(h)
  /\ UNCHANGED <<row, form, size, found, lost>>

(* Mutant: the row is given the name of the bucket for its status.         *)
Updated_Bucket(j) ==
  [status  |-> j.event.bucket,
   size    |-> size[j.event.upload],
   object  |-> j.event,
   failure |-> ~MetadataMatches(j)]
(* The columns the update sets.                                            *)
Updated(j) ==
  [status  |-> NextStatus(j),
   size    |-> size[j.event.upload],
   object  |-> j.event,
   failure |-> ~MetadataMatches(j)]

(* Mutant: the update does not ask for the status that was read.           *)
UpdateFromStorageEvent_AnyStatus(h) ==
  /\ job[h] # NoJob
  /\ CanTransition(job[h].status, NextStatus(job[h]))
  /\ row' = Updated(job[h])
  /\ Acknowledge(h)
  /\ Done(h)
  /\ UNCHANGED <<form, size, found, lost>>

(* updateFromStorageEvent: UPDATE ... WHERE the status is the one read.    *)
UpdateFromStorageEvent(h) ==
  /\ job[h] # NoJob
  /\ CanTransition(job[h].status, NextStatus(job[h]))
  /\ row.status = job[h].status
  /\ row' = Updated(job[h])
  /\ Acknowledge(h)
  /\ Done(h)
  /\ UNCHANGED <<form, size, found, lost>>

(* The update matched no row: logged, and acknowledged all the same; lost  *)
(* keeps what only the log says.                                           *)
ChangedConcurrently(h) ==
  /\ job[h] # NoJob
  /\ CanTransition(job[h].status, NextStatus(job[h]))
  /\ row.status # job[h].status
  /\ lost' = lost \cup {u \in Uploads : job[h].event = Object(u, "quarantined")}
  /\ Acknowledge(h)
  /\ Done(h)
  /\ UNCHANGED <<row, form, size, found>>

(* Mutant: an error is answered with 200.                                  *)
EventFails_Acknowledged(h) ==
  /\ job[h] # NoJob
  /\ Acknowledge(h)
  /\ Done(h)
  /\ UNCHANGED <<row, form, size, found, lost>>

(* The clean object's metadata cannot be fetched, a statement fails or the *)
(* process dies: no acknowledgement.                                       *)
EventFails(h) ==
  /\ job[h] # NoJob
  /\ Done(h)
  /\ UNCHANGED <<row, form, size, found, unacked, lost>>

Process(h) ==
  \/ IgnoreStale(h)
  \/ UpdateFromStorageEvent(h)
  \/ ChangedConcurrently(h)

Next ==
  \/ CreateUploadForms
  \/ \E u \in Uploads, n \in Sizes : Post(u, n)
  \/ \E u \in Uploads, v \in Buckets : Scan(u, v)
  \/ \E e \in Objects : Redeliver(e)
  \/ \E h \in Handlers, e \in Objects : FindByObjectKey(h, e)
  \/ \E h \in Handlers : Process(h) \/ EventFails(h)

Spec == Init /\ [][Next]_vars

(* Every delivery comes to an answer or times out.  Pub/Sub delivers a     *)
(* verdict until it is acknowledged, and an attempt that is repeated again *)
(* and again does not fail for ever.                                       *)
FairSpec ==
  /\ Spec
  /\ \A h \in Handlers : WF_vars(Process(h) \/ EventFails(h))
  /\ \A u \in Uploads :
       LET e == Object(u, "quarantined")
       IN  /\ SF_vars(\E h \in Handlers : FindByObjectKey(h, e))
           /\ \A h \in Handlers : SF_vars(job[h] # NoJob /\ job[h].event = e /\ Process(h))

-----------------------------------------------------------------------------
(* Properties.                                                             *)

(* Every variable has its type.                                            *)
TypeOK ==
  /\ row \in Rows
  /\ form \in BOOLEAN
  /\ size \in [Uploads -> Sizes]
  /\ found \in SUBSET Objects
  /\ unacked \in SUBSET found
  /\ job \in [Handlers -> Jobs \cup {NoJob}]
  /\ lost \in SUBSET Uploads

(* assertDownloadable: a link is signed for a clean attachment only, to    *)
(* its storage generation in the clean bucket.                             *)
Downloadable == row.status = "clean"

(* A download link leads to an object that the scanner found clean and     *)
(* whose size and type are the declared ones, although the events overwrite *)
(* the very columns later events are compared with.                        *)
OnlyScannedServed ==
  Downloadable =>
    /\ row.object \in found
    /\ row.object.bucket = "clean"
    /\ size[row.object.upload] = Declared
    /\ ~row.failure

Rank == [pending_upload |-> 0, scanning |-> 1, clean |-> 2, quarantined |-> 3]

(* Late, repeated and concurrent events never take a status back: above    *)
(* all, nothing overrides quarantine.                                      *)
StatusOnlyAdvances == [][Rank[row'.status] >= Rank[row.status]]_row

(* An attachment the scanner put into quarantine gets that status.  It     *)
(* breaks when another event of the attachment is stored between the       *)
(* verdict's read and its update: see the lost_verdict run.                *)
VerdictStored ==
  \A u \in Uploads :
    Object(u, "quarantined") \in found ~> row.status = "quarantined"

(* What does hold of it, whatever is repeated, reordered or fails: such a  *)
(* race, which the handler logs and acknowledges, is the only way to lose  *)
(* a verdict.  No failed attempt forgets one.                              *)
VerdictStoredOrLogged ==
  \A u \in Uploads :
    Object(u, "quarantined") \in found ~>
      (row.status = "quarantined" \/ u \in lost)

=============================================================================

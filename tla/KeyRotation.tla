---------------------------- MODULE KeyRotation ----------------------------
(***************************************************************************)
(* Rotation of a tenant's data-encryption key (DEK) while requests keep    *)
(* writing personal data, for one tenant.                                  *)
(*                                                                         *)
(* A rotation command is a sequence of separate database statements: it    *)
(* looks for a rotation to resume, else creates the next key version, and  *)
(* then re-encrypts the rows of the old version batch by batch until none  *)
(* is left and the old version can be retired.  Writers (create or update  *)
(* of a customer, of a device, or of a visit) fetch the active key in one  *)
(* statement and store the ciphertext in a later one.  Any number of       *)
(* commands and writers run at once; a process may die between any two     *)
(* statements, and what it held in memory is lost.                         *)
(*                                                                         *)
(* A ciphertext is abstracted to the version and the DEK it was made with  *)
(* and the value it hides.  A DEK is the name of whoever drew its random   *)
(* bytes.                                                                  *)
(***************************************************************************)
EXTENDS Integers, FiniteSets

CONSTANTS
  Customers,      \* customer rows: personal data and an e-mail lookup hash
  ServiceOrders,  \* service order rows: an encrypted customer snapshot
  Devices,        \* device rows: an encrypted custom installation address
  Values,         \* the personal data a row can hold
  NoValue,        \* no personal data: an empty row, or a row not in a batch
  Rotators,       \* concurrent rotation commands
  Writers,        \* concurrent requests that write personal data
  Initial,        \* the DEK drawn when the tenant was created
  NoWrite,        \* a writer with no encrypted payload in hand
  MaxVersion,     \* bound: the highest key version a behaviour creates
  BatchSize       \* rows re-encrypted per transaction

Records  == Customers \cup ServiceOrders \cup Devices
Versions == 1..MaxVersion
Deks     == Rotators \cup {Initial}

ASSUME ConstantsAssumption ==
  /\ MaxVersion \in Nat \ {0}
  /\ BatchSize \in Nat \ {0}
  /\ Initial \notin Rotators
  /\ NoValue \notin Values
  /\ NoWrite \notin [id : Records, ver : Versions, dek : Deks, val : Values]

VARIABLES
  status,  \* status[v]: the status column of key version v
  dek,     \* dek[v]: the DEK that version v's wrapped_dek column unwraps to
  rec,     \* rec[r]: the encrypted columns of row r, and its lookup column
  write,   \* write[w]: the encrypted payload writer w is about to store
  pc,      \* pc[p]: the statement rotation command p executes next
  prev,    \* prev[p]: previousVersion, or decryptOnly while p is starting
  next,    \* next[p]: activeVersion, or active while p is starting
  cipher,  \* cipher[p]: the DEK p re-encrypts (or starts a rotation) with
  batch,   \* batch[p][r]: the value p decrypted from row r, or NoValue
  late     \* history: the rows whose last write came too late, see Store

keyVars == <<status, dek>>
rotVars == <<pc, prev, next, cipher, batch>>
vars    == <<status, dek, rec, write, pc, prev, next, cipher, batch, late>>

Unread   == -1   \* a query of startOrResumeRotation not answered yet
None     == 0    \* the query found no key; also the version of an empty row

EmptyRow   == [ver |-> None, dek |-> Initial, val |-> NoValue, lookup |-> NoValue]
EmptyBatch == [r \in Records |-> NoValue]

Statuses == {"absent", "active", "decrypt_only", "retired"}
Steps    == {"idle", "starting", "prepared", "batching", "updating",
             "counting", "finishing"}

-----------------------------------------------------------------------------
(* The state of a tenant with version 1 active and some rows written.      *)

Init ==
  /\ status = [v \in Versions |-> IF v = 1 THEN "active" ELSE "absent"]
  /\ dek = [v \in Versions |-> Initial]
  /\ rec \in [Records -> {EmptyRow} \cup
                {[ver |-> 1, dek |-> Initial, val |-> x, lookup |-> x] : x \in Values}]
  /\ write = [w \in Writers |-> NoWrite]
  /\ pc = [p \in Rotators |-> "idle"]
  /\ prev = [p \in Rotators |-> Unread]
  /\ next = [p \in Rotators |-> Unread]
  /\ cipher = [p \in Rotators |-> Initial]
  /\ batch = [p \in Rotators |-> EmptyBatch]
  /\ late = {}

WithStatus(s) == {v \in Versions : status[v] = s}

(* Mutant: a table with encrypted columns that rotation does not know of.   *)
References_NoDevices(v) == {r \in Customers \cup ServiceOrders : rec[r].ver = v}
References(v) == {r \in Records : rec[r].ver = v}

-----------------------------------------------------------------------------
(* Writers.                                                                *)

(* encryptJson: findActive, then the DEK of that version.  The two reads   *)
(* are one step because the DEK of an existing version never changes.  A   *)
(* customer that does not exist yet has an id no other request knows; an   *)
(* empty device row may also be a device without an address of its own.    *)
Encrypt(w, r, x, v) ==
  /\ write[w] = NoWrite
  /\ r \in Customers \cup Devices
  /\ r \in Customers /\ rec[r] = EmptyRow =>
       \A o \in Writers : write[o] # NoWrite => write[o].id # r
  /\ status[v] = "active"
  /\ write' = [write EXCEPT ![w] = [id |-> r, ver |-> v, dek |-> dek[v], val |-> x]]
  /\ UNCHANGED <<keyVars, rec, late, rotVars>>

(* The INSERT or UPDATE of the row: ciphertext, key version and lookup     *)
(* hash together, whatever the row holds by now.  Nothing checks that the  *)
(* version is still active: if a rotation has demoted it since Encrypt,    *)
(* the write is late, which no statement sees but late remembers.          *)
Store(w) ==
  /\ write[w] # NoWrite
  /\ late' = IF status[write[w].ver] = "active" THEN late \ {write[w].id}
             ELSE late \cup {write[w].id}
  /\ rec' = [rec EXCEPT ![write[w].id] =
               [ver |-> write[w].ver, dek |-> write[w].dek,
                val |-> write[w].val, lookup |-> write[w].val]]
  /\ write' = [write EXCEPT ![w] = NoWrite]
  /\ UNCHANGED <<keyVars, rotVars>>

(* The request fails, or its process dies, before the row is stored.       *)
Abandon(w) ==
  /\ write[w] # NoWrite
  /\ write' = [write EXCEPT ![w] = NoWrite]
  /\ UNCHANGED <<keyVars, rec, late, rotVars>>

(* UpdateDevice with hasCustomInstallationAddress false: all the encrypted *)
(* columns become null.                                                    *)
ClearAddress(r) ==
  /\ r \in Devices
  /\ rec[r] # EmptyRow
  /\ rec' = [rec EXCEPT ![r] = EmptyRow]
  /\ late' = late \ {r}
  /\ UNCHANGED <<keyVars, write, rotVars>>

-----------------------------------------------------------------------------
(* Rotation commands.                                                      *)

Idle(p) ==
  /\ pc' = [pc EXCEPT ![p] = "idle"]
  /\ prev' = [prev EXCEPT ![p] = Unread]
  /\ next' = [next EXCEPT ![p] = Unread]
  /\ cipher' = [cipher EXCEPT ![p] = Initial]
  /\ batch' = [batch EXCEPT ![p] = EmptyBatch]

BeginCommand(p) ==
  /\ pc[p] = "idle"
  /\ pc' = [pc EXCEPT ![p] = "starting"]
  /\ UNCHANGED <<keyVars, rec, late, write, prev, next, cipher, batch>>

(* Mutant: a rotation left open by a dead process is not looked for.       *)
FindDecryptOnly_NoResume(p) ==
  /\ pc[p] = "starting"
  /\ prev[p] = Unread
  /\ prev' = [prev EXCEPT ![p] = None]
  /\ UNCHANGED <<keyVars, rec, late, write, pc, next, cipher, batch>>

(* The two queries of startOrResumeRotation run in parallel: the database  *)
(* answers them in either order and other statements come between.         *)
FindDecryptOnly(p) ==
  /\ pc[p] = "starting"
  /\ prev[p] = Unread
  /\ \/ /\ WithStatus("decrypt_only") = {}
        /\ prev' = [prev EXCEPT ![p] = None]
     \/ \E v \in WithStatus("decrypt_only") :
          /\ \A u \in WithStatus("decrypt_only") : v <= u
          /\ prev' = [prev EXCEPT ![p] = v]
  /\ UNCHANGED <<keyVars, rec, late, write, pc, next, cipher, batch>>

FindActive(p) ==
  /\ pc[p] = "starting"
  /\ next[p] = Unread
  /\ \E v \in WithStatus("active") : next' = [next EXCEPT ![p] = v]
  /\ UNCHANGED <<keyVars, rec, late, write, pc, prev, cipher, batch>>

(* A decrypt-only version was found: continue its rotation.                *)
Resume(p) ==
  /\ pc[p] = "starting"
  /\ prev[p] \in Versions
  /\ next[p] \in Versions
  /\ pc' = [pc EXCEPT ![p] = "batching"]
  /\ UNCHANGED <<keyVars, rec, late, write, prev, next, cipher, batch>>

(* Mutant: the next version is two above the highest one.                  *)
PrepareNextKey_SkipsOne(p, v) ==
  /\ pc[p] = "starting"
  /\ prev[p] = None
  /\ next[p] \in Versions
  /\ status[v] # "absent"
  /\ \A u \in Versions : status[u] # "absent" => u <= v
  /\ prev' = [prev EXCEPT ![p] = next[p]]
  /\ next' = [next EXCEPT ![p] = v + 2]
  /\ cipher' = [cipher EXCEPT ![p] = p]
  /\ pc' = [pc EXCEPT ![p] = "prepared"]
  /\ UNCHANGED <<keyVars, rec, late, write, batch>>

(* None was found: getNextVersion, and prepareKey draws a new DEK.         *)
PrepareNextKey(p, v) ==
  /\ pc[p] = "starting"
  /\ prev[p] = None
  /\ next[p] \in Versions
  /\ \A u \in Versions : status[u] # "absent" <=> u < v
  /\ prev' = [prev EXCEPT ![p] = next[p]]
  /\ next' = [next EXCEPT ![p] = v]
  /\ cipher' = [cipher EXCEPT ![p] = p]
  /\ pc' = [pc EXCEPT ![p] = "prepared"]
  /\ UNCHANGED <<keyVars, rec, late, write, batch>>

(* Bound: a command that would need a version above MaxVersion gives up.   *)
BoundReached(p) ==
  /\ pc[p] = "starting"
  /\ prev[p] = None
  /\ next[p] \in Versions
  /\ WithStatus("absent") = {}
  /\ Idle(p)
  /\ UNCHANGED <<keyVars, rec, late, write>>

(* The transaction of startRotation: demote the current version, which     *)
(* must still be the active one, and create the next.                      *)
(* Mutants: the count of demoted versions is not checked; nothing is.      *)
CanStart_NoCount(p) == status[next[p]] = "absent"
CanStart_Upsert(p)  == TRUE
CanStart(p) ==
  /\ status[prev[p]] = "active"
  /\ status[next[p]] = "absent"

StartRotation(p) ==
  /\ pc[p] = "prepared"
  /\ CanStart(p)
  /\ status' = [status EXCEPT ![prev[p]] = "decrypt_only", ![next[p]] = "active"]
  /\ dek' = [dek EXCEPT ![next[p]] = cipher[p]]
  /\ pc' = [pc EXCEPT ![p] = "batching"]
  /\ UNCHANGED <<rec, late, write, prev, next, cipher, batch>>

StartRotationFails(p) ==
  /\ pc[p] = "prepared"
  /\ ~CanStart(p)
  /\ Idle(p)
  /\ UNCHANGED <<keyVars, rec, late, write>>

(* The first kind of row that still has rows of the old version.           *)
Pending(v) ==
  IF Customers \cap References(v) # {} THEN Customers \cap References(v)
  ELSE IF ServiceOrders \cap References(v) # {} THEN ServiceOrders \cap References(v)
  ELSE References(v)

(* findNextBatch, then the batch is decrypted and encrypted again with the *)
(* DEK of activeVersion, whatever its status is by now.                    *)
FindNextBatch(p, found) ==
  /\ pc[p] = "batching"
  /\ found # {}
  /\ found \subseteq Pending(prev[p])
  /\ \/ Cardinality(found) = BatchSize
     \/ Cardinality(found) < BatchSize /\ found = Pending(prev[p])
  /\ batch' = [batch EXCEPT ![p] =
                 [r \in Records |-> IF r \in found THEN rec[r].val ELSE NoValue]]
  /\ cipher' = [cipher EXCEPT ![p] = dek[next[p]]]
  /\ pc' = [pc EXCEPT ![p] = "updating"]
  /\ UNCHANGED <<keyVars, rec, late, write, prev, next>>

FindNoBatch(p) ==
  /\ pc[p] = "batching"
  /\ References(prev[p]) = {}
  /\ pc' = [pc EXCEPT ![p] = "counting"]
  /\ UNCHANGED <<keyVars, rec, late, write, prev, next, cipher, batch>>

(* Mutants: a row is updated whatever its version is by now; only the      *)
(* version column is updated; the version column is forgotten.             *)
Reencrypted_NoCheck(p, r) ==
  IF batch[p][r] # NoValue
  THEN [rec[r] EXCEPT !.ver = next[p], !.dek = cipher[p], !.val = batch[p][r]]
  ELSE rec[r]
Reencrypted_OnlyVersion(p, r) ==
  IF batch[p][r] # NoValue /\ rec[r].ver = prev[p]
  THEN [rec[r] EXCEPT !.ver = next[p]]
  ELSE rec[r]
Reencrypted_NoVersion(p, r) ==
  IF batch[p][r] # NoValue /\ rec[r].ver = prev[p]
  THEN [rec[r] EXCEPT !.dek = cipher[p], !.val = batch[p][r]]
  ELSE rec[r]

(* updateBatch: one transaction, each row only if its key version is still *)
(* the old one.  The lookup column is not touched.                         *)
Reencrypted(p, r) ==
  IF batch[p][r] # NoValue /\ rec[r].ver = prev[p]
  THEN [rec[r] EXCEPT !.ver = next[p], !.dek = cipher[p], !.val = batch[p][r]]
  ELSE rec[r]

UpdateBatch(p) ==
  /\ pc[p] = "updating"
  /\ rec' = [r \in Records |-> Reencrypted(p, r)]
  /\ batch' = [batch EXCEPT ![p] = EmptyBatch]
  /\ pc' = [pc EXCEPT ![p] = "batching"]
  /\ UNCHANGED <<keyVars, late, write, prev, next, cipher>>

(* countReferences must be zero.                                           *)
CountReferences(p) ==
  /\ pc[p] = "counting"
  /\ References(prev[p]) = {}
  /\ pc' = [pc EXCEPT ![p] = "finishing"]
  /\ UNCHANGED <<keyVars, rec, late, write, prev, next, cipher, batch>>

CountReferencesFails(p) ==
  /\ pc[p] = "counting"
  /\ References(prev[p]) # {}
  /\ Idle(p)
  /\ UNCHANGED <<keyVars, rec, late, write>>

(* finishRotation: decrypt_only becomes retired, else the command fails.   *)
FinishRotation(p) ==
  /\ pc[p] = "finishing"
  /\ status[prev[p]] = "decrypt_only"
  /\ status' = [status EXCEPT ![prev[p]] = "retired"]
  /\ Idle(p)
  /\ UNCHANGED <<dek, rec, late, write>>

FinishRotationFails(p) ==
  /\ pc[p] = "finishing"
  /\ status[prev[p]] # "decrypt_only"
  /\ Idle(p)
  /\ UNCHANGED <<keyVars, rec, late, write>>

(* The process dies: the command has no state outside the database.        *)
Crash(p) ==
  /\ pc[p] # "idle"
  /\ Idle(p)
  /\ UNCHANGED <<keyVars, rec, late, write>>

-----------------------------------------------------------------------------

WriterStep(w) ==
  \/ \E r \in Records, x \in Values, v \in Versions : Encrypt(w, r, x, v)
  \/ Store(w)
  \/ Abandon(w)

(* A command that has begun goes on by itself.                             *)
Progress(p) ==
  \/ FindDecryptOnly(p)
  \/ FindActive(p)
  \/ Resume(p)
  \/ \E v \in Versions : PrepareNextKey(p, v)
  \/ BoundReached(p)
  \/ StartRotation(p)
  \/ StartRotationFails(p)
  \/ \E found \in SUBSET Records : FindNextBatch(p, found)
  \/ FindNoBatch(p)
  \/ UpdateBatch(p)
  \/ CountReferences(p)
  \/ CountReferencesFails(p)
  \/ FinishRotation(p)
  \/ FinishRotationFails(p)

Next ==
  \/ \E w \in Writers : WriterStep(w)
  \/ \E r \in Records : ClearAddress(r)
  \/ \E p \in Rotators : BeginCommand(p) \/ Progress(p) \/ Crash(p)

Spec == Init /\ [][Next]_vars

(* Nobody has to issue a request or a command, and a started request may   *)
(* hang; a started command keeps executing its statements unless it dies.  *)
FairSpec == Spec /\ \A p \in Rotators : WF_vars(Progress(p))

-----------------------------------------------------------------------------
(* Properties.                                                             *)

Row          == [ver : {None} \cup Versions, dek : Deks,
                 val : Values \cup {NoValue}, lookup : Values \cup {NoValue}]
PendingWrite == [id : Records, ver : Versions, dek : Deks, val : Values]

TypeOK ==
  /\ status \in [Versions -> Statuses]
  /\ dek \in [Versions -> Deks]
  /\ rec \in [Records -> Row]
  /\ write \in [Writers -> PendingWrite \cup {NoWrite}]
  /\ pc \in [Rotators -> Steps]
  /\ prev \in [Rotators -> {Unread, None} \cup Versions]
  /\ next \in [Rotators -> {Unread} \cup Versions]
  /\ cipher \in [Rotators -> Deks]
  /\ batch \in [Rotators -> [Records -> Values \cup {NoValue}]]
  /\ late \subseteq Records

(* Exactly one key version of a tenant is active at any time, whatever     *)
(* commands race or die: the partial unique index allows no second one and *)
(* every writer needs one.                                                 *)
ExactlyOneActive == \E v \in Versions : WithStatus("active") = {v}

(* Every stored ciphertext names a key version that exists and was made    *)
(* with the DEK that version unwraps to, so it can always be decrypted:    *)
(* racing commands never replace the DEK another one encrypts with.        *)
Decryptable ==
  \A r \in Records : rec[r].ver # None =>
    /\ status[rec[r].ver] # "absent"
    /\ rec[r].dek = dek[rec[r].ver]

(* The keys held in memory are usable too: a payload waiting to be stored  *)
(* and a batch waiting to be updated carry the DEK of an existing version. *)
InFlightUsable ==
  /\ \A w \in Writers : write[w] # NoWrite =>
       /\ status[write[w].ver] # "absent"
       /\ write[w].dek = dek[write[w].ver]
  /\ \A p \in Rotators :
       /\ pc[p] \in {"batching", "updating", "counting", "finishing"} =>
            /\ {prev[p], next[p]} \subseteq Versions
            /\ status[next[p]] # "absent"
       /\ pc[p] = "updating" => cipher[p] = dek[next[p]]

(* A key version only moves forward, absent -> active -> decrypt_only ->   *)
(* retired, and keeps its DEK: no command reactivates or re-creates one.   *)
Rank == [absent |-> 0, active |-> 1, decrypt_only |-> 2, retired |-> 3]
KeysOnlyAge ==
  [][\A v \in Versions :
       /\ Rank[status[v]] <= Rank[status'[v]]
       /\ Rank[status'[v]] <= Rank[status[v]] + 1
       /\ status[v] # "absent" => dek'[v] = dek[v]]_vars

(* A row's lookup column and its ciphertext hold the same data: the e-mail *)
(* hash of a customer is the hash of the e-mail the ciphertext hides.  It  *)
(* breaks when re-encryption puts an older value back over a newer write,  *)
(* which the code lets happen: see the lost_write run.                     *)
LookupMatchesCiphertext == \A r \in Records : rec[r].lookup = rec[r].val

(* What does hold of it: a write stored before a rotation demotes its      *)
(* version is never undone, however batches, requests and crashes fall;    *)
(* only a write that comes after, under the old version, can be lost.      *)
OnlyLateWritesLost == \A r \in Records \ late : rec[r].lookup = rec[r].val

(* The check a rotation makes before it retires a version, that no row is  *)
(* left under it, still holds afterwards but for such late writes: the     *)
(* rotation itself leaves no row behind, in any table, after any crash.    *)
RetiredOnlyByLateWrites ==
  \A r \in Records \ late : rec[r].ver # None => status[rec[r].ver] # "retired"

(* One rotation at a time is open, and it leads to the active version.     *)
OneRotationOpen ==
  \A v \in WithStatus("decrypt_only") :
    status[v + 1] = "active" /\ WithStatus("decrypt_only") = {v}

(* Seen through decryption the rows are a plain table: rotation changes    *)
(* what a row holds only where the last write was late; everything else is *)
(* a request's write.                                                      *)
Plaintext(r) ==
  IF rec[r].ver # None /\ rec[r].dek = dek[rec[r].ver] THEN rec[r].val ELSE NoValue

Pii == INSTANCE PiiStore WITH
         content <- [r \in Records |-> Plaintext(r)],
         lookup  <- [r \in Records |-> rec[r].lookup],
         late    <- late

ImplementsPiiStore == Pii!Spec

(* A started command ends: it finishes, fails or dies, and does not        *)
(* re-encrypt the same rows for ever.                                      *)
CommandEnds == \A p \in Rotators : pc[p] # "idle" ~> pc[p] = "idle"
=============================================================================

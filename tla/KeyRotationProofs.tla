------------------------- MODULE KeyRotationProofs -------------------------
(***************************************************************************)
(* Safety of KeyRotation for every set of writers and rows and any number  *)
(* of key versions.  Whatever commands and requests run at once: the type  *)
(* invariant, one active version, no undecryptable row, versions that only *)
(* age and are made in order.  With one command at a time, and requests    *)
(* that run beside it as they like: one open rotation; no write undone and *)
(* no row left under a retired version, but for late writes; and the rows  *)
(* behave as the table of PiiStore.                                        *)
(***************************************************************************)
EXTENDS KeyRotation, TLAPS

(* The versions a command works with: from the moment it has both, they    *)
(* are versions of the tenant, and activeVersion is no longer absent       *)
(* unless the command is the one about to create it.                       *)
JobsInHand ==
  \A p \in Rotators :
    /\ pc[p] \in Steps \ {"idle", "starting"} => {prev[p], next[p]} \subseteq Versions
    /\ pc[p] # "prepared" /\ next[p] \in Versions => status[next[p]] # "absent"

(* The inductive invariant.  Decryptable alone is not inductive: a row is  *)
(* decryptable after Store or UpdateBatch only because the key in hand was *)
(* usable before, and that only because no version is created twice.       *)
IInv ==
  /\ TypeOK
  /\ JobsInHand
  /\ InFlightUsable
  /\ ExactlyOneActive
  /\ Decryptable

-----------------------------------------------------------------------------

(* Ending a command keeps its variables in range.                          *)
LEMMA IdleTyped ==
  ASSUME TypeOK, NEW p \in Rotators, Idle(p)
  PROVE  /\ pc' \in [Rotators -> Steps]
         /\ prev' \in [Rotators -> {Unread, None} \cup Versions]
         /\ next' \in [Rotators -> {Unread} \cup Versions]
         /\ cipher' \in [Rotators -> Deks]
         /\ batch' \in [Rotators -> [Records -> Values \cup {NoValue}]]
<1>1. EmptyBatch \in [Records -> Values \cup {NoValue}]
  BY DEF EmptyBatch
<1> QED
  BY <1>1 DEF TypeOK, Idle, Steps, Deks

(* Only StartRotation and FinishRotation touch the key rows.               *)
LEMMA KeysTouched ==
  ASSUME [Next]_vars
  PROVE  \/ UNCHANGED keyVars
         \/ \E p \in Rotators : StartRotation(p) \/ FinishRotation(p)
BY DEF Next, vars, keyVars, WriterStep, Progress, Encrypt, Store, Abandon,
       ClearAddress, BeginCommand, FindDecryptOnly, FindActive, Resume,
       PrepareNextKey, BoundReached, StartRotationFails, FindNextBatch,
       FindNoBatch, UpdateBatch, CountReferences, CountReferencesFails,
       FinishRotationFails, Crash

(* A key version that exists is never removed and keeps its DEK.           *)
LEMMA KeysPersist ==
  ASSUME TypeOK, JobsInHand, [Next]_vars, NEW v \in Versions, status[v] # "absent"
  PROVE  status'[v] # "absent" /\ dek'[v] = dek[v]
<1>1. CASE UNCHANGED keyVars
  BY <1>1 DEF keyVars
<1>2. ASSUME NEW p \in Rotators, StartRotation(p)
      PROVE  status'[v] # "absent" /\ dek'[v] = dek[v]
  <2>1. v # next[p]
    BY <1>2 DEF StartRotation, CanStart
  <2> QED
    BY <1>2, <2>1 DEF StartRotation, TypeOK
<1>3. ASSUME NEW p \in Rotators, FinishRotation(p)
      PROVE  status'[v] # "absent" /\ dek'[v] = dek[v]
  BY <1>3 DEF FinishRotation, TypeOK
<1> QED
  BY <1>1, <1>2, <1>3, KeysTouched

(* The range of each variable is preserved by every statement of a writer  *)
(* or a command.                                                           *)
LEMMA TypeInductive ==
  ASSUME TypeOK, JobsInHand, [Next]_vars
  PROVE  TypeOK'
<1> USE ConstantsAssumption
<1> USE DEF TypeOK, Deks, Row, PendingWrite, keyVars, rotVars
<1>1. ASSUME NEW w \in Writers, NEW r \in Records, NEW x \in Values,
             NEW v \in Versions, Encrypt(w, r, x, v)
      PROVE  TypeOK'
  BY <1>1 DEF Encrypt
<1>2. ASSUME NEW w \in Writers, Store(w) \/ Abandon(w)
      PROVE  TypeOK'
  <2>1. CASE Store(w)
    BY <2>1 DEF Store
  <2>2. CASE Abandon(w)
    BY <2>2 DEF Abandon
  <2> QED
    BY <1>2, <2>1, <2>2
<1>3. ASSUME NEW r \in Records, ClearAddress(r)
      PROVE  TypeOK'
  BY <1>3 DEF ClearAddress, EmptyRow
<1>4. ASSUME NEW p \in Rotators,
             \/ BeginCommand(p) \/ FindDecryptOnly(p) \/ FindActive(p)
             \/ Resume(p) \/ FindNoBatch(p) \/ CountReferences(p)
      PROVE  TypeOK'
  <2>1. CASE BeginCommand(p) \/ FindNoBatch(p)
    BY <2>1 DEF BeginCommand, FindNoBatch, Steps
  <2>2. CASE FindDecryptOnly(p)
    BY <2>2 DEF FindDecryptOnly, Steps, WithStatus
  <2>3. CASE FindActive(p)
    BY <2>3 DEF FindActive, Steps, WithStatus
  <2>4. CASE Resume(p)
    BY <2>4 DEF Resume, Steps
  <2>5. CASE CountReferences(p)
    BY <2>5 DEF CountReferences, Steps
  <2> QED
    BY <1>4, <2>1, <2>2, <2>3, <2>4, <2>5
<1>5. ASSUME NEW p \in Rotators, NEW v \in Versions, PrepareNextKey(p, v)
      PROVE  TypeOK'
  BY <1>5 DEF PrepareNextKey, Steps
<1>6. ASSUME NEW p \in Rotators, StartRotation(p)
      PROVE  TypeOK'
  BY <1>6 DEF StartRotation, Steps, Statuses
<1>7. ASSUME NEW p \in Rotators,
             \/ BoundReached(p) \/ StartRotationFails(p)
             \/ CountReferencesFails(p) \/ FinishRotationFails(p) \/ Crash(p)
      PROVE  TypeOK'
  <2>1. Idle(p) /\ UNCHANGED <<keyVars, rec, late, write>>
    BY <1>7 DEF BoundReached, StartRotationFails, CountReferencesFails,
                FinishRotationFails, Crash
  <2> QED
    BY <2>1, IdleTyped
<1>8. ASSUME NEW p \in Rotators, NEW found \in SUBSET Records, FindNextBatch(p, found)
      PROVE  TypeOK'
  <2>1. [r \in Records |-> IF r \in found THEN rec[r].val ELSE NoValue]
          \in [Records -> Values \cup {NoValue}]
    OBVIOUS
  <2>2. dek[next[p]] \in Deks
    BY <1>8 DEF JobsInHand, FindNextBatch, Steps
  <2> QED
    BY <1>8, <2>1, <2>2 DEF FindNextBatch, Steps
<1>9. ASSUME NEW p \in Rotators, UpdateBatch(p)
      PROVE  TypeOK'
  <2>1. ASSUME NEW r \in Records
        PROVE  Reencrypted(p, r) \in Row
    <3>1. next[p] \in Versions
      BY <1>9 DEF UpdateBatch, JobsInHand, Steps
    <3>2. /\ next[p] \in Versions
          /\ cipher[p] \in Deks
          /\ batch[p][r] \in Values \cup {NoValue}
          /\ rec[r] \in Row
      BY <3>1
    <3>3. [rec[r] EXCEPT !.ver = next[p], !.dek = cipher[p], !.val = batch[p][r]]
            \in Row
      BY <3>2
    <3> QED
      BY <3>2, <3>3 DEF Reencrypted
  <2>2. EmptyBatch \in [Records -> Values \cup {NoValue}]
    BY DEF EmptyBatch
  <2> QED
    BY <1>9, <2>1, <2>2 DEF UpdateBatch, Steps
<1>10. ASSUME NEW p \in Rotators, FinishRotation(p)
       PROVE  TypeOK'
  BY <1>10, IdleTyped DEF FinishRotation, Statuses
<1>11. CASE UNCHANGED vars
  BY <1>11 DEF vars
<1> QED
  BY <1>1, <1>2, <1>3, <1>4, <1>5, <1>6, <1>7, <1>8, <1>9, <1>10, <1>11
     DEF Next, WriterStep, Progress

(* The versions a command holds stay versions that exist.                  *)
LEMMA JobsInductive ==
  ASSUME TypeOK, JobsInHand, [Next]_vars
  PROVE  JobsInHand'
<1> USE DEF TypeOK
<1> SUFFICES ASSUME NEW q \in Rotators
             PROVE  /\ pc'[q] \in Steps \ {"idle", "starting"} =>
                         {prev'[q], next'[q]} \subseteq Versions
                    /\ pc'[q] # "prepared" /\ next'[q] \in Versions =>
                         status'[next'[q]] # "absent"
  BY DEF JobsInHand
<1>1. CASE UNCHANGED <<pc[q], prev[q], next[q]>>
  BY <1>1, KeysPersist DEF JobsInHand
<1>2. ASSUME NEW p \in Rotators, Idle(p), p = q
      PROVE  pc'[q] = "idle" /\ next'[q] = Unread
  BY <1>2 DEF Idle
<1>3. Unread \notin Versions
  BY DEF Unread, Versions
<1>4. CASE FindDecryptOnly(q) \/ FindActive(q)
  BY <1>4, <1>3 DEF FindDecryptOnly, FindActive, WithStatus, JobsInHand, keyVars, Steps
<1>5. CASE Resume(q) \/ BeginCommand(q)
  BY <1>5, <1>3 DEF Resume, BeginCommand, JobsInHand, keyVars, Steps
<1>6. ASSUME NEW v \in Versions, PrepareNextKey(q, v)
      PROVE  pc'[q] = "prepared" /\ {prev'[q], next'[q]} \subseteq Versions
  BY <1>6 DEF PrepareNextKey
<1>7. CASE StartRotation(q)
  <2>1. next[q] \in Versions /\ prev[q] \in Versions /\ prev[q] # next[q]
    BY <1>7 DEF StartRotation, CanStart, JobsInHand, Steps
  <2>2. status'[next[q]] = "active"
    BY <1>7, <2>1 DEF StartRotation
  <2> QED
    BY <1>7, <2>1, <2>2 DEF StartRotation
<1>8. CASE \/ \E found \in SUBSET Records : FindNextBatch(q, found)
           \/ FindNoBatch(q) \/ UpdateBatch(q) \/ CountReferences(q)
  BY <1>8 DEF FindNextBatch, FindNoBatch, UpdateBatch, CountReferences, JobsInHand,
              keyVars, Steps
<1>9. CASE \/ BoundReached(q) \/ StartRotationFails(q) \/ CountReferencesFails(q)
           \/ FinishRotation(q) \/ FinishRotationFails(q) \/ Crash(q)
  <2>1. Idle(q)
    BY <1>9 DEF BoundReached, StartRotationFails, CountReferencesFails,
                FinishRotation, FinishRotationFails, Crash
  <2> QED
    BY <1>2, <1>3, <2>1
<1>10. ASSUME NEW p \in Rotators, p # q, BeginCommand(p) \/ Progress(p) \/ Crash(p)
       PROVE  UNCHANGED <<pc[q], prev[q], next[q]>>
  BY <1>10 DEF Progress, BeginCommand, FindDecryptOnly, FindActive, Resume,
       PrepareNextKey, BoundReached, StartRotation, StartRotationFails,
       FindNextBatch, FindNoBatch, UpdateBatch, CountReferences,
       CountReferencesFails, FinishRotation, FinishRotationFails, Crash, Idle
<1>11. CASE \/ \E w \in Writers : WriterStep(w)
            \/ \E r \in Records : ClearAddress(r)
            \/ UNCHANGED vars
  <2>1. UNCHANGED <<pc, prev, next>>
    BY <1>11 DEF WriterStep, Encrypt, Store, Abandon, ClearAddress, vars, rotVars
  <2> QED
    BY <1>1, <2>1
<1>12. CASE Progress(q)
  BY <1>12, <1>4, <1>5, <1>6, <1>7, <1>8, <1>9 DEF Progress, Steps
<1> QED
  BY <1>1, <1>5, <1>9, <1>10, <1>11, <1>12 DEF Next

(* A key in hand stays usable: FindNextBatch takes the DEK of an existing  *)
(* version, and existing versions keep theirs.                             *)
LEMMA InFlightInductive ==
  ASSUME TypeOK, JobsInHand, InFlightUsable, [Next]_vars
  PROVE  InFlightUsable'
<1> USE DEF TypeOK
<1>1. JobsInHand'
  BY JobsInductive
<1>2. ASSUME NEW w \in Writers, write'[w] # NoWrite
      PROVE  status'[write'[w].ver] # "absent" /\ write'[w].dek = dek'[write'[w].ver]
  <2>1. CASE write'[w] = write[w]
    <3>1. write[w].ver \in Versions
      BY <1>2, <2>1 DEF PendingWrite
    <3>2. status[write[w].ver] # "absent" /\ write[w].dek = dek[write[w].ver]
      BY <1>2, <2>1 DEF InFlightUsable
    <3> QED
      BY <2>1, <3>1, <3>2, KeysPersist
  <2>2. CASE write'[w] # write[w]
    <3>1. PICK r \in Records, x \in Values, v \in Versions : Encrypt(w, r, x, v)
      BY <1>2, <2>2 DEF Next, vars, rotVars, WriterStep, Progress, Encrypt, Store,
         Abandon, ClearAddress, BeginCommand, FindDecryptOnly, FindActive, Resume,
         PrepareNextKey, BoundReached, StartRotation, StartRotationFails,
         FindNextBatch, FindNoBatch, UpdateBatch, CountReferences,
         CountReferencesFails, FinishRotation, FinishRotationFails, Crash
    <3> QED
      BY <3>1 DEF Encrypt, keyVars
  <2> QED
    BY <2>1, <2>2
<1>3. ASSUME NEW q \in Rotators, pc'[q] = "updating"
      PROVE  cipher'[q] = dek'[next'[q]]
  <2>1. CASE UNCHANGED <<pc[q], next[q], cipher[q]>>
    <3>1. next[q] \in Versions /\ status[next[q]] # "absent" /\ cipher[q] = dek[next[q]]
      BY <1>3, <2>1 DEF InFlightUsable
    <3> QED
      BY <2>1, <3>1, KeysPersist
  <2>2. ASSUME NEW found \in SUBSET Records, FindNextBatch(q, found)
        PROVE  cipher'[q] = dek'[next'[q]]
    BY <2>2 DEF FindNextBatch, keyVars
  <2>3. CASE \/ \E w \in Writers : WriterStep(w)
             \/ \E r \in Records : ClearAddress(r)
             \/ UNCHANGED vars
    <3>1. UNCHANGED <<pc, next, cipher>>
      BY <2>3 DEF WriterStep, Encrypt, Store, Abandon, ClearAddress, vars, rotVars
    <3> QED
      BY <2>1, <3>1
  <2>4. ASSUME NEW p \in Rotators, p # q, BeginCommand(p) \/ Progress(p) \/ Crash(p)
        PROVE  UNCHANGED <<pc[q], next[q], cipher[q]>>
    BY <2>4 DEF Progress, BeginCommand, FindDecryptOnly, FindActive, Resume,
         PrepareNextKey, BoundReached, StartRotation, StartRotationFails,
         FindNextBatch, FindNoBatch, UpdateBatch, CountReferences,
         CountReferencesFails, FinishRotation, FinishRotationFails, Crash, Idle
  <2>5. CASE BeginCommand(q) \/ Progress(q) \/ Crash(q)
    <3>1. \/ FindDecryptOnly(q) \/ FindActive(q)
          \/ \E found \in SUBSET Records : FindNextBatch(q, found)
      BY <1>3, <2>5 DEF Progress, BeginCommand, FindDecryptOnly, FindActive, Resume,
           PrepareNextKey, BoundReached, StartRotation, StartRotationFails,
           FindNextBatch, FindNoBatch, UpdateBatch, CountReferences,
           CountReferencesFails, FinishRotation, FinishRotationFails, Crash, Idle, Steps
    <3>2. ~ (FindDecryptOnly(q) \/ FindActive(q))
      BY <1>3 DEF FindDecryptOnly, FindActive
    <3> QED
      BY <2>2, <3>1, <3>2
  <2> QED
    BY <2>3, <2>4, <2>1, <2>5 DEF Next
<1> QED
  BY <1>1, <1>2, <1>3, TypeInductive DEF JobsInHand, InFlightUsable, Steps

(* StartRotation demotes the one active version as it creates the next;    *)
(* nothing else makes or unmakes an active version.                        *)
LEMMA OneActiveInductive ==
  ASSUME TypeOK, JobsInHand, ExactlyOneActive, [Next]_vars
  PROVE  ExactlyOneActive'
<1> USE DEF TypeOK
<1>1. PICK a \in Versions : \A v \in Versions : status[v] = "active" <=> v = a
  BY DEF ExactlyOneActive, WithStatus
<1> SUFFICES \E b \in Versions : \A v \in Versions : status'[v] = "active" <=> v = b
  BY DEF ExactlyOneActive, WithStatus
<1>2. CASE UNCHANGED keyVars
  BY <1>1, <1>2 DEF keyVars
<1>3. ASSUME NEW p \in Rotators, StartRotation(p)
      PROVE  \E b \in Versions : \A v \in Versions : status'[v] = "active" <=> v = b
  <2>1. next[p] \in Versions /\ prev[p] \in Versions
    BY <1>3 DEF StartRotation, JobsInHand, Steps
  <2>2. prev[p] = a /\ next[p] # a
    BY <1>1, <1>3, <2>1 DEF StartRotation, CanStart
  <2>3. \A v \in Versions : status'[v] = "active" <=> v = next[p]
    BY <1>1, <1>3, <2>1, <2>2 DEF StartRotation
  <2> QED
    BY <2>1, <2>3
<1>4. ASSUME NEW p \in Rotators, FinishRotation(p)
      PROVE  \A v \in Versions : status'[v] = "active" <=> v = a
  BY <1>1, <1>4 DEF FinishRotation
<1> QED
  BY <1>2, <1>3, <1>4, KeysTouched

(* A row's ciphertext is replaced only by one made with a usable key.      *)
LEMMA DecryptableInductive ==
  ASSUME TypeOK, JobsInHand, InFlightUsable, Decryptable, [Next]_vars
  PROVE  Decryptable'
<1> USE DEF TypeOK
<1> SUFFICES ASSUME NEW r \in Records, rec'[r].ver # None
             PROVE  /\ status'[rec'[r].ver] # "absent"
                    /\ rec'[r].dek = dek'[rec'[r].ver]
  BY DEF Decryptable
<1>1. SUFFICES rec'[r].ver \in Versions =>
                 /\ status[rec'[r].ver] # "absent"
                 /\ rec'[r].dek = dek[rec'[r].ver]
  <2>1. rec'[r].ver \in Versions
    BY TypeInductive DEF Row
  <2> QED
    BY <2>1, KeysPersist
<1>2. CASE rec'[r] = rec[r]
  BY <1>2 DEF Decryptable, Row
<1>3. ASSUME NEW w \in Writers, Store(w)
      PROVE  rec'[r] = rec[r] \/ /\ status[rec'[r].ver] # "absent"
                                 /\ rec'[r].dek = dek[rec'[r].ver]
  BY <1>3 DEF Store, InFlightUsable
<1>4. ASSUME NEW d \in Records, ClearAddress(d)
      PROVE  rec'[r] = rec[r] \/ rec'[r].ver = None
  BY <1>4 DEF ClearAddress, EmptyRow
<1>5. ASSUME NEW p \in Rotators, UpdateBatch(p)
      PROVE  rec'[r] = rec[r] \/ /\ status[rec'[r].ver] # "absent"
                                 /\ rec'[r].dek = dek[rec'[r].ver]
  <2>1. rec'[r] = Reencrypted(p, r)
    BY <1>5 DEF UpdateBatch
  <2>2. status[next[p]] # "absent" /\ cipher[p] = dek[next[p]]
    BY <1>5 DEF UpdateBatch, InFlightUsable
  <2>3. rec[r] \in Row
    OBVIOUS
  <2>4. LET new == [rec[r] EXCEPT !.ver = next[p], !.dek = cipher[p], !.val = batch[p][r]]
        IN  new.ver = next[p] /\ new.dek = cipher[p]
    BY <2>3 DEF Row
  <2> QED
    BY <2>1, <2>2, <2>4 DEF Reencrypted
<1>6. \/ UNCHANGED rec
      \/ \E w \in Writers : Store(w)
      \/ \E d \in Records : ClearAddress(d)
      \/ \E p \in Rotators : UpdateBatch(p)
  BY DEF Next, vars, WriterStep, Progress, Encrypt, Abandon, BeginCommand,
       FindDecryptOnly, FindActive, Resume, PrepareNextKey, BoundReached,
       StartRotation, StartRotationFails, FindNextBatch, FindNoBatch,
       CountReferences, CountReferencesFails, FinishRotation,
       FinishRotationFails, Crash
<1> QED
  BY <1>2, <1>3, <1>4, <1>5, <1>6

-----------------------------------------------------------------------------

LEMMA InitEstablishes == Init => IInv
<1> SUFFICES ASSUME Init PROVE IInv
  OBVIOUS
<1> USE ConstantsAssumption DEF Init, None, Unread, Versions, EmptyRow
<1>1. 1 \in Versions
  OBVIOUS
<1>2. TypeOK
  BY DEF TypeOK, Statuses, Steps, Deks, Row, PendingWrite, EmptyBatch
<1>3. JobsInHand
  BY DEF JobsInHand, Steps
<1>4. InFlightUsable
  BY DEF InFlightUsable
<1>5. ExactlyOneActive
  BY <1>1 DEF ExactlyOneActive, WithStatus
<1>6. Decryptable
  BY <1>1 DEF Decryptable
<1> QED
  BY <1>2, <1>3, <1>4, <1>5, <1>6 DEF IInv

(* The inductive invariant holds in every reachable state.                 *)
THEOREM Invariance == Spec => []IInv
<1>1. IInv /\ [Next]_vars => IInv'
  BY TypeInductive, JobsInductive, InFlightInductive, OneActiveInductive,
     DecryptableInductive DEF IInv
<1> QED
  BY <1>1, InitEstablishes, PTL DEF Spec

(* Every variable stays in its range.                                      *)
THEOREM TypeCorrect == Spec => []TypeOK
BY Invariance, PTL DEF IInv

(* Whatever commands race, crash and resume, the tenant always has exactly *)
(* one active key version: a writer always finds one, and never two.       *)
THEOREM OneActiveKey == Spec => []ExactlyOneActive
BY Invariance, PTL DEF IInv

(* Whatever commands race, crash and resume while requests write, every    *)
(* stored ciphertext can be decrypted with the key version it names.       *)
THEOREM NoDataLoss == Spec => []Decryptable
BY Invariance, PTL DEF IInv

(* The keys that writers and commands hold in memory are usable.           *)
THEOREM KeysInHandUsable == Spec => []InFlightUsable
BY Invariance, PTL DEF IInv

(* No step takes a key version back to an earlier status, skips one, or    *)
(* changes the DEK of a version that exists.                               *)
THEOREM KeyHistory == Spec => KeysOnlyAge
<1>1. ASSUME IInv, [Next]_vars, NEW v \in Versions
      PROVE  /\ Rank[status[v]] <= Rank[status'[v]]
             /\ Rank[status'[v]] <= Rank[status[v]] + 1
             /\ status[v] # "absent" => dek'[v] = dek[v]
  <2> USE <1>1 DEF IInv, TypeOK
  <2>1. status[v] # "absent" => dek'[v] = dek[v]
    BY KeysPersist
  <2>2. status[v] \in Statuses
    OBVIOUS
  <2>3. \/ status'[v] = status[v]
        \/ status[v] = "absent" /\ status'[v] = "active"
        \/ status[v] = "active" /\ status'[v] = "decrypt_only"
        \/ status[v] = "decrypt_only" /\ status'[v] = "retired"
    <3>1. CASE UNCHANGED keyVars
      BY <3>1 DEF keyVars
    <3>2. ASSUME NEW p \in Rotators, StartRotation(p) \/ FinishRotation(p)
          PROVE  \/ status'[v] = status[v]
                 \/ status[v] = "absent" /\ status'[v] = "active"
                 \/ status[v] = "active" /\ status'[v] = "decrypt_only"
                 \/ status[v] = "decrypt_only" /\ status'[v] = "retired"
      BY <3>2 DEF StartRotation, FinishRotation, CanStart
    <3> QED
      BY <3>1, <3>2, KeysTouched
  <2> QED
    BY <2>1, <2>2, <2>3 DEF Rank, Statuses
<1>2. IInv /\ [Next]_vars =>
        [\A v \in Versions :
           /\ Rank[status[v]] <= Rank[status'[v]]
           /\ Rank[status'[v]] <= Rank[status[v]] + 1
           /\ status[v] # "absent" => dek'[v] = dek[v]]_vars
  BY <1>1
<1> QED
  BY <1>2, Invariance, PTL DEF Spec, KeysOnlyAge

-----------------------------------------------------------------------------
(* The order of versions, whatever commands race.                          *)

(* Every version below one that exists was created, and demoted since.     *)
KeyOrder ==
  \A u, v \in Versions :
    u < v /\ status[v] # "absent" => status[u] \in {"decrypt_only", "retired"}

(* A command creates the version after the highest one it has found.       *)
PreparedFits ==
  \A p \in Rotators : pc[p] = "prepared" =>
    \A u \in Versions : u < next[p] => status[u] # "absent"

LEMMA PreparedInductive ==
  ASSUME TypeOK, JobsInHand, PreparedFits, [Next]_vars
  PROVE  PreparedFits'
<1> USE DEF TypeOK
<1> SUFFICES ASSUME NEW q \in Rotators, pc'[q] = "prepared",
                    NEW u \in Versions, u < next'[q]
             PROVE  status'[u] # "absent"
  BY DEF PreparedFits
<1>1. CASE pc[q] = "prepared" /\ next'[q] = next[q]
  BY <1>1, KeysPersist DEF PreparedFits
<1>2. CASE \E v \in Versions : PrepareNextKey(q, v)
  BY <1>2 DEF PrepareNextKey, keyVars
<1>3. CASE \/ \E w \in Writers : WriterStep(w)
           \/ \E r \in Records : ClearAddress(r)
           \/ UNCHANGED vars
  <2>1. UNCHANGED <<pc, next>>
    BY <1>3 DEF WriterStep, Encrypt, Store, Abandon, ClearAddress, vars, rotVars
  <2> QED
    BY <1>1, <2>1
<1>4. ASSUME NEW p \in Rotators, p # q, BeginCommand(p) \/ Progress(p) \/ Crash(p)
      PROVE  UNCHANGED <<pc[q], next[q]>>
  BY <1>4 DEF Progress, BeginCommand, FindDecryptOnly, FindActive, Resume,
       PrepareNextKey, BoundReached, StartRotation, StartRotationFails,
       FindNextBatch, FindNoBatch, UpdateBatch, CountReferences,
       CountReferencesFails, FinishRotation, FinishRotationFails, Crash, Idle
<1>5. CASE BeginCommand(q) \/ Progress(q) \/ Crash(q)
  <2>1. FindDecryptOnly(q) \/ FindActive(q) \/ \E v \in Versions : PrepareNextKey(q, v)
    BY <1>5 DEF Progress, BeginCommand, FindDecryptOnly, FindActive, Resume, BoundReached,
       StartRotation, StartRotationFails, FindNextBatch, FindNoBatch, UpdateBatch,
       CountReferences, CountReferencesFails, FinishRotation, FinishRotationFails,
       Crash, Idle
  <2>2. ~(FindDecryptOnly(q) \/ FindActive(q))
    BY DEF FindDecryptOnly, FindActive
  <2> QED
    BY <1>2, <2>1, <2>2
<1> QED
  BY <1>1, <1>3, <1>4, <1>5 DEF Next

LEMMA KeyOrderInductive ==
  ASSUME TypeOK, JobsInHand, ExactlyOneActive, PreparedFits, KeyOrder, [Next]_vars
  PROVE  KeyOrder'
<1> USE DEF TypeOK
<1>1. CASE UNCHANGED keyVars
  BY <1>1 DEF keyVars, KeyOrder
<1>2. ASSUME NEW p \in Rotators, StartRotation(p)
      PROVE  KeyOrder'
  <2>1. /\ next[p] \in Versions /\ prev[p] \in Versions
        /\ status[prev[p]] = "active" /\ status[next[p]] = "absent"
        /\ status' = [status EXCEPT ![prev[p]] = "decrypt_only", ![next[p]] = "active"]
    BY <1>2 DEF StartRotation, CanStart, JobsInHand, Steps
  <2>2. \A u \in Versions : u < next[p] => status[u] # "absent"
    BY <1>2 DEF StartRotation, PreparedFits
  <2>3. \A v \in Versions : status[v] = "active" <=> v = prev[p]
    BY <2>1 DEF ExactlyOneActive, WithStatus
  <2>4. \A v \in Versions : v > next[p] => status[v] = "absent"
    BY <2>1 DEF KeyOrder
  <2> SUFFICES ASSUME NEW u \in Versions, NEW v \in Versions, u < v, status'[v] # "absent"
               PROVE  status'[u] \in {"decrypt_only", "retired"}
    BY DEF KeyOrder
  <2>5. v <= next[p]
    BY <2>1, <2>4 DEF Versions
  <2>6. u # next[p] /\ u < next[p]
    BY <2>5, <2>1 DEF Versions
  <2>7. status[u] # "absent" /\ status[u] \in Statuses
    BY <2>2, <2>6
  <2>8. status'[u] = IF u = prev[p] THEN "decrypt_only" ELSE status[u]
    BY <2>1, <2>6
  <2> QED
    BY <2>3, <2>7, <2>8 DEF Statuses
<1>3. ASSUME NEW p \in Rotators, FinishRotation(p)
      PROVE  KeyOrder'
  BY <1>3 DEF FinishRotation, KeyOrder
<1> QED
  BY <1>1, <1>2, <1>3, KeysTouched

-----------------------------------------------------------------------------
(* One command at a time: after a crash the next command takes over.       *)

OneCommand == \A p, q \in Rotators : p = q

(* What the command has read about the keys is still true.                 *)
JobsCurrent ==
  \A p \in Rotators :
    /\ pc[p] = "idle" => prev[p] = Unread /\ next[p] = Unread
    /\ pc[p] = "starting" =>
         /\ prev[p] = None => WithStatus("decrypt_only") = {}
         /\ prev[p] \in Versions => status[prev[p]] = "decrypt_only"
         /\ next[p] \in Versions => status[next[p]] = "active"
    /\ pc[p] = "prepared" =>
         /\ WithStatus("decrypt_only") = {}
         /\ status[prev[p]] = "active" /\ next[p] = prev[p] + 1
    /\ pc[p] \in Steps \ {"idle", "starting", "prepared"} =>
         status[prev[p]] = "decrypt_only" /\ status[next[p]] = "active"

LEMMA JobsCurrentInductive ==
  ASSUME OneCommand, IInv, KeyOrder, JobsCurrent, OneRotationOpen, [Next]_vars
  PROVE  JobsCurrent' /\ OneRotationOpen'
<1> USE DEF IInv, TypeOK
<1>1. Unread \notin Versions /\ None \notin Versions /\ Unread # None
  BY DEF Unread, None, Versions
<1>2. CASE UNCHANGED keyVars
  <2>1. OneRotationOpen'
    BY <1>2 DEF keyVars, OneRotationOpen, WithStatus
  <2> SUFFICES ASSUME NEW p \in Rotators
               PROVE  /\ pc'[p] = "idle" => prev'[p] = Unread /\ next'[p] = Unread
                      /\ pc'[p] = "starting" =>
                           /\ prev'[p] = None => WithStatus("decrypt_only") = {}
                           /\ prev'[p] \in Versions => status[prev'[p]] = "decrypt_only"
                           /\ next'[p] \in Versions => status[next'[p]] = "active"
                      /\ pc'[p] = "prepared" =>
                           /\ WithStatus("decrypt_only") = {}
                           /\ status[prev'[p]] = "active" /\ next'[p] = prev'[p] + 1
                      /\ pc'[p] \in Steps \ {"idle", "starting", "prepared"} =>
                           status[prev'[p]] = "decrypt_only" /\ status[next'[p]] = "active"
    BY <1>2, <2>1 DEF JobsCurrent, keyVars, WithStatus
  <2>2. CASE UNCHANGED <<pc, prev, next>>
    BY <2>2 DEF JobsCurrent
  <2>3. CASE BeginCommand(p)
    BY <1>1, <2>3 DEF BeginCommand, JobsCurrent, Steps
  <2>4. CASE FindDecryptOnly(p)
    BY <1>1, <2>4 DEF FindDecryptOnly, JobsCurrent, WithStatus
  <2>5. CASE FindActive(p)
    BY <1>1, <2>5 DEF FindActive, JobsCurrent, WithStatus
  <2>6. CASE Resume(p)
    BY <2>6 DEF Resume, JobsCurrent
  <2>7. ASSUME NEW v \in Versions, PrepareNextKey(p, v)
        PROVE  /\ WithStatus("decrypt_only") = {} /\ pc'[p] = "prepared"
               /\ status[prev'[p]] = "active" /\ next'[p] = prev'[p] + 1
    <3>1. /\ WithStatus("decrypt_only") = {}
          /\ next[p] \in Versions /\ status[next[p]] = "active"
          /\ prev'[p] = next[p] /\ next'[p] = v /\ pc'[p] = "prepared"
          /\ \A u \in Versions : status[u] # "absent" <=> u < v
      BY <2>7 DEF PrepareNextKey, JobsCurrent
    <3>2. next[p] < v
      BY <3>1
    <3>3. v - 1 \in Versions /\ v - 1 < v /\ status[v - 1] # "absent"
      BY <3>1, <3>2, ConstantsAssumption DEF Versions
    <3>4. ~(next[p] < v - 1)
      BY <3>1, <3>3 DEF KeyOrder
    <3> QED
      BY <3>1, <3>2, <3>4 DEF Versions
  <2>8. CASE \E found \in SUBSET Records : FindNextBatch(p, found)
    BY <2>8 DEF FindNextBatch, JobsCurrent, Steps
  <2>9. CASE FindNoBatch(p) \/ UpdateBatch(p) \/ CountReferences(p)
    BY <2>9 DEF FindNoBatch, UpdateBatch, CountReferences, JobsCurrent, Steps
  <2>10. CASE \/ BoundReached(p) \/ StartRotationFails(p) \/ CountReferencesFails(p)
              \/ FinishRotationFails(p) \/ Crash(p)
    <3>1. Idle(p)
      BY <2>10 DEF BoundReached, StartRotationFails, CountReferencesFails,
                   FinishRotationFails, Crash
    <3> QED
      BY <3>1 DEF Idle, Steps
  <2>11. CASE StartRotation(p) \/ FinishRotation(p)
    <3>1. \E v \in Versions : status'[v] # status[v]
      BY <2>11 DEF StartRotation, FinishRotation, CanStart, JobsInHand, Steps
    <3> QED
      BY <1>2, <3>1 DEF keyVars
  <2>12. \/ UNCHANGED <<pc, prev, next>>
         \/ BeginCommand(p) \/ Progress(p) \/ Crash(p)
    <3>1. \A q \in Rotators : q = p
      BY DEF OneCommand
    <3> QED
      BY <3>1 DEF Next, WriterStep, Encrypt, Store, Abandon, ClearAddress, vars, rotVars
  <2>13. CASE \E v \in Versions : PrepareNextKey(p, v)
    BY <2>7, <2>13
  <2> QED
    BY <2>2, <2>3, <2>4, <2>5, <2>6, <2>8, <2>9, <2>10, <2>11, <2>12, <2>13 DEF Progress
<1>3. ASSUME NEW p \in Rotators, StartRotation(p)
      PROVE  JobsCurrent' /\ OneRotationOpen'
  <2>1. /\ next[p] \in Versions /\ prev[p] \in Versions
        /\ status[prev[p]] = "active" /\ status[next[p]] = "absent"
        /\ next[p] = prev[p] + 1 /\ WithStatus("decrypt_only") = {}
        /\ status' = [status EXCEPT ![prev[p]] = "decrypt_only", ![next[p]] = "active"]
        /\ pc' = [pc EXCEPT ![p] = "batching"] /\ prev' = prev /\ next' = next
    BY <1>3 DEF StartRotation, CanStart, JobsInHand, JobsCurrent, Steps
  <2>2. status'[prev[p]] = "decrypt_only" /\ status'[next[p]] = "active"
    BY <2>1
  <2>3. \A v \in Versions : status'[v] = "decrypt_only" => v = prev[p]
    BY <2>1 DEF WithStatus
  <2>4. OneRotationOpen'
    BY <2>1, <2>2, <2>3 DEF OneRotationOpen, WithStatus
  <2>5. JobsCurrent'
    BY <2>1, <2>2 DEF JobsCurrent, OneCommand
  <2> QED
    BY <2>4, <2>5
<1>4. ASSUME NEW p \in Rotators, FinishRotation(p)
      PROVE  JobsCurrent' /\ OneRotationOpen'
  <2>1. /\ status[prev[p]] = "decrypt_only" /\ prev[p] \in Versions
        /\ status' = [status EXCEPT ![prev[p]] = "retired"] /\ Idle(p)
    BY <1>4 DEF FinishRotation, JobsInHand, Steps
  <2>2. \A v \in Versions : status'[v] # "decrypt_only"
    BY <2>1 DEF OneRotationOpen, WithStatus
  <2>3. pc'[p] = "idle" /\ prev'[p] = Unread /\ next'[p] = Unread
    BY <2>1 DEF Idle
  <2> QED
    BY <2>2, <2>3 DEF OneRotationOpen, JobsCurrent, OneCommand, WithStatus, Steps
<1> QED
  BY <1>2, <1>3, <1>4, KeysTouched

-----------------------------------------------------------------------------
(* One command at a time, beside requests: what happens to the rows whose  *)
(* last write was not late.                                                *)

(* Such a row of the batch was written again since, or is as it was read.  *)
BatchFresh ==
  \A p \in Rotators : \A r \in Records \ late :
    pc[p] = "updating" /\ batch[p][r] # NoValue /\ rec[r].ver = prev[p] =>
      rec[r].val = batch[p][r]

(* After the count, rows under the old version are late writes.            *)
NoneLeft == \A p \in Rotators : pc[p] = "finishing" => References(prev[p]) \subseteq late

RowsInv == BatchFresh /\ NoneLeft /\ OnlyLateWritesLost /\ RetiredOnlyByLateWrites

(* What the steps do to the rows.                                          *)
LEMMA RowsTouched ==
  ASSUME [Next]_vars
  PROVE  \/ UNCHANGED <<rec, late>>
         \/ \E w \in Writers : Store(w)
         \/ \E r \in Records : ClearAddress(r)
         \/ \E p \in Rotators : UpdateBatch(p)
BY DEF Next, vars, WriterStep, Progress, Encrypt, Abandon, BeginCommand,
       FindDecryptOnly, FindActive, Resume, PrepareNextKey, BoundReached,
       StartRotation, StartRotationFails, FindNextBatch, FindNoBatch,
       CountReferences, CountReferencesFails, FinishRotation,
       FinishRotationFails, Crash

LEMMA WritesTouched ==
  ASSUME [Next]_vars
  PROVE  \/ UNCHANGED write
         \/ \E w \in Writers : Store(w) \/ Abandon(w)
         \/ \E w \in Writers, r \in Records, x \in Values, v \in Versions : Encrypt(w, r, x, v)
BY DEF Next, vars, WriterStep, Progress, BeginCommand, ClearAddress, rotVars,
       FindDecryptOnly, FindActive, Resume, PrepareNextKey, BoundReached,
       StartRotation, StartRotationFails, FindNextBatch, FindNoBatch, UpdateBatch,
       CountReferences, CountReferencesFails, FinishRotation,
       FinishRotationFails, Crash

(* A rewritten row is under the active version, and holds what it held     *)
(* before unless a late write was overtaken.                               *)
LEMMA ReencryptedFacts ==
  ASSUME IInv, JobsCurrent, BatchFresh, NEW p \in Rotators, UpdateBatch(p), NEW r \in Records
  PROVE  /\ rec'[r].lookup = rec[r].lookup /\ late' = late
         /\ r \notin late => rec'[r].val = rec[r].val
         /\ rec'[r] # rec[r] => /\ rec[r].ver = prev[p]
                                /\ rec'[r].ver = next[p] /\ status[next[p]] = "active"
<1>1. rec'[r] = Reencrypted(p, r) /\ late' = late
  BY DEF UpdateBatch
<1>2. CASE batch[p][r] # NoValue /\ rec[r].ver = prev[p]
  <2>1. /\ r \notin late => rec[r].val = batch[p][r]
        /\ status[next[p]] = "active"
    BY <1>2 DEF UpdateBatch, BatchFresh, JobsCurrent, Steps
  <2>2. PICK old \in Row : old = rec[r]
    BY DEF IInv, TypeOK
  <2>3. PICK new : new = [old EXCEPT !.ver = next[p], !.dek = cipher[p], !.val = batch[p][r]]
    OBVIOUS
  <2>4. new.val = batch[p][r] /\ new.lookup = old.lookup /\ new.ver = next[p]
    BY <2>3 DEF Row
  <2>5. rec'[r] = new
    BY <1>1, <1>2, <2>2, <2>3 DEF Reencrypted
  <2> QED
    BY <1>1, <1>2, <2>1, <2>2, <2>4, <2>5
<1>3. CASE ~(batch[p][r] # NoValue /\ rec[r].ver = prev[p])
  BY <1>1, <1>3 DEF Reencrypted
<1> QED
  BY <1>2, <1>3

LEMMA ClearedFacts ==
  ASSUME IInv, NEW d \in Records, ClearAddress(d), NEW r \in Records, rec'[r] # rec[r]
  PROVE  rec'[r] = EmptyRow
BY DEF ClearAddress, IInv, TypeOK

(* A request leaves a row empty, late, or under the active version.        *)
LEMMA RequestFacts ==
  ASSUME IInv, NEW r \in Records \ late',
         \/ UNCHANGED <<rec, late>>
         \/ \E w \in Writers : Store(w)
         \/ \E d \in Records : ClearAddress(d)
  PROVE  \/ rec'[r] = rec[r] /\ r \notin late
         \/ rec'[r] = EmptyRow
         \/ /\ rec'[r].ver \in Versions /\ status[rec'[r].ver] = "active"
            /\ rec'[r].lookup = rec'[r].val
<1> USE DEF IInv, TypeOK
<1>1. ASSUME NEW w \in Writers, Store(w)
      PROVE  \/ rec'[r] = rec[r] /\ r \notin late
             \/ /\ rec'[r].ver \in Versions /\ status[rec'[r].ver] = "active"
                /\ rec'[r].lookup = rec'[r].val
  <2>1. /\ write[w] \in PendingWrite
        /\ late' = IF status[write[w].ver] = "active" THEN late \ {write[w].id}
                   ELSE late \cup {write[w].id}
        /\ rec' = [rec EXCEPT ![write[w].id] =
                     [ver |-> write[w].ver, dek |-> write[w].dek,
                      val |-> write[w].val, lookup |-> write[w].val]]
    BY <1>1 DEF Store
  <2>2. CASE r = write[w].id
    BY <2>1, <2>2 DEF PendingWrite
  <2>3. CASE r # write[w].id
    BY <2>1, <2>3
  <2> QED
    BY <2>2, <2>3
<1>2. ASSUME NEW d \in Records, ClearAddress(d)
      PROVE  (rec'[r] = rec[r] /\ r \notin late) \/ rec'[r] = EmptyRow
  BY <1>2 DEF ClearAddress
<1> QED
  BY <1>1, <1>2

LEMMA BatchInductive ==
  ASSUME OneCommand, IInv, JobsCurrent, RowsInv, [Next]_vars
  PROVE  BatchFresh' /\ NoneLeft'
<1> USE DEF IInv, TypeOK, RowsInv
<1> SUFFICES ASSUME NEW p \in Rotators, NEW r \in Records \ late', rec'[r].ver = prev'[p]
             PROVE  /\ pc'[p] = "updating" /\ batch'[p][r] # NoValue
                         => rec'[r].val = batch'[p][r]
                    /\ pc'[p] # "finishing"
  BY DEF BatchFresh, NoneLeft, References
<1>1. CASE UpdateBatch(p)
  BY <1>1 DEF UpdateBatch
<1>2. ASSUME \/ UNCHANGED <<rec, late>>
             \/ \E w \in Writers : Store(w)
             \/ \E d \in Records : ClearAddress(d),
             pc'[p] = pc[p], prev'[p] = prev[p], batch'[p] = batch[p],
             pc[p] \in {"updating", "finishing"}
      PROVE  /\ pc'[p] = "updating" /\ batch'[p][r] # NoValue
                  => rec'[r].val = batch'[p][r]
             /\ pc'[p] # "finishing"
  <2>1. prev[p] \in Versions /\ status[prev[p]] = "decrypt_only" /\ None \notin Versions
    BY <1>2 DEF JobsInHand, JobsCurrent, Steps, None, Versions
  <2>2. rec'[r] = rec[r] /\ r \notin late
    BY <1>2, <2>1, RequestFacts DEF EmptyRow
  <2> QED
    BY <1>2, <2>2 DEF BatchFresh, NoneLeft, References
<1>3. CASE \/ \E w \in Writers : WriterStep(w)
           \/ \E d \in Records : ClearAddress(d)
           \/ UNCHANGED vars
  <2>1. UNCHANGED <<pc, prev, batch>>
    BY <1>3 DEF WriterStep, Encrypt, Store, Abandon, ClearAddress, vars, rotVars
  <2>2. \/ UNCHANGED <<rec, late>>
        \/ \E w \in Writers : Store(w)
        \/ \E d \in Records : ClearAddress(d)
    BY <1>3 DEF WriterStep, Encrypt, Abandon, vars
  <2> QED
    BY <1>2, <2>1, <2>2
<1>4. ASSUME NEW found \in SUBSET Records, FindNextBatch(p, found)
      PROVE  /\ pc'[p] = "updating" /\ rec' = rec
             /\ batch'[p][r] # NoValue => batch'[p][r] = rec[r].val
  BY <1>4 DEF FindNextBatch
<1>5. CASE CountReferences(p)
  BY <1>5 DEF CountReferences, References
<1>6. CASE BeginCommand(p) \/ Progress(p) \/ Crash(p)
  <2>1. \/ pc'[p] \notin {"updating", "finishing"}
        \/ UpdateBatch(p) \/ CountReferences(p)
        \/ \E found \in SUBSET Records : FindNextBatch(p, found)
        \/ FindDecryptOnly(p) \/ FindActive(p)
    BY <1>6 DEF BeginCommand, Progress, Crash, Resume, PrepareNextKey, BoundReached,
       StartRotation, StartRotationFails, FindNoBatch, CountReferencesFails,
       FinishRotation, FinishRotationFails, Idle
  <2>2. FindDecryptOnly(p) \/ FindActive(p) => pc'[p] = "starting"
    BY DEF FindDecryptOnly, FindActive
  <2> QED
    BY <1>1, <1>4, <1>5, <2>1, <2>2
<1> QED
  BY <1>3, <1>6 DEF Next, OneCommand

LEMMA RowsInductive ==
  ASSUME OneCommand, IInv, JobsCurrent, RowsInv, [Next]_vars
  PROVE  OnlyLateWritesLost' /\ RetiredOnlyByLateWrites'
<1> USE DEF IInv, TypeOK, RowsInv
<1> DEFINE Kept(r) ==
      /\ rec'[r].lookup = rec'[r].val
      /\ \/ rec'[r] = rec[r] /\ r \notin late
         \/ rec'[r].ver = None
         \/ rec'[r].ver \in Versions /\ status[rec'[r].ver] = "active"
<1>1. ASSUME NEW r \in Records \ late'
      PROVE  Kept(r)
  <2>1. CASE \/ UNCHANGED <<rec, late>>
             \/ \E w \in Writers : Store(w)
             \/ \E d \in Records : ClearAddress(d)
    BY <2>1, RequestFacts DEF OnlyLateWritesLost, EmptyRow
  <2>2. ASSUME NEW p \in Rotators, UpdateBatch(p)
        PROVE  Kept(r)
    <3>1. next[p] \in Versions
      BY <2>2 DEF UpdateBatch, JobsInHand, Steps
    <3> QED
      BY <2>2, <3>1, ReencryptedFacts DEF OnlyLateWritesLost
  <2> QED
    BY <2>1, <2>2, RowsTouched
<1>2. OnlyLateWritesLost'
  BY <1>1 DEF OnlyLateWritesLost
<1>3. RetiredOnlyByLateWrites'
  <2> SUFFICES ASSUME NEW r \in Records \ late', rec'[r].ver # None
               PROVE  status'[rec'[r].ver] # "retired"
    BY DEF RetiredOnlyByLateWrites
  <2>1. rec'[r].ver \in Versions /\ status[rec'[r].ver] # "retired"
    BY <1>1 DEF RetiredOnlyByLateWrites, Row
  <2>2. CASE UNCHANGED keyVars
    BY <2>1, <2>2 DEF keyVars
  <2>3. ASSUME NEW p \in Rotators, StartRotation(p)
        PROVE  status'[rec'[r].ver] # "retired"
    BY <2>1, <2>3 DEF StartRotation
  <2>4. ASSUME NEW p \in Rotators, FinishRotation(p)
        PROVE  status'[rec'[r].ver] # "retired"
    <3>1. rec' = rec /\ late' = late /\ status' = [status EXCEPT ![prev[p]] = "retired"]
          /\ References(prev[p]) \subseteq late
      BY <2>4 DEF FinishRotation, NoneLeft
    <3>2. rec[r].ver # prev[p]
      BY <3>1 DEF References
    <3> QED
      BY <2>1, <3>1, <3>2
  <2> QED
    BY <2>2, <2>3, <2>4, KeysTouched
<1> QED
  BY <1>2, <1>3

-----------------------------------------------------------------------------

LEMMA OrderEstablished ==
  Init => KeyOrder /\ PreparedFits /\ JobsCurrent /\ OneRotationOpen /\ RowsInv
<1> SUFFICES ASSUME Init
             PROVE  KeyOrder /\ PreparedFits /\ JobsCurrent /\ OneRotationOpen /\ RowsInv
  OBVIOUS
<1> USE ConstantsAssumption DEF Init, None, Unread, Versions
<1>1. KeyOrder /\ PreparedFits
  BY DEF KeyOrder, PreparedFits
<1>2. JobsCurrent /\ OneRotationOpen
  BY DEF JobsCurrent, OneRotationOpen, WithStatus, Steps
<1>3. BatchFresh /\ NoneLeft
  BY DEF BatchFresh, NoneLeft
<1>4. \A r \in Records : rec[r].lookup = rec[r].val /\ rec[r].ver \in {None, 1}
  BY DEF EmptyRow
<1>5. OnlyLateWritesLost /\ RetiredOnlyByLateWrites
  BY <1>4 DEF OnlyLateWritesLost, RetiredOnlyByLateWrites
<1> QED
  BY <1>1, <1>2, <1>3, <1>5 DEF RowsInv

(* Whatever commands race, crash and resume, the tenant's versions are     *)
(* numbered in the order they were made: none is skipped, and every one    *)
(* below the highest has been demoted.                                     *)
THEOREM VersionsInOrder == Spec => [](KeyOrder /\ PreparedFits)
<1>1. IInv /\ KeyOrder /\ PreparedFits /\ [Next]_vars => (KeyOrder /\ PreparedFits)'
  BY KeyOrderInductive, PreparedInductive DEF IInv
<1> QED
  BY <1>1, OrderEstablished, Invariance, PTL DEF Spec

(* While commands run one at a time, each of them possibly killed between  *)
(* any two statements and succeeded by the next, at most one rotation is   *)
(* open, and it leads to the active version, the one right above.          *)
THEOREM OneRotationAtATime ==
  ASSUME OneCommand
  PROVE  Spec => [](JobsCurrent /\ OneRotationOpen)
<1>1. IInv /\ KeyOrder /\ JobsCurrent /\ OneRotationOpen /\ [Next]_vars
        => (JobsCurrent /\ OneRotationOpen)'
  BY OneCommand, JobsCurrentInductive
<1> QED
  BY <1>1, OrderEstablished, Invariance, VersionsInOrder, PTL DEF Spec

(* What the batches and the counts rest on, with one command at a time.    *)
THEOREM RowsInvariance ==
  ASSUME OneCommand
  PROVE  Spec => []RowsInv
<1>1. IInv /\ JobsCurrent /\ RowsInv /\ [Next]_vars => RowsInv'
  BY OneCommand, BatchInductive, RowsInductive DEF RowsInv
<1> QED
  BY <1>1, OrderEstablished, Invariance, OneRotationAtATime, OneCommand, PTL DEF Spec

(* With one command at a time, and requests that write as they like beside *)
(* it, re-encryption never puts an older value back, except over a write   *)
(* stored under a version that a rotation had demoted meanwhile.           *)
THEOREM NoLostWrite ==
  ASSUME OneCommand
  PROVE  Spec => []OnlyLateWritesLost
BY RowsInvariance, OneCommand, PTL DEF RowsInv

(* With one command at a time, a version that is retired has no rows, now  *)
(* or later, but those that such late writes put there.                    *)
THEOREM RetiredStayUnused ==
  ASSUME OneCommand
  PROVE  Spec => []RetiredOnlyByLateWrites
BY RowsInvariance, OneCommand, PTL DEF RowsInv

-----------------------------------------------------------------------------
(* What the end of a command rests on.                                     *)

(* The requests with a payload of version v in hand.                       *)
Holding(v) == {w \in Writers : write[w] # NoWrite /\ write[w].ver = v}

(* A demoted version only loses requests that may still store under it,    *)
(* and while it loses none also rows; and a batch, once updated, is gone.  *)
RunsOut ==
  /\ \A v \in Versions : status[v] \in {"decrypt_only", "retired"} =>
       /\ Holding(v)' \subseteq Holding(v)
       /\ Holding(v)' = Holding(v) => References(v)' \subseteq References(v)
  /\ \A p \in Rotators, r \in Records :
       UpdateBatch(p) /\ batch[p][r] # NoValue => rec'[r].ver # prev[p]

LEMMA HoldingShrinks ==
  ASSUME IInv, [Next]_vars, NEW v \in Versions, status[v] \in {"decrypt_only", "retired"}
  PROVE  Holding(v)' \subseteq Holding(v)
<1> USE DEF IInv, TypeOK
<1> SUFFICES ASSUME NEW w \in Writers, write'[w] # NoWrite, write'[w].ver = v
             PROVE  write[w] # NoWrite /\ write[w].ver = v
  BY DEF Holding
<1>1. ASSUME NEW u \in Writers, Store(u) \/ Abandon(u)
      PROVE  write'[w] = write[w]
  BY <1>1 DEF Store, Abandon
<1>2. ASSUME NEW u \in Writers, NEW r \in Records, NEW x \in Values, NEW a \in Versions,
             Encrypt(u, r, x, a)
      PROVE  write'[w] = write[w]
  <2>1. write' = [write EXCEPT ![u] = [id |-> r, ver |-> a, dek |-> dek[a], val |-> x]]
        /\ status[a] = "active"
    BY <1>2 DEF Encrypt
  <2>2. u = w => a = v
    BY <2>1
  <2> QED
    BY <2>1, <2>2
<1> QED
  BY <1>1, <1>2, WritesTouched

LEMMA RunsOutStep ==
  ASSUME IInv, JobsCurrent, [Next]_vars
  PROVE  RunsOut
<1> USE DEF IInv, TypeOK
<1>1. ASSUME NEW p \in Rotators, UpdateBatch(p), NEW r \in Records
      PROVE  /\ rec'[r] = Reencrypted(p, r)
             /\ status[next[p]] = "active" /\ status[prev[p]] = "decrypt_only"
             /\ next[p] # prev[p] /\ next[p] \in Versions
             /\ rec'[r] # rec[r] => rec'[r].ver = next[p]
             /\ batch[p][r] # NoValue => rec'[r].ver # prev[p]
  <2>1. /\ rec'[r] = Reencrypted(p, r)
        /\ status[next[p]] = "active" /\ status[prev[p]] = "decrypt_only"
        /\ next[p] \in Versions
    BY <1>1 DEF UpdateBatch, JobsCurrent, JobsInHand, Steps
  <2>2. CASE batch[p][r] # NoValue /\ rec[r].ver = prev[p]
    <3>1. PICK old \in Row : old = rec[r]
      OBVIOUS
    <3>2. rec'[r] = [old EXCEPT !.ver = next[p], !.dek = cipher[p], !.val = batch[p][r]]
      BY <2>1, <2>2, <3>1 DEF Reencrypted
    <3>3. rec'[r].ver = next[p]
      BY <3>2 DEF Row
    <3> QED
      BY <2>1, <3>3
  <2>3. CASE ~(batch[p][r] # NoValue /\ rec[r].ver = prev[p])
    BY <2>1, <2>3 DEF Reencrypted
  <2> QED
    BY <2>1, <2>2, <2>3
<1>2. ASSUME NEW v \in Versions, status[v] \in {"decrypt_only", "retired"},
             Holding(v)' = Holding(v), NEW r \in Records, rec'[r].ver = v
      PROVE  rec[r].ver = v
  <2>1. ASSUME NEW w \in Writers, Store(w), rec'[r] # rec[r]
        PROVE  FALSE
    <3>1. /\ write[w] # NoWrite /\ write' = [write EXCEPT ![w] = NoWrite]
          /\ rec' = [rec EXCEPT ![write[w].id] =
                       [ver |-> write[w].ver, dek |-> write[w].dek,
                        val |-> write[w].val, lookup |-> write[w].val]]
      BY <2>1 DEF Store
    <3>2. rec'[r].ver = write[w].ver
      BY <2>1, <3>1
    <3>3. w \in Holding(v) /\ w \notin Holding(v)'
      BY <1>2, <3>1, <3>2 DEF Holding
    <3> QED
      BY <1>2, <3>3
  <2>2. ASSUME NEW d \in Records, ClearAddress(d), rec'[r] # rec[r]
        PROVE  FALSE
    <3>1. rec'[r] = EmptyRow
      BY <2>2, ClearedFacts
    <3> QED
      BY <1>2, <3>1 DEF EmptyRow, None, Versions
  <2>3. ASSUME NEW p \in Rotators, UpdateBatch(p), rec'[r] # rec[r]
        PROVE  FALSE
    BY <1>1, <1>2, <2>3
  <2> QED
    BY <1>2, <2>1, <2>2, <2>3, RowsTouched
<1>3. ASSUME NEW v \in Versions, status[v] \in {"decrypt_only", "retired"},
             Holding(v)' = Holding(v)
      PROVE  References(v)' \subseteq References(v)
  BY <1>2, <1>3 DEF References
<1> QED
  BY <1>1, <1>3, HoldingShrinks DEF RunsOut

(* What a rotation has left to do shrinks, with one command at a time:     *)
(* first the requests that may still store under the version it leaves,    *)
(* then the rows of that version, by each batch.  New requests take the    *)
(* new version, so the batches come to an end.                             *)
THEOREM OldVersionRunsOut ==
  ASSUME OneCommand
  PROVE  Spec => [][RunsOut]_vars
<1>1. IInv /\ JobsCurrent /\ [Next]_vars => RunsOut
  BY RunsOutStep
<1> QED
  BY <1>1, Invariance, OneRotationAtATime, OneCommand, PTL DEF Spec

-----------------------------------------------------------------------------
(* The rows seen through decryption.                                       *)

(* A row that a step leaves alone decrypts to what it did.                 *)
LEMMA SameContent ==
  ASSUME IInv, IInv', [Next]_vars, NEW r \in Records,
         rec'[r].val = rec[r].val, rec[r].ver = None <=> rec'[r].ver = None
  PROVE  Plaintext(r)' = Plaintext(r)
<1>1. Plaintext(r) = IF rec[r].ver = None THEN NoValue ELSE rec[r].val
  BY DEF IInv, Decryptable, Plaintext
<1>2. Plaintext(r)' = IF rec'[r].ver = None THEN NoValue ELSE rec'[r].val
  BY DEF IInv, Decryptable, Plaintext
<1> QED
  BY <1>1, <1>2

(* Every step is a write of one row, leaves all data alone, or loses data  *)
(* of rows whose last write was late.                                      *)
LEMMA PiiStep ==
  ASSUME IInv, IInv', JobsCurrent, RowsInv, [Next]_vars
  PROVE  [Pii!Next]_Pii!vars
<1> USE DEF IInv
<1>1. CASE UNCHANGED <<rec, late>>
  <2>1. \A r \in Records : Plaintext(r)' = Plaintext(r) /\ rec'[r].lookup = rec[r].lookup
    BY <1>1, SameContent
  <2> QED
    BY <1>1, <2>1 DEF Pii!vars
<1>2. ASSUME NEW d \in Records, NEW x \in Values \cup {NoValue},
             \A r \in Records \ {d} : rec'[r] = rec[r],
             Plaintext(d)' = x, rec'[d].lookup = x,
             late' \in {late \ {d}, late \cup {d}}
      PROVE  Pii!Next
  <2>1. \A r \in Records \ {d} : Plaintext(r)' = Plaintext(r)
    BY <1>2, SameContent
  <2>2. Pii!Write(d, x)
    BY <1>2, <2>1 DEF Pii!Write
  <2> QED
    BY <2>2 DEF Pii!Next
<1>3. ASSUME NEW w \in Writers, Store(w)
      PROVE  Pii!Next
  <2>1. /\ write[w] \in PendingWrite
        /\ rec' = [rec EXCEPT ![write[w].id] =
                     [ver |-> write[w].ver, dek |-> write[w].dek,
                      val |-> write[w].val, lookup |-> write[w].val]]
        /\ late' \in {late \ {write[w].id}, late \cup {write[w].id}}
    BY <1>3 DEF Store, TypeOK
  <2>2. PICK d \in Records, x \in Values, v \in Versions :
          /\ rec'[d] = [ver |-> v, dek |-> write[w].dek, val |-> x, lookup |-> x]
          /\ \A r \in Records \ {d} : rec'[r] = rec[r]
          /\ late' \in {late \ {d}, late \cup {d}}
    BY <2>1 DEF TypeOK, PendingWrite
  <2>3. rec'[d].ver # None /\ rec'[d].val = x /\ rec'[d].lookup = x
    BY <2>2 DEF None, Versions
  <2>4. Plaintext(d)' = x
    BY <2>3 DEF Plaintext, Decryptable
  <2> QED
    BY <1>2, <2>2, <2>3, <2>4
<1>4. ASSUME NEW d \in Records, ClearAddress(d)
      PROVE  Pii!Next
  <2>1. /\ rec'[d] = EmptyRow /\ late' = late \ {d}
        /\ \A r \in Records \ {d} : rec'[r] = rec[r]
    BY <1>4 DEF ClearAddress, TypeOK
  <2>2. Plaintext(d)' = NoValue /\ rec'[d].lookup = NoValue
    BY <2>1 DEF Plaintext, EmptyRow
  <2> QED
    BY <1>2, <2>1, <2>2
<1>5. ASSUME NEW p \in Rotators, UpdateBatch(p)
      PROVE  Pii!Next
  <2>1. prev[p] # None /\ next[p] # None
    BY <1>5 DEF UpdateBatch, JobsInHand, Steps, None, Versions
  <2>2. /\ late' = late
        /\ \A r \in Records : /\ rec'[r].lookup = rec[r].lookup
                              /\ r \notin late => rec'[r].val = rec[r].val
                              /\ rec[r].ver = None <=> rec'[r].ver = None
    BY <1>5, <2>1, ReencryptedFacts DEF RowsInv, UpdateBatch
  <2>3. \A r \in Records \ late : Plaintext(r)' = Plaintext(r)
    BY <2>2, SameContent
  <2>4. \A r \in Records : Plaintext(r)' \in Values \cup {NoValue}
    BY DEF Plaintext, TypeOK, Row
  <2>5. Pii!Lose
    BY <2>2, <2>3, <2>4 DEF Pii!Lose, Pii!Contents
  <2> QED
    BY <2>5 DEF Pii!Next
<1> QED
  BY <1>1, <1>3, <1>4, <1>5, RowsTouched

(* With one command at a time the encrypted columns behave as the table of *)
(* PiiStore: re-encryption changes nothing a request sees, and undoes no   *)
(* request's write but a late one.                                         *)
THEOREM PiiStoreImplemented ==
  ASSUME OneCommand
  PROVE  Spec => ImplementsPiiStore
<1>1. Init => Pii!Init
  <2> SUFFICES ASSUME Init PROVE Pii!Init
    OBVIOUS
  <2>1. /\ dek = [v \in Versions |-> Initial] /\ 1 \in Versions
        /\ \A r \in Records : \/ rec[r] = EmptyRow
                              \/ \E x \in Values :
                                   rec[r] = [ver |-> 1, dek |-> Initial, val |-> x, lookup |-> x]
    BY ConstantsAssumption DEF Init, Versions
  <2>2. \A r \in Records : /\ Plaintext(r) = rec[r].lookup
                           /\ rec[r].lookup \in Values \cup {NoValue}
    <3> TAKE r \in Records
    <3>1. CASE rec[r] = EmptyRow
      BY <3>1 DEF Plaintext, EmptyRow
    <3>2. ASSUME NEW x \in Values,
                 rec[r] = [ver |-> 1, dek |-> Initial, val |-> x, lookup |-> x]
          PROVE  Plaintext(r) = x /\ rec[r].lookup = x
      BY <2>1, <3>2 DEF Plaintext, None
    <3> QED
      BY <2>1, <3>1, <3>2 DEF EmptyRow
  <2> QED
    BY <2>2 DEF Init, Pii!Init, Pii!Contents
<1>2. IInv /\ IInv' /\ JobsCurrent /\ RowsInv /\ [Next]_vars => [Pii!Next]_Pii!vars
  BY PiiStep
<1> QED
  BY <1>1, <1>2, Invariance, OneRotationAtATime, RowsInvariance, OneCommand, PTL DEF Spec, ImplementsPiiStore, Pii!Spec

=============================================================================

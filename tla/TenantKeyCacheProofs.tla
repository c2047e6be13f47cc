------------------------ MODULE TenantKeyCacheProofs ------------------------
(***************************************************************************)
(* However many calls and keys there are and however small the cache: a    *)
(* key is never loaded twice at the same time, no call awaits a load that  *)
(* is not under way, buffers hold a key exactly while it is in use, and no *)
(* call is refused that could have read its key.                           *)
(***************************************************************************)
EXTENDS TenantKeyCache, SequenceTheorems, TLAPS

LoadType ==
  /\ inFlight \in [Keys -> Calls \cup {None}]
  /\ loading \in [Calls -> Keys \cup {None}]
  /\ call \in [Calls -> CallRecords]

(* The map holds exactly the loads under way, each under its key.          *)
MapHoldsLoads ==
  /\ \A k \in Keys : inFlight[k] # None => loading[inFlight[k]] = k
  /\ \A c \in Calls : loading[c] # None => inFlight[loading[c]] = c

(* A call that has begun a load awaits it.                                 *)
StarterWaits ==
  \A c \in Calls : loading[c] # None =>
    call[c].step = "waiting" /\ call[c].awaits = c

WaitersAwaitLoads ==
  \A c \in Calls : call[c].step = "waiting" =>
    /\ call[c].key \in Keys
    /\ call[c].awaits \in Calls
    /\ loading[call[c].awaits] = call[c].key

RereadKey == \A c \in Calls : call[c].step = "reread" => call[c].key \in Keys

IInv == LoadType /\ MapHoldsLoads /\ StarterWaits /\ WaitersAwaitLoads /\ RereadKey

-----------------------------------------------------------------------------
LEMMA NoneIsApart == None \notin Keys /\ None \notin Calls
  BY ConstantsAssumption

LEMMA RecordFacts ==
  ASSUME NEW s \in {"idle", "waiting", "reread", "using", "refused"}, NEW k \in Keys \cup {None},
         NEW a \in Calls \cup {None}, NEW b \in Keys \cup Calls \cup {None}
  PROVE  /\ Record(s, k, a, b) \in CallRecords
         /\ Record(s, k, a, b).step = s /\ Record(s, k, a, b).key = k
         /\ Record(s, k, a, b).awaits = a
  BY DEF Record, CallRecords

LEMMA IdleRecord == Idle \in CallRecords /\ Idle.step = "idle"
  BY RecordFacts DEF Idle

LEMMA InitIInv == Init => IInv
<1> SUFFICES ASSUME Init PROVE IInv
  OBVIOUS
<1>1. \A c \in Calls : call[c].step = "idle"
  BY IdleRecord DEF Init
<1>2. LoadType
  BY IdleRecord DEF Init, LoadType
<1> QED
  BY <1>1, <1>2 DEF Init, IInv, MapHoldsLoads, StarterWaits, WaitersAwaitLoads, RereadKey

(* A call is given its key: it awaits nothing.                             *)
LEMMA TakeKeyStep ==
  ASSUME IInv, NEW c \in Calls, NEW k \in Keys, TakeKey(c, k), call[c].step # "waiting"
  PROVE  IInv'
<1> USE DEF IInv
<1>1. /\ call'[c] \in CallRecords /\ call'[c].step = "using"
      /\ \A d \in Calls \ {c} : call'[d] = call[d]
      /\ call' \in [Calls -> CallRecords]
  <2>1. call' = [call EXCEPT ![c] = Record("using", k, None, c)]
    BY DEF TakeKey, Given
  <2>2. Record("using", k, None, c) \in CallRecords /\ Record("using", k, None, c).step = "using"
    BY RecordFacts
  <2> QED
    BY <2>1, <2>2 DEF LoadType
<1>2. inFlight' = inFlight /\ loading' = loading
  BY DEF TakeKey
<1>3. loading[c] = None
  BY DEF StarterWaits
<1> QED
  BY <1>1, <1>2, <1>3
     DEF LoadType, MapHoldsLoads, StarterWaits, WaitersAwaitLoads, RereadKey

(* A call that misses its key joins the load of the map or begins one.     *)
LEMMA MissStep ==
  ASSUME IInv, NEW c \in Calls, NEW k \in Keys, Read(c, k), call[c].step = "idle", ~Hit(k)
  PROVE  IInv'
<1> USE DEF IInv
<1>1. /\ inFlight' = [inFlight EXCEPT ![k] = Join(c, k)]
      /\ loading' = IF Join(c, k) = c THEN [loading EXCEPT ![c] = k] ELSE loading
      /\ call' = [call EXCEPT ![c] = Record("waiting", k, Join(c, k), None)]
  BY DEF Read
<1>2. Join(c, k) \in Calls
  BY DEF Join, LoadType
<1>3. /\ call'[c].step = "waiting" /\ call'[c].key = k /\ call'[c].awaits = Join(c, k)
      /\ call'[c] \in CallRecords
      /\ \A d \in Calls \ {c} : call'[d] = call[d]
      /\ call' \in [Calls -> CallRecords]
  BY <1>1, <1>2, RecordFacts DEF LoadType
<1>4. loading[c] = None
  BY DEF StarterWaits
<1>5. CASE inFlight[k] = None
  <2>1. /\ Join(c, k) = c /\ inFlight' = [inFlight EXCEPT ![k] = c]
        /\ loading' = [loading EXCEPT ![c] = k]
    BY <1>1, <1>5 DEF Join
  <2>2. \A d \in Calls : loading[d] # k
    BY <1>5, NoneIsApart DEF MapHoldsLoads
  <2>3. \A j \in Keys : inFlight[j] # c
    BY <1>4, NoneIsApart DEF MapHoldsLoads, LoadType
  <2>4. \A d \in Calls : call[d].step = "waiting" => call[d].awaits # c
    BY <1>4, NoneIsApart DEF WaitersAwaitLoads
  <2>5. LoadType' /\ MapHoldsLoads'
    BY <1>3, <2>1, <2>2, <2>3, NoneIsApart DEF LoadType, MapHoldsLoads
  <2>6. StarterWaits' /\ WaitersAwaitLoads' /\ RereadKey'
    BY <1>3, <2>1, <2>4 DEF LoadType, StarterWaits, WaitersAwaitLoads, RereadKey
  <2> QED
    BY <2>5, <2>6
<1>6. CASE inFlight[k] # None
  <2>1. Join(c, k) = inFlight[k] /\ inFlight[k] # c /\ loading[inFlight[k]] = k
    BY <1>4, <1>6, NoneIsApart DEF Join, MapHoldsLoads
  <2>2. inFlight' = inFlight /\ loading' = loading
    BY <1>1, <2>1 DEF LoadType
  <2> QED
    BY <1>2, <1>3, <1>4, <2>1, <2>2
       DEF LoadType, MapHoldsLoads, StarterWaits, WaitersAwaitLoads, RereadKey
<1> QED
  BY <1>5, <1>6

(* Marking the calls whose entry is dropped touches nothing else.          *)
LEMMA MissKeeps ==
  ASSUME NEW calls \in [Calls -> CallRecords], NEW keys
  PROVE  /\ Miss(calls, keys) \in [Calls -> CallRecords]
         /\ \A d \in Calls : /\ Miss(calls, keys)[d].step = calls[d].step
                            /\ Miss(calls, keys)[d].key = calls[d].key
                            /\ Miss(calls, keys)[d].awaits = calls[d].awaits
<1>1. ASSUME NEW d \in Calls
      PROVE  LET r == Miss(calls, keys)[d]
             IN  /\ r \in CallRecords /\ r.step = calls[d].step
                 /\ r.key = calls[d].key /\ r.awaits = calls[d].awaits
  <2>1. PICK q \in CallRecords : q = calls[d]
    OBVIOUS
  <2>2. Miss(calls, keys)[d] = q \/ Miss(calls, keys)[d] = [q EXCEPT !.dropped = TRUE]
    BY <2>1 DEF Miss
  <2> QED
    BY <2>1, <2>2 DEF CallRecords
<1> QED
  BY <1>1 DEF Miss

LEMMA ResumeFacts ==
  ASSUME NEW calls \in [Calls -> CallRecords], NEW c
  PROVE  /\ Resume(calls, c) \in [Calls -> CallRecords]
         /\ \A d \in Calls :
              IF calls[d].step = "waiting" /\ calls[d].awaits = c
              THEN /\ Resume(calls, c)[d].step = "reread"
                   /\ Resume(calls, c)[d].key = calls[d].key
              ELSE Resume(calls, c)[d] = calls[d]
<1>1. ASSUME NEW d \in Calls, calls[d].step = "waiting", calls[d].awaits = c
      PROVE  LET r == Resume(calls, c)[d]
             IN  r \in CallRecords /\ r.step = "reread" /\ r.key = calls[d].key
  <2>1. PICK q \in CallRecords : q = calls[d]
    OBVIOUS
  <2>2. Resume(calls, c)[d] = [q EXCEPT !.step = "reread"]
    BY <1>1, <2>1 DEF Resume
  <2> QED
    BY <2>1, <2>2 DEF CallRecords
<1> QED
  BY <1>1 DEF Resume

(* A load that ends leaves the map, and all who await it go on.            *)
LEMMA AnswerStep ==
  ASSUME IInv, NEW c \in Calls, Answer(c)
  PROVE  IInv'
<1> DEFINE k == loading[c]
<1> USE DEF IInv
<1>1. k \in Keys /\ inFlight[k] = c
  BY DEF Answer, LoadEnds, LoadFails, LoadType, MapHoldsLoads
<1>2. /\ inFlight' = [inFlight EXCEPT ![k] = None]
      /\ loading' = [loading EXCEPT ![c] = None]
  BY DEF Answer, LoadEnds, LoadFails, AfterFailure
<1>3. /\ call' \in [Calls -> CallRecords]
      /\ \A d \in Calls :
           IF call[d].step = "waiting" /\ call[d].awaits = c
           THEN call'[d].step \in {"reread", "idle"} /\ call'[d].key \in Keys \cup {None}
                /\ (call'[d].step = "reread" => call'[d].key = call[d].key)
           ELSE /\ call'[d].step = call[d].step /\ call'[d].key = call[d].key
                /\ call'[d].awaits = call[d].awaits
  <2>1. CASE LoadFails(c)
    BY <2>1, IdleRecord DEF LoadFails, LoadType, CallRecords
  <2>2. CASE LoadEnds(c)
    <3>1. PICK gone : call' = Resume(Miss(call, gone), c)
      BY <2>2 DEF LoadEnds
    <3>2. Miss(call, gone) \in [Calls -> CallRecords]
      BY MissKeeps DEF LoadType
    <3>3. call' \in [Calls -> CallRecords]
      BY <3>1, <3>2, ResumeFacts
    <3>4. \A d \in Calls : /\ Miss(call, gone)[d].step = call[d].step
                          /\ Miss(call, gone)[d].key = call[d].key
                          /\ Miss(call, gone)[d].awaits = call[d].awaits
      BY MissKeeps DEF LoadType
    <3>5. \A d \in Calls :
            IF Miss(call, gone)[d].step = "waiting" /\ Miss(call, gone)[d].awaits = c
            THEN /\ call'[d].step = "reread"
                 /\ call'[d].key = Miss(call, gone)[d].key
            ELSE call'[d] = Miss(call, gone)[d]
      BY <3>1, <3>2, ResumeFacts
    <3>6. \A d \in Calls : call'[d].key \in Keys \cup {None}
      BY <3>3 DEF CallRecords
    <3> QED
      BY <3>3, <3>4, <3>5, <3>6
  <2> QED
    BY <2>1, <2>2 DEF Answer
<1>4. LoadType'
  BY <1>1, <1>2, <1>3 DEF LoadType
<1>5. MapHoldsLoads'
  BY <1>1, <1>2, NoneIsApart DEF LoadType, MapHoldsLoads
<1>6. StarterWaits'
  BY <1>1, <1>2, <1>3, NoneIsApart DEF LoadType, StarterWaits
<1>7. WaitersAwaitLoads'
  BY <1>1, <1>2, <1>3, NoneIsApart DEF LoadType, WaitersAwaitLoads
<1>8. RereadKey'
  BY <1>3 DEF RereadKey, WaitersAwaitLoads
<1> QED
  BY <1>4, <1>5, <1>6, <1>7, <1>8

(* Steps that concern no load.                                             *)
LEMMA OtherStep ==
  ASSUME IInv, UNCHANGED <<inFlight, loading>>, call' \in [Calls -> CallRecords],
         \A d \in Calls :
           \/ /\ call'[d].step = call[d].step /\ call'[d].key = call[d].key
              /\ call'[d].awaits = call[d].awaits
           \/ /\ call[d].step # "waiting" /\ call'[d].step \notin {"waiting", "reread"}
  PROVE  IInv'
  BY DEF IInv, LoadType, MapHoldsLoads, StarterWaits, WaitersAwaitLoads, RereadKey

LEMMA NextIInv == IInv /\ [Next]_vars => IInv'
<1> SUFFICES ASSUME IInv, [Next]_vars PROVE IInv'
  OBVIOUS
<1> USE DEF IInv
<1>1. CASE UNCHANGED vars
  BY <1>1 DEF vars, LoadType, MapHoldsLoads, StarterWaits, WaitersAwaitLoads, RereadKey
<1>2. ASSUME NEW c \in Calls, NEW k \in Keys, GetOrLoad(c, k) PROVE IInv'
  <2>1. CASE Hit(k)
    BY <1>2, <2>1, TakeKeyStep DEF GetOrLoad, Read
  <2>2. CASE ~Hit(k)
    BY <1>2, <2>2, MissStep DEF GetOrLoad
  <2> QED
    BY <2>1, <2>2
<1>3. ASSUME NEW c \in Calls, Answer(c) PROVE IInv'
  BY <1>3, AnswerStep
<1>4. ASSUME NEW c \in Calls, Reread(c) PROVE IInv'
  <2>1. call[c].key \in Keys /\ call[c].step = "reread"
    BY <1>4 DEF Reread, RereadKey
  <2>2. CASE TakeKey(c, call[c].key)
    BY <2>1, <2>2, TakeKeyStep
  <2>3. CASE /\ call' = [call EXCEPT ![c].step = "refused"]
             /\ UNCHANGED <<inFlight, loading>>
    <3>1. PICK q \in CallRecords : q = call[c]
      BY DEF LoadType
    <3>2. call'[c] = [q EXCEPT !.step = "refused"]
      BY <2>3, <3>1 DEF LoadType
    <3>3. call'[c] \in CallRecords /\ call'[c].step = "refused"
      BY <3>2 DEF CallRecords
    <3>4. \A d \in Calls \ {c} : call'[d] = call[d]
      BY <2>3 DEF LoadType
    <3>5. call' \in [Calls -> CallRecords]
      BY <2>3, <3>3, <3>4 DEF LoadType
    <3> QED
      BY <2>1, <2>3, <3>3, <3>4, <3>5, OtherStep
  <2> QED
    BY <1>4, <2>2, <2>3 DEF Reread
<1>5. ASSUME NEW c \in Calls, Finish(c) \/ Refuse(c) PROVE IInv'
  <2>1. /\ call' = [call EXCEPT ![c] = Idle] /\ call[c].step # "waiting"
        /\ UNCHANGED <<inFlight, loading>>
    BY <1>5 DEF Finish, Refuse
  <2>2. call' \in [Calls -> CallRecords] /\ call'[c].step = "idle"
        /\ \A d \in Calls \ {c} : call'[d] = call[d]
    BY <2>1, IdleRecord DEF LoadType
  <2> QED
    BY <2>1, <2>2, OtherStep
<1>6. ASSUME NEW k \in Keys, Invalidate(k) \/ Expire(k) PROVE IInv'
  <2>1. call' = Miss(call, {k}) /\ UNCHANGED <<inFlight, loading>>
    BY <1>6 DEF Invalidate, Expire
  <2> QED
    BY <2>1, MissKeeps, OtherStep DEF LoadType
<1> QED
  BY <1>1, <1>2, <1>3, <1>4, <1>5, <1>6 DEF Next

(* A key is never unwrapped twice at the same time, and every call that    *)
(* waits does so for a load of its key that is under way (getOrLoad, load).*)
THEOREM LoadsAreShared == Spec => []SharedLoad
<1>1. IInv => SharedLoad
  BY NoneIsApart DEF IInv, SharedLoad, MapHoldsLoads, WaitersAwaitLoads, LoadType
<1> QED
  BY InitIInv, NextIInv, <1>1, PTL DEF Spec

-----------------------------------------------------------------------------
(* Sequences without repetition.                                           *)

LEMMA RemoveAtFacts ==
  ASSUME NEW S, NEW s \in Seq(S), NEW i \in 1..Len(s)
  PROVE  /\ RemoveAt(s, i) \in Seq(S)
         /\ Len(RemoveAt(s, i)) = Len(s) - 1
         /\ \A j \in 1..Len(s) - 1 : RemoveAt(s, i)[j] = IF j < i THEN s[j] ELSE s[j + 1]
<1> DEFINE a == SubSeq(s, 1, i - 1)
           b == SubSeq(s, i + 1, Len(s))
<1>1. a \in Seq(S) /\ Len(a) = i - 1 /\ \A j \in 1..i - 1 : a[j] = s[j]
  BY SubSeqProperties
<1>2. b \in Seq(S) /\ Len(b) = Len(s) - i /\ \A j \in 1..Len(s) - i : b[j] = s[i + j]
  BY SubSeqProperties
<1>3. RemoveAt(s, i) = a \o b
  BY DEF RemoveAt
<1> HIDE DEF a, b
<1>4. /\ a \o b \in Seq(S) /\ Len(a \o b) = Len(a) + Len(b)
      /\ \A j \in 1..Len(a) + Len(b) : (a \o b)[j] = IF j <= Len(a) THEN a[j] ELSE b[j - Len(a)]
  BY <1>1, <1>2, ConcatProperties
<1> QED
  BY <1>1, <1>2, <1>3, <1>4

LEMMA RemoveFirstFacts ==
  ASSUME NEW S, NEW s \in Seq(S), IsInjective(s), NEW e
  PROVE  /\ RemoveFirst(s, e) \in Seq(S) /\ IsInjective(RemoveFirst(s, e))
         /\ Len(RemoveFirst(s, e)) = IF e \in ToSet(s) THEN Len(s) - 1 ELSE Len(s)
         /\ ToSet(RemoveFirst(s, e)) = ToSet(s) \ {e}
<1>1. DOMAIN s = 1..Len(s)
  OBVIOUS
<1>2. CASE e \notin ToSet(s)
  BY <1>1, <1>2 DEF RemoveFirst, ToSet
<1>3. ASSUME NEW i \in 1..Len(s), s[i] = e
      PROVE  /\ RemoveFirst(s, e) \in Seq(S) /\ IsInjective(RemoveFirst(s, e))
             /\ Len(RemoveFirst(s, e)) = Len(s) - 1
             /\ ToSet(RemoveFirst(s, e)) = ToSet(s) \ {e}
  <2>1. {j \in 1..Len(s) : s[j] = e} = {i}
    BY <1>1, <1>3 DEF IsInjective
  <2>2. Min({i}) = i
    BY DEF Min
  <2> DEFINE t == RemoveFirst(s, e)
  <2>3. t = RemoveAt(s, i)
    BY <1>3, <2>1, <2>2 DEF RemoveFirst, SelectInSeq
  <2> HIDE DEF t
  <2>4. /\ t \in Seq(S) /\ Len(t) = Len(s) - 1 /\ DOMAIN t = 1..Len(s) - 1
        /\ \A j \in 1..Len(s) - 1 : t[j] = IF j < i THEN s[j] ELSE s[j + 1]
    <3>1. /\ t \in Seq(S) /\ Len(t) = Len(s) - 1
          /\ \A j \in 1..Len(s) - 1 : t[j] = IF j < i THEN s[j] ELSE s[j + 1]
      BY <2>3, RemoveAtFacts
    <3>2. DOMAIN t = 1..Len(t)
      BY <3>1
    <3> QED
      BY <3>1, <3>2
  <2>5. IsInjective(t)
    <3> SUFFICES ASSUME NEW a \in 1..Len(s) - 1, NEW b \in 1..Len(s) - 1, t[a] = t[b]
                 PROVE  a = b
      BY <2>4 DEF IsInjective
    <3> DEFINE At(j) == IF j < i THEN j ELSE j + 1
    <3>1. At(a) \in DOMAIN s /\ At(b) \in DOMAIN s /\ t[a] = s[At(a)] /\ t[b] = s[At(b)]
      BY <2>4
    <3>2. At(a) = At(b)
      BY <3>1 DEF IsInjective
    <3> QED
      BY <3>2
  <2>6. ASSUME NEW x \in ToSet(t)
        PROVE  x \in ToSet(s) \ {e}
    <3>1. PICK j \in 1..Len(s) - 1 : x = IF j < i THEN s[j] ELSE s[j + 1]
      BY <2>4, <2>6 DEF ToSet
    <3>2. PICK n \in 1..Len(s) : x = s[n] /\ n # i
      BY <3>1
    <3> QED
      BY <1>1, <1>3, <3>2 DEF ToSet, IsInjective
  <2>7. ASSUME NEW x \in ToSet(s) \ {e}
        PROVE  x \in ToSet(t)
    <3>1. PICK n \in 1..Len(s) : x = s[n] /\ n # i
      BY <1>1, <1>3, <2>7 DEF ToSet
    <3>2. CASE n < i
      BY <2>4, <3>1, <3>2 DEF ToSet
    <3>3. CASE n > i
      <4>1. n - 1 \in 1..Len(s) - 1 /\ t[n - 1] = s[n]
        BY <2>4, <3>1, <3>3
      <4> QED
        BY <2>4, <3>1, <4>1 DEF ToSet
    <3> QED
      BY <3>1, <3>2, <3>3
  <2> QED
    BY <2>4, <2>5, <2>6, <2>7 DEF t
<1> QED
  BY <1>1, <1>2, <1>3 DEF ToSet

LEMMA AppendFacts ==
  ASSUME NEW S, NEW s \in Seq(S), IsInjective(s), NEW e \in S, e \notin ToSet(s)
  PROVE  /\ Append(s, e) \in Seq(S) /\ IsInjective(Append(s, e))
         /\ Len(Append(s, e)) = Len(s) + 1
         /\ ToSet(Append(s, e)) = ToSet(s) \cup {e}
         /\ Append(s, e)[Len(s) + 1] = e
<1> DEFINE t == Append(s, e)
<1>1. /\ t \in Seq(S) /\ Len(t) = Len(s) + 1 /\ t[Len(s) + 1] = e
      /\ \A i \in 1..Len(s) : t[i] = s[i]
  BY AppendProperties
<1>2. DOMAIN s = 1..Len(s) /\ DOMAIN t = 1..Len(s) + 1
  BY <1>1
<1> HIDE DEF t
<1>3. IsInjective(t)
  BY <1>1, <1>2 DEF IsInjective, ToSet
<1>4. ToSet(t) = ToSet(s) \cup {e}
  BY <1>1, <1>2 DEF ToSet
<1> QED
  BY <1>1, <1>3, <1>4 DEF t

(* set keeps the newest entries, the one it just added among them.         *)
LEMMA KeptFacts ==
  ASSUME NEW S, NEW s \in Seq(S), IsInjective(s)
  PROVE  /\ Kept(s) \in Seq(S) /\ IsInjective(Kept(s)) /\ Len(Kept(s)) <= MaxEntries
         /\ ToSet(Kept(s)) \subseteq ToSet(s)
         /\ Len(s) > 0 => s[Len(s)] \in ToSet(Kept(s))
<1> USE ConstantsAssumption
<1>1. DOMAIN s = 1..Len(s)
  OBVIOUS
<1>2. CASE Len(s) <= MaxEntries
  BY <1>1, <1>2 DEF Kept, Newest, ToSet
<1>3. CASE Len(s) > MaxEntries
  <2> DEFINE t == SubSeq(s, Len(s) - MaxEntries + 1, Len(s))
  <2>1. Kept(s) = t
    BY <1>3 DEF Kept, Newest
  <2>2. /\ t \in Seq(S) /\ Len(t) = MaxEntries
        /\ \A i \in 1..MaxEntries : t[i] = s[Len(s) - MaxEntries + i]
    BY <1>3, SubSeqProperties
  <2>3. DOMAIN t = 1..MaxEntries
    BY <2>2
  <2> HIDE DEF t
  <2>4. IsInjective(t)
    <3> SUFFICES ASSUME NEW a \in 1..MaxEntries, NEW b \in 1..MaxEntries, t[a] = t[b]
                 PROVE  a = b
      BY <2>3 DEF IsInjective
    <3> DEFINE At(j) == Len(s) - MaxEntries + j
    <3>1. At(a) \in DOMAIN s /\ At(b) \in DOMAIN s /\ t[a] = s[At(a)] /\ t[b] = s[At(b)]
      BY <1>3, <2>2
    <3>2. At(a) = At(b)
      BY <3>1 DEF IsInjective
    <3> QED
      BY <3>2
  <2>5. ToSet(t) \subseteq ToSet(s)
    BY <1>1, <1>3, <2>2, <2>3 DEF ToSet
  <2>6. t[MaxEntries] = s[Len(s)] /\ MaxEntries \in DOMAIN t
    BY <1>3, <2>2, <2>3
  <2>7. s[Len(s)] \in ToSet(t)
    BY <2>6 DEF ToSet
  <2> QED
    BY <2>1, <2>2, <2>4, <2>5, <2>7
<1> QED
  BY <1>2, <1>3

-----------------------------------------------------------------------------
(* The entries, their buffers, and who reads them.                         *)

CacheType ==
  /\ order \in Seq(Keys) /\ IsInjective(order) /\ Len(order) <= MaxEntries
  /\ expired \subseteq ToSet(order)
  /\ bytes \in [Keys \cup Calls -> Keys \cup {Zero}]

(* A key in use is in the call's own copy.                                 *)
UsersHoldCopies ==
  \A c \in Calls : call[c].step = "using" => call[c].buffer = c /\ call[c].key \in Keys

(* A call that is about to read again finds its key, or knows why not.     *)
RereadersServed ==
  \A c \in Calls : call[c].step = "reread" => Hit(call[c].key) \/ call[c].dropped

CacheInv ==
  CacheType /\ UsersHoldCopies /\ BuffersFollowUse /\ RereadersServed /\ RefusedOnlyIfDropped

LEMMA KeysAndCalls == Keys \cap Calls = {} /\ Zero \notin Keys
  BY ConstantsAssumption

LEMMA OrderFacts ==
  ASSUME CacheType, NEW k \in Keys
  PROVE  LET rest == RemoveFirst(order, k)
             used == Append(rest, k)
         IN  /\ rest \in Seq(Keys) /\ IsInjective(rest)
             /\ Len(rest) = IF Cached(k) THEN Len(order) - 1 ELSE Len(order)
             /\ ToSet(rest) = ToSet(order) \ {k}
             /\ used \in Seq(Keys) /\ IsInjective(used) /\ Len(used) = Len(rest) + 1
             /\ ToSet(used) = ToSet(order) \cup {k} /\ used[Len(used)] = k
<1> DEFINE rest == RemoveFirst(order, k)
           used == Append(rest, k)
<1>1. /\ rest \in Seq(Keys) /\ IsInjective(rest)
      /\ Len(rest) = IF Cached(k) THEN Len(order) - 1 ELSE Len(order)
      /\ ToSet(rest) = ToSet(order) \ {k}
  BY RemoveFirstFacts DEF CacheType, Cached
<1> HIDE DEF rest
<1>2. /\ used \in Seq(Keys) /\ IsInjective(used) /\ Len(used) = Len(rest) + 1
      /\ ToSet(used) = ToSet(rest) \cup {k} /\ used[Len(rest) + 1] = k
  BY <1>1, AppendFacts
<1> QED
  BY <1>1, <1>2 DEF rest

(* What get and invalidate leave when they drop an entry.                  *)
LEMMA EntryDropped ==
  ASSUME CacheInv, NEW k \in Keys, DropExpired(k)
  PROVE  /\ CacheType' /\ ToSet(order') = ToSet(order) \ {k} /\ expired' = expired \ {k}
         /\ \A b \in Keys \cup Calls : bytes'[b] = IF b = k THEN Zero ELSE bytes[b]
<1> USE DEF CacheInv
<1>1. /\ order' \in Seq(Keys) /\ IsInjective(order') /\ Len(order') <= Len(order)
      /\ ToSet(order') = ToSet(order) \ {k}
  BY OrderFacts DEF DropExpired, CacheType
<1>2. Len(order') <= MaxEntries
  BY <1>1, ConstantsAssumption DEF CacheType
<1>3. /\ bytes' \in [Keys \cup Calls -> Keys \cup {Zero}]
      /\ \A b \in Keys \cup Calls : bytes'[b] = IF b = k THEN Zero ELSE bytes[b]
  BY DEF DropExpired, Wipe, CacheType
<1>4. expired' = expired \ {k} /\ expired \subseteq ToSet(order)
  BY DEF DropExpired, CacheType
<1>5. CacheType'
  BY <1>1, <1>2, <1>3, <1>4 DEF CacheType
<1> QED
  BY <1>1, <1>3, <1>4, <1>5

LEMMA TakeKeyCache ==
  ASSUME LoadType, CacheInv, NEW c \in Calls, NEW k \in Keys, Hit(k), TakeKey(c, k)
  PROVE  CacheInv'
<1> USE DEF CacheInv, LoadType
<1>1. order' \in Seq(Keys) /\ IsInjective(order') /\ Len(order') = Len(order)
      /\ ToSet(order') = ToSet(order)
  <2> DEFINE used == Append(RemoveFirst(order, k), k)
  <2>1. k \in ToSet(order) /\ Len(order) \in Nat
    BY DEF Hit, Cached, CacheType
  <2>2. used \in Seq(Keys) /\ IsInjective(used) /\ Len(used) = Len(order)
        /\ ToSet(used) = ToSet(order) \cup {k}
    BY <2>1, OrderFacts DEF Cached
  <2>3. order' = used
    BY DEF TakeKey
  <2> HIDE DEF used
  <2> QED
    BY <2>1, <2>2, <2>3
<1>2. bytes' = [bytes EXCEPT ![c] = k] /\ expired' = expired
  BY DEF TakeKey, Given, BuffersFollowUse, Hit
<1>3. CacheType'
  BY <1>1, <1>2 DEF CacheType
<1>4. call' = [call EXCEPT ![c] = Record("using", k, None, c)]
  BY DEF TakeKey, Given
<1>5. /\ call'[c].step = "using" /\ call'[c].key = k /\ call'[c].buffer = c
      /\ \A d \in Calls \ {c} : call'[d] = call[d]
  BY <1>4 DEF Record
<1>6. UsersHoldCopies'
  BY <1>5 DEF UsersHoldCopies
<1>7. \A j \in Keys : Cached(j)' <=> Cached(j)
  BY <1>1 DEF Cached
<1>8. BuffersFollowUse'
  <2>1. \A j \in Keys : bytes'[j] = IF Cached(j)' THEN j ELSE Zero
    BY <1>2, <1>7, KeysAndCalls DEF BuffersFollowUse, CacheType
  <2>2. ASSUME NEW d \in Calls
        PROVE  IF call'[d].step = "using" THEN bytes'[call'[d].buffer] = call'[d].key
                                          ELSE bytes'[d] = Zero
    BY <1>2, <1>5 DEF BuffersFollowUse, UsersHoldCopies, CacheType
  <2> QED
    BY <2>1, <2>2 DEF BuffersFollowUse
<1>9. RereadersServed' /\ RefusedOnlyIfDropped'
  <2>1. \A d \in Calls : call'[d].step \in {"reread", "refused"} => call'[d] = call[d]
    BY <1>5
  <2>2. RereadersServed'
    BY <1>1, <1>2, <2>1 DEF RereadersServed, Hit, Cached
  <2>3. RefusedOnlyIfDropped'
    BY <2>1 DEF RefusedOnlyIfDropped
  <2> QED
    BY <2>2, <2>3
<1> QED
  BY <1>3, <1>6, <1>8, <1>9

(* Dropping an entry, with what becomes of the calls.                      *)
LEMMA DropCache ==
  ASSUME LoadType, CacheInv, NEW k \in Keys, DropExpired(k),
         UsersHoldCopies', RereadersServed', RefusedOnlyIfDropped',
         \A d \in Calls : \/ call'[d].step = "using" /\ call[d].step = "using"
                             /\ call'[d].buffer = call[d].buffer /\ call'[d].key = call[d].key
                          \/ call'[d].step # "using" /\ call[d].step # "using"
  PROVE  CacheInv'
<1> USE DEF CacheInv
<1>1. /\ CacheType' /\ ToSet(order') = ToSet(order) \ {k}
      /\ \A b \in Keys \cup Calls : bytes'[b] = IF b = k THEN Zero ELSE bytes[b]
  BY EntryDropped
<1>2. \A j \in Keys : bytes'[j] = IF j \in ToSet(order') THEN j ELSE Zero
  BY <1>1 DEF BuffersFollowUse, Cached
<1>3. \A d \in Calls : bytes'[d] = bytes[d]
  BY <1>1, KeysAndCalls
<1>4. ASSUME NEW d \in Calls
      PROVE  IF call'[d].step = "using" THEN bytes'[call'[d].buffer] = call'[d].key
                                        ELSE bytes'[d] = Zero
  BY <1>3 DEF BuffersFollowUse, UsersHoldCopies
<1>5. BuffersFollowUse'
  BY <1>2, <1>4 DEF BuffersFollowUse, Cached
<1> QED
  BY <1>1, <1>5

(* What Miss does to a call.                                               *)
LEMMA MissMarks ==
  ASSUME NEW calls \in [Calls -> CallRecords], NEW keys, NEW d \in Calls
  PROVE  LET r == Miss(calls, keys)[d]
         IN  /\ r.step = calls[d].step /\ r.key = calls[d].key /\ r.buffer = calls[d].buffer
             /\ calls[d].dropped => r.dropped
             /\ calls[d].step = "reread" /\ calls[d].key \in keys => r.dropped
<1>1. PICK q \in CallRecords : q = calls[d]
  OBVIOUS
<1>2. CASE calls[d].step = "reread" /\ calls[d].key \in keys
  <2>1. Miss(calls, keys)[d] = [q EXCEPT !.dropped = TRUE]
    BY <1>1, <1>2 DEF Miss
  <2> QED
    BY <1>1, <2>1 DEF CallRecords
<1>3. CASE ~(calls[d].step = "reread" /\ calls[d].key \in keys)
  BY <1>1, <1>3 DEF Miss
<1> QED
  BY <1>2, <1>3

(* Marking them keeps what the calls rely on when the keys drop out.       *)
LEMMA MissCache ==
  ASSUME LoadType, UsersHoldCopies, RereadersServed, RefusedOnlyIfDropped, NEW keys,
         \A d \in Calls : call[d].step = "reread" /\ Hit(call[d].key) =>
           \/ call[d].key \in keys
           \/ call[d].key \in ToSet(order') /\ call[d].key \notin expired',
         call' = Miss(call, keys)
  PROVE  UsersHoldCopies' /\ RereadersServed' /\ RefusedOnlyIfDropped'
<1>1. \A d \in Calls : /\ call'[d].step = call[d].step /\ call'[d].key = call[d].key
                       /\ call'[d].buffer = call[d].buffer
                       /\ call[d].dropped => call'[d].dropped
                       /\ call[d].step = "reread" /\ call[d].key \in keys => call'[d].dropped
  BY MissMarks DEF LoadType
<1>2. UsersHoldCopies' /\ RefusedOnlyIfDropped'
  BY <1>1 DEF UsersHoldCopies, RefusedOnlyIfDropped
<1>3. RereadersServed'
  BY <1>1 DEF RereadersServed, Hit, Cached
<1> QED
  BY <1>2, <1>3

LEMMA BeginWaitCache ==
  ASSUME LoadType, CacheInv, NEW c \in Calls, NEW k \in Keys, GetOrLoad(c, k), ~Hit(k)
  PROVE  CacheInv'
<1> USE DEF CacheInv, LoadType
<1>1. DropExpired(k) /\ call' = [call EXCEPT ![c] = Record("waiting", k, Join(c, k), None)]
  BY DEF GetOrLoad, Read
<1>2. /\ call[c].step = "idle" /\ call'[c].step = "waiting"
      /\ \A d \in Calls \ {c} : call'[d] = call[d]
  BY <1>1 DEF GetOrLoad, Record
<1>3. ToSet(order') = ToSet(order) \ {k} /\ expired' = expired \ {k}
  BY <1>1, EntryDropped
<1>4. \A d \in Calls : call'[d].step \in {"using", "reread", "refused"} => call'[d] = call[d]
  BY <1>2
<1>5. UsersHoldCopies' /\ RefusedOnlyIfDropped'
  BY <1>4 DEF UsersHoldCopies, RefusedOnlyIfDropped
<1>6. RereadersServed'
  BY <1>3, <1>4 DEF RereadersServed, Hit, Cached
<1> QED
  BY <1>1, <1>2, <1>5, <1>6, DropCache

LEMMA RereadCache ==
  ASSUME IInv, CacheInv, NEW c \in Calls, Reread(c)
  PROVE  CacheInv'
<1> DEFINE k == call[c].key
<1> USE DEF CacheInv
<1>1. k \in Keys /\ call[c].step = "reread" /\ LoadType
  BY DEF Reread, IInv, RereadKey
<1>2. CASE Hit(k) /\ TakeKey(c, k)
  BY <1>1, <1>2, TakeKeyCache
<1>3. CASE ~Hit(k) /\ DropExpired(k) /\ call' = [call EXCEPT ![c].step = "refused"]
  <2>1. call[c].dropped
    BY <1>1, <1>3 DEF RereadersServed
  <2>2. PICK q \in CallRecords : q = call[c]
    BY <1>1 DEF LoadType
  <2>3. call'[c] = [q EXCEPT !.step = "refused"] /\ \A d \in Calls \ {c} : call'[d] = call[d]
    BY <1>1, <1>3, <2>2 DEF LoadType
  <2>4. call'[c].step = "refused" /\ call'[c].dropped
    BY <2>1, <2>2, <2>3 DEF CallRecords
  <2>5. \A d \in Calls : call'[d].step \in {"using", "reread"} => call'[d] = call[d]
    BY <2>3, <2>4
  <2>6. ToSet(order') = ToSet(order) \ {k} /\ expired' = expired \ {k}
    BY <1>1, <1>3, EntryDropped
  <2>7. UsersHoldCopies'
    BY <2>5 DEF UsersHoldCopies
  <2>8. RefusedOnlyIfDropped'
    BY <2>3, <2>4 DEF RefusedOnlyIfDropped
  <2>9. RereadersServed'
    BY <1>3, <2>5, <2>6 DEF RereadersServed, Hit, Cached
  <2> QED
    BY <1>1, <1>3, <2>3, <2>4, <2>7, <2>8, <2>9, DropCache
<1> QED
  BY <1>2, <1>3 DEF Reread

(* set makes room for the key it adds and never drops it again: those who  *)
(* await its load find it, and the others learn what was dropped.          *)
LEMMA LoadEndsCache ==
  ASSUME IInv, CacheInv, NEW c \in Calls, LoadEnds(c)
  PROVE  CacheInv'
<1> DEFINE k    == loading[c]
           keys == Append(RemoveFirst(order, k), k)
           gone == ToSet(keys) \ ToSet(Kept(keys))
<1> USE DEF CacheInv
<1>1. k \in Keys /\ LoadType
  BY DEF LoadEnds, IInv, LoadType
<1>2. /\ order' = Kept(keys) /\ expired' = expired \ (gone \cup {k})
      /\ bytes' = Wipe([bytes EXCEPT ![k] = k], gone) /\ call' = Resume(Miss(call, gone), c)
  BY DEF LoadEnds, Stored
<1>3. /\ keys \in Seq(Keys) /\ IsInjective(keys) /\ ToSet(keys) = ToSet(order) \cup {k}
      /\ Len(keys) > 0 /\ keys[Len(keys)] = k
  <2>1. /\ RemoveFirst(order, k) \in Seq(Keys) /\ keys \in Seq(Keys) /\ IsInjective(keys)
        /\ Len(keys) = Len(RemoveFirst(order, k)) + 1
        /\ ToSet(keys) = ToSet(order) \cup {k} /\ keys[Len(keys)] = k
    BY <1>1, OrderFacts
  <2> QED
    BY <2>1
<1> HIDE DEF keys
<1>4. /\ order' \in Seq(Keys) /\ IsInjective(order') /\ Len(order') <= MaxEntries
      /\ ToSet(order') \subseteq ToSet(order) \cup {k} /\ k \in ToSet(order')
  BY <1>2, <1>3, KeptFacts
<1>5. gone = (ToSet(order) \cup {k}) \ ToSet(order')
  BY <1>2, <1>3
<1> HIDE DEF gone, k
<1>6. /\ bytes' \in [Keys \cup Calls -> Keys \cup {Zero}]
      /\ \A b \in Keys \cup Calls :
           bytes'[b] = IF b \in gone THEN Zero ELSE IF b = k THEN k ELSE bytes[b]
  BY <1>1, <1>2 DEF Wipe, CacheType
<1>7. CacheType'
  BY <1>2, <1>4, <1>5, <1>6 DEF CacheType
<1>8. gone \subseteq Keys
  <2>1. ToSet(order) \subseteq Keys
    BY DEF CacheType, ToSet
  <2> QED
    BY <1>1, <1>5, <2>1
<1> DEFINE marked == Miss(call, gone)
<1>9. /\ marked \in [Calls -> CallRecords]
      /\ \A d \in Calls : /\ marked[d].step = call[d].step /\ marked[d].key = call[d].key
                          /\ marked[d].awaits = call[d].awaits
                          /\ marked[d].buffer = call[d].buffer
                          /\ call[d].dropped => marked[d].dropped
                          /\ call[d].step = "reread" /\ call[d].key \in gone => marked[d].dropped
  BY <1>1, MissKeeps, MissMarks DEF LoadType
<1> HIDE DEF marked
<1>10. \A d \in Calls :
         IF call[d].step = "waiting" /\ call[d].awaits = c
         THEN call'[d].step = "reread" /\ call'[d].key = call[d].key
         ELSE call'[d] = marked[d]
  BY <1>2, <1>9, ResumeFacts DEF marked
<1>11. UsersHoldCopies' /\ RefusedOnlyIfDropped'
  BY <1>9, <1>10 DEF UsersHoldCopies, RefusedOnlyIfDropped
<1>12. RereadersServed'
  <2> SUFFICES ASSUME NEW d \in Calls, call'[d].step = "reread"
               PROVE  (call'[d].key \in ToSet(order') /\ call'[d].key \notin expired')
                        \/ call'[d].dropped
    BY DEF RereadersServed, Hit, Cached
  <2>1. CASE call[d].step = "waiting" /\ call[d].awaits = c
    <3>1. call'[d].key = k
      BY <1>10, <2>1 DEF IInv, WaitersAwaitLoads, k
    <3> QED
      BY <1>2, <1>4, <3>1
  <2>2. CASE ~(call[d].step = "waiting" /\ call[d].awaits = c)
    <3>1. /\ call[d].step = "reread" /\ call'[d].key = call[d].key
          /\ call[d].dropped => call'[d].dropped
          /\ call[d].key \in gone => call'[d].dropped
      BY <1>9, <1>10, <2>2
    <3>2. call[d].dropped \/ (call[d].key \in ToSet(order) /\ call[d].key \notin expired)
      BY <3>1 DEF RereadersServed, Hit, Cached
    <3> QED
      BY <1>2, <1>5, <3>1, <3>2
  <2> QED
    BY <2>1, <2>2
<1>13. BuffersFollowUse'
  <2>1. \A j \in Keys : bytes'[j] = IF j \in ToSet(order') THEN j ELSE Zero
    BY <1>4, <1>5, <1>6 DEF BuffersFollowUse, Cached
  <2>2. \A d \in Calls : bytes'[d] = bytes[d]
    BY <1>1, <1>6, <1>8, KeysAndCalls
  <2>3. ASSUME NEW d \in Calls
        PROVE  IF call'[d].step = "using" THEN bytes'[call'[d].buffer] = call'[d].key
                                          ELSE bytes'[d] = Zero
    BY <1>9, <1>10, <2>2 DEF BuffersFollowUse, UsersHoldCopies
  <2> QED
    BY <2>1, <2>3 DEF BuffersFollowUse, Cached
<1> QED
  BY <1>7, <1>11, <1>12, <1>13

(* Steps that leave the entries alone.                                     *)
LEMMA QuietCache ==
  ASSUME LoadType, CacheInv, NEW c \in Calls, LoadFails(c) \/ Finish(c) \/ Refuse(c)
  PROVE  CacheInv'
<1> USE DEF CacheInv
<1>1. UNCHANGED <<order, expired>>
  BY DEF LoadFails, Finish, Refuse
<1>2. \A d \in Calls : call'[d].step # "idle" => call'[d] = call[d]
  BY IdleRecord DEF LoadFails, Finish, Refuse, LoadType
<1>3. UsersHoldCopies' /\ RefusedOnlyIfDropped'
  BY <1>2 DEF UsersHoldCopies, RefusedOnlyIfDropped
<1>4. RereadersServed'
  BY <1>1, <1>2 DEF RereadersServed, Hit, Cached
<1>5. CASE bytes' = bytes /\ \A d \in Calls : call[d].step = "using" => call'[d] = call[d]
  <2>1. BuffersFollowUse'
    BY <1>1, <1>2, <1>5 DEF BuffersFollowUse, Cached
  <2> QED
    BY <1>1, <1>3, <1>4, <1>5, <2>1 DEF CacheType
<1>6. CASE LoadFails(c) \/ Refuse(c)
  <2>1. \A d \in Calls : call[d].step = "using" => call'[d] = call[d]
    BY <1>6 DEF LoadFails, Refuse, LoadType
  <2> QED
    BY <1>5, <1>6, <2>1 DEF LoadFails, Refuse
<1>7. CASE Finish(c)
  <2>1. /\ call[c].step = "using" /\ call[c].buffer = c
        /\ bytes' = Wipe(bytes, {c}) /\ call' = [call EXCEPT ![c] = Idle]
    BY <1>7 DEF Finish, UsersHoldCopies
  <2>2. /\ bytes' \in [Keys \cup Calls -> Keys \cup {Zero}]
        /\ \A b \in Keys \cup Calls : bytes'[b] = IF b = c THEN Zero ELSE bytes[b]
    BY <2>1 DEF Wipe, CacheType
  <2>3. call'[c].step = "idle" /\ \A d \in Calls \ {c} : call'[d] = call[d]
    BY <2>1, IdleRecord DEF LoadType
  <2>4. \A j \in Keys : bytes'[j] = IF j \in ToSet(order') THEN j ELSE Zero
    BY <1>1, <2>2, KeysAndCalls DEF BuffersFollowUse, Cached
  <2>5. ASSUME NEW d \in Calls
        PROVE  IF call'[d].step = "using" THEN bytes'[call'[d].buffer] = call'[d].key
                                          ELSE bytes'[d] = Zero
    BY <2>2, <2>3 DEF BuffersFollowUse, UsersHoldCopies
  <2>6. BuffersFollowUse'
    BY <2>4, <2>5 DEF BuffersFollowUse, Cached
  <2> QED
    BY <1>1, <1>3, <1>4, <2>2, <2>6 DEF CacheType
<1> QED
  BY <1>6, <1>7

LEMMA InvalidateCache ==
  ASSUME LoadType, CacheInv, NEW k \in Keys, Invalidate(k)
  PROVE  CacheInv'
<1> USE DEF CacheInv
<1>1. DropExpired(k) /\ call' = Miss(call, {k})
  BY DEF Invalidate, DropExpired
<1>2. ToSet(order') = ToSet(order) \ {k} /\ expired' = expired \ {k}
  BY <1>1, EntryDropped
<1>3. UsersHoldCopies' /\ RereadersServed' /\ RefusedOnlyIfDropped'
  BY <1>1, <1>2, MissCache DEF Hit, Cached
<1>4. \A d \in Calls : /\ call'[d].step = call[d].step /\ call'[d].key = call[d].key
                       /\ call'[d].buffer = call[d].buffer
  BY <1>1, MissMarks DEF LoadType
<1> QED
  BY <1>1, <1>3, <1>4, DropCache

LEMMA ExpireCache ==
  ASSUME LoadType, CacheInv, NEW k \in Keys, Expire(k)
  PROVE  CacheInv'
<1> USE DEF CacheInv
<1>1. /\ order' = order /\ bytes' = bytes /\ expired' = expired \cup {k}
      /\ k \in ToSet(order) /\ call' = Miss(call, {k})
  BY DEF Expire, Hit, Cached
<1>2. UsersHoldCopies' /\ RereadersServed' /\ RefusedOnlyIfDropped'
  BY <1>1, MissCache DEF Hit, Cached
<1>3. \A d \in Calls : /\ call'[d].step = call[d].step /\ call'[d].key = call[d].key
                       /\ call'[d].buffer = call[d].buffer
  BY <1>1, MissMarks DEF LoadType
<1>4. BuffersFollowUse'
  BY <1>1, <1>3 DEF BuffersFollowUse, Cached
<1>5. CacheType'
  BY <1>1 DEF CacheType
<1> QED
  BY <1>2, <1>4, <1>5

LEMMA NextCache == IInv /\ CacheInv /\ [Next]_vars => CacheInv'
<1> SUFFICES ASSUME IInv, CacheInv, [Next]_vars PROVE CacheInv'
  OBVIOUS
<1>1. LoadType
  BY DEF IInv
<1>2. CASE UNCHANGED vars
  BY <1>2 DEF vars, CacheInv, CacheType, UsersHoldCopies, BuffersFollowUse, Cached, Hit,
              RereadersServed, RefusedOnlyIfDropped
<1>3. ASSUME NEW c \in Calls, NEW k \in Keys, GetOrLoad(c, k) PROVE CacheInv'
  <2>1. CASE Hit(k)
    BY <1>1, <1>3, <2>1, TakeKeyCache DEF GetOrLoad, Read
  <2>2. CASE ~Hit(k)
    BY <1>1, <1>3, <2>2, BeginWaitCache
  <2> QED
    BY <2>1, <2>2
<1>4. ASSUME NEW c \in Calls, Answer(c) \/ Reread(c) \/ Finish(c) \/ Refuse(c)
      PROVE  CacheInv'
  BY <1>1, <1>4, LoadEndsCache, QuietCache, RereadCache DEF Answer
<1>5. ASSUME NEW k \in Keys, Invalidate(k) \/ Expire(k) PROVE CacheInv'
  BY <1>1, <1>5, InvalidateCache, ExpireCache
<1> QED
  BY <1>2, <1>3, <1>4, <1>5 DEF Next

LEMMA InitCache == Init => CacheInv
<1> SUFFICES ASSUME Init PROVE CacheInv
  OBVIOUS
<1>1. order = <<>> /\ expired = {} /\ ToSet(order) = {}
  BY DEF Init, ToSet
<1>2. CacheType
  BY <1>1, ConstantsAssumption DEF Init, CacheType, IsInjective
<1>3. \A c \in Calls : call[c].step = "idle"
  BY IdleRecord DEF Init
<1>4. BuffersFollowUse
  BY <1>1, <1>3 DEF Init, BuffersFollowUse, Cached
<1> QED
  BY <1>2, <1>3, <1>4 DEF CacheInv, UsersHoldCopies, RereadersServed, RefusedOnlyIfDropped

THEOREM CacheInvariance == Spec => [](IInv /\ CacheInv)
BY InitIInv, NextIInv, InitCache, NextCache, PTL DEF Spec

(* Every variable has its type, and the cache keeps its limit.             *)
THEOREM TypeCorrect == Spec => []TypeOK
<1>1. IInv /\ CacheInv => TypeOK
  BY DEF IInv, CacheInv, LoadType, CacheType, TypeOK
<1> QED
  BY <1>1, CacheInvariance, PTL

(* However many calls share the cache and however it evicts, expires and   *)
(* invalidates: nobody is given a key that another has wiped, and no key   *)
(* stays behind in a buffer that is out of use.                            *)
THEOREM BuffersHoldKeysInUse == Spec => []BuffersFollowUse
BY CacheInvariance, PTL DEF CacheInv

(* A call whose load succeeded is refused only if its key was dropped      *)
(* again before it could read it, never by its own load.                   *)
THEOREM RefusedForACause == Spec => []RefusedOnlyIfDropped
BY CacheInvariance, PTL DEF CacheInv

-----------------------------------------------------------------------------
(* What the end of a call rests on.                                        *)

(* How far a call is from its end.                                         *)
Remaining == [idle |-> 0, refused |-> 1, using |-> 1, reread |-> 2, waiting |-> 3]
NoneGoesBack ==
  \A c \in Calls : call[c].step # "idle" /\ call'[c].step # call[c].step =>
    Remaining[call'[c].step] < Remaining[call[c].step]

LEMMA StepsForward ==
  ASSUME TypeOK, [Next]_vars
  PROVE  NoneGoesBack
<1> SUFFICES ASSUME NEW d \in Calls, call[d].step # "idle", call'[d].step # call[d].step
             PROVE  Remaining[call'[d].step] < Remaining[call[d].step]
  BY DEF NoneGoesBack
<1>1. call \in [Calls -> CallRecords]
  BY DEF TypeOK
<1>2. call[d].step \in {"waiting", "reread", "using", "refused"}
  BY <1>1 DEF CallRecords
<1>3. ASSUME NEW c \in Calls, NEW k \in Keys, GetOrLoad(c, k)
      PROVE  FALSE
  <2>1. call[c].step = "idle" /\ \E new : call' = [call EXCEPT ![c] = new]
    BY <1>3 DEF GetOrLoad, Read, TakeKey
  <2>2. call'[d] = call[d]
    BY <1>1, <2>1
  <2> QED
    BY <2>2
<1>4. ASSUME NEW c \in Calls, LoadEnds(c)
      PROVE  call[d].step = "waiting" /\ call'[d].step = "reread"
  <2>1. PICK keys : call' = Resume(Miss(call, keys), c)
    BY <1>4 DEF LoadEnds
  <2> DEFINE calls == Miss(call, keys)
  <2>2. calls \in [Calls -> CallRecords] /\ calls[d].step = call[d].step
    BY <1>1, MissKeeps
  <2> HIDE DEF calls
  <2>3. call'[d] = IF calls[d].step = "waiting" /\ calls[d].awaits = c
                   THEN [calls[d] EXCEPT !.step = "reread"] ELSE calls[d]
    BY <2>1 DEF Resume, calls
  <2>4. [calls[d] EXCEPT !.step = "reread"].step = "reread"
    BY <2>2 DEF CallRecords
  <2> QED
    BY <2>2, <2>3, <2>4
<1>5. ASSUME NEW c \in Calls, LoadFails(c)
      PROVE  call'[d].step = "idle"
  BY <1>5 DEF LoadFails, Idle, Record
<1>6. ASSUME NEW c \in Calls, Reread(c)
      PROVE  call[d].step = "reread" /\ call'[d].step \in {"using", "refused"}
  <2>1. \/ call' = [call EXCEPT ![c] = Record("using", call[c].key, None, Given(c, call[c].key))]
        \/ call' = [call EXCEPT ![c].step = "refused"]
    BY <1>6 DEF Reread, TakeKey
  <2>2. c = d /\ call[d].step = "reread"
    BY <1>1, <1>6, <2>1 DEF Reread
  <2>3. \/ call'[d] = Record("using", call[c].key, None, Given(c, call[c].key))
        \/ call'[d] = [call[d] EXCEPT !.step = "refused"]
    BY <1>1, <2>1, <2>2
  <2>4. call'[d].step \in {"using", "refused"}
    <3>1. CASE call'[d] = Record("using", call[c].key, None, Given(c, call[c].key))
      BY <3>1 DEF Record
    <3>2. CASE call'[d] = [call[d] EXCEPT !.step = "refused"]
      <4>1. PICK q \in CallRecords : q = call[d]
        BY <1>1
      <4>2. [q EXCEPT !.step = "refused"].step = "refused"
        BY DEF CallRecords
      <4> QED
        BY <3>2, <4>1, <4>2
    <3> QED
      BY <2>3, <3>1, <3>2
  <2> QED
    BY <2>2, <2>4
<1>7. ASSUME NEW c \in Calls, Finish(c) \/ Refuse(c)
      PROVE  call'[d].step = "idle"
  BY <1>1, <1>7 DEF Finish, Refuse, Idle, Record
<1>8. ASSUME NEW k \in Keys, Invalidate(k) \/ Expire(k)
      PROVE  FALSE
  BY <1>1, <1>8, MissKeeps DEF Invalidate, Expire
<1>9. CASE UNCHANGED vars
  BY <1>9 DEF vars
<1> QED
  BY <1>2, <1>3, <1>4, <1>5, <1>6, <1>7, <1>8, <1>9 DEF Next, Answer, Remaining

(* No call starts over, however small the cache and whatever drops its     *)
(* entry: getOrLoad reads again once, so that each call is at most three   *)
(* steps of its own or of its load from its end.                           *)
THEOREM NoCallStartsOver == Spec => [][NoneGoesBack]_vars
<1>1. TypeOK /\ [Next]_vars => NoneGoesBack
  BY StepsForward
<1> QED
  BY <1>1, TypeCorrect, PTL DEF Spec

=============================================================================

--------------------------- MODULE TenantKeyCache ---------------------------
(***************************************************************************)
(* The cache of unwrapped data keys in one process (TenantKeyCacheService, *)
(* TenantKeyService.getDek) and the calls that encrypt, decrypt or rewrap  *)
(* with a key from it.                                                     *)
(*                                                                         *)
(* A key is unwrapped by the KMS once for all calls that miss it at the    *)
(* same time; they await the shared load and then read the cache again.    *)
(* The cache keeps the keys in the order of their last use, drops the      *)
(* oldest beyond its limit, and overwrites with zeros what it drops; every *)
(* call overwrites the buffer it was given.  A step is what runs between   *)
(* two awaits.                                                             *)
(***************************************************************************)
EXTENDS Integers, SequencesExt

CONSTANTS
  Keys,        \* tenant and version of a data key; stands for its bytes
  Calls,
  MaxEntries,  \* PII_DEK_CACHE_MAX_ENTRIES
  Zero,        \* a buffer overwritten with zeros
  None         \* no load, no key

ASSUME ConstantsAssumption ==
  /\ MaxEntries \in Nat \ {0}
  /\ Zero \notin Keys /\ None \notin Keys \cup Calls
  /\ Keys \cap Calls = {}

VARIABLES
  order,     \* the keys of the cache, the least recently used first
  expired,   \* the keys whose entry has outlived its time
  bytes,     \* bytes[k]: the buffer of k's entry; bytes[c]: call c's copy
  inFlight,  \* inFlight[k]: the call whose load others may join, or None
  loading,   \* loading[c]: the key that the load call c began unwraps
  call       \* call[c]: its step, its key, the load it awaits, its buffer,
             \* and whether its entry was dropped again before it was read

vars == <<order, expired, bytes, inFlight, loading, call>>

Record(step, k, awaits, buffer) ==
  [step |-> step, key |-> k, awaits |-> awaits, buffer |-> buffer, dropped |-> FALSE]
Idle == Record("idle", None, None, None)
Cached(k) == k \in ToSet(order)

Init ==
  /\ order = <<>>
  /\ expired = {}
  /\ bytes = [b \in Keys \cup Calls |-> Zero]
  /\ inFlight = [k \in Keys |-> None]
  /\ loading = [c \in Calls |-> None]
  /\ call = [c \in Calls |-> Idle]

-----------------------------------------------------------------------------
(* Mutant: the entry is forgotten, its buffer left as it is.               *)
Wipe_Forget(content, keys) == content
(* What invalidate does to the buffers of the entries it removes.          *)
Wipe(content, keys) == [b \in DOMAIN content |-> IF b \in keys THEN Zero ELSE content[b]]

(* Calls whose entry is dropped before they could read it.                 *)
Miss(calls, keys) ==
  [c \in Calls |-> IF calls[c].step = "reread" /\ calls[c].key \in keys
                   THEN [calls[c] EXCEPT !.dropped = TRUE] ELSE calls[c]]

Hit(k) == Cached(k) /\ k \notin expired

(* Mutant: the call is given the buffer of the entry.                      *)
Given_Entry(c, k) == k
(* The buffer a call is given: a copy (Buffer.from).                       *)
Given(c, k) == c

(* get, for an entry in time: it is now the most recently used.            *)
TakeKey(c, k) ==
  /\ order' = Append(RemoveFirst(order, k), k)
  /\ bytes' = [bytes EXCEPT ![Given(c, k)] = bytes[k]]
  /\ call' = [call EXCEPT ![c] = Record("using", k, None, Given(c, k))]
  /\ UNCHANGED <<expired, inFlight, loading>>

(* get, for no entry or one that is out of time, which is dropped.         *)
DropExpired(k) ==
  /\ order' = RemoveFirst(order, k)
  /\ expired' = expired \ {k}
  /\ bytes' = Wipe(bytes, {k})

(* Mutant: loads are not shared.                                           *)
Join_Never(c, k) == c
(* The load a call awaits: one under way, or else its own.                 *)
Join(c, k) == IF inFlight[k] = None THEN c ELSE inFlight[k]

(* getOrLoad up to its await.                                              *)
Read(c, k) ==
  \/ /\ Hit(k)
     /\ TakeKey(c, k)
  \/ /\ ~Hit(k)
     /\ DropExpired(k)
     /\ inFlight' = [inFlight EXCEPT ![k] = Join(c, k)]
     /\ loading' = IF Join(c, k) = c THEN [loading EXCEPT ![c] = k] ELSE loading
     /\ call' = [call EXCEPT ![c] = Record("waiting", k, Join(c, k), None)]
GetOrLoad(c, k) == call[c].step = "idle" /\ Read(c, k)

Newest(keys, n) == IF Len(keys) > n THEN SubSeq(keys, Len(keys) - n + 1, Len(keys)) ELSE keys
(* Mutant: one entry more than the limit is kept.                          *)
Kept_Late(keys) == Newest(keys, MaxEntries + 1)
(* Mutant: the newest entries are dropped.                                 *)
Kept_Oldest(keys) == SubSeq(keys, 1, IF Len(keys) < MaxEntries THEN Len(keys) ELSE MaxEntries)
(* The entries set keeps: it drops the oldest ones beyond the limit.       *)
Kept(keys) == Newest(keys, MaxEntries)

(* Mutant: the entry is the buffer of the loader, wiped when load ends.    *)
Stored_Loaded(k) == Zero
(* What set stores: a copy of what the loader returned.                    *)
Stored(k) == k

(* Those that await the load of c go on, each in a step of its own.        *)
Resume(calls, c) ==
  [d \in Calls |-> IF calls[d].step = "waiting" /\ calls[d].awaits = c
                   THEN [calls[d] EXCEPT !.step = "reread"] ELSE calls[d]]

(* load and set, when the KMS has unwrapped the key.                       *)
LoadEnds(c) ==
  LET k == loading[c]
      keys == Append(RemoveFirst(order, k), k)
      gone == ToSet(keys) \ ToSet(Kept(keys))
  IN
  /\ k # None
  /\ order' = Kept(keys)
  /\ expired' = expired \ (gone \cup {k})
  /\ bytes' = Wipe([bytes EXCEPT ![k] = Stored(k)], gone)
  /\ inFlight' = [inFlight EXCEPT ![k] = None]
  /\ loading' = [loading EXCEPT ![c] = None]
  /\ call' = Resume(Miss(call, gone), c)

(* Mutant: only a load that succeeds is taken out of the map.              *)
AfterFailure_Kept(k) == inFlight
AfterFailure(k) == [inFlight EXCEPT ![k] = None]

(* The database, the KMS or its integrity check fails: all who await the   *)
(* load are told.                                                          *)
LoadFails(c) ==
  /\ loading[c] # None
  /\ inFlight' = AfterFailure(loading[c])
  /\ loading' = [loading EXCEPT ![c] = None]
  /\ call' = [d \in Calls |-> IF call[d].step = "waiting" /\ call[d].awaits = c
                              THEN Idle ELSE call[d]]
  /\ UNCHANGED <<order, expired, bytes>>

(* Mutant: a call that finds its key dropped again starts over.            *)
Reread_Again(c) == call[c].step = "reread" /\ Read(c, call[c].key)
(* The rest of getOrLoad, after its await.                                 *)
Reread(c) ==
  LET k == call[c].key IN
  /\ call[c].step = "reread"
  /\ \/ /\ Hit(k)
        /\ TakeKey(c, k)
     \/ /\ ~Hit(k)
        /\ DropExpired(k)
        /\ call' = [call EXCEPT ![c].step = "refused"]
        /\ UNCHANGED <<inFlight, loading>>

(* The call encrypts, decrypts or, over another call of the KMS, rewraps;  *)
(* then it wipes its buffer.                                               *)
Finish(c) ==
  /\ call[c].step = "using"
  /\ bytes' = Wipe(bytes, {call[c].buffer})
  /\ call' = [call EXCEPT ![c] = Idle]
  /\ UNCHANGED <<order, expired, inFlight, loading>>

(* "Tenant key was not loaded into the cache."                             *)
Refuse(c) ==
  /\ call[c].step = "refused"
  /\ call' = [call EXCEPT ![c] = Idle]
  /\ UNCHANGED <<order, expired, bytes, inFlight, loading>>

-----------------------------------------------------------------------------
(* invalidate, when a rotation has retired the key.                        *)
Invalidate(k) ==
  /\ Cached(k)
  /\ order' = RemoveFirst(order, k)
  /\ expired' = expired \ {k}
  /\ bytes' = Wipe(bytes, {k})
  /\ call' = Miss(call, {k})
  /\ UNCHANGED <<inFlight, loading>>

(* PII_DEK_CACHE_TTL_SECONDS have passed since the key was stored.         *)
Expire(k) ==
  /\ Hit(k)
  /\ expired' = expired \cup {k}
  /\ call' = Miss(call, {k})
  /\ UNCHANGED <<order, bytes, inFlight, loading>>

Answer(c) == LoadFails(c) \/ LoadEnds(c)

Next ==
  \/ \E c \in Calls : \/ \E k \in Keys : GetOrLoad(c, k)
                     \/ Answer(c) \/ Reread(c) \/ Finish(c) \/ Refuse(c)
  \/ \E k \in Keys : Invalidate(k) \/ Expire(k)

(* The event loop runs every continuation, and the KMS client answers or   *)
(* gives up.  Nobody is obliged to call.                                   *)
Fairness ==
  \A c \in Calls : /\ WF_vars(Answer(c))
                  /\ WF_vars(Reread(c))
                  /\ WF_vars(Finish(c))
                  /\ WF_vars(Refuse(c))

Spec == Init /\ [][Next]_vars /\ Fairness

-----------------------------------------------------------------------------
CallRecords ==
  [step : {"idle", "waiting", "reread", "using", "refused"}, key : Keys \cup {None},
   awaits : Calls \cup {None}, buffer : Keys \cup Calls \cup {None}, dropped : BOOLEAN]

(* Every variable has its type; the cache keeps its limit.                 *)
TypeOK ==
  /\ order \in Seq(Keys)
  /\ IsInjective(order) /\ Len(order) <= MaxEntries
  /\ expired \subseteq ToSet(order)
  /\ bytes \in [Keys \cup Calls -> Keys \cup {Zero}]
  /\ inFlight \in [Keys -> Calls \cup {None}]
  /\ loading \in [Calls -> Keys \cup {None}]
  /\ call \in [Calls -> CallRecords]

(* A buffer holds its key exactly while the key is in use.  Nobody is      *)
(* given a key that somebody else wiped meanwhile, or data would be        *)
(* encrypted with zeros; and no plaintext key stays behind in the buffer   *)
(* of an entry that was evicted, expired, replaced or invalidated, or of a *)
(* call that has ended (the copies made by get and set; fill(0) in the     *)
(* cipher service, the loader, the eviction and invalidate).               *)
BuffersFollowUse ==
  /\ \A k \in Keys : bytes[k] = IF Cached(k) THEN k ELSE Zero
  /\ \A c \in Calls : IF call[c].step = "using" THEN bytes[call[c].buffer] = call[c].key
                                             ELSE bytes[c] = Zero

(* A key is never unwrapped twice at the same time, and a call awaits only *)
(* a load of its own key that is really under way: no failure of an        *)
(* earlier load reaches it (inFlight, its removal in load's finally).      *)
SharedLoad ==
  /\ \A c, d \in Calls : loading[c] = loading[d] /\ c # d => loading[c] = None
  /\ \A c \in Calls : call[c].step = "waiting" => loading[call[c].awaits] = call[c].key

(* A call whose load succeeded is refused only if its key was evicted by   *)
(* other loads, invalidated or expired before it could read it; never by   *)
(* its own load, however small the cache is (getOrLoad after the await).   *)
RefusedOnlyIfDropped == \A c \in Calls : call[c].step = "refused" => call[c].dropped

(* Every call ends, with its key, the failure of its load or a refusal: a  *)
(* cache smaller than the number of keys in use does not keep it going     *)
(* round (getOrLoad reads again once).                                     *)
CallsEnd == \A c \in Calls : call[c].step = "waiting" ~> call[c].step = "idle"

=============================================================================

----------------------- MODULE AccountSecurityProofs -----------------------
(***************************************************************************)
(* Safety of AccountSecurity for every number of requests and mail jobs,   *)
(* every limit, every kind of request, whatever expires and whatever       *)
(* statement fails: the type invariant; the reachability of a stored       *)
(* unlock code; that a block stands until the mailed code is presented, a  *)
(* closed session stays closed until the password is, and the PIN limit    *)
(* holds until a refresh or a failure undoes it.  The lockout and the      *)
(* bound on guesses need one hypothesis more: the statement that blocks    *)
(* the account is the only one that does not fail.                         *)
(***************************************************************************)
EXTENDS AccountSecurity, FiniteSetTheorems, TLAPS

(* The mails a job can be busy with are told apart from no mail.           *)
LEMMA NoneIsNoMail == None \notin Mails /\ None \notin Jobs
BY ConstantsAssumption DEF None, Mails

-----------------------------------------------------------------------------
(* The type invariant.                                                     *)

(* A request that arrives changes its own step only, or logs out.          *)
LEMMA ArriveTyped ==
  ASSUME TypeOK, NEW q \in Requests, Arrive(q)
  PROVE  TypeOK'
<1> USE DEF TypeOK, Steps, Goto
<1>1. CASE Logout(q)
  BY <1>1 DEF Logout, UserRow
<1>2. CASE ThrowIfBlocked(q)
  BY <1>2 DEF ThrowIfBlocked
<1>3. ASSUME NEW right \in BOOLEAN, LoginRead(q, right)
      PROVE  TypeOK'
  BY <1>3 DEF LoginRead, Accept
<1>4. ASSUME NEW right \in BOOLEAN, PinRead(q, right)
      PROVE  TypeOK'
  BY <1>4 DEF PinRead, Accept
<1>5. ASSUME NEW right \in BOOLEAN, ResetRead(q, right)
      PROVE  TypeOK'
  BY <1>5 DEF ResetRead, Accept
<1>6. ASSUME NEW right \in BOOLEAN, UnlockRead(q, right)
      PROVE  TypeOK'
  BY <1>6 DEF UnlockRead
<1>7. CASE RefreshRead(q) \/ RequestResetRead(q) \/ SetupRead(q)
  BY <1>7 DEF RefreshRead, RequestResetRead, SetupRead, Accept
<1>8. CASE ChangePasswordRead(q) \/ ChangePinRead(q)
  BY <1>8 DEF ChangePasswordRead, ChangePinRead, Accept
<1> QED
  BY <1>1, <1>2, <1>3, <1>4, <1>5, <1>6, <1>7, <1>8 DEF Arrive

(* Each later statement writes values of the column's type.                *)
LEMMA ContinueTyped ==
  ASSUME TypeOK, NEW q \in Requests, Continue(q)
  PROVE  TypeOK'
<1> USE ConstantsAssumption
<1> USE DEF TypeOK, UserRow, Steps, Goto, RowOnly
<1>1. CASE QueueUnlock(q) \/ QueueReset(q)
  BY <1>1 DEF QueueUnlock, QueueReset, Enqueue, Mails
<1>2. CASE LoginCount(q)
  BY <1>2 DEF LoginCount
<1>3. CASE LoginBlock(q)
  BY <1>3 DEF LoginBlock
<1>4. CASE LoginStore(q)
  BY <1>4 DEF LoginStore
<1>5. CASE PinCount(q)
  BY <1>5 DEF PinCount
<1>6. CASE PinRevoke(q)
  BY <1>6 DEF PinRevoke
<1>7. CASE PinStore(q)
  BY <1>7 DEF PinStore
<1>8. CASE RefreshStore(q)
  BY <1>8 DEF RefreshStore
<1>9. CASE ResetClaim(q)
  BY <1>9 DEF ResetClaim
<1>10. CASE ResetCount(q)
  BY <1>10 DEF ResetCount
<1>11. CASE ResetBlock(q)
  BY <1>11 DEF ResetBlock, Mails
<1>12. CASE ResetStore(q)
  BY <1>12 DEF ResetStore, Mails
<1>13. CASE UnlockCount(q)
  BY <1>13 DEF UnlockCount, Mails
<1>14. CASE UnlockClear(q)
  BY <1>14 DEF UnlockClear, Mails
<1>15. CASE UnlockStore(q)
  BY <1>15 DEF UnlockStore, Mails
<1>16. CASE SetupStore(q)
  BY <1>16 DEF SetupStore
<1>17. CASE ChangePasswordStore(q)
  BY <1>17 DEF ChangePasswordStore
<1>18. CASE ChangePinStore(q)
  BY <1>18 DEF ChangePinStore
<1> QED
  BY <1>1, <1>2, <1>3, <1>4, <1>5, <1>6, <1>7, <1>8, <1>9,
     <1>10, <1>11, <1>12, <1>13, <1>14, <1>15, <1>16, <1>17, <1>18
     DEF Continue

(* A mail job stores its own name as the code.                             *)
LEMMA DeliverTyped ==
  ASSUME TypeOK, NEW k \in Jobs, Deliver(k)
  PROVE  TypeOK'
<1> USE ConstantsAssumption, NoneIsNoMail
<1> USE DEF TypeOK
<1>1. ASSUME NEW t \in Mails, StoreCode(k, t)
      PROVE  TypeOK'
  <2>1. user' \in UserRow
    BY <1>1 DEF StoreCode, UserRow
  <2> QED
    BY <1>1, <2>1 DEF StoreCode
<1>2. ASSUME NEW again \in BOOLEAN, Send(k, again)
      PROVE  TypeOK'
  <2>1. job[k] \in Mails /\ job' \in [Jobs -> Mails \cup {None}]
    BY <1>2 DEF Send
  <2>2. mailed' \in [Mails -> BOOLEAN]
    BY <1>2, <2>1 DEF Send
  <2>3. queue' \in [Mails -> 0..MaxQueued]
    BY <1>2, <2>1 DEF Send
  <2> QED
    BY <1>2, <2>1, <2>2, <2>3 DEF Send
<1>3. CASE SendFails(k)
  <2>1. job[k] \in Mails
    BY <1>3 DEF SendFails
  <2> QED
    BY <1>3, <2>1 DEF SendFails
<1> QED
  BY <1>1, <1>2, <1>3 DEF Deliver

LEMMA TypeInductive ==
  ASSUME TypeOK, [Next]_vars
  PROVE  TypeOK'
<1>1. ASSUME NEW q \in Requests, RequestFails(q)
      PROVE  TypeOK'
  BY <1>1 DEF RequestFails, TypeOK, Steps
<1>2. CASE Expire
  <2>1. /\ user' \in UserRow
        /\ UNCHANGED <<mailed, at, hadCode, queue, job>>
    <3>1. CASE \E t \in Mails : ExpireCode(t)
      BY <3>1 DEF ExpireCode, TypeOK, UserRow
    <3>2. CASE ExpireSession \/ ExpireRefreshToken
      BY <3>2 DEF ExpireSession, ExpireRefreshToken, TypeOK, UserRow
    <3>3. CASE CooldownEnds
      BY <3>3 DEF CooldownEnds, TypeOK, UserRow
    <3> QED
      BY <1>2, <3>1, <3>2, <3>3 DEF Expire
  <2> QED
    BY <2>1 DEF TypeOK
<1>3. CASE UNCHANGED vars
  BY <1>3 DEF vars, TypeOK
<1> QED
  BY <1>1, <1>2, <1>3, ArriveTyped, ContinueTyped, DeliverTyped DEF Next

LEMMA InitTyped == Init => TypeOK
BY ConstantsAssumption DEF Init, TypeOK, UserRow, Steps, None, Mails

(* Every variable keeps to its range: every column of the row, the step of *)
(* every request and the queue, for any number of requests and jobs.       *)
THEOREM TypeCorrect == Spec => []TypeOK
BY InitTyped, TypeInductive, PTL DEF Spec

-----------------------------------------------------------------------------
(* The lockout.                                                            *)

(* A request on its way to block the account stays there while others run. *)
LEMMA StillBlocking ==
  ASSUME TypeOK, NEW q \in Requests, NEW here, NEW there, Goto(q, here, there),
         here # "login_block", AtStep("login_block") # {}
  PROVE  AtStep("login_block")' # {}
<1>1. PICK o \in Requests : at[o] = "login_block"
  BY DEF AtStep
<1>2. at'[o] = "login_block"
  BY <1>1 DEF Goto, TypeOK
<1> QED
  BY <1>2 DEF AtStep

(* A statement that neither counts a wrong login, nor opens the account    *)
(* with the counter as it is, keeps the lockout.                           *)
LEMMA LockoutKept ==
  ASSUME TypeOK, LockoutEnforced,
         NEW q \in Requests, NEW here, NEW there, Goto(q, here, there),
         here # "login_block",
         \/ user'.incorrectLoginCounter = 0
         \/ /\ user'.incorrectLoginCounter = user.incorrectLoginCounter
            /\ Blocked => Blocked'
  PROVE  LockoutEnforced'
<1>1. CASE user'.incorrectLoginCounter = 0
  BY <1>1, ConstantsAssumption DEF LockoutEnforced
<1>2. CASE /\ user'.incorrectLoginCounter = user.incorrectLoginCounter
           /\ Blocked => Blocked'
  BY <1>2, StillBlocking DEF LockoutEnforced
<1> QED
  BY <1>1, <1>2

(* An arriving request keeps the lockout: it writes nothing, or logs out.  *)
LEMMA LockoutArrive ==
  ASSUME TypeOK, LockoutEnforced, NEW q \in Requests, Arrive(q)
  PROVE  LockoutEnforced'
<1>1. CASE Logout(q)
  BY <1>1 DEF Logout, LockoutEnforced, AtStep, Blocked, TypeOK, UserRow
<1>2. ASSUME UNCHANGED user, NEW there, Goto(q, "idle", there)
      PROVE  LockoutEnforced'
  BY <1>2, LockoutKept DEF Blocked
<1> QED
  BY <1>1, <1>2 DEF Arrive, ThrowIfBlocked, LoginRead, PinRead, ResetRead, UnlockRead,
     RefreshRead, RequestResetRead, SetupRead, ChangePasswordRead, ChangePinRead, Accept

(* A later statement keeps it.  The count that reaches the limit leads to  *)
(* login_block, and login_block is only left with the account blocked.     *)
LEMMA LockoutContinue ==
  ASSUME TypeOK, LockoutEnforced, NEW q \in Requests, Continue(q)
  PROVE  LockoutEnforced'
<1> USE DEF TypeOK, UserRow
<1>1. CASE LoginCount(q)
  <2>1. CASE user.incorrectLoginCounter + 1 >= LoginRetries
    <3>1. q \in AtStep("login_block")'
      BY <1>1, <2>1 DEF LoginCount, Goto, AtStep
    <3> QED
      BY <3>1 DEF LockoutEnforced
  <2>2. CASE ~(user.incorrectLoginCounter + 1 >= LoginRetries)
    BY <1>1, <2>2 DEF LoginCount, LockoutEnforced
  <2> QED
    BY <2>1, <2>2
<1>2. CASE LoginBlock(q)
  <2>1. Blocked'
    BY <1>2 DEF LoginBlock, Blocked
  <2> QED
    BY <2>1 DEF LockoutEnforced
<1>3. ASSUME NEW here \in Steps, NEW there, Goto(q, here, there), here # "login_block",
             UNCHANGED user
      PROVE  LockoutEnforced'
  BY <1>3, LockoutKept DEF Blocked
<1>4. CASE QueueUnlock(q) \/ QueueReset(q)
  BY <1>3, <1>4 DEF QueueUnlock, QueueReset, Enqueue, Steps
<1>5. CASE LoginStore(q) \/ ResetStore(q) \/ UnlockStore(q) \/ SetupStore(q)
           \/ ChangePasswordStore(q)
  BY <1>5, LockoutKept DEF LoginStore, ResetStore, UnlockStore, SetupStore,
     ChangePasswordStore
<1>6. CASE PinCount(q) \/ PinRevoke(q) \/ PinStore(q) \/ RefreshStore(q)
  BY <1>6, LockoutKept DEF PinCount, PinRevoke, PinStore, RefreshStore, Blocked
<1>7. CASE ResetClaim(q) \/ ResetCount(q) \/ ResetBlock(q)
  BY <1>7, LockoutKept DEF ResetClaim, ResetCount, ResetBlock, Blocked
<1>8. CASE UnlockCount(q) \/ UnlockClear(q) \/ ChangePinStore(q)
  BY <1>8, LockoutKept DEF UnlockCount, UnlockClear, ChangePinStore, Blocked
<1> QED
  BY <1>1, <1>2, <1>4, <1>5, <1>6, <1>7, <1>8 DEF Continue

LEMMA LockoutInductive ==
  ASSUME "login_block" \notin MayFail, TypeOK, LockoutEnforced, [Next]_vars
  PROVE  LockoutEnforced'
<1>1. ASSUME UNCHANGED at,
             user'.incorrectLoginCounter = user.incorrectLoginCounter,
             user'.status = user.status
      PROVE  LockoutEnforced'
  BY <1>1 DEF LockoutEnforced, AtStep, Blocked
<1>2. ASSUME NEW k \in Jobs, Deliver(k)
      PROVE  LockoutEnforced'
  <2>1. ASSUME NEW t \in Mails, StoreCode(k, t)
        PROVE  LockoutEnforced'
    BY <1>1, <2>1 DEF StoreCode, TypeOK, UserRow
  <2> QED
    BY <1>1, <1>2, <2>1 DEF Deliver, Send, SendFails
<1>3. CASE Expire
  BY <1>1, <1>3 DEF Expire, ExpireCode, ExpireSession,
     ExpireRefreshToken, CooldownEnds, TypeOK, UserRow
<1>4. CASE UNCHANGED vars
  BY <1>1, <1>4 DEF vars
<1>5. ASSUME NEW q \in Requests, RequestFails(q)
      PROVE  LockoutEnforced'
  <2>1. Goto(q, at[q], "idle") /\ at[q] # "login_block" /\ UNCHANGED user
    BY <1>5 DEF RequestFails, Goto
  <2> QED
    BY <2>1, LockoutKept DEF Blocked
<1> QED
  BY <1>2, <1>3, <1>4, <1>5, LockoutArrive, LockoutContinue DEF Next

(* Concurrent logins, resets, setups and unlocks never leave the account   *)
(* open with its wrong logins at the limit, whatever other statement       *)
(* fails, unless a request dies between counting and blocking.             *)
THEOREM LockoutHolds ==
  ASSUME "login_block" \notin MayFail
  PROVE  Spec => []LockoutEnforced
<1>1. Init => TypeOK /\ LockoutEnforced
  <2>1. LoginRetries \in Nat \ {0}
    BY ConstantsAssumption
  <2>2. Init => user.incorrectLoginCounter = 0
    BY DEF Init
  <2> QED
    BY <2>1, <2>2, InitTyped DEF LockoutEnforced
<1>2. TypeOK /\ LockoutEnforced /\ [Next]_vars => (TypeOK /\ LockoutEnforced)'
  BY TypeInductive, LockoutInductive
<1> QED
  BY <1>1, <1>2, PTL DEF Spec

-----------------------------------------------------------------------------
(* The way out of a blocked account.                                       *)

(* Only unlock_store and setup_store end a block.                          *)
LEMMA EndsBlock ==
  ASSUME TypeOK, [Next]_vars, Blocked, ~Blocked'
  PROVE  \E q \in Requests : UnlockStore(q) \/ SetupStore(q)
<1> USE DEF Blocked, TypeOK, UserRow
<1>1. ASSUME NEW q \in Requests, Arrive(q)
      PROVE  FALSE
  BY <1>1 DEF Arrive, ThrowIfBlocked, LoginRead, PinRead, ResetRead, UnlockRead, Logout,
     RefreshRead, RequestResetRead, SetupRead, ChangePasswordRead, ChangePinRead, Accept
<1>2. ASSUME NEW q \in Requests, Continue(q), ~UnlockStore(q), ~SetupStore(q)
      PROVE  FALSE
  <2>1. CASE QueueUnlock(q) \/ QueueReset(q) \/ LoginCount(q) \/ LoginBlock(q) \/ LoginStore(q)
    BY <2>1 DEF QueueUnlock, QueueReset, Enqueue, LoginCount, LoginBlock, LoginStore
  <2>2. CASE PinCount(q) \/ PinRevoke(q) \/ PinStore(q) \/ RefreshStore(q)
    BY <2>2 DEF PinCount, PinRevoke, PinStore, RefreshStore
  <2>3. CASE ResetClaim(q) \/ ResetCount(q) \/ ResetBlock(q) \/ ResetStore(q)
    BY <2>3 DEF ResetClaim, ResetCount, ResetBlock, ResetStore
  <2>4. CASE UnlockCount(q) \/ UnlockClear(q) \/ ChangePasswordStore(q) \/ ChangePinStore(q)
    BY <2>4 DEF UnlockCount, UnlockClear, ChangePasswordStore, ChangePinStore
  <2> QED
    BY <1>2, <2>1, <2>2, <2>3, <2>4 DEF Continue
<1>3. ASSUME NEW k \in Jobs, Deliver(k)
      PROVE  FALSE
  <2>1. ASSUME NEW t \in Mails, StoreCode(k, t)
        PROVE  FALSE
    BY <2>1 DEF StoreCode
  <2> QED
    BY <1>3, <2>1 DEF Deliver, Send, SendFails
<1>4. ASSUME Expire
      PROVE  FALSE
  BY <1>4 DEF Expire, ExpireCode, ExpireSession,
     ExpireRefreshToken, CooldownEnds
<1> QED
  BY <1>1, <1>2, <1>3, <1>4 DEF Next, vars, RequestFails

(* While none is under way, the next one must be read first.               *)
LEMMA EntersUnlock ==
  ASSUME TypeOK, [Next]_vars, BlockStands, \A q \in Requests : ~UnlockRead(q, TRUE)
  PROVE  AtStep("unlock_store")' \cup AtStep("setup_store")' = {}
<1> USE DEF AtStep, TypeOK, BlockStands
<1>1. ASSUME NEW q \in Requests, Arrive(q)
      PROVE  AtStep("unlock_store")' \cup AtStep("setup_store")' = {}
  BY <1>1 DEF Arrive, ThrowIfBlocked, LoginRead, PinRead, ResetRead, UnlockRead, Logout,
     RefreshRead, RequestResetRead, SetupRead, ChangePasswordRead, ChangePinRead, Accept, Goto
<1>2. ASSUME NEW q \in Requests, Continue(q)
      PROVE  AtStep("unlock_store")' \cup AtStep("setup_store")' = {}
  BY <1>2 DEF Continue, QueueUnlock, QueueReset, Enqueue, LoginCount, LoginBlock,
     LoginStore, PinCount, PinRevoke, PinStore, RefreshStore, ResetClaim, ResetCount,
     ResetBlock, ResetStore, UnlockCount, UnlockClear, UnlockStore, SetupStore,
     ChangePasswordStore, ChangePinStore, Goto
<1> QED
  BY <1>1, <1>2 DEF Next, Deliver, StoreCode, Send, SendFails, Expire, ExpireCode,
     ExpireSession, ExpireRefreshToken, CooldownEnds, RequestFails, vars

(* No login, reset, PIN login, refresh, logout or change of credentials,   *)
(* in flight or new, opens a blocked account: once the unlocks and setups  *)
(* under way are over, it is blocked until the mailed code is presented.   *)
THEOREM BlockStandsUntilCode == Spec => BlockedStaysBlocked
<1>1. TypeOK /\ [Next]_vars =>
        [BlockStands => BlockStands' \/ \E q \in Requests : UnlockRead(q, TRUE)]_vars
  <2> SUFFICES ASSUME TypeOK, [Next]_vars, BlockStands,
                      \A q \in Requests : ~UnlockRead(q, TRUE)
               PROVE  BlockStands'
    OBVIOUS
  <2>1. AtStep("unlock_store")' \cup AtStep("setup_store")' = {}
    BY EntersUnlock
  <2>2. Blocked'
    BY EndsBlock DEF BlockStands, AtStep, UnlockStore, SetupStore, Goto
  <2> QED
    BY <2>1, <2>2 DEF BlockStands
<1> QED
  BY <1>1, TypeCorrect, PTL DEF Spec, BlockedStaysBlocked

-----------------------------------------------------------------------------
(* The stored unlock code.                                                 *)

(* A code that is stored and not mailed is in the hands of the job that    *)
(* drew it, or a task that will draw another one is waiting.               *)
CodeOnItsWay ==
  user.accountUnlockCode # None /\ ~mailed["unlock"] =>
    job[user.accountUnlockCode] = "unlock" \/ queue["unlock"] > 0

LEMMA CodeInductive ==
  ASSUME TypeOK, CodeOnItsWay, [Next]_vars
  PROVE  CodeOnItsWay'
<1> USE DEF TypeOK, CodeOnItsWay
<1> USE NoneIsNoMail
<1>a. /\ queue["unlock"] \in 0..MaxQueued
      /\ user.accountUnlockCode \in Jobs \cup {None}
  BY DEF Mails, UserRow
<1>1. ASSUME user'.accountUnlockCode = None \/
               /\ user'.accountUnlockCode = user.accountUnlockCode
               /\ mailed'["unlock"] = mailed["unlock"],
             queue' = queue \/ queue'["unlock"] > 0,
             UNCHANGED job
      PROVE  CodeOnItsWay'
  BY <1>a, <1>1
<1>2. ASSUME NEW q \in Requests, Arrive(q)
      PROVE  CodeOnItsWay'
  BY <1>1, <1>2 DEF Arrive, ThrowIfBlocked, LoginRead, PinRead, ResetRead, UnlockRead, Logout,
     RefreshRead, RequestResetRead, SetupRead, ChangePasswordRead, ChangePinRead, Accept, UserRow
<1>3. ASSUME NEW q \in Requests, Continue(q)
      PROVE  CodeOnItsWay'
  <2> USE DEF UserRow, Mails, RowOnly
  <2>1. CASE QueueUnlock(q) \/ QueueReset(q)
    BY <1>a, <2>1, <1>1 DEF QueueUnlock, QueueReset, Enqueue
  <2>2. CASE LoginCount(q) \/ LoginBlock(q) \/ LoginStore(q)
    BY <1>1, <2>2 DEF LoginCount, LoginBlock, LoginStore
  <2>3. CASE PinCount(q) \/ PinRevoke(q) \/ PinStore(q) \/ RefreshStore(q)
    BY <1>1, <2>3 DEF PinCount, PinRevoke, PinStore, RefreshStore
  <2>4. CASE ResetClaim(q) \/ ResetCount(q)
    BY <1>1, <2>4 DEF ResetClaim, ResetCount
  <2>5. CASE ResetBlock(q) \/ ResetStore(q)
    BY <1>1, <2>5 DEF ResetBlock, ResetStore
  <2>6. CASE UnlockCount(q) \/ UnlockClear(q) \/ UnlockStore(q)
    BY <1>1, <2>6 DEF UnlockCount, UnlockClear, UnlockStore
  <2>7. CASE SetupStore(q) \/ ChangePasswordStore(q) \/ ChangePinStore(q)
    BY <1>1, <2>7 DEF SetupStore, ChangePasswordStore, ChangePinStore
  <2> QED
    BY <1>3, <2>1, <2>2, <2>3, <2>4, <2>5, <2>6, <2>7 DEF Continue
<1>4. ASSUME NEW k \in Jobs, NEW t \in Mails, StoreCode(k, t)
      PROVE  CodeOnItsWay'
  <2>1. job'[k] = t
    BY <1>4 DEF StoreCode
  <2>2. CASE t = "unlock"
    <3>1. user'.accountUnlockCode = k
      BY <1>4, <2>2 DEF StoreCode, UserRow
    <3> QED
      BY <2>1, <2>2, <3>1
  <2>3. CASE t # "unlock"
    <3>1. /\ user'.accountUnlockCode = user.accountUnlockCode
          /\ mailed'["unlock"] = mailed["unlock"]
          /\ queue'["unlock"] = queue["unlock"]
      BY <1>4, <2>3 DEF StoreCode, UserRow, Mails
    <3>2. job[user.accountUnlockCode] = "unlock" => user.accountUnlockCode # k
      BY <1>4 DEF StoreCode, Mails
    <3>3. job[user.accountUnlockCode] = "unlock" => job'[user.accountUnlockCode] = "unlock"
      BY <1>4, <3>2 DEF StoreCode
    <3> QED
      BY <3>1, <3>3
  <2> QED
    BY <2>2, <2>3
<1>5. ASSUME NEW k \in Jobs, NEW again \in BOOLEAN, Send(k, again)
      PROVE  CodeOnItsWay'
  <2>1. UNCHANGED user /\ (queue["unlock"] > 0 => queue'["unlock"] > 0)
    BY <1>5, <1>a DEF Send, Mails
  <2>2. mailed["unlock"] => mailed'["unlock"]
    BY <1>5 DEF Send, Mails
  <2>3. CASE user.accountUnlockCode = k /\ job[k] = "unlock"
    <3>1. mailed'["unlock"]
      BY <1>5, <2>3 DEF Send, StoredCode, Mails
    <3> QED
      BY <3>1, <2>1
  <2>4. CASE user.accountUnlockCode # k \/ job[k] # "unlock"
    <3>1. job[user.accountUnlockCode] = "unlock" /\ user.accountUnlockCode # None
            => job'[user.accountUnlockCode] = "unlock"
      BY <1>5, <1>a, <2>4 DEF Send
    <3> QED
      BY <2>1, <2>2, <3>1
  <2> QED
    BY <2>3, <2>4
<1>6. ASSUME NEW k \in Jobs, SendFails(k)
      PROVE  CodeOnItsWay'
  <2>1. UNCHANGED <<user, mailed>>
    BY <1>6 DEF SendFails
  <2>2. queue["unlock"] > 0 \/ job[k] = "unlock" => queue'["unlock"] > 0
    BY <1>6, <1>a DEF SendFails, Mails
  <2>3. job[user.accountUnlockCode] = "unlock" /\ user.accountUnlockCode # k
          => job'[user.accountUnlockCode] = job[user.accountUnlockCode]
    BY <1>6, <1>a DEF SendFails
  <2> QED
    BY <2>1, <2>2, <2>3
<1>7. CASE Expire
  BY <1>1, <1>7 DEF Expire, ExpireCode, ExpireSession,
     ExpireRefreshToken, CooldownEnds, UserRow
<1>8. CASE UNCHANGED vars \/ \E q \in Requests : RequestFails(q)
  BY <1>1, <1>8 DEF vars, RequestFails
<1> QED
  BY <1>2, <1>3, <1>4, <1>5, <1>6, <1>7, <1>8 DEF Next, Deliver

(* A stored unlock code keeps further codes from being mailed, and is      *)
(* always in the mailbox or on its way to it, whatever requests fail and   *)
(* however often the queue repeats or reorders its tasks.                  *)
THEOREM UnlockCodeReachable == Spec => []CodeReachable
<1>1. Init => TypeOK /\ CodeOnItsWay
  <2>1. Init => CodeOnItsWay
    BY DEF Init, CodeOnItsWay
  <2> QED
    BY <2>1, InitTyped
<1>2. TypeOK /\ CodeOnItsWay /\ [Next]_vars => (TypeOK /\ CodeOnItsWay)'
  BY TypeInductive, CodeInductive
<1>3. TypeOK /\ CodeOnItsWay => CodeReachable
  BY DEF TypeOK, UserRow, CodeOnItsWay, CodeReachable
<1> QED
  BY <1>1, <1>2, <1>3, PTL DEF Spec

-----------------------------------------------------------------------------
(* The number of guesses.                                                  *)

(* While the account is open, each wrong login from the limit on has put a *)
(* request on its way to block it.                                         *)
LoginsAccounted ==
  ~Blocked => user.incorrectLoginCounter < LoginRetries + Cardinality(AtStep("login_block"))

LEMMA RequestsCounted ==
  ASSUME NEW step
  PROVE  /\ AtStep(step) \subseteq Requests /\ IsFiniteSet(AtStep(step))
         /\ Cardinality(AtStep(step)) \in Nat /\ Cardinality(Requests) \in Nat
         /\ Cardinality(AtStep(step)) <= Cardinality(Requests)
<1>1. AtStep(step) \subseteq Requests /\ IsFiniteSet(Requests)
  BY ConstantsAssumption DEF AtStep
<1>2. IsFiniteSet(AtStep(step)) /\ Cardinality(AtStep(step)) <= Cardinality(Requests)
  BY <1>1, FS_Subset
<1> QED
  BY <1>1, <1>2, FS_CardinalityType

(* One request moves at a time.                                            *)
LEMMA MoveCounted ==
  ASSUME TypeOK, NEW q \in Requests, NEW here, NEW there, Goto(q, here, there), NEW step
  PROVE  /\ IsFiniteSet(AtStep(step)') /\ AtStep(step)' \subseteq Requests
         /\ Cardinality(AtStep(step)') =
              IF here = step /\ there # step THEN Cardinality(AtStep(step)) - 1
              ELSE IF here # step /\ there = step THEN Cardinality(AtStep(step)) + 1
              ELSE Cardinality(AtStep(step))
<1>1. q \in AtStep(step) <=> here = step
  BY DEF Goto, AtStep
<1>2. AtStep(step)' = IF there = step THEN AtStep(step) \cup {q} ELSE AtStep(step) \ {q}
  BY DEF Goto, AtStep, TypeOK
<1>3. IsFiniteSet(AtStep(step)) /\ Cardinality(AtStep(step)) \in Nat
  BY RequestsCounted
<1>4. AtStep(step)' \subseteq Requests
  BY DEF AtStep
<1> DEFINE S == AtStep(step)
<1> HIDE DEF S
<1>5. /\ IsFiniteSet(S \cup {q}) /\ IsFiniteSet(S \ {q})
      /\ Cardinality(S \cup {q}) = IF q \in S THEN Cardinality(S) ELSE Cardinality(S) + 1
      /\ Cardinality(S \ {q}) = IF q \in S THEN Cardinality(S) - 1 ELSE Cardinality(S)
  BY <1>3, FS_AddElement, FS_RemoveElement DEF S
<1> QED
  BY <1>1, <1>2, <1>4, <1>5 DEF S

(* Requests on their way to different steps are different requests.        *)
LEMMA DisjointCounted ==
  ASSUME NEW S \in SUBSET Requests, NEW T \in SUBSET Requests, S \cap T = {}
  PROVE  Cardinality(S) + Cardinality(T) <= Cardinality(Requests)
<1>1. IsFiniteSet(S) /\ IsFiniteSet(T) /\ IsFiniteSet(Requests)
  BY FS_Subset, ConstantsAssumption
<1>2. Cardinality(S \cup T) = Cardinality(S) + Cardinality(T) - Cardinality(S \cap T)
  BY <1>1, FS_Union
<1>3. Cardinality(S \cap T) = 0
  BY FS_EmptySet
<1>4. Cardinality(S) \in Nat /\ Cardinality(T) \in Nat
  BY <1>1, FS_CardinalityType
<1>5. Cardinality(S \cup T) <= Cardinality(Requests)
  BY <1>1, FS_Subset
<1> QED
  BY <1>2, <1>3, <1>4, <1>5

LEMMA CountersTyped ==
  ASSUME TypeOK
  PROVE  /\ user.incorrectLoginCounter \in Nat /\ user.incorrectPINCounter \in Nat
         /\ user.accountUnlockIncorrectCounter \in Nat
         /\ LoginRetries \in Nat \ {0} /\ PinRetries \in Nat \ {0} /\ UnlockRetries \in Nat \ {0}
BY ConstantsAssumption DEF TypeOK, UserRow

(* A count moves a guess from the requests to the counter, and a reset     *)
(* takes the counter back: neither takes the sum to the bound.             *)
LEMMA BoundKept ==
  ASSUME TypeOK, NEW q \in Requests, NEW here, NEW there, Goto(q, here, there),
         NEW step, NEW retries \in Nat \ {0}, NEW old \in Nat, NEW new \in Nat,
         old + Cardinality(AtStep(step)) < retries + Cardinality(Requests),
         \/ new = 0
         \/ new = old /\ there # step
         \/ new = old + 1 /\ here = step /\ there # step
         \/ new = old /\ old < retries
  PROVE  new + Cardinality(AtStep(step)') < retries + Cardinality(Requests)
<1>1. /\ Cardinality(AtStep(step)) \in Nat /\ Cardinality(Requests) \in Nat
      /\ IsFiniteSet(Requests)
  BY RequestsCounted, ConstantsAssumption
<1>2. /\ AtStep(step)' \subseteq Requests
      /\ Cardinality(AtStep(step)') =
              IF here = step /\ there # step THEN Cardinality(AtStep(step)) - 1
              ELSE IF here # step /\ there = step THEN Cardinality(AtStep(step)) + 1
              ELSE Cardinality(AtStep(step))
  BY MoveCounted
<1>3. Cardinality(AtStep(step)') <= Cardinality(Requests)
  BY <1>1, <1>2, FS_Subset
<1> HIDE DEF AtStep
<1> QED
  BY <1>1, <1>2, <1>3

LEMMA BoundsKept ==
  ASSUME TypeOK, TypeOK', GuessesBounded, NEW q \in Requests, NEW here, NEW there,
         Goto(q, here, there),
         there \notin {"login_count", "pin_count", "unlock_count"},
         \/ user'.incorrectLoginCounter \in {0, user.incorrectLoginCounter}
         \/ here = "login_count"
            /\ user'.incorrectLoginCounter = user.incorrectLoginCounter + 1,
         \/ user'.incorrectPINCounter \in {0, user.incorrectPINCounter}
         \/ here = "pin_count"
            /\ user'.incorrectPINCounter = user.incorrectPINCounter + 1,
         \/ user'.accountUnlockIncorrectCounter \in {0, user.accountUnlockIncorrectCounter}
         \/ here = "unlock_count"
            /\ user'.accountUnlockIncorrectCounter = user.accountUnlockIncorrectCounter + 1
  PROVE  GuessesBounded'
<1> DEFINE Sum(counter, step) == counter + Cardinality(AtStep(step))
           Late(counter, step) == counter + Cardinality(AtStep(step)')
           N == Cardinality(Requests)
<1>1. /\ user'.incorrectLoginCounter \in Nat /\ user'.incorrectPINCounter \in Nat
      /\ user'.accountUnlockIncorrectCounter \in Nat
  BY DEF TypeOK, UserRow
<1>2. Late(user'.incorrectLoginCounter, "login_count") < LoginRetries + N
  <2>1. Sum(user.incorrectLoginCounter, "login_count") < LoginRetries + N
    BY DEF GuessesBounded
  <2> QED
    BY <1>1, <2>1, BoundKept, CountersTyped
<1>3. Late(user'.incorrectPINCounter, "pin_count") < PinRetries + N
  <2>1. Sum(user.incorrectPINCounter, "pin_count") < PinRetries + N
    BY DEF GuessesBounded
  <2> QED
    BY <1>1, <2>1, BoundKept, CountersTyped
<1>4. Late(user'.accountUnlockIncorrectCounter, "unlock_count") < UnlockRetries + N
  <2>1. Sum(user.accountUnlockIncorrectCounter, "unlock_count") < UnlockRetries + N
    BY DEF GuessesBounded
  <2> QED
    BY <1>1, <2>1, BoundKept, CountersTyped
<1> QED
  BY <1>2, <1>3, <1>4 DEF GuessesBounded

(* A wrong attempt arrives.                                                *)
LEMMA GuessArrives ==
  ASSUME TypeOK, TypeOK', LoginsAccounted, GuessesBounded, NEW q \in Requests, UNCHANGED user,
         NEW there \in {"login_count", "pin_count", "unlock_count"}, Goto(q, "idle", there),
         there = "login_count" => ~Blocked,
         there = "pin_count" => user.incorrectPINCounter < PinRetries,
         there = "unlock_count" => user.accountUnlockIncorrectCounter < UnlockRetries
  PROVE  GuessesBounded'
<1> DEFINE N == Cardinality(Requests)
<1>1. user.incorrectLoginCounter + Cardinality(AtStep("login_count")') < LoginRetries + N
  <2>1. user.incorrectLoginCounter + Cardinality(AtStep("login_count")) < LoginRetries + N
    BY DEF GuessesBounded
  <2>2. CASE there # "login_count"
    BY <2>1, <2>2, BoundKept, CountersTyped
  <2>3. CASE there = "login_count"
    <3>1. user.incorrectLoginCounter < LoginRetries + Cardinality(AtStep("login_block"))
      BY <2>3 DEF LoginsAccounted
    <3>2. Cardinality(AtStep("login_block")') = Cardinality(AtStep("login_block"))
      BY <2>3, MoveCounted
    <3>3. Cardinality(AtStep("login_count")') + Cardinality(AtStep("login_block")') <= N
      <4>1. /\ AtStep("login_count")' \subseteq Requests /\ IsFiniteSet(AtStep("login_count")')
            /\ AtStep("login_block")' \subseteq Requests /\ IsFiniteSet(AtStep("login_block")')
        BY MoveCounted
      <4>2. AtStep("login_count")' \cap AtStep("login_block")' = {}
        BY DEF AtStep
      <4> QED
        BY <4>1, <4>2, DisjointCounted
    <3>4. /\ Cardinality(AtStep("login_count")') \in Nat
          /\ Cardinality(AtStep("login_block")) \in Nat /\ N \in Nat
      <4>1. IsFiniteSet(AtStep("login_count")')
        BY MoveCounted
      <4> QED
        BY <4>1, RequestsCounted, FS_CardinalityType
    <3> QED
      BY <3>1, <3>2, <3>3, <3>4, CountersTyped
  <2> QED
    BY <2>2, <2>3
<1>2. user.incorrectPINCounter + Cardinality(AtStep("pin_count")') < PinRetries + N
  <2>1. user.incorrectPINCounter + Cardinality(AtStep("pin_count")) < PinRetries + N
    BY DEF GuessesBounded
  <2> QED
    BY <2>1, BoundKept, CountersTyped
<1>3. user.accountUnlockIncorrectCounter + Cardinality(AtStep("unlock_count")')
        < UnlockRetries + N
  <2>1. user.accountUnlockIncorrectCounter + Cardinality(AtStep("unlock_count"))
          < UnlockRetries + N
    BY DEF GuessesBounded
  <2> QED
    BY <2>1, BoundKept, CountersTyped
<1> QED
  BY <1>1, <1>2, <1>3 DEF GuessesBounded

LEMMA LoginsKept ==
  ASSUME TypeOK, TypeOK', LoginsAccounted, NEW q \in Requests, NEW here, NEW there,
         Goto(q, here, there), here # "login_block",
         \/ user'.incorrectLoginCounter = 0
         \/ /\ user'.incorrectLoginCounter = user.incorrectLoginCounter
            /\ Blocked => Blocked'
         \/ /\ user'.incorrectLoginCounter = user.incorrectLoginCounter + 1
            /\ user.incorrectLoginCounter + 1 >= LoginRetries => there = "login_block"
            /\ Blocked => Blocked'
  PROVE  LoginsAccounted'
<1>1. /\ Cardinality(AtStep("login_block")') \in Nat /\ Cardinality(AtStep("login_block")) \in Nat
      /\ Cardinality(AtStep("login_block")') =
           IF there = "login_block" THEN Cardinality(AtStep("login_block")) + 1
           ELSE Cardinality(AtStep("login_block"))
  BY MoveCounted, RequestsCounted
<1> SUFFICES ASSUME ~Blocked'
             PROVE  user'.incorrectLoginCounter
                      < LoginRetries + Cardinality(AtStep("login_block")')
  BY DEF LoginsAccounted
<1>2. CASE user'.incorrectLoginCounter = 0
  BY <1>1, <1>2, CountersTyped
<1>3. CASE user'.incorrectLoginCounter # 0
  <2>1. user.incorrectLoginCounter < LoginRetries + Cardinality(AtStep("login_block"))
    BY <1>3 DEF LoginsAccounted
  <2> QED
    BY <1>1, <1>3, <2>1, CountersTyped
<1> QED
  BY <1>2, <1>3

LEMMA GuessesArrive ==
  ASSUME TypeOK, TypeOK', LoginsAccounted, GuessesBounded, NEW q \in Requests, Arrive(q)
  PROVE  LoginsAccounted' /\ GuessesBounded'
<1>1. ASSUME UNCHANGED user, NEW there, Goto(q, "idle", there)
      PROVE  /\ LoginsAccounted'
             /\ there \notin {"login_count", "pin_count", "unlock_count"} => GuessesBounded'
  BY <1>1, LoginsKept, BoundsKept DEF Blocked
<1>2. CASE Logout(q)
  <2>1. /\ UNCHANGED at /\ user'.status = user.status
        /\ user'.incorrectLoginCounter = user.incorrectLoginCounter
        /\ user'.incorrectPINCounter = user.incorrectPINCounter
        /\ user'.accountUnlockIncorrectCounter = user.accountUnlockIncorrectCounter
    BY <1>2 DEF Logout, TypeOK, UserRow
  <2> QED
    BY <2>1 DEF LoginsAccounted, GuessesBounded, AtStep, Blocked
<1>3. ASSUME NEW right \in BOOLEAN, LoginRead(q, right)
      PROVE  LoginsAccounted' /\ GuessesBounded'
  <2>1. CASE right
    BY <1>1, <1>3, <2>1 DEF LoginRead, Accept
  <2>2. CASE ~right
    BY <1>1, <1>3, <2>2, GuessArrives DEF LoginRead, Accept
  <2> QED
    BY <2>1, <2>2
<1>4. ASSUME NEW right \in BOOLEAN, PinRead(q, right)
      PROVE  LoginsAccounted' /\ GuessesBounded'
  <2>1. CASE right
    BY <1>1, <1>4, <2>1 DEF PinRead, Accept
  <2>2. CASE ~right
    BY <1>1, <1>4, <2>2, GuessArrives DEF PinRead, Accept
  <2> QED
    BY <2>1, <2>2
<1>5. ASSUME NEW right \in BOOLEAN, UnlockRead(q, right)
      PROVE  LoginsAccounted' /\ GuessesBounded'
  <2>1. CASE right
    BY <1>1, <1>5, <2>1 DEF UnlockRead
  <2>2. CASE ~right
    BY <1>1, <1>5, <2>2, GuessArrives DEF UnlockRead
  <2> QED
    BY <2>1, <2>2
<1>6. ASSUME NEW right \in BOOLEAN, ResetRead(q, right)
      PROVE  LoginsAccounted' /\ GuessesBounded'
  BY <1>1, <1>6 DEF ResetRead, Accept
<1>7. CASE ThrowIfBlocked(q) \/ RefreshRead(q) \/ RequestResetRead(q) \/ SetupRead(q)
           \/ ChangePasswordRead(q) \/ ChangePinRead(q)
  BY <1>1, <1>7 DEF ThrowIfBlocked, RefreshRead, RequestResetRead, SetupRead,
     ChangePasswordRead, ChangePinRead, Accept
<1> QED
  BY <1>2, <1>3, <1>4, <1>5, <1>6, <1>7 DEF Arrive

LEMMA GuessesContinue ==
  ASSUME TypeOK, TypeOK', LoginsAccounted, GuessesBounded, NEW q \in Requests, Continue(q)
  PROVE  LoginsAccounted' /\ GuessesBounded'
<1>1. user \in UserRow
  BY DEF TypeOK
<1> USE DEF UserRow
<1>2. CASE QueueUnlock(q) \/ QueueReset(q)
  BY <1>2, LoginsKept, BoundsKept DEF QueueUnlock, QueueReset, Enqueue, Blocked
<1>3. CASE LoginCount(q)
  <2> DEFINE there == IF user.incorrectLoginCounter + 1 >= LoginRetries
                      THEN "login_block" ELSE "idle"
  <2>1. /\ Goto(q, "login_count", there)
        /\ user'.incorrectLoginCounter = user.incorrectLoginCounter + 1
        /\ user'.incorrectPINCounter = user.incorrectPINCounter
        /\ user'.accountUnlockIncorrectCounter = user.accountUnlockIncorrectCounter
        /\ Blocked => Blocked'
    BY <1>1, <1>3 DEF LoginCount, Blocked
  <2>2. /\ there \notin {"login_count", "pin_count", "unlock_count"}
        /\ user.incorrectLoginCounter + 1 >= LoginRetries => there = "login_block"
    OBVIOUS
  <2> HIDE DEF there
  <2> QED
    BY <2>1, <2>2, LoginsKept, BoundsKept
<1>4. CASE LoginBlock(q)
  <2>1. PICK there \in {"queue_unlock", "idle"} : Goto(q, "login_block", there)
    BY <1>4 DEF LoginBlock
  <2>2. /\ Blocked' /\ user'.incorrectLoginCounter = user.incorrectLoginCounter
        /\ user'.incorrectPINCounter = user.incorrectPINCounter
        /\ user'.accountUnlockIncorrectCounter = user.accountUnlockIncorrectCounter
    BY <1>1, <1>4 DEF LoginBlock, Blocked
  <2>3. GuessesBounded'
    BY <2>1, <2>2, BoundsKept
  <2> QED
    BY <2>2, <2>3 DEF LoginsAccounted
<1>5. CASE LoginStore(q) \/ PinStore(q) \/ PinRevoke(q) \/ RefreshStore(q)
  <2>1. \E here \in {"login_store", "pin_store", "pin_revoke", "refresh_store"} :
           Goto(q, here, "idle")
    BY <1>5 DEF LoginStore, PinStore, PinRevoke, RefreshStore
  <2>2. /\ Blocked => Blocked'
        /\ user'.incorrectLoginCounter \in {0, user.incorrectLoginCounter}
        /\ user'.incorrectPINCounter \in {0, user.incorrectPINCounter}
        /\ user'.accountUnlockIncorrectCounter = user.accountUnlockIncorrectCounter
    BY <1>1, <1>5 DEF LoginStore, PinStore, PinRevoke, RefreshStore, Blocked
  <2> QED
    BY <2>1, <2>2, LoginsKept, BoundsKept
<1>6. CASE PinCount(q)
  <2>1. PICK there \in {"pin_revoke", "idle"} : Goto(q, "pin_count", there)
    BY <1>6 DEF PinCount
  <2>2. /\ Blocked => Blocked'
        /\ user'.incorrectLoginCounter = user.incorrectLoginCounter
        /\ user'.incorrectPINCounter = user.incorrectPINCounter + 1
        /\ user'.accountUnlockIncorrectCounter = user.accountUnlockIncorrectCounter
    BY <1>1, <1>6 DEF PinCount, Blocked
  <2> QED
    BY <2>1, <2>2, LoginsKept, BoundsKept
<1>7. CASE UnlockCount(q)
  <2>1. PICK there \in {"unlock_clear", "idle"} : Goto(q, "unlock_count", there)
    BY <1>7 DEF UnlockCount
  <2>2. /\ Blocked => Blocked'
        /\ user'.incorrectLoginCounter = user.incorrectLoginCounter
        /\ user'.incorrectPINCounter = user.incorrectPINCounter
        /\ user'.accountUnlockIncorrectCounter = user.accountUnlockIncorrectCounter + 1
    BY <1>1, <1>7 DEF UnlockCount, Blocked
  <2> QED
    BY <2>1, <2>2, LoginsKept, BoundsKept
<1>8. CASE ResetClaim(q) \/ ResetCount(q) \/ ResetBlock(q)
  <2>1. PICK here \in {"reset_claim", "reset_count", "reset_block"},
             there \in {"queue_reset", "reset_block", "queue_unlock", "idle"} :
               Goto(q, here, there)
    BY <1>8 DEF ResetClaim, ResetCount, ResetBlock
  <2>2. /\ Blocked => Blocked'
        /\ user'.incorrectLoginCounter = user.incorrectLoginCounter
        /\ user'.incorrectPINCounter = user.incorrectPINCounter
        /\ user'.accountUnlockIncorrectCounter = user.accountUnlockIncorrectCounter
    BY <1>1, <1>8 DEF ResetClaim, ResetCount, ResetBlock, Blocked
  <2> QED
    BY <2>1, <2>2, LoginsKept, BoundsKept
<1>9. CASE ResetStore(q) \/ UnlockStore(q) \/ UnlockClear(q)
  <2>1. \E here \in {"reset_store", "unlock_store", "unlock_clear"} : Goto(q, here, "idle")
    BY <1>9 DEF ResetStore, UnlockStore, UnlockClear
  <2>2. /\ \/ user'.incorrectLoginCounter = 0
           \/ /\ user'.incorrectLoginCounter = user.incorrectLoginCounter
              /\ Blocked => Blocked'
        /\ user'.incorrectPINCounter \in {0, user.incorrectPINCounter}
        /\ user'.accountUnlockIncorrectCounter \in {0, user.accountUnlockIncorrectCounter}
    BY <1>1, <1>9 DEF ResetStore, UnlockStore, UnlockClear, Blocked
  <2> QED
    BY <2>1, <2>2, LoginsKept, BoundsKept
<1>10. CASE SetupStore(q) \/ ChangePasswordStore(q) \/ ChangePinStore(q)
  <2>1. \E here \in {"setup_store", "password_store", "change_pin_store"} : Goto(q, here, "idle")
    BY <1>10 DEF SetupStore, ChangePasswordStore, ChangePinStore
  <2>2. /\ \/ user'.incorrectLoginCounter = 0
           \/ /\ user'.incorrectLoginCounter = user.incorrectLoginCounter
              /\ Blocked => Blocked'
        /\ user'.incorrectPINCounter \in {0, user.incorrectPINCounter}
        /\ user'.accountUnlockIncorrectCounter = user.accountUnlockIncorrectCounter
    BY <1>1, <1>10 DEF SetupStore, ChangePasswordStore, ChangePinStore, Blocked
  <2> QED
    BY <2>1, <2>2, LoginsKept, BoundsKept
<1> QED
  BY <1>2, <1>3, <1>4, <1>5, <1>6, <1>7, <1>8, <1>9, <1>10 DEF Continue

LEMMA GuessesInductive ==
  ASSUME "login_block" \notin MayFail, TypeOK, LoginsAccounted, GuessesBounded, [Next]_vars
  PROVE  LoginsAccounted' /\ GuessesBounded'
<1>1. TypeOK'
  BY TypeInductive
<1>2. ASSUME UNCHANGED at, user'.status = user.status,
             user'.incorrectLoginCounter = user.incorrectLoginCounter,
             user'.incorrectPINCounter = user.incorrectPINCounter,
             user'.accountUnlockIncorrectCounter = user.accountUnlockIncorrectCounter
      PROVE  LoginsAccounted' /\ GuessesBounded'
  BY <1>2 DEF LoginsAccounted, GuessesBounded, AtStep, Blocked
<1>3. ASSUME NEW k \in Jobs, NEW t \in Mails, StoreCode(k, t)
      PROVE  LoginsAccounted' /\ GuessesBounded'
  <2>1. /\ UNCHANGED at /\ user'.status = user.status
        /\ user'.incorrectLoginCounter = user.incorrectLoginCounter
        /\ user'.incorrectPINCounter = user.incorrectPINCounter
        /\ user'.accountUnlockIncorrectCounter \in {0, user.accountUnlockIncorrectCounter}
    BY <1>3 DEF StoreCode, TypeOK, UserRow
  <2>2. LoginsAccounted'
    BY <2>1 DEF LoginsAccounted, AtStep, Blocked
  <2>3. CASE user'.accountUnlockIncorrectCounter = 0
    <3>1. 0 + Cardinality(AtStep("unlock_count")) < UnlockRetries + Cardinality(Requests)
      BY RequestsCounted, CountersTyped
    <3> QED
      BY <2>1, <2>2, <2>3, <3>1 DEF GuessesBounded, AtStep
  <2> QED
    BY <1>2, <2>1, <2>3
<1>4. CASE \E k \in Jobs : SendFails(k) \/ \E again \in BOOLEAN : Send(k, again)
  BY <1>2, <1>4 DEF Send, SendFails
<1>5. CASE Expire
  BY <1>2, <1>5 DEF Expire, ExpireCode, ExpireSession,
     ExpireRefreshToken, CooldownEnds, TypeOK, UserRow
<1>6. CASE UNCHANGED vars
  BY <1>2, <1>6 DEF vars
<1>7. ASSUME NEW q \in Requests, RequestFails(q)
      PROVE  LoginsAccounted' /\ GuessesBounded'
  <2>1. Goto(q, at[q], "idle") /\ at[q] # "login_block" /\ UNCHANGED user
    BY <1>7 DEF RequestFails, Goto
  <2> QED
    BY <1>1, <2>1, LoginsKept, BoundsKept DEF Blocked
<1> QED
  BY <1>1, <1>3, <1>4, <1>5, <1>6, <1>7, GuessesArrive, GuessesContinue DEF Next, Deliver

(* However many requests race, the passwords, PINs and unlock codes that   *)
(* can be tried before a counter starts again stay below the limit and one *)
(* more per request, unless a request dies between counting and blocking.  *)
THEOREM GuessesLimited ==
  ASSUME "login_block" \notin MayFail
  PROVE  Spec => []GuessesBounded
<1>1. Init => TypeOK /\ LoginsAccounted /\ GuessesBounded
  <2> SUFFICES ASSUME Init PROVE LoginsAccounted /\ GuessesBounded
    BY InitTyped
  <2>1. /\ user.incorrectLoginCounter = 0 /\ user.incorrectPINCounter = 0
        /\ user.accountUnlockIncorrectCounter = 0
    BY DEF Init
  <2>2. LoginsAccounted
    BY <2>1, InitTyped, CountersTyped, RequestsCounted DEF LoginsAccounted
  <2>3. GuessesBounded
    BY <2>1, InitTyped, CountersTyped, RequestsCounted DEF GuessesBounded
  <2> QED
    BY <2>2, <2>3
<1>2. TypeOK /\ LoginsAccounted /\ GuessesBounded /\ [Next]_vars
        => (TypeOK /\ LoginsAccounted /\ GuessesBounded)'
  BY TypeInductive, GuessesInductive
<1> QED
  BY <1>1, <1>2, PTL DEF Spec

-----------------------------------------------------------------------------
(* The session after too many wrong PINs.                                  *)

(* A request about to revoke the token stays there while others run.       *)
LEMMA PinKept ==
  ASSUME TypeOK, PinLimitHeld, NEW q \in Requests, NEW here, NEW there,
         Goto(q, here, there), here # "pin_revoke",
         \/ user'.incorrectPINCounter = 0
         \/ /\ user'.incorrectPINCounter = user.incorrectPINCounter
            /\ user'.refreshToken => user.refreshToken
  PROVE  PinLimitHeld'
<1>1. CASE user'.incorrectPINCounter = 0
  BY <1>1, ConstantsAssumption DEF PinLimitHeld
<1>2. CASE /\ user'.incorrectPINCounter = user.incorrectPINCounter
           /\ user'.refreshToken => user.refreshToken
  <2> SUFFICES ASSUME user.incorrectPINCounter >= PinRetries, user.refreshToken
               PROVE  AtStep("pin_revoke")' # {}
    BY <1>2 DEF PinLimitHeld
  <2>1. PICK o \in Requests : at[o] = "pin_revoke"
    BY DEF PinLimitHeld, AtStep
  <2>2. at'[o] = "pin_revoke"
    BY <2>1 DEF Goto, TypeOK
  <2> QED
    BY <2>2 DEF AtStep
<1> QED
  BY <1>1, <1>2

LEMMA PinArrive ==
  ASSUME TypeOK, PinLimitHeld, NEW q \in Requests, Arrive(q)
  PROVE  PinLimitHeld'
<1>1. CASE Logout(q)
  BY <1>1 DEF Logout, PinLimitHeld, TypeOK, UserRow
<1>2. ASSUME UNCHANGED user, NEW there, Goto(q, "idle", there)
      PROVE  PinLimitHeld'
  BY <1>2, PinKept
<1> QED
  BY <1>1, <1>2 DEF Arrive, ThrowIfBlocked, LoginRead, PinRead, ResetRead, UnlockRead,
     RefreshRead, RequestResetRead, SetupRead, ChangePasswordRead, ChangePinRead, Accept

LEMMA PinContinue ==
  ASSUME TypeOK, PinLimitHeld, NEW q \in Requests, Continue(q), ~RefreshStore(q)
  PROVE  PinLimitHeld'
<1> USE DEF TypeOK, UserRow
<1>1. CASE PinCount(q)
  <2>1. CASE user.incorrectPINCounter + 1 >= PinRetries
    <3>1. q \in AtStep("pin_revoke")'
      BY <1>1, <2>1 DEF PinCount, Goto, AtStep
    <3> QED
      BY <3>1 DEF PinLimitHeld
  <2>2. CASE ~(user.incorrectPINCounter + 1 >= PinRetries)
    BY <1>1, <2>2 DEF PinCount, PinLimitHeld
  <2> QED
    BY <2>1, <2>2
<1>2. CASE PinRevoke(q)
  <2>1. ~user'.refreshToken
    BY <1>2 DEF PinRevoke
  <2> QED
    BY <2>1 DEF PinLimitHeld
<1>3. CASE QueueUnlock(q) \/ QueueReset(q)
  BY <1>3, PinKept DEF QueueUnlock, QueueReset, Enqueue
<1>4. CASE LoginCount(q) \/ LoginBlock(q)
  BY <1>4, PinKept DEF LoginCount, LoginBlock
<1>5. CASE LoginStore(q) \/ PinStore(q) \/ ResetStore(q) \/ UnlockStore(q)
           \/ SetupStore(q) \/ ChangePinStore(q)
  BY <1>5, PinKept DEF LoginStore, PinStore, ResetStore, UnlockStore, SetupStore, ChangePinStore
<1>6. CASE ResetClaim(q) \/ ResetCount(q) \/ ResetBlock(q)
  BY <1>6, PinKept DEF ResetClaim, ResetCount, ResetBlock
<1>7. CASE UnlockCount(q) \/ UnlockClear(q) \/ ChangePasswordStore(q)
  BY <1>7, PinKept DEF UnlockCount, UnlockClear, ChangePasswordStore
<1> QED
  BY <1>1, <1>2, <1>3, <1>4, <1>5, <1>6, <1>7 DEF Continue

LEMMA PinInductive ==
  ASSUME TypeOK, PinLimitHeld, [Next]_vars,
         \A q \in Requests : ~RefreshStore(q) /\ ~(at[q] = "pin_revoke" /\ RequestFails(q))
  PROVE  PinLimitHeld'
<1>1. ASSUME UNCHANGED at,
             user'.incorrectPINCounter = user.incorrectPINCounter,
             user'.refreshToken = user.refreshToken
      PROVE  PinLimitHeld'
  BY <1>1 DEF PinLimitHeld, AtStep
<1>2. ASSUME NEW k \in Jobs, Deliver(k)
      PROVE  PinLimitHeld'
  <2>1. ASSUME NEW t \in Mails, StoreCode(k, t)
        PROVE  PinLimitHeld'
    BY <1>1, <2>1 DEF StoreCode, TypeOK, UserRow
  <2> QED
    BY <1>1, <1>2, <2>1 DEF Deliver, Send, SendFails
<1>3. CASE Expire
  BY <1>1, <1>3 DEF Expire, ExpireCode, ExpireSession,
     ExpireRefreshToken, CooldownEnds, TypeOK, UserRow
<1>4. CASE UNCHANGED vars
  BY <1>1, <1>4 DEF vars
<1>5. ASSUME NEW q \in Requests, RequestFails(q)
      PROVE  PinLimitHeld'
  <2>1. Goto(q, at[q], "idle") /\ at[q] # "pin_revoke" /\ UNCHANGED user
    BY <1>5 DEF RequestFails, Goto
  <2> QED
    BY <2>1, PinKept
<1> QED
  BY <1>2, <1>3, <1>4, <1>5, PinArrive, PinContinue DEF Next

(* However right and wrong PINs, logins, resets and refreshes race, the    *)
(* PIN limit ends the session, and nothing but a refresh that stores its   *)
(* token, or a failure of the revoking statement, undoes that.             *)
THEOREM PinLimitHolds == Spec => PinLimitEndsSession
<1>1. TypeOK /\ [Next]_vars =>
        [PinLimitHeld =>
           \/ PinLimitHeld'
           \/ \E q \in Requests :
                RefreshStore(q) \/ (at[q] = "pin_revoke" /\ RequestFails(q))]_vars
  <2> SUFFICES ASSUME TypeOK, [Next]_vars, PinLimitHeld,
                      \A q \in Requests :
                        ~RefreshStore(q) /\ ~(at[q] = "pin_revoke" /\ RequestFails(q))
               PROVE  PinLimitHeld'
    OBVIOUS
  <2> QED
    BY PinInductive
<1> QED
  BY <1>1, TypeCorrect, PTL DEF Spec, PinLimitEndsSession

-----------------------------------------------------------------------------
(* How a session comes about.                                              *)

(* A token that is accepted is one that is stored.                         *)
TokenStored == user.refreshTokenValid => user.refreshToken

(* Nothing opens a closed session except a statement that was under way.   *)
LEMMA SessionArrive ==
  ASSUME TypeOK, TokenStored, NEW q \in Requests, Arrive(q)
  PROVE  /\ TokenStored'
         /\ SessionClosed => SessionClosed' \/ LoginRead(q, TRUE)
<1> USE DEF TypeOK, UserRow, TokenStored, SessionClosed, AtStep, Accept, Goto
<1>1. CASE Logout(q)
  BY <1>1 DEF Logout
<1>2. ASSUME NEW right \in BOOLEAN, PinRead(q, right)
      PROVE  UNCHANGED user /\ ~SessionClosed
  BY <1>2 DEF PinRead
<1>3. CASE RefreshRead(q)
  BY <1>3 DEF RefreshRead
<1>4. ASSUME NEW right \in BOOLEAN, LoginRead(q, right), right # TRUE
      PROVE  TokenStored' /\ (SessionClosed => SessionClosed')
  BY <1>4 DEF LoginRead
<1>5. LoginRead(q, TRUE) => TokenStored'
  BY DEF LoginRead
<1>6. ASSUME UNCHANGED user, NEW there, Goto(q, "idle", there),
             there \notin {"pin_store", "refresh_store", "login_store"}
      PROVE  TokenStored' /\ (SessionClosed => SessionClosed')
  BY <1>6
<1> QED
  BY <1>1, <1>2, <1>3, <1>4, <1>5, <1>6 DEF Arrive, ThrowIfBlocked, ResetRead, UnlockRead,
     RequestResetRead, SetupRead, ChangePasswordRead, ChangePinRead

LEMMA SessionContinue ==
  ASSUME TypeOK, TokenStored, NEW q \in Requests, Continue(q)
  PROVE  TokenStored' /\ (SessionClosed => SessionClosed')
<1> USE DEF TypeOK, UserRow, TokenStored, SessionClosed, AtStep, Goto
<1>1. CASE LoginStore(q) \/ PinStore(q) \/ RefreshStore(q)
  BY <1>1 DEF LoginStore, PinStore, RefreshStore
<1>2. ASSUME user'.refreshTokenValid \in {user.refreshTokenValid, FALSE},
             user'.refreshToken = user.refreshToken \/ ~user'.refreshTokenValid,
             user'.refreshToken => user.refreshToken,
             NEW here, NEW there, Goto(q, here, there),
             there \notin {"pin_store", "refresh_store", "login_store"}
      PROVE  TokenStored' /\ (SessionClosed => SessionClosed')
  BY <1>2
<1>3. CASE QueueUnlock(q) \/ QueueReset(q)
  BY <1>2, <1>3 DEF QueueUnlock, QueueReset, Enqueue
<1>4. CASE LoginCount(q)
  BY <1>2, <1>4 DEF LoginCount
<1>5. CASE LoginBlock(q)
  BY <1>2, <1>5 DEF LoginBlock
<1>6. CASE PinCount(q)
  BY <1>2, <1>6 DEF PinCount
<1>7. CASE PinRevoke(q)
  BY <1>2, <1>7 DEF PinRevoke
<1>8. CASE ResetClaim(q)
  BY <1>2, <1>8 DEF ResetClaim
<1>9. CASE ResetCount(q)
  BY <1>2, <1>9 DEF ResetCount
<1>10. CASE ResetStore(q)
  BY <1>2, <1>10 DEF ResetStore
<1>11. CASE ResetBlock(q)
  <2>1. CASE Blocked
    BY <1>2, <1>11, <2>1 DEF ResetBlock
  <2>2. CASE ~Blocked
    BY <1>2, <1>11, <2>2 DEF ResetBlock
  <2> QED
    BY <2>1, <2>2
<1>12. CASE UnlockCount(q)
  BY <1>2, <1>12 DEF UnlockCount
<1>13. CASE UnlockClear(q)
  BY <1>2, <1>13 DEF UnlockClear
<1>14. CASE UnlockStore(q)
  BY <1>2, <1>14 DEF UnlockStore
<1>15. CASE SetupStore(q)
  BY <1>2, <1>15 DEF SetupStore
<1>16. CASE ChangePasswordStore(q)
  BY <1>2, <1>16 DEF ChangePasswordStore
<1>17. CASE ChangePinStore(q)
  BY <1>2, <1>17 DEF ChangePinStore
<1> QED
  BY <1>1, <1>3, <1>4, <1>5, <1>6, <1>7, <1>8, <1>9, <1>10, <1>11,
     <1>12, <1>13, <1>14, <1>15, <1>16, <1>17 DEF Continue

LEMMA SessionInductive ==
  ASSUME TypeOK, TokenStored, [Next]_vars
  PROVE  /\ TokenStored'
         /\ SessionClosed => SessionClosed' \/ \E q \in Requests : LoginRead(q, TRUE)
<1> USE DEF TypeOK, UserRow, TokenStored, SessionClosed, AtStep
<1>1. ASSUME NEW k \in Jobs, Deliver(k)
      PROVE  TokenStored' /\ (SessionClosed => SessionClosed')
  <2>1. ASSUME NEW t \in Mails, StoreCode(k, t)
        PROVE  /\ UNCHANGED at
               /\ user'.refreshToken = user.refreshToken
               /\ user'.refreshTokenValid = user.refreshTokenValid
    BY <2>1 DEF StoreCode
  <2> QED
    BY <1>1, <2>1 DEF Deliver, Send, SendFails
<1>2. CASE Expire
  <2>1. /\ UNCHANGED at
        /\ user'.refreshToken = user.refreshToken
        /\ user'.refreshTokenValid \in {user.refreshTokenValid, FALSE}
    <3>1. CASE \E t \in Mails : ExpireCode(t)
      BY <3>1 DEF ExpireCode
    <3>2. CASE ExpireSession \/ ExpireRefreshToken \/ CooldownEnds
      BY <3>2 DEF ExpireSession, ExpireRefreshToken, CooldownEnds
    <3> QED
      BY <1>2, <3>1, <3>2 DEF Expire
  <2> QED
    BY <2>1
<1>3. ASSUME NEW q \in Requests, RequestFails(q)
      PROVE  TokenStored' /\ (SessionClosed => SessionClosed')
  BY <1>3 DEF RequestFails
<1>4. CASE UNCHANGED vars
  BY <1>4 DEF vars
<1> QED
  BY <1>1, <1>2, <1>3, <1>4, SessionArrive, SessionContinue DEF Next

(* However a user's requests overlap, and whatever expires, fails or is    *)
(* mailed meanwhile, a session that is closed stays closed, once the       *)
(* statements under way are over, until the right password is presented.   *)
THEOREM SessionStaysClosed == Spec => ClosedStaysClosed
<1>1. Init => TypeOK /\ TokenStored
  <2>1. Init => ~user.refreshTokenValid
    BY DEF Init
  <2> QED
    BY <2>1, InitTyped DEF TokenStored
<1>2. TypeOK /\ TokenStored /\ [Next]_vars
        => /\ (TypeOK /\ TokenStored)'
           /\ [SessionClosed => SessionClosed' \/ \E q \in Requests : LoginRead(q, TRUE)]_vars
  BY TypeInductive, SessionInductive
<1> QED
  BY <1>1, <1>2, PTL DEF Spec, ClosedStaysClosed

=============================================================================

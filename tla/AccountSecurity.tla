-------------------------- MODULE AccountSecurity --------------------------
(***************************************************************************)
(* Credentials, lockout and session of one user account: the row of the    *)
(* users table, the requests that read and update it, and the queue that   *)
(* mails unlock and password-reset codes.                                  *)
(*                                                                         *)
(* Every handler reads the row once, checks a password, PIN, token or code *)
(* against what it read, and updates the row in later statements.  None of *)
(* these run in a transaction: other requests, and the mail handlers, run  *)
(* between any two of them, and a request may fail at any of them.         *)
(*                                                                         *)
(* A password or PIN attempt is right or wrong.  A code is the name of the *)
(* mail job that drew it; the user knows it once it is mailed.  A refresh  *)
(* token is only present or absent: an old one is refused like none.       *)
(***************************************************************************)
EXTENDS Integers, FiniteSets

CONSTANTS
  Requests,        \* request handlers running at once
  Jobs,            \* mail jobs running at once
  Kinds,           \* the kinds of request the clients of an instance send
  InitialStatuses, \* the status the account starts with: "new" or "active"
  LoginRetries,    \* LOGIN_RETRIES_NUMBER
  PinRetries,      \* PIN_RETRIES_NUMBER
  ResetRetries,    \* PASSWORD_RESET_CODE_RETRIES_NUMBER
  UnlockRetries,   \* ACCOUNT_UNLOCK_CODE_RETRIES_NUMBER
  Expiring,        \* what may get older than its TTL in an instance
  MayFail,         \* the statements that may fail, or before which the
                   \* process may die; a failed one ends its request
  MaxQueued,       \* bound: mail tasks of one type waiting in the queue
  MaxWrongLogins,  \* bound: wrong passwords that are counted in a row
  MaxWrongResets   \* bound: wrong reset codes that are counted in a row

AllKinds == {"login", "pin", "refresh", "logout", "request_reset", "reset",
             "unlock", "setup", "password", "change_pin"}
Mails    == {"unlock", "reset"}

(* Where a request is: at none, or at the statement it executes next.      *)
Steps == {"idle", "queue_unlock", "login_count", "login_block", "login_store",
          "pin_count", "pin_revoke", "pin_store", "refresh_store",
          "reset_claim", "queue_reset", "reset_count", "reset_block",
          "reset_store", "unlock_count", "unlock_clear", "unlock_store",
          "setup_store", "password_store", "change_pin_store"}

ASSUME ConstantsAssumption ==
  /\ Kinds \subseteq AllKinds
  /\ InitialStatuses \subseteq {"new", "active"}
  /\ {LoginRetries, PinRetries, ResetRetries, UnlockRetries} \subseteq Nat \ {0}
  /\ Expiring \subseteq Mails \cup {"session", "refresh_token"}
  /\ MayFail \subseteq Steps \ {"idle"}
  /\ MaxQueued \in Nat \ {0}
  /\ {MaxWrongLogins, MaxWrongResets} \subseteq Nat
  /\ "none" \notin Jobs
  /\ IsFiniteSet(Requests)

VARIABLES
  user,     \* the row of the account
  mailed,   \* mailed[t]: the stored code of type t is in the user's mailbox
  at,       \* at[q]: the statement request q executes next
  hadCode,  \* hadCode[q]: accountUnlockCodeHash as returned to q's count
  queue,    \* queue[t]: mail tasks of type t waiting for delivery
  job       \* job[k]: the mail that job k has stored a code for and sends

vars == <<user, mailed, at, hadCode, queue, job>>

None == "none"

(* A user that was just created has a temporary password and no PIN; it    *)
(* holds no session yet.                                                   *)
Init ==
  /\ \E s \in InitialStatuses :
       user = [status                        |-> s,
               pin                           |-> s = "active",
               incorrectLoginCounter         |-> 0,
               incorrectPINCounter           |-> 0,
               passwordResetIncorrectCounter |-> 0,
               accountUnlockIncorrectCounter |-> 0,
               refreshToken                  |-> FALSE,
               refreshTokenValid             |-> FALSE,
               sessionUnlocked               |-> FALSE,
               accountUnlockCode             |-> None,
               accountUnlockCodeValid        |-> FALSE,
               passwordResetCode             |-> None,
               passwordResetCodeValid        |-> FALSE,
               resetRequestAvailable         |-> TRUE]
  /\ mailed = [t \in Mails |-> FALSE]
  /\ at = [q \in Requests |-> "idle"]
  /\ hadCode = [q \in Requests |-> FALSE]
  /\ queue = [t \in Mails |-> 0]
  /\ job = [k \in Jobs |-> None]

Blocked == user.status = "blocked"

(* The statement of q at the first step, and the step that follows it.     *)
Goto(q, here, there) ==
  /\ at[q] = here
  /\ at' = [at EXCEPT ![q] = there]

(* A request of this kind arrives and gets past throwIfBlocked.            *)
Accept(q, kind, there) ==
  /\ kind \in Kinds
  /\ ~Blocked
  /\ Goto(q, "idle", there)
  /\ UNCHANGED <<user, mailed, hadCode, queue, job>>

(* A statement that changes the row only.                                  *)
RowOnly == UNCHANGED <<mailed, hadCode, queue, job>>

(* Mutant: the refusal mails nothing.                                      *)
ThrowIfBlocked_NoMail(q) ==
  /\ "login" \in Kinds
  /\ Blocked
  /\ user.accountUnlockCode = None
  /\ Goto(q, "idle", "idle")
  /\ UNCHANGED <<user, mailed, hadCode, queue, job>>

(* A blocked account refuses login, PIN login, refresh, session and reset  *)
(* requests alike, and has a new unlock code mailed if none is stored.     *)
ThrowIfBlocked(q) ==
  /\ "login" \in Kinds
  /\ Blocked
  /\ user.accountUnlockCode = None
  /\ Goto(q, "idle", "queue_unlock")
  /\ UNCHANGED <<user, mailed, hadCode, queue, job>>

(* queueEmail: a task in the AUTH_EMAIL queue.                             *)
Enqueue(q, here, t) ==
  /\ Goto(q, here, "idle")
  /\ queue[t] < MaxQueued                                         \* bound
  /\ queue' = [queue EXCEPT ![t] = @ + 1]
  /\ UNCHANGED <<user, mailed, hadCode, job>>

QueueUnlock(q) == Enqueue(q, "queue_unlock", "unlock")
QueueReset(q)  == Enqueue(q, "queue_reset", "reset")

-----------------------------------------------------------------------------
(* Login with password.                                                    *)

LoginRead(q, right) ==
  /\ right \/ user.incorrectLoginCounter < MaxWrongLogins         \* bound
  /\ Accept(q, "login", IF right THEN "login_store" ELSE "login_count")

(* Mutant: the limit itself is still allowed.                              *)
LoginCount_OffByOne(q) ==
  LET n == user.incorrectLoginCounter + 1 IN
  /\ Goto(q, "login_count", IF n > LoginRetries THEN "login_block" ELSE "idle")
  /\ user' = [user EXCEPT !.incorrectLoginCounter = n]
  /\ hadCode' = [hadCode EXCEPT ![q] =
                   n > LoginRetries /\ user.accountUnlockCode # None]
  /\ UNCHANGED <<mailed, queue, job>>

LoginCount(q) ==
  LET n == user.incorrectLoginCounter + 1 IN
  /\ Goto(q, "login_count", IF n >= LoginRetries THEN "login_block" ELSE "idle")
  /\ user' = [user EXCEPT !.incorrectLoginCounter = n]
  /\ hadCode' = [hadCode EXCEPT ![q] =
                   n >= LoginRetries /\ user.accountUnlockCode # None]
  /\ UNCHANGED <<mailed, queue, job>>

(* Only the request that really blocks the account has the code mailed.    *)
LoginBlock(q) ==
  /\ Goto(q, "login_block", IF ~Blocked /\ ~hadCode[q] THEN "queue_unlock" ELSE "idle")
  /\ user' = [user EXCEPT !.status = "blocked"]
  /\ hadCode' = [hadCode EXCEPT ![q] = FALSE]
  /\ UNCHANGED <<mailed, queue, job>>

(* Mutant: a login takes back one wrong attempt instead of all.            *)
LoginStore_Decrements(q) ==
  /\ Goto(q, "login_store", "idle")
  /\ user' = [user EXCEPT !.sessionUnlocked = TRUE,
                          !.refreshToken = TRUE, !.refreshTokenValid = TRUE,
                          !.incorrectLoginCounter = @ - 1, !.incorrectPINCounter = 0]
  /\ RowOnly

(* The session opens on the row as it is by now.                           *)
LoginStore(q) ==
  /\ Goto(q, "login_store", "idle")
  /\ user' = [user EXCEPT !.sessionUnlocked = TRUE,
                          !.refreshToken = TRUE, !.refreshTokenValid = TRUE,
                          !.incorrectLoginCounter = 0, !.incorrectPINCounter = 0]
  /\ RowOnly

-----------------------------------------------------------------------------
(* Login with PIN, refresh and logout: requests with a refresh token.      *)

PinRead(q, right) ==
  /\ user.refreshTokenValid
  /\ user.incorrectPINCounter < PinRetries
  /\ right => user.pin
  /\ Accept(q, "pin", IF right THEN "pin_store" ELSE "pin_count")

PinCount(q) ==
  LET n == user.incorrectPINCounter + 1 IN
  /\ Goto(q, "pin_count", IF n >= PinRetries THEN "pin_revoke" ELSE "idle")
  /\ user' = [user EXCEPT !.incorrectPINCounter = n]
  /\ RowOnly

(* Mutant: only the cookies of the answer are cleared.                     *)
PinRevoke_OnlyCookies(q) ==
  /\ Goto(q, "pin_revoke", "idle")
  /\ UNCHANGED <<user, mailed, hadCode, queue, job>>

PinRevoke(q) ==
  /\ Goto(q, "pin_revoke", "idle")
  /\ user' = [user EXCEPT !.refreshToken = FALSE, !.refreshTokenValid = FALSE]
  /\ RowOnly

PinStore(q) ==
  /\ Goto(q, "pin_store", "idle")
  /\ user' = [user EXCEPT !.incorrectPINCounter = 0, !.sessionUnlocked = TRUE,
                          !.refreshToken = TRUE, !.refreshTokenValid = TRUE]
  /\ RowOnly

(* Mutant: the stored token is not looked at.                              *)
RefreshRead_NoToken(q) ==
  /\ user.sessionUnlocked
  /\ Accept(q, "refresh", "refresh_store")

RefreshRead(q) ==
  /\ user.refreshTokenValid
  /\ user.sessionUnlocked
  /\ Accept(q, "refresh", "refresh_store")

RefreshStore(q) ==
  /\ Goto(q, "refresh_store", "idle")
  /\ user' = [user EXCEPT !.refreshToken = TRUE, !.refreshTokenValid = TRUE]
  /\ RowOnly

(* A single statement: logout needs no more than the user's id.            *)
Logout(q) ==
  /\ "logout" \in Kinds
  /\ at[q] = "idle"
  /\ user' = [user EXCEPT !.refreshToken = FALSE, !.refreshTokenValid = FALSE,
                          !.sessionUnlocked = FALSE]
  /\ UNCHANGED <<mailed, at, hadCode, queue, job>>

-----------------------------------------------------------------------------
(* Password reset.                                                         *)

RequestResetRead(q) == Accept(q, "request_reset", "reset_claim")

ResetClaim(q) ==
  /\ Goto(q, "reset_claim", IF user.resetRequestAvailable THEN "queue_reset" ELSE "idle")
  /\ user' = [user EXCEPT !.resetRequestAvailable = FALSE]
  /\ RowOnly

ResetRead(q, right) ==
  /\ user.passwordResetCode # None
  /\ user.passwordResetCodeValid
  /\ right => mailed["reset"]
  /\ right \/ user.passwordResetIncorrectCounter < MaxWrongResets \* bound
  /\ Accept(q, "reset", IF right THEN "reset_store" ELSE "reset_count")

ResetCount(q) ==
  LET n == user.passwordResetIncorrectCounter + 1 IN
  /\ Goto(q, "reset_count", IF n >= ResetRetries THEN "reset_block" ELSE "idle")
  /\ user' = [user EXCEPT !.passwordResetIncorrectCounter = n]
  /\ hadCode' = [hadCode EXCEPT ![q] =
                   n >= ResetRetries /\ user.accountUnlockCode # None]
  /\ UNCHANGED <<mailed, queue, job>>

ResetBlock(q) ==
  /\ Goto(q, "reset_block", IF ~Blocked /\ ~hadCode[q] THEN "queue_unlock" ELSE "idle")
  /\ user' = IF Blocked THEN user ELSE
               [user EXCEPT !.status = "blocked",
                            !.passwordResetCode = None, !.passwordResetCodeValid = FALSE,
                            !.refreshToken = FALSE, !.refreshTokenValid = FALSE,
                            !.sessionUnlocked = FALSE]
  /\ mailed' = IF Blocked THEN mailed ELSE [mailed EXCEPT !["reset"] = FALSE]
  /\ hadCode' = [hadCode EXCEPT ![q] = FALSE]
  /\ UNCHANGED <<queue, job>>

(* Mutant: a reset activates the account as an unlock does.                *)
ResetStore_Activates(q) ==
  /\ Goto(q, "reset_store", "idle")
  /\ user' = [user EXCEPT !.status = "active",
                          !.incorrectLoginCounter = 0, !.incorrectPINCounter = 0,
                          !.refreshToken = FALSE, !.refreshTokenValid = FALSE,
                          !.sessionUnlocked = FALSE,
                          !.passwordResetCode = None, !.passwordResetCodeValid = FALSE,
                          !.passwordResetIncorrectCounter = 0]
  /\ mailed' = [mailed EXCEPT !["reset"] = FALSE]
  /\ UNCHANGED <<hadCode, queue, job>>

ResetStore(q) ==
  /\ Goto(q, "reset_store", "idle")
  /\ user' = [user EXCEPT !.incorrectLoginCounter = 0, !.incorrectPINCounter = 0,
                          !.refreshToken = FALSE, !.refreshTokenValid = FALSE,
                          !.sessionUnlocked = FALSE,
                          !.passwordResetCode = None, !.passwordResetCodeValid = FALSE,
                          !.passwordResetIncorrectCounter = 0]
  /\ mailed' = [mailed EXCEPT !["reset"] = FALSE]
  /\ UNCHANGED <<hadCode, queue, job>>

-----------------------------------------------------------------------------
(* Unlocking the account.  The handler does not look at the status.        *)

UnlockRead(q, right) ==
  /\ "unlock" \in Kinds
  /\ user.accountUnlockCode # None
  /\ user.accountUnlockCodeValid
  /\ user.accountUnlockIncorrectCounter < UnlockRetries
  /\ right => mailed["unlock"]
  /\ Goto(q, "idle", IF right THEN "unlock_store" ELSE "unlock_count")
  /\ UNCHANGED <<user, mailed, hadCode, queue, job>>

UnlockCount(q) ==
  LET n == user.accountUnlockIncorrectCounter + 1 IN
  /\ Goto(q, "unlock_count", IF n >= UnlockRetries THEN "unlock_clear" ELSE "idle")
  /\ user' = [user EXCEPT !.accountUnlockIncorrectCounter = n]
  /\ RowOnly

UnlockClear(q) ==
  /\ Goto(q, "unlock_clear", "idle")
  /\ user' = [user EXCEPT !.accountUnlockCode = None, !.accountUnlockCodeValid = FALSE]
  /\ mailed' = [mailed EXCEPT !["unlock"] = FALSE]
  /\ UNCHANGED <<hadCode, queue, job>>

(* Mutant: the counter of wrong logins is not reset.                       *)
UnlockStore_KeepsCounter(q) ==
  /\ Goto(q, "unlock_store", "idle")
  /\ user' = [user EXCEPT !.status = "active",
                          !.incorrectPINCounter = 0,
                          !.refreshToken = FALSE, !.refreshTokenValid = FALSE,
                          !.accountUnlockCode = None, !.accountUnlockCodeValid = FALSE,
                          !.accountUnlockIncorrectCounter = 0]
  /\ mailed' = [mailed EXCEPT !["unlock"] = FALSE]
  /\ UNCHANGED <<hadCode, queue, job>>

UnlockStore(q) ==
  /\ Goto(q, "unlock_store", "idle")
  /\ user' = [user EXCEPT !.status = "active",
                          !.incorrectLoginCounter = 0, !.incorrectPINCounter = 0,
                          !.refreshToken = FALSE, !.refreshTokenValid = FALSE,
                          !.accountUnlockCode = None, !.accountUnlockCodeValid = FALSE,
                          !.accountUnlockIncorrectCounter = 0]
  /\ mailed' = [mailed EXCEPT !["unlock"] = FALSE]
  /\ UNCHANGED <<hadCode, queue, job>>

-----------------------------------------------------------------------------
(* Changing credentials, with the access token of an earlier login (a JWT, *)
(* good by itself until it expires) and the right current password.  The   *)
(* guard refuses a blocked user, and lets a new user do the setup only.    *)

SetupRead(q) ==
  /\ user.status = "new"
  /\ Accept(q, "setup", "setup_store")

SetupStore(q) ==
  /\ Goto(q, "setup_store", "idle")
  /\ user' = [user EXCEPT !.status = "active", !.pin = TRUE,
                          !.incorrectLoginCounter = 0, !.incorrectPINCounter = 0]
  /\ RowOnly

ChangePasswordRead(q) ==
  /\ user.status # "new"
  /\ Accept(q, "password", "password_store")

ChangePasswordStore(q) ==
  /\ Goto(q, "password_store", "idle")
  /\ user' = [user EXCEPT !.incorrectLoginCounter = 0,
                          !.refreshToken = FALSE, !.refreshTokenValid = FALSE,
                          !.sessionUnlocked = FALSE]
  /\ RowOnly

ChangePinRead(q) ==
  /\ user.status # "new"
  /\ Accept(q, "change_pin", "change_pin_store")

ChangePinStore(q) ==
  /\ Goto(q, "change_pin_store", "idle")
  /\ user' = [user EXCEPT !.pin = TRUE, !.incorrectPINCounter = 0]
  /\ RowOnly

-----------------------------------------------------------------------------
(* Mail jobs: the queue delivers a task, again after a failure, until the  *)
(* handler has answered; a task can be delivered twice.                    *)

(* The handler draws a code and stores its hash, over any other.           *)
StoreCode(k, t) ==
  /\ job[k] = None
  /\ queue[t] > 0
  /\ queue' = [queue EXCEPT ![t] = @ - 1]
  /\ job' = [job EXCEPT ![k] = t]
  /\ user' = IF t = "unlock"
             THEN [user EXCEPT !.accountUnlockCode = k, !.accountUnlockCodeValid = TRUE,
                               !.accountUnlockIncorrectCounter = 0]
             ELSE [user EXCEPT !.passwordResetCode = k, !.passwordResetCodeValid = TRUE,
                               !.passwordResetIncorrectCounter = 0]
  /\ mailed' = [mailed EXCEPT ![t] = FALSE]
  /\ UNCHANGED <<at, hadCode>>

StoredCode(t) == IF t = "unlock" THEN user.accountUnlockCode ELSE user.passwordResetCode

(* sendEmail succeeds.  When the answer is lost the task comes again.      *)
Send(k, again) ==
  /\ job[k] # None
  /\ job' = [job EXCEPT ![k] = None]
  /\ mailed' = [mailed EXCEPT ![job[k]] = @ \/ StoredCode(job[k]) = k]
  /\ again => queue[job[k]] < MaxQueued                           \* bound
  /\ queue' = [queue EXCEPT ![job[k]] = IF again THEN @ + 1 ELSE @]
  /\ UNCHANGED <<user, at, hadCode>>

(* The mail that is sent has the code that is still stored.                *)
SendStored(k) ==
  /\ job[k] # None => StoredCode(job[k]) = k
  /\ Send(k, FALSE)

(* Mutant: the handler swallows the error, and the task counts as done.    *)
SendFails_Swallowed(k) ==
  /\ job[k] # None
  /\ job' = [job EXCEPT ![k] = None]
  /\ UNCHANGED <<user, mailed, at, hadCode, queue>>

(* sendEmail fails, or the worker dies: the task is delivered again.       *)
SendFails(k) ==
  /\ job[k] # None
  /\ job' = [job EXCEPT ![k] = None]
  /\ queue[job[k]] < MaxQueued                                    \* bound
  /\ queue' = [queue EXCEPT ![job[k]] = @ + 1]
  /\ UNCHANGED <<user, mailed, at, hadCode>>

-----------------------------------------------------------------------------
(* Time and failures.                                                      *)

(* The code of a type is too old from now on: it is refused, but stays.    *)
ExpireCode(t) ==
  /\ t \in Expiring
  /\ IF t = "unlock" THEN user.accountUnlockCodeValid ELSE user.passwordResetCodeValid
  /\ user' = IF t = "unlock" THEN [user EXCEPT !.accountUnlockCodeValid = FALSE]
             ELSE [user EXCEPT !.passwordResetCodeValid = FALSE]
  /\ UNCHANGED <<mailed, at, hadCode, queue, job>>

ExpireSession ==
  /\ "session" \in Expiring
  /\ user.sessionUnlocked
  /\ user' = [user EXCEPT !.sessionUnlocked = FALSE]
  /\ UNCHANGED <<mailed, at, hadCode, queue, job>>

ExpireRefreshToken ==
  /\ "refresh_token" \in Expiring
  /\ user.refreshTokenValid
  /\ user' = [user EXCEPT !.refreshTokenValid = FALSE]
  /\ UNCHANGED <<mailed, at, hadCode, queue, job>>

CooldownEnds ==
  /\ ~user.resetRequestAvailable
  /\ user' = [user EXCEPT !.resetRequestAvailable = TRUE]
  /\ UNCHANGED <<mailed, at, hadCode, queue, job>>

(* A statement or a createTask call of q fails: q answers with an error.   *)
RequestFails(q) ==
  /\ at[q] \in MayFail
  /\ at' = [at EXCEPT ![q] = "idle"]
  /\ hadCode' = [hadCode EXCEPT ![q] = FALSE]
  /\ UNCHANGED <<user, mailed, queue, job>>

-----------------------------------------------------------------------------

Arrive(q) ==
  \/ ThrowIfBlocked(q)
  \/ \E right \in BOOLEAN :
       LoginRead(q, right) \/ PinRead(q, right) \/ ResetRead(q, right) \/ UnlockRead(q, right)
  \/ RefreshRead(q) \/ Logout(q) \/ RequestResetRead(q) \/ SetupRead(q)
  \/ ChangePasswordRead(q) \/ ChangePinRead(q)

(* The next statement of a request that has been accepted.                 *)
Continue(q) ==
  \/ QueueUnlock(q) \/ QueueReset(q)
  \/ LoginCount(q) \/ LoginBlock(q) \/ LoginStore(q)
  \/ PinCount(q) \/ PinRevoke(q) \/ PinStore(q) \/ RefreshStore(q)
  \/ ResetClaim(q) \/ ResetCount(q) \/ ResetBlock(q) \/ ResetStore(q)
  \/ UnlockCount(q) \/ UnlockClear(q) \/ UnlockStore(q)
  \/ SetupStore(q) \/ ChangePasswordStore(q) \/ ChangePinStore(q)

Deliver(k) ==
  \/ \E t \in Mails : StoreCode(k, t)
  \/ \E again \in BOOLEAN : Send(k, again)
  \/ SendFails(k)

Expire ==
  \/ \E t \in Mails : ExpireCode(t)
  \/ ExpireSession \/ ExpireRefreshToken \/ CooldownEnds

Next ==
  \/ \E q \in Requests : Arrive(q) \/ Continue(q) \/ RequestFails(q)
  \/ \E k \in Jobs : Deliver(k)
  \/ Expire

Spec == Init /\ [][Next]_vars

(* An accepted request runs to its end and the queue delivers every task.  *)
(* An e-mail with the stored code that is tried again and again is sent,   *)
(* and its answer arrives, in the end.  The user of a blocked account      *)
(* keeps trying: to log in while there is no code, to follow the link      *)
(* while a mailed code is good.  Nobody enters wrong codes for ever.       *)
FairSpec ==
  /\ Spec
  /\ \A q \in Requests : WF_vars(Continue(q))
  /\ \A k \in Jobs : /\ WF_vars(\E t \in Mails : StoreCode(k, t))
                     /\ WF_vars(\E again \in BOOLEAN : Send(k, again))
                     /\ SF_vars(SendStored(k))
  /\ SF_vars(\E q \in Requests : ThrowIfBlocked(q))
  /\ SF_vars(\E q \in Requests : UnlockRead(q, TRUE))
  /\ <>[][\A q \in Requests : ~UnlockRead(q, FALSE)]_vars

-----------------------------------------------------------------------------
(* Properties.                                                             *)

UserRow ==
  [status : {"new", "active", "blocked"}, pin : BOOLEAN,
   incorrectLoginCounter : Nat, incorrectPINCounter : Nat,
   passwordResetIncorrectCounter : Nat, accountUnlockIncorrectCounter : Nat,
   refreshToken : BOOLEAN, refreshTokenValid : BOOLEAN, sessionUnlocked : BOOLEAN,
   accountUnlockCode : Jobs \cup {None}, accountUnlockCodeValid : BOOLEAN,
   passwordResetCode : Jobs \cup {None}, passwordResetCodeValid : BOOLEAN,
   resetRequestAvailable : BOOLEAN]

TypeOK ==
  /\ user \in UserRow
  /\ mailed \in [Mails -> BOOLEAN]
  /\ at \in [Requests -> Steps]
  /\ hadCode \in [Requests -> BOOLEAN]
  /\ queue \in [Mails -> 0..MaxQueued]
  /\ job \in [Jobs -> Mails \cup {None}]

AtStep(here) == {q \in Requests : at[q] = here}

(* When the wrong logins have reached the limit the account is blocked, or *)
(* a request is about to block it: concurrent logins, resets and unlocks   *)
(* cannot take the counter over the limit and leave the account open.      *)
LockoutEnforced ==
  user.incorrectLoginCounter >= LoginRetries => Blocked \/ AtStep("login_block") # {}

(* At most LoginRetries - 1 wrong passwords, and one more per request that *)
(* runs at the same time, are tried before the counter starts again; the   *)
(* same for PINs and for unlock codes.                                     *)
GuessesBounded ==
  LET Bounded(counter, step, retries) ==
        counter + Cardinality(AtStep(step)) < retries + Cardinality(Requests)
  IN /\ Bounded(user.incorrectLoginCounter, "login_count", LoginRetries)
     /\ Bounded(user.incorrectPINCounter, "pin_count", PinRetries)
     /\ Bounded(user.accountUnlockIncorrectCounter, "unlock_count", UnlockRetries)

(* A blocked account on which no unlock and no setup is under way stays    *)
(* blocked until somebody presents the mailed unlock code: no request that *)
(* the block overtook opens it again, be it a login, a reset or a change   *)
(* of credentials, and none that comes later, whatever fails or expires.   *)
(* A setup that was accepted before the block does: it sets the status     *)
(* without looking at it again.                                            *)
BlockStands == Blocked /\ AtStep("unlock_store") \cup AtStep("setup_store") = {}
BlockedStaysBlocked ==
  [][BlockStands => BlockStands' \/ \E q \in Requests : UnlockRead(q, TRUE)]_vars

(* A stored unlock code reaches the user, now or by a task on its way.  No *)
(* other code is mailed while one is stored, so a code that is not mailed  *)
(* would leave the account blocked.                                        *)
CodeReachable ==
  user.accountUnlockCode # None =>
    \/ mailed["unlock"]
    \/ queue["unlock"] > 0
    \/ \E k \in Jobs : job[k] = "unlock"

(* Once logout, a password change or reset, an unlock or the PIN limit has *)
(* closed the session, only a login with the password opens one again.  It *)
(* breaks when a PIN login or a refresh has read the token before and      *)
(* stores the next one after: see the stale_refresh run.                   *)
OnlyLoginOpensSession ==
  [][~user.refreshToken /\ user'.refreshToken => \E q \in Requests : LoginStore(q)]_vars

(* What does hold of it: a closed session stays closed, once the requests  *)
(* that were about to store a token are over, until the right password is  *)
(* presented: no PIN, old token or session, however requests overlap.      *)
SessionClosed ==
  /\ ~user.refreshToken
  /\ AtStep("pin_store") \cup AtStep("refresh_store") \cup AtStep("login_store") = {}
ClosedStaysClosed ==
  [][SessionClosed => SessionClosed' \/ \E q \in Requests : LoginRead(q, TRUE)]_vars

(* Wrong PINs up to the limit end the session: no token is left, or it is  *)
(* about to be revoked, until a login with the password resets the count.  *)
(* Right and wrong PINs, logins and resets may race.  Two things undo it:  *)
(* a refresh under way stores a new token after the revocation, and the    *)
(* revoking statement itself may fail.                                     *)
PinLimitHeld ==
  user.incorrectPINCounter >= PinRetries /\ user.refreshToken => AtStep("pin_revoke") # {}
PinLimitEndsSession ==
  [][PinLimitHeld =>
       \/ PinLimitHeld'
       \/ \E q \in Requests : RefreshStore(q) \/ (at[q] = "pin_revoke" /\ RequestFails(q))]_vars

(* A user has no active account before the setup of a password and a PIN.  *)
ActiveHasPin == user.status = "active" => user.pin

(* A stored code that will never be accepted: it is too old, or a request  *)
(* counted the last try allowed and died before it could clear the code.   *)
CodeDead ==
  /\ user.accountUnlockCode # None
  /\ \/ ~user.accountUnlockCodeValid
     \/ /\ user.accountUnlockIncorrectCounter >= UnlockRetries
        /\ AtStep("unlock_clear") = {}

(* A blocked account is opened again in the end, unless it is left with a  *)
(* dead code for good: a new code is mailed only while none is stored.     *)
BlockedRecovers == Blocked ~> (user.status = "active" \/ []CodeDead)
=============================================================================

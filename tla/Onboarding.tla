----------------------------- MODULE Onboarding -----------------------------
(***************************************************************************)
(* From the call that creates a tenant to its administrator at work        *)
(* (CreateTenantHandler, the users' mail handler, login, initial setup,    *)
(* password reset and the guards).                                         *)
(*                                                                         *)
(* A call looks for a user with the administrator's address, has the       *)
(* tenant's first key wrapped, stores tenant, key, user and membership in  *)
(* one transaction, and then queues a mail with the temporary password of  *)
(* a user it has created.  It may die at any step.  Addresses are not      *)
(* unique in the table of users: calls that overlap may store twins.       *)
(*                                                                         *)
(* Calls draw random ids and passwords; all of them are named by the call. *)
(* A request of a person is one step here; its statements, wrong           *)
(* passwords, blocked accounts and the counters of codes are those of      *)
(* module AccountSecurity, which looks at one account more closely.        *)
(***************************************************************************)
EXTENDS FiniteSets

CONSTANTS
  Calls,   \* calls that create a tenant
  Emails,
  NoUser,  \* a user that does not exist
  None,    \* no user was found
  Own      \* the password a person has chosen

Users == [email : Emails, status : {"new", "active"}, password : Calls \cup {Own}]
Mails == [user : Calls, password : Calls]
Steps == {"unsent", "find", "key", "create", "queue", "answered"}
Resets == {"none", "queued", "mailed"}

ASSUME ConstantsAssumption ==
  /\ NoUser \notin Users
  /\ None \notin Calls /\ Own \notin Calls

VARIABLES
  call,     \* call[c]: step, address, the user found, and whether there was
            \* a user with the address when the call was made
  user,     \* user[c]: the row of the user c has created
  tenants,  \* the tenants that are stored
  keys,     \* the tenants with an active key
  members,  \* the pairs of user and tenant; all are administrators
  tasks,    \* mails that wait in the queue
  mailed,   \* mails that have arrived
  reset,    \* reset[u]: the way of a password reset code to user u
  session   \* the users that hold a valid access token

vars == <<call, user, tenants, keys, members, tasks, mailed, reset, session>>

stored   == <<user, tenants, keys, members>>
persons  == <<mailed, reset, session>>

At(c, step) == call[c].step = step
Exists(u)   == user[u] # NoUser
Email(u)    == user[u].email
Named(e)    == {u \in Calls : Exists(u) /\ user[u].email = e}

-----------------------------------------------------------------------------
Init ==
  /\ \E e \in [Calls -> Emails] :
       call = [c \in Calls |-> [step |-> "unsent", email |-> e[c], found |-> None,
                                late |-> FALSE]]
  /\ user = [c \in Calls |-> NoUser]
  /\ tenants = {} /\ keys = {} /\ members = {}
  /\ tasks = {} /\ mailed = {}
  /\ reset = [c \in Calls |-> "none"]
  /\ session = {}

-----------------------------------------------------------------------------
(* CreateTenantHandler.                                                    *)

Goto(c, step) == call' = [call EXCEPT ![c].step = step]

Send(c) ==
  /\ At(c, "unsent")
  /\ call' = [call EXCEPT ![c].step = "find", ![c].late = Named(call[c].email) # {}]
  /\ UNCHANGED <<stored, tasks, persons>>

(* Mutant: the address is looked up as it was typed, and not found.        *)
FindUserIdByEmail_Typed(e) == {None}
(* findFirst: any of the users with the address, or none.                  *)
FindUserIdByEmail(e) == IF Named(e) = {} THEN {None} ELSE Named(e)

FindUser(c) ==
  /\ At(c, "find")
  /\ \E found \in FindUserIdByEmail(call[c].email) :
       call' = [call EXCEPT ![c].step = "key", ![c].found = found]
  /\ UNCHANGED <<stored, tasks, persons>>

(* prepareInitialKey and, for a new user, the hash of its password.        *)
PrepareKey(c) ==
  /\ At(c, "key")
  /\ Goto(c, "create")
  /\ UNCHANGED <<stored, tasks, persons>>

(* Mutant: the status is left to be set later.                             *)
NewUser_NoStatus(c) == [email |-> call[c].email, password |-> c]
NewUser(c) == [email |-> call[c].email, status |-> "new", password |-> c]

StoreTenant(c) == tenants' = tenants \cup {c} /\ keys' = keys \cup {c}

(* createTenantWithAdminUser.                                              *)
CreateTenant(c) ==
  /\ At(c, "create")
  /\ StoreTenant(c)
  /\ \/ /\ call[c].found = None
        /\ user' = [user EXCEPT ![c] = NewUser(c)]
        /\ members' = members \cup {<<c, c>>}
        /\ Goto(c, "queue")
     \/ /\ call[c].found # None
        /\ members' = members \cup {<<call[c].found, c>>}
        /\ Goto(c, "answered")
        /\ UNCHANGED user
  /\ UNCHANGED <<tasks, persons>>

(* queueTenantUserCreatedEmail; the answer may get lost on the way back.   *)
QueueMail(c) ==
  /\ At(c, "queue")
  /\ tasks' = tasks \cup {[user |-> c, password |-> c]}
  /\ Goto(c, "answered")
  /\ UNCHANGED <<stored, persons>>

(* Mutant: no transaction; what is stored before a failure remains.        *)
Fail_NoTransaction(c) ==
  /\ call[c].step \notin {"unsent", "answered"}
  /\ IF At(c, "create") THEN StoreTenant(c) ELSE UNCHANGED <<tenants, keys>>
  /\ Goto(c, "answered")
  /\ UNCHANGED <<user, members, tasks, persons>>
(* Any step may fail, or the process die.                                  *)
Fail(c) ==
  /\ call[c].step \notin {"unsent", "answered"}
  /\ Goto(c, "answered")
  /\ UNCHANGED <<stored, tasks, persons>>

-----------------------------------------------------------------------------
(* TenantUserCreatedMailHandler.  The queue delivers a task until it is    *)
(* answered; the answer may be lost after the mail was sent.               *)
Deliver(task) ==
  /\ mailed' = mailed \cup {task}
  /\ \E answered \in BOOLEAN : tasks' = IF answered THEN tasks \ {task} ELSE tasks
  /\ UNCHANGED <<call, stored, reset, session>>

-----------------------------------------------------------------------------
(* The person behind an address.                                           *)

Known(u) ==
  {Own} \cup {m.password : m \in {n \in mailed : Exists(n.user) /\ Email(n.user) = Email(u)}}
Knows(u) == user[u].password \in Known(u)

(* LoginCommand finds any of the users with the address.                   *)
Login(u) ==
  /\ Exists(u) /\ Knows(u)
  /\ u \notin session
  /\ session' = session \cup {u}
  /\ UNCHANGED <<call, stored, tasks, mailed, reset>>

(* AuthGuard.  It reads the row of the user and its memberships on every   *)
(* request; the tenants an access token names are not looked at.           *)
AuthGuard(u, allowNewUser) ==
  /\ u \in session
  /\ Exists(u)
  /\ user[u].status = "new" => allowNewUser

(* SetupNewUserCredentialsHandler.                                         *)
Setup(u) ==
  /\ AuthGuard(u, TRUE)
  /\ user[u].status = "new"
  /\ Knows(u)
  /\ user' = [user EXCEPT ![u].status = "active", ![u].password = Own]
  /\ UNCHANGED <<call, tenants, keys, members, tasks, persons>>

(* Mutant: only users that are set up may reset their password.            *)
RequestReset_Active(u) ==
  /\ Exists(u) /\ user[u].status = "active"
  /\ reset[u] = "none"
  /\ reset' = [reset EXCEPT ![u] = "queued"]
  /\ UNCHANGED <<call, stored, tasks, mailed, session>>
(* RequestPasswordResetCommand finds any of the users with the address,    *)
(* whatever their status.                                                  *)
RequestReset(u) ==
  /\ Exists(u)
  /\ reset[u] = "none"
  /\ reset' = [reset EXCEPT ![u] = "queued"]
  /\ UNCHANGED <<call, stored, tasks, mailed, session>>

MailReset(u) ==
  /\ reset[u] = "queued"
  /\ reset' = [reset EXCEPT ![u] = "mailed"]
  /\ UNCHANGED <<call, stored, tasks, mailed, session>>

(* The code is used.  The refresh token is cleared, but an access token    *)
(* remains good until its time is over.                                    *)
ResetPassword(u) ==
  /\ reset[u] = "mailed"
  /\ user' = [user EXCEPT ![u].password = Own]
  /\ reset' = [reset EXCEPT ![u] = "none"]
  /\ UNCHANGED <<call, tenants, keys, members, tasks, mailed, session>>

(* The code outlives its time.                                             *)
ResetExpires(u) ==
  /\ reset[u] = "mailed"
  /\ reset' = [reset EXCEPT ![u] = "none"]
  /\ UNCHANGED <<call, stored, tasks, mailed, session>>

(* A logout, or the access token outlives its time.                        *)
Leave(u) ==
  /\ u \in session
  /\ session' = session \ {u}
  /\ UNCHANGED <<call, stored, tasks, mailed, reset>>

-----------------------------------------------------------------------------
Next ==
  \/ \E c \in Calls : Send(c) \/ FindUser(c) \/ PrepareKey(c) \/ CreateTenant(c)
                      \/ QueueMail(c) \/ Fail(c)
  \/ \E task \in tasks : Deliver(task)
  \/ \E u \in Calls : \/ Login(u) \/ Setup(u) \/ Leave(u)
                      \/ RequestReset(u) \/ MailReset(u)
                      \/ ResetPassword(u) \/ ResetExpires(u)

Sole(u) == Exists(u) /\ Named(Email(u)) = {u}

(* The queue delivers what it holds; a mail arrives.  A person whom no     *)
(* password lets in asks for a reset and uses the code sooner or later,    *)
(* logs in with a password that is right, and sets the account up, though  *)
(* sessions and codes may run out in between.  With twins there is no      *)
(* telling whom the table returns.  Nobody is obliged to call, and calls   *)
(* need not end.                                                           *)
Fairness ==
  /\ \A task \in Mails : WF_vars(task \in tasks /\ Deliver(task))
  /\ \A u \in Calls :
       /\ WF_vars(Sole(u) /\ ~Knows(u) /\ RequestReset(u))
       /\ WF_vars(MailReset(u))
       /\ SF_vars(Sole(u) /\ ~Knows(u) /\ ResetPassword(u))
       /\ SF_vars(Sole(u) /\ Login(u))
       /\ SF_vars(Sole(u) /\ Setup(u))

Spec == Init /\ [][Next]_vars /\ Fairness

-----------------------------------------------------------------------------
(* Every variable has its type.                                            *)
TypeOK ==
  /\ call \in [Calls -> [step : Steps, email : Emails, found : Calls \cup {None},
                         late : BOOLEAN]]
  /\ user \in [Calls -> Users \cup {NoUser}]
  /\ tenants \subseteq Calls /\ keys \subseteq Calls
  /\ members \subseteq Calls \X Calls
  /\ tasks \subseteq Mails /\ mailed \subseteq Mails
  /\ reset \in [Calls -> Resets]
  /\ session \subseteq Calls

(* A mail never names a password that lets nobody in: it is the one its    *)
(* user was stored with and has until the person chooses another, the user *)
(* is the administrator of the tenant, and no other user had the address   *)
(* when the call was made.  So neither a call that failed, nor one for a   *)
(* person who is a user already, mails anything (temporaryPassword is only *)
(* drawn for a new user, and queued after the commit).                     *)
MailIsTrue ==
  \A m \in tasks \cup mailed :
    /\ Exists(m.user) /\ user[m.user].password \in {m.password, Own}
    /\ <<m.user, m.user>> \in members
    /\ call[m.user].email = Email(m.user) /\ ~call[m.user].late

(* TenantGuard and RoleAuthGuard of a request that is kept to              *)
(* administrators.                                                         *)
TenantGuard(u, t)   == <<u, t>> \in members
RoleAuthGuard(u, t) == TenantGuard(u, t)

(* A request of u for tenant t passes the guards and finds a key.          *)
Works(u, t) ==
  AuthGuard(u, FALSE) /\ TenantGuard(u, t) /\ RoleAuthGuard(u, t) /\ t \in keys

(* Whoever was made the administrator of a tenant gets to work in it, also *)
(* when the call died before the mail with the password was queued: the    *)
(* password can be reset before the account was ever set up.  Only the     *)
(* user of an address that calls have stored twice may be out of reach.    *)
AdministratorGetsIn ==
  \A t \in Calls :
    t \in tenants ~> \E u \in Calls : \/ Works(u, t)
                                      \/ <<u, t>> \in members /\ ~Sole(u)

=============================================================================

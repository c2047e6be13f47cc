-------------------------- MODULE OnboardingProofs --------------------------
(***************************************************************************)
(* However many calls overlap and fail, a mailed temporary password is     *)
(* that of the user it names, and nobody is mailed who was a user before.  *)
(***************************************************************************)
EXTENDS Onboarding, TLAPS

BeforeCommit == {"unsent", "find", "key", "create"}

(* What the commit of a call stores is what the call says.                 *)
UsersMatch ==
  \A c \in Calls : Exists(c) =>
    /\ Email(c) = call[c].email /\ ~call[c].late
    /\ <<c, c>> \in members
    /\ user[c].password \in {c, Own}
    /\ call[c].step \notin BeforeCommit

(* A call that will create a user has found none, and none was there when  *)
(* it was made: users stay, with their addresses.                          *)
CallsMatch ==
  \A c \in Calls :
    /\ call[c].late => Named(call[c].email) # {}
    /\ call[c].step \in {"key", "create"} /\ call[c].found = None => ~call[c].late
    /\ call[c].step = "queue" => Exists(c)

MailsMatch ==
  \A m \in tasks \cup mailed : m.password = m.user /\ Exists(m.user)

ResetsMatch == \A u \in Calls : reset[u] # "none" => Exists(u)

IInv == TypeOK /\ UsersMatch /\ CallsMatch /\ MailsMatch /\ ResetsMatch

-----------------------------------------------------------------------------
LEMMA NewUserTyped ==
  ASSUME TypeOK, NEW c \in Calls
  PROVE  /\ NewUser(c) \in Users /\ NewUser(c) # NoUser
         /\ NewUser(c).email = call[c].email /\ NewUser(c).password = c
  BY ConstantsAssumption DEF TypeOK, NewUser, Users

LEMMA InitIInv == Init => IInv
<1> SUFFICES ASSUME Init PROVE IInv
  OBVIOUS
<1>1. PICK e \in [Calls -> Emails] :
        call = [c \in Calls |-> [step |-> "unsent", email |-> e[c], found |-> None,
                                 late |-> FALSE]]
  BY DEF Init
<1>2. TypeOK
  BY <1>1 DEF Init, TypeOK, Steps, Resets
<1> QED
  BY <1>1, <1>2 DEF Init, IInv, UsersMatch, CallsMatch, MailsMatch, ResetsMatch, Exists

(* A step of a call that stores nothing.                                   *)
LEMMA CallStep ==
  ASSUME IInv, TypeOK', NEW c \in Calls, UNCHANGED <<stored, tasks, persons>>,
         \A d \in Calls \ {c} : call'[d] = call[d],
         call'[c].email = call[c].email,
         call'[c].late => Named(call[c].email) # {},
         call'[c].late = call[c].late \/ call[c].step = "unsent",
         call'[c].step \in BeforeCommit => call[c].step \in BeforeCommit,
         call'[c].step \in {"key", "create"} /\ call'[c].found = None => ~call'[c].late,
         call'[c].step # "queue"
  PROVE  IInv'
<1> USE DEF IInv
<1>1. user' = user /\ members' = members /\ tasks' = tasks /\ mailed' = mailed
  BY DEF stored, persons
<1>4. UsersMatch'
  <2> SUFFICES ASSUME NEW d \in Calls, Exists(d)'
               PROVE  /\ Email(d)' = call'[d].email /\ ~call'[d].late
                      /\ <<d, d>> \in members'
                      /\ user'[d].password \in {d, Own}
                      /\ call'[d].step \notin BeforeCommit
    BY DEF UsersMatch
  <2>1. Exists(d) /\ Email(d)' = Email(d)
    BY <1>1 DEF Exists, Email
  <2>2. call[d].step \notin BeforeCommit /\ ~call[d].late /\ Email(d) = call[d].email
    BY <2>1 DEF UsersMatch
  <2>3. CASE d = c
    BY <1>1, <2>1, <2>2, <2>3 DEF UsersMatch, BeforeCommit
  <2>4. CASE d # c
    BY <1>1, <2>1, <2>2, <2>4 DEF UsersMatch
  <2> QED
    BY <2>3, <2>4
<1>6. CallsMatch'
  <2> SUFFICES ASSUME NEW d \in Calls
               PROVE  /\ call'[d].late => Named(call[d].email)' # {}
                      /\ call'[d].email = call[d].email
                      /\ call'[d].step \in {"key", "create"} /\ call'[d].found = None
                           => ~call'[d].late
                      /\ call'[d].step = "queue" => Exists(d)'
    BY <1>1 DEF CallsMatch, Named, Exists
  <2>1. \A e : {u \in Calls : Exists(u)' /\ user'[u].email = e} = Named(e)
    BY <1>1 DEF Named, Exists
  <2>2. CASE d = c
    BY <1>1, <2>1, <2>2 DEF Named, Exists
  <2>3. CASE d # c
    BY <1>1, <2>1, <2>3 DEF CallsMatch, Named, Exists
  <2> QED
    BY <2>2, <2>3
<1>7. MailsMatch' /\ ResetsMatch'
  BY <1>1 DEF MailsMatch, ResetsMatch, Exists, persons
<1> QED
  BY <1>4, <1>6, <1>7

(* A step that leaves calls and memberships alone, and of a user changes   *)
(* the status or sets the password the person chose.                       *)
LEMMA PersonStep ==
  ASSUME IInv, TypeOK', call' = call, members' = members,
         \A u \in Calls : Exists(u)' <=> Exists(u),
         \A u \in Calls : Exists(u) => /\ Email(u)' = Email(u)
                                       /\ user'[u].password \in {user[u].password, Own},
         tasks' \cup mailed' \subseteq tasks \cup mailed,
         \A u \in Calls : reset'[u] # "none" => Exists(u)
  PROVE  IInv'
<1> USE DEF IInv
<1>1. \A e : Named(e)' = Named(e)
  BY DEF Named, Email
<1>2. UsersMatch'
  BY DEF UsersMatch
<1>3. CallsMatch'
  BY <1>1 DEF CallsMatch
<1>4. MailsMatch'
  BY DEF MailsMatch, TypeOK, Mails
<1>5. ResetsMatch'
  BY DEF ResetsMatch
<1> QED
  BY <1>2, <1>3, <1>4, <1>5

(* The commit.                                                             *)
LEMMA CommitStep ==
  ASSUME IInv, NEW c \in Calls, CreateTenant(c)
  PROVE  IInv'
<1> USE DEF IInv
<1>1. ~Exists(c) /\ call[c].step = "create"
  BY DEF CreateTenant, At, UsersMatch, BeforeCommit
<1>2. tasks' = tasks /\ mailed' = mailed /\ reset' = reset /\ session' = session
  BY DEF CreateTenant, persons
<1>3. CASE call[c].found = None
  <2>1. /\ user' = [user EXCEPT ![c] = NewUser(c)] /\ members' = members \cup {<<c, c>>}
        /\ call' = [call EXCEPT ![c].step = "queue"]
    BY <1>3 DEF CreateTenant, Goto
  <2>2. TypeOK'
    BY <1>2, <2>1, NewUserTyped DEF TypeOK, CreateTenant, StoreTenant, Steps
  <2>3. /\ user'[c] = NewUser(c) /\ \A d \in Calls \ {c} : user'[d] = user[d]
        /\ call'[c].step = "queue" /\ call'[c].email = call[c].email
        /\ call'[c].late = call[c].late
        /\ \A d \in Calls \ {c} : call'[d] = call[d]
    BY <2>1 DEF TypeOK
  <2>4. Exists(c)' /\ Email(c)' = call[c].email /\ user'[c].password = c
    BY <2>3, NewUserTyped DEF Exists, Email
  <2>5. \A d \in Calls : Exists(d) => Exists(d)' /\ Email(d)' = Email(d)
    BY <1>1, <2>3 DEF Exists, Email
  <2>6. ~call[c].late
    BY <1>1, <1>3 DEF CallsMatch
  <2>7. UsersMatch'
    <3> SUFFICES ASSUME NEW d \in Calls, Exists(d)'
                 PROVE  /\ Email(d)' = call'[d].email /\ ~call'[d].late
                        /\ <<d, d>> \in members'
                        /\ user'[d].password \in {d, Own}
                        /\ call'[d].step \notin BeforeCommit
      BY DEF UsersMatch
    <3>1. CASE d = c
      BY <2>1, <2>3, <2>4, <2>6, <3>1 DEF BeforeCommit
    <3>2. CASE d # c
      <4>1. Exists(d) /\ Email(d)' = Email(d)
        BY <2>3, <3>2 DEF Exists, Email
      <4> QED
        BY <2>1, <2>3, <3>2, <4>1 DEF UsersMatch
    <3> QED
      BY <3>1, <3>2
  <2>8. \A e : Named(e) \subseteq Named(e)'
    BY <2>5 DEF Named, Email
  <2>9. CallsMatch'
    <3> SUFFICES ASSUME NEW d \in Calls
                 PROVE  /\ call'[d].late => Named(call[d].email)' # {}
                        /\ call'[d].email = call[d].email
                        /\ call'[d].step \in {"key", "create"} /\ call'[d].found = None
                             => ~call'[d].late
                        /\ call'[d].step = "queue" => Exists(d)'
      BY DEF CallsMatch, Named, Exists
    <3>1. CASE d = c
      BY <2>3, <2>4, <2>6, <3>1
    <3>2. CASE d # c
      <4>1. call'[d] = call[d]
        BY <2>3, <3>2
      <4>2. call[d].late => {u \in Calls : user'[u] # NoUser /\ user'[u].email = call[d].email} # {}
        BY <2>5 DEF CallsMatch, Named, Exists, Email
      <4>3. call'[d].late => Named(call[d].email)' # {}
        BY <4>1, <4>2 DEF Named, Exists
      <4> QED
        BY <2>5, <4>1, <4>3 DEF CallsMatch
    <3> QED
      BY <3>1, <3>2
  <2>10. MailsMatch' /\ ResetsMatch'
    BY <1>2, <2>5 DEF MailsMatch, ResetsMatch, TypeOK, Mails
  <2> QED
    BY <2>2, <2>7, <2>9, <2>10
<1>4. CASE call[c].found # None
  <2>1. /\ user' = user /\ members' = members \cup {<<call[c].found, c>>}
        /\ call' = [call EXCEPT ![c].step = "answered"]
    BY <1>4 DEF CreateTenant, Goto
  <2>2. TypeOK'
    BY <1>2, <1>4, <2>1 DEF TypeOK, CreateTenant, StoreTenant, Steps
  <2>3. /\ call'[c].step = "answered" /\ call'[c].email = call[c].email
        /\ call'[c].late = call[c].late
        /\ \A d \in Calls \ {c} : call'[d] = call[d]
    BY <2>1 DEF TypeOK
  <2>4. \A e : Named(e)' = Named(e)
    BY <2>1 DEF Named, Exists, Email
  <2>5. UsersMatch'
    BY <1>1, <2>1, <2>3 DEF UsersMatch, Exists, Email
  <2>6. CallsMatch'
    BY <2>1, <2>3, <2>4 DEF CallsMatch, Exists
  <2>7. MailsMatch' /\ ResetsMatch'
    BY <1>2, <2>1 DEF MailsMatch, ResetsMatch, Exists
  <2> QED
    BY <2>2, <2>5, <2>6, <2>7
<1> QED
  BY <1>3, <1>4

LEMMA QueueStep ==
  ASSUME IInv, NEW c \in Calls, QueueMail(c)
  PROVE  IInv'
<1> USE DEF IInv
<1>1. /\ tasks' = tasks \cup {[user |-> c, password |-> c]} /\ call[c].step = "queue"
      /\ call' = [call EXCEPT ![c].step = "answered"]
      /\ user' = user /\ members' = members /\ mailed' = mailed /\ reset' = reset
  BY DEF QueueMail, Goto, At, stored, persons
<1>2. /\ call'[c].step = "answered" /\ call'[c].email = call[c].email
      /\ call'[c].late = call[c].late
      /\ \A d \in Calls \ {c} : call'[d] = call[d]
  BY <1>1 DEF TypeOK
<1>3. TypeOK'
  BY <1>1 DEF TypeOK, QueueMail, stored, persons, Mails, Steps
<1>4. Exists(c)
  BY <1>1 DEF CallsMatch
<1>5. \A e : Named(e)' = Named(e)
  BY <1>1 DEF Named, Exists, Email
<1>6. UsersMatch'
  BY <1>1, <1>2 DEF UsersMatch, Exists, Email, BeforeCommit
<1>7. CallsMatch'
  BY <1>1, <1>2, <1>5 DEF CallsMatch, Exists
<1>8. MailsMatch' /\ ResetsMatch'
  BY <1>1, <1>4 DEF MailsMatch, ResetsMatch, Exists
<1> QED
  BY <1>3, <1>6, <1>7, <1>8

LEMMA NextIInv == IInv /\ [Next]_vars => IInv'
<1> SUFFICES ASSUME IInv, [Next]_vars PROVE IInv'
  OBVIOUS
<1> USE DEF IInv
<1>1. ASSUME NEW c \in Calls, Send(c) PROVE IInv'
  <2>1. PICK late \in BOOLEAN : late = (Named(call[c].email) # {})
    OBVIOUS
  <2>2. /\ call' = [call EXCEPT ![c].step = "find", ![c].late = late]
        /\ call[c].step = "unsent" /\ UNCHANGED <<stored, tasks, persons>>
    BY <1>1, <2>1 DEF Send, At
  <2>3. TypeOK'
    <3> DEFINE Requests == [step : Steps, email : Emails, found : Calls \cup {None},
                            late : BOOLEAN]
    <3> call[c] \in Requests
      BY DEF TypeOK
    <3>1. [call[c] EXCEPT !.step = "find", !.late = late] \in Requests
      BY DEF Steps
    <3>2. call' = [call EXCEPT ![c] = [call[c] EXCEPT !.step = "find", !.late = late]]
      BY <2>2 DEF TypeOK
    <3> HIDE DEF Requests
    <3>3. call' \in [Calls -> Requests]
      BY <3>1, <3>2 DEF TypeOK, Requests
    <3> QED
      BY <2>2, <3>3 DEF TypeOK, Requests, stored, persons
  <2>4. /\ call'[c].step = "find" /\ call'[c].email = call[c].email
        /\ call'[c].late = late
        /\ \A d \in Calls \ {c} : call'[d] = call[d]
    BY <2>2 DEF TypeOK
  <2> QED
    BY <2>1, <2>2, <2>3, <2>4, CallStep DEF BeforeCommit
<1>2. ASSUME NEW c \in Calls, FindUser(c) PROVE IInv'
  <2>1. PICK found \in FindUserIdByEmail(call[c].email) :
          call' = [call EXCEPT ![c].step = "key", ![c].found = found]
    BY <1>2 DEF FindUser
  <2>2. /\ call[c].step = "find" /\ UNCHANGED <<stored, tasks, persons>>
        /\ found \in Calls \cup {None}
        /\ found = None => Named(call[c].email) = {}
    BY <1>2, <2>1, ConstantsAssumption DEF FindUser, At, FindUserIdByEmail, Named
  <2>3. TypeOK'
    <3> DEFINE Requests == [step : Steps, email : Emails, found : Calls \cup {None},
                            late : BOOLEAN]
    <3> call[c] \in Requests
      BY DEF TypeOK
    <3>1. [call[c] EXCEPT !.step = "key", !.found = found] \in Requests
      BY <2>2 DEF Steps
    <3>2. call' = [call EXCEPT ![c] = [call[c] EXCEPT !.step = "key", !.found = found]]
      BY <2>1 DEF TypeOK
    <3> HIDE DEF Requests
    <3>3. call' \in [Calls -> Requests]
      BY <3>1, <3>2 DEF TypeOK, Requests
    <3> QED
      BY <2>2, <3>3 DEF TypeOK, Requests, stored, persons
  <2>4. /\ call'[c].step = "key" /\ call'[c].email = call[c].email
        /\ call'[c].late = call[c].late /\ call'[c].found = found
        /\ \A d \in Calls \ {c} : call'[d] = call[d]
    BY <2>1 DEF TypeOK
  <2>5. call[c].late => Named(call[c].email) # {}
    BY DEF CallsMatch
  <2> QED
    BY <2>2, <2>3, <2>4, <2>5, CallStep DEF BeforeCommit
<1>3. ASSUME NEW c \in Calls, PrepareKey(c) PROVE IInv'
  <2>1. /\ call[c].step = "key" /\ UNCHANGED <<stored, tasks, persons>>
        /\ call' = [call EXCEPT ![c].step = "create"]
    BY <1>3 DEF PrepareKey, At, Goto
  <2>2. TypeOK'
    BY <2>1 DEF TypeOK, Steps, stored, persons
  <2>3. /\ call'[c].step = "create" /\ call'[c].email = call[c].email
        /\ call'[c].late = call[c].late /\ call'[c].found = call[c].found
        /\ \A d \in Calls \ {c} : call'[d] = call[d]
    BY <2>1 DEF TypeOK
  <2>4. /\ call[c].late => Named(call[c].email) # {}
        /\ call[c].found = None => ~call[c].late
    BY <2>1 DEF CallsMatch
  <2> QED
    BY <2>1, <2>2, <2>3, <2>4, CallStep DEF BeforeCommit
<1>4. ASSUME NEW c \in Calls, Fail(c) PROVE IInv'
  <2>1. /\ UNCHANGED <<stored, tasks, persons>>
        /\ call' = [call EXCEPT ![c].step = "answered"]
    BY <1>4 DEF Fail, Goto
  <2>2. TypeOK'
    BY <2>1 DEF TypeOK, Steps, stored, persons
  <2>3. /\ call'[c].step = "answered" /\ call'[c].email = call[c].email
        /\ call'[c].late = call[c].late
        /\ \A d \in Calls \ {c} : call'[d] = call[d]
    BY <2>1 DEF TypeOK
  <2>4. call[c].late => Named(call[c].email) # {}
    BY DEF CallsMatch
  <2> QED
    BY <2>1, <2>2, <2>3, <2>4, CallStep DEF BeforeCommit
<1>5. ASSUME NEW task \in tasks, Deliver(task) PROVE IInv'
  <2>1. /\ call' = call /\ user' = user /\ members' = members
        /\ tasks' \subseteq tasks /\ mailed' = mailed \cup {task} /\ reset' = reset
    BY <1>5 DEF Deliver, stored
  <2>2. TypeOK'
    BY <1>5, <2>1 DEF TypeOK, Deliver, stored
  <2>3. \A u \in Calls : (Exists(u)' <=> Exists(u)) /\ Email(u)' = Email(u)
    BY <2>1 DEF Exists, Email
  <2> QED
    BY <2>1, <2>2, <2>3, PersonStep DEF ResetsMatch
<1>6. ASSUME NEW u \in Calls, Setup(u) PROVE IInv'
  <2>1. /\ user' = [user EXCEPT ![u].status = "active", ![u].password = Own]
        /\ call' = call /\ members' = members /\ tasks' = tasks /\ mailed' = mailed
        /\ Exists(u) /\ reset' = reset
    BY <1>6 DEF Setup, persons, AuthGuard
  <2>2. user[u] \in Users
    BY <2>1 DEF TypeOK, Exists
  <2>3. /\ user'[u] \in Users /\ user'[u].email = user[u].email /\ user'[u].password = Own
        /\ \A w \in Calls \ {u} : user'[w] = user[w]
    BY <2>1, <2>2 DEF TypeOK, Users
  <2>4. TypeOK'
    BY <1>6, <2>1, <2>3 DEF TypeOK, Setup, persons
  <2>5. \A w \in Calls : Exists(w)' <=> Exists(w)
    BY <2>1, <2>3, ConstantsAssumption DEF Exists
  <2>6. \A w \in Calls : Exists(w) => /\ Email(w)' = Email(w)
                                      /\ user'[w].password \in {user[w].password, Own}
    BY <2>3 DEF Email
  <2> QED
    BY <2>1, <2>4, <2>5, <2>6, PersonStep DEF ResetsMatch
<1>7. ASSUME NEW u \in Calls, ResetPassword(u) PROVE IInv'
  <2>1. /\ user' = [user EXCEPT ![u].password = Own]
        /\ call' = call /\ members' = members /\ tasks' = tasks /\ mailed' = mailed
        /\ reset' = [reset EXCEPT ![u] = "none"] /\ reset[u] = "mailed"
    BY <1>7 DEF ResetPassword
  <2>2. Exists(u) /\ user[u] \in Users
    BY <2>1 DEF TypeOK, Exists, ResetsMatch
  <2>3. /\ user'[u] \in Users /\ user'[u].email = user[u].email /\ user'[u].password = Own
        /\ \A w \in Calls \ {u} : user'[w] = user[w]
    BY <2>1, <2>2 DEF TypeOK, Users
  <2>4. TypeOK'
    BY <1>7, <2>1, <2>3 DEF TypeOK, ResetPassword, Resets
  <2>5. \A w \in Calls : Exists(w)' <=> Exists(w)
    BY <2>2, <2>3, ConstantsAssumption DEF Exists
  <2>6. \A w \in Calls : Exists(w) => /\ Email(w)' = Email(w)
                                      /\ user'[w].password \in {user[w].password, Own}
    BY <2>3 DEF Email
  <2>7. \A w \in Calls : reset'[w] # "none" => Exists(w)
    BY <2>1 DEF ResetsMatch, TypeOK
  <2> QED
    BY <2>1, <2>4, <2>5, <2>6, <2>7, PersonStep
<1>8. ASSUME NEW u \in Calls,
             \/ Login(u) \/ Leave(u) \/ RequestReset(u) \/ MailReset(u) \/ ResetExpires(u)
      PROVE  IInv'
  <2>1. /\ call' = call /\ user' = user /\ members' = members /\ tasks' = tasks
        /\ mailed' = mailed
    BY <1>8 DEF Login, Leave, RequestReset, MailReset, ResetExpires, stored
  <2>2. TypeOK'
    BY <1>8, <2>1 DEF TypeOK, Login, Leave, RequestReset, MailReset, ResetExpires,
                      stored, Resets
  <2>3. \A w \in Calls : (Exists(w)' <=> Exists(w)) /\ Email(w)' = Email(w)
    BY <2>1 DEF Exists, Email
  <2>4. \A w \in Calls : reset'[w] # "none" => Exists(w)
    BY <1>8 DEF Login, Leave, RequestReset, MailReset, ResetExpires, ResetsMatch, TypeOK
  <2> QED
    BY <2>1, <2>2, <2>3, <2>4, PersonStep
<1>9. CASE UNCHANGED vars
  <2>1. TypeOK'
    BY <1>9 DEF vars, TypeOK
  <2>2. \A w \in Calls : (Exists(w)' <=> Exists(w)) /\ Email(w)' = Email(w)
    BY <1>9 DEF vars, Exists, Email
  <2> QED
    BY <1>9, <2>1, <2>2, PersonStep DEF vars, ResetsMatch
<1> QED
  BY <1>1, <1>2, <1>3, <1>4, <1>5, <1>6, <1>7, <1>8, <1>9, CommitStep, QueueStep DEF Next

-----------------------------------------------------------------------------
THEOREM Invariance == Spec => []IInv
  BY InitIInv, NextIInv, PTL DEF Spec

(* Every variable keeps its type.                                          *)
THEOREM TypeCorrect == Spec => []TypeOK
<1>1. IInv => TypeOK
  BY DEF IInv
<1> QED
  BY Invariance, <1>1, PTL

(* A mailed temporary password is the one its user was stored with, and    *)
(* goes to nobody who was a user before the call.                          *)
THEOREM MailsAreTrue == Spec => []MailIsTrue
<1>1. IInv => MailIsTrue
  BY DEF IInv, TypeOK, Mails, UsersMatch, MailsMatch, MailIsTrue
<1> QED
  BY Invariance, <1>1, PTL

=============================================================================

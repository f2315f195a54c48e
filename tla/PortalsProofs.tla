---------------------------- MODULE PortalsProofs ----------------------------
(***************************************************************************)
(* What holds of the portals' pages for every set of accounts, browsers,   *)
(* requests, addresses and store users.                                    *)
(*                                                                         *)
(* Each of the four parts has its inductive invariant; a step of one part  *)
(* leaves the variables of the others alone.                               *)
(***************************************************************************)
EXTENDS Portals, TLAPS, FiniteSetTheorems, WellFoundedInduction

-----------------------------------------------------------------------------
(* Accounts *)

CallbackSteps == {"callback", "create", "login"}
CallbackRows == [op : CallbackSteps, browser : Browsers, as : Subjects, account : Users \cup {None}]
FormRows == [op : Forms, account : Users, read : AccountRows, mail : Mails]
SessionRows == [flow : Nat, account : Users \cup {None}, as : Subjects \cup {None}]

AccountTypes ==
    /\ user \in [Users -> AccountRows \cup {None}]
    /\ flow \in Seq(Subjects)
    /\ session \in [Browsers -> SessionRows]
    /\ work \in [Workers -> CallbackRows \cup FormRows \cup {None}]
    /\ \A b \in Browsers : session[b].flow <= Len(flow)

\* Account u was made for Google account g, or for none if g is None.
MadeFor(u, g) == u \in Registered /\ user[u].google = g

OwnSessions ==
    \A b \in Browsers : session[b].account # None => MadeFor(session[b].account, session[b].as)

OwnLogins ==
    \A w \in Workers :
        /\ Doing(w, "login") => MadeFor(work[w].account, work[w].as)
        /\ \A op \in Forms : Doing(w, op) => work[w].account \in Registered

Unshared ==
    \A u, v \in Registered : u # v =>
        user[u].mail # user[v].mail /\ (user[u].google # None => user[u].google # user[v].google)

AInv == AccountTypes /\ OwnSessions /\ OwnLogins /\ Unshared

LEMMA AccountsBegin == AccountsInit => AInv
<1> SUFFICES ASSUME AccountsInit PROVE AInv
  OBVIOUS
<1>1. NoSession \in SessionRows
  BY DEF NoSession, SessionRows
<1>2. <<>> \in Seq(Subjects) /\ Len(<<>>) = 0
  OBVIOUS
<1>3. AccountTypes
  BY <1>1, <1>2 DEF AccountsInit, AccountTypes, NoSession
<1>4. Registered = {}
  BY DEF AccountsInit, Registered
<1> QED
  BY <1>3, <1>4 DEF AccountsInit, AInv, OwnSessions, OwnLogins, Unshared, NoSession, Doing

\* A new account, whose e-mail address and Google account nobody has.
LEMMA AccountAdded ==
    ASSUME AInv, NEW u \in Users, NEW mail \in Mails, NEW g \in Subjects \cup {None},
           user[u] = None, MailFree(mail), g = None \/ SubjectFree(g),
           user' = [user EXCEPT ![u] = NewAccount(mail, g)]
    PROVE  /\ user' \in [Users -> AccountRows \cup {None}]
           /\ Registered' = Registered \cup {u} /\ u \notin Registered
           /\ Unshared'
           /\ user'[u].google = g
           /\ \A v, h : MadeFor(v, h) => MadeFor(v, h)'
<1>1. NewAccount(mail, g) \in AccountRows
  BY DEF NewAccount, AccountRows
<1>2. user'[u] = NewAccount(mail, g) /\ \A v \in Users \ {u} : user'[v] = user[v]
  BY DEF AInv, AccountTypes
<1>3. user' \in [Users -> AccountRows \cup {None}]
  BY <1>1 DEF AInv, AccountTypes
<1>4. Registered' = Registered \cup {u} /\ u \notin Registered
  BY <1>1, <1>2, MailsAssumption DEF Registered
<1>5. user'[u].mail = mail /\ user'[u].google = g
  BY <1>2 DEF NewAccount
<1>6. \A v \in Registered : user'[v] = user[v] /\ user[v].mail # mail /\ (g # None => user[v].google # g)
  BY <1>2, <1>4 DEF MailFree, SubjectFree, Registered
<1>7. Unshared'
  <2> SUFFICES ASSUME NEW v \in Registered', NEW x \in Registered', v # x
               PROVE  /\ user'[v].mail # user'[x].mail
                      /\ user'[v].google # None => user'[v].google # user'[x].google
    BY DEF Unshared
  <2>1. CASE v = u
    BY <2>1, <1>4, <1>5, <1>6
  <2>2. CASE x = u
    BY <2>2, <1>4, <1>5, <1>6
  <2>3. CASE v # u /\ x # u
    BY <2>3, <1>4, <1>6 DEF AInv, Unshared
  <2> QED
    BY <2>1, <2>2, <2>3
<1>8. \A v, h : MadeFor(v, h) => MadeFor(v, h)'
  BY <1>4, <1>6 DEF MadeFor
<1> QED
  BY <1>3, <1>4, <1>5, <1>7, <1>8

\* A saved form leaves every account its Google account, and its address free.
LEMMA FormKeeps ==
    ASSUME AInv, NEW w \in Workers, FormSaved(w)
    PROVE  /\ user' \in [Users -> AccountRows \cup {None}]
           /\ Registered' = Registered
           /\ \A v \in Registered : user'[v].google = user[v].google
           /\ Unshared'
<1> DEFINE a == work[w].account
<1>1. work[w] \in FormRows /\ a \in Registered /\ a \in Users
  <2>1. PICK op \in Forms : Doing(w, op)
    BY DEF FormSaved
  <2>2. work[w] \in FormRows
    BY <2>1 DEF Doing, Forms, AInv, AccountTypes, CallbackRows, CallbackSteps
  <2> QED
    BY <2>1, <2>2 DEF AInv, OwnLogins, FormRows
<1>2. user[a] \in AccountRows
  BY <1>1 DEF Registered, AInv, AccountTypes
<1>3. Saved(w) \in AccountRows /\ Saved(w).google = user[a].google
  <2>1. CASE work[w].op = "profile"
    BY <1>1, <1>2, <2>1 DEF Saved, FormRows, AccountRows
  <2>2. CASE work[w].op = "switch"
    BY <1>1, <1>2, <2>2 DEF Saved, Switched, FormRows, AccountRows
  <2> QED
    BY <1>1, <2>1, <2>2 DEF FormRows, Forms
<1>4. user' = [user EXCEPT ![a] = Saved(w)]
  BY DEF FormSaved
<1>5. user'[a] = Saved(w) /\ \A v \in Users \ {a} : user'[v] = user[v]
  BY <1>1, <1>4 DEF AInv, AccountTypes
<1>6. user' \in [Users -> AccountRows \cup {None}]
  BY <1>1, <1>3, <1>4 DEF AInv, AccountTypes
<1>7. Registered' = Registered
  BY <1>1, <1>3, <1>5, MailsAssumption DEF Registered
<1>8. \A v \in Registered : user'[v].google = user[v].google
  BY <1>3, <1>5 DEF Registered
<1>9. \A v \in Registered \ {a} : user'[v].mail = user[v].mail /\ user[v].mail # user'[a].mail
  BY <1>5 DEF FormSaved, Registered
<1>10. Unshared'
  <2> SUFFICES ASSUME NEW v \in Registered, NEW x \in Registered, v # x
               PROVE  /\ user'[v].mail # user'[x].mail
                      /\ user'[v].google # None => user'[v].google # user'[x].google
    BY <1>7 DEF Unshared
  <2>1. user[v].mail # user[x].mail /\ (user[v].google # None => user[v].google # user[x].google)
    BY DEF AInv, Unshared
  <2>2. user'[v].mail # user'[x].mail
    BY <2>1, <1>9
  <2> QED
    BY <2>1, <2>2, <1>8
<1> QED
  BY <1>6, <1>7, <1>8, <1>10

LEMMA AccountsStep == AInv /\ AccountsNext => AInv'
<1> SUFFICES ASSUME AInv, AccountsNext PROVE AInv'
  OBVIOUS
<1> USE DEF AInv
<1>1. ASSUME NEW u \in Users, NEW mail \in Mails, CreateCustomer(u, mail) PROVE AInv'
  <2>1. /\ user' \in [Users -> AccountRows \cup {None}] /\ Registered' = Registered \cup {u}
        /\ Unshared' /\ \A v, h : MadeFor(v, h) => MadeFor(v, h)'
    BY <1>1, AccountAdded DEF CreateCustomer
  <2>2. AccountTypes'
    BY <2>1, <1>1 DEF CreateCustomer, AccountTypes
  <2> QED
    BY <2>1, <2>2, <1>1 DEF CreateCustomer, OwnSessions, OwnLogins, Doing
<1>2. ASSUME NEW b \in Browsers, NEW u \in Users, NEW mail \in Mails, Register(b, u, mail) PROVE AInv'
  <2>1. /\ user' \in [Users -> AccountRows \cup {None}] /\ Registered' = Registered \cup {u}
        /\ Unshared' /\ user'[u].google = None /\ \A v, h : MadeFor(v, h) => MadeFor(v, h)'
    BY <1>2, AccountAdded DEF Register
  <2>2. /\ session'[b] = [session[b] EXCEPT !.account = u, !.as = None]
        /\ \A c \in Browsers \ {b} : session'[c] = session[c]
    BY <1>2 DEF Register, AccountTypes
  <2>3. session'[b] \in SessionRows /\ session'[b].flow = session[b].flow
        /\ session'[b].account = u /\ session'[b].as = None
    BY <2>2 DEF AccountTypes, SessionRows
  <2>4. session' \in [Browsers -> SessionRows]
    BY <1>2, <2>3, <2>2 DEF Register, AccountTypes
  <2>5. AccountTypes'
    BY <2>1, <2>2, <2>3, <2>4, <1>2 DEF Register, AccountTypes
  <2>6. OwnSessions'
    <3> SUFFICES ASSUME NEW c \in Browsers, session'[c].account # None
                 PROVE  MadeFor(session[c].account, session[c].as)'
      BY DEF OwnSessions
    <3>1. CASE c = b
      BY <3>1, <2>1, <2>3 DEF MadeFor
    <3>2. CASE c # b
      <4>1. MadeFor(session[c].account, session[c].as) /\ session'[c] = session[c]
        BY <3>2, <2>2 DEF OwnSessions
      <4>2. MadeFor(session[c].account, session[c].as)' <=>
              session'[c].account \in Registered' /\ user'[session'[c].account].google = session'[c].as
        BY DEF MadeFor
      <4> QED
        BY <4>1, <4>2, <2>1 DEF MadeFor
    <3> QED
      BY <3>1, <3>2
  <2> QED
    BY <2>1, <2>5, <2>6, <1>2 DEF Register, OwnLogins, Doing
<1>3. ASSUME NEW b \in Browsers, NEW u \in Users, SignIn(b, u) PROVE AInv'
  <2>1. u \in Registered /\ user[u].google = None
    BY <1>3 DEF SignIn
  <2>2. session[b] \in SessionRows /\ session[b].flow <= Len(flow) /\ Len(flow) \in Nat
    BY DEF AccountTypes
  <2>3. PICK f \in {session[b].flow, 0} : session' = [session EXCEPT ![b] = [flow |-> f, account |-> u, as |-> None]]
    BY <1>3 DEF SignIn, AccountTypes
  <2>4. session'[b] = [flow |-> f, account |-> u, as |-> None] /\ \A c \in Browsers \ {b} : session'[c] = session[c]
    BY <2>3 DEF AccountTypes
  <2>5. session'[b] \in SessionRows /\ session'[b].flow <= Len(flow)
    BY <2>2, <2>4 DEF SessionRows
  <2>6. session' \in [Browsers -> SessionRows]
    BY <2>3, <2>4, <2>5 DEF AccountTypes
  <2>7. AccountTypes'
    BY <1>3, <2>4, <2>5, <2>6 DEF SignIn, AccountTypes
  <2>8. \A v, h : MadeFor(v, h) => MadeFor(v, h)'
    BY <1>3 DEF SignIn, MadeFor, Registered
  <2>9. OwnSessions'
    BY <2>1, <2>4, <2>8 DEF OwnSessions, MadeFor
  <2> QED
    BY <2>7, <2>8, <2>9, <1>3 DEF SignIn, OwnLogins, Doing, Unshared, Registered
<1>4. ASSUME NEW b \in Browsers, SignOut(b) PROVE AInv'
  <2>1. session' = [session EXCEPT ![b] = NoSession] /\ UNCHANGED <<user, flow, redeemed, work>>
    BY <1>4 DEF SignOut
  <2>2. NoSession \in SessionRows /\ NoSession.account = None /\ NoSession.flow = 0
    BY DEF NoSession, SessionRows
  <2>3. Len(flow) \in Nat
    BY DEF AccountTypes
  <2>4. AccountTypes'
    BY <2>1, <2>2, <2>3 DEF AccountTypes
  <2>5. OwnSessions'
    BY <2>1, <2>2 DEF OwnSessions, AccountTypes, MadeFor, Registered
  <2> QED
    BY <2>1, <2>4, <2>5 DEF OwnLogins, Doing, Unshared, Registered, MadeFor
<1>5. ASSUME NEW b \in Browsers, NEW g \in Subjects, GoogleStart(b, g) PROVE AInv'
  <2>1. flow' = Append(flow, g) /\ session' = [session EXCEPT ![b].flow = Len(flow) + 1]
    BY <1>5 DEF GoogleStart
  <2>2. flow' \in Seq(Subjects) /\ Len(flow') = Len(flow) + 1 /\ Len(flow) \in Nat
    BY <2>1 DEF AccountTypes
  <2>3. /\ session'[b] \in SessionRows /\ session'[b].flow = Len(flow) + 1
        /\ session'[b].account = session[b].account /\ session'[b].as = session[b].as
        /\ \A c \in Browsers \ {b} : session'[c] = session[c]
    <3> DEFINE n == Len(flow) + 1
    <3>1. n \in Nat
      BY <2>2
    <3>2. session[b] \in SessionRows /\ session'[b] = [session[b] EXCEPT !.flow = n]
      BY <2>1 DEF AccountTypes
    <3>3. \A c \in Browsers \ {b} : session'[c] = session[c]
      BY <2>1 DEF AccountTypes
    <3> HIDE DEF n
    <3>4. /\ session'[b] \in SessionRows /\ session'[b].flow = n
          /\ session'[b].account = session[b].account /\ session'[b].as = session[b].as
      BY <3>1, <3>2 DEF SessionRows
    <3> QED
      BY <3>3, <3>4 DEF n
  <2>4. session' \in [Browsers -> SessionRows]
    BY <2>1, <2>3 DEF AccountTypes
  <2>5. \A c \in Browsers : session'[c].flow <= Len(flow')
    <3> SUFFICES ASSUME NEW c \in Browsers PROVE session'[c].flow <= Len(flow')
      OBVIOUS
    <3>1. session[c].flow \in Nat /\ session[c].flow <= Len(flow)
      BY DEF AccountTypes, SessionRows
    <3> QED
      BY <2>2, <2>3, <3>1
  <2>6. AccountTypes'
    BY <2>2, <2>4, <2>5, <1>5 DEF GoogleStart, AccountTypes
  <2>7. OwnSessions'
    BY <2>3, <1>5 DEF GoogleStart, OwnSessions, MadeFor, Registered
  <2> QED
    BY <2>6, <2>7, <1>5 DEF GoogleStart, OwnLogins, Doing, Unshared, Registered, MadeFor
<1>6. ASSUME NEW b \in Browsers, session' = [session EXCEPT ![b].flow = 0], flow' = flow, user' = user,
             work' = work \/ \E w \in Workers : work' = [work EXCEPT ![w] = None]
      PROVE  AInv'
  <2>1. /\ session'[b] \in SessionRows /\ session'[b].flow = 0
        /\ session'[b].account = session[b].account /\ session'[b].as = session[b].as
        /\ \A c \in Browsers \ {b} : session'[c] = session[c]
    BY <1>6 DEF AccountTypes, SessionRows
  <2>2. session' \in [Browsers -> SessionRows]
    BY <1>6, <2>1 DEF AccountTypes
  <2>3. work' \in [Workers -> CallbackRows \cup FormRows \cup {None}]
    BY <1>6 DEF AccountTypes
  <2>4. \A w \in Workers : work'[w] = work[w] \/ work'[w] = None
    BY <1>6 DEF AccountTypes
  <2>5. Len(flow) \in Nat
    BY DEF AccountTypes
  <2>6. AccountTypes'
    BY <2>1, <2>2, <2>3, <2>5, <1>6 DEF AccountTypes
  <2>7. OwnSessions'
    BY <2>1, <1>6 DEF OwnSessions, MadeFor, Registered
  <2>8. OwnLogins'
    BY <2>4, <1>6 DEF OwnLogins, Doing, MadeFor, Registered
  <2> QED
    BY <2>6, <2>7, <2>8, <1>6 DEF Unshared, Registered
<1>7. ASSUME NEW b \in Browsers, CallbackRefused(b) PROVE AInv'
  BY <1>6, <1>7 DEF CallbackRefused
<1>8. ASSUME NEW w \in Workers, CallbackFails(w) PROVE AInv'
  <2>1. work[w].browser \in Browsers
    BY <1>8 DEF CallbackFails, Doing, AccountTypes, CallbackRows, FormRows, Forms
  <2> QED
    BY <2>1, <1>6, <1>8 DEF CallbackFails
\* A request goes one step further and changes nothing else.
<1>9. ASSUME NEW w \in Workers, NEW row \in CallbackRows \cup FormRows,
             work' = [work EXCEPT ![w] = row], user' = user, session' = session, flow' = flow,
             row.op = "login" => MadeFor(row.account, row.as),
             row.op \in Forms => row.account \in Registered
      PROVE  AInv'
  <2>1. work'[w] = row /\ \A x \in Workers \ {w} : work'[x] = work[x]
    BY <1>9 DEF AccountTypes
  <2>2. AccountTypes'
    BY <1>9 DEF AccountTypes
  <2>3. OwnLogins'
    BY <2>1, <1>9 DEF OwnLogins, Doing, MadeFor, Registered
  <2> QED
    BY <2>2, <2>3, <1>9 DEF OwnSessions, MadeFor, Unshared, Registered
<1>10. ASSUME NEW w \in Workers, NEW b \in Browsers, CallbackAccepted(w, b) PROVE AInv'
  <2> DEFINE row == [op |-> "callback", browser |-> b, as |-> flow[session[b].flow], account |-> None]
  <2>1. session[b].flow \in 1..Len(flow)
    BY <1>10 DEF CallbackAccepted, AccountTypes, SessionRows
  <2>2. flow[session[b].flow] \in Subjects
    BY <2>1 DEF AccountTypes
  <2>3. row \in CallbackRows /\ row.op = "callback"
    BY <2>2 DEF CallbackRows, CallbackSteps
  <2>4. work' = [work EXCEPT ![w] = row] /\ UNCHANGED <<user, flow, session>>
    BY <1>10 DEF CallbackAccepted
  <2> HIDE DEF row
  <2> QED
    BY <2>3, <2>4, <1>9 DEF Forms
<1>11. ASSUME NEW w \in Workers, LookUp(w) PROVE AInv'
  <2> DEFINE g == work[w].as
  <2>1. work[w] \in CallbackRows
    BY <1>11 DEF LookUp, Doing, AccountTypes, FormRows, Forms
  <2>2. UNCHANGED <<user, flow, session>>
    BY <1>11 DEF LookUp
  <2>3. CASE work' = [work EXCEPT ![w].op = "create"]
    <3>1. work' = [work EXCEPT ![w] = [work[w] EXCEPT !.op = "create"]]
      BY <2>3 DEF AccountTypes
    <3>2. /\ [work[w] EXCEPT !.op = "create"] \in CallbackRows
          /\ [work[w] EXCEPT !.op = "create"].op = "create"
      BY <2>1 DEF CallbackRows, CallbackSteps
    <3> QED
      BY <3>1, <3>2, <2>2, <1>9 DEF Forms
  <2>4. ASSUME NEW u \in AccountsOf(g), work' = [work EXCEPT ![w].op = "login", ![w].account = u] PROVE AInv'
    <3> DEFINE row == [work[w] EXCEPT !.op = "login", !.account = u]
    <3>1. u \in Registered /\ user[u].google = g /\ u \in Users
      BY <2>4 DEF AccountsOf, Registered
    <3>2. row \in CallbackRows /\ row.op = "login" /\ row.account = u /\ row.as = g
      BY <2>1, <3>1 DEF CallbackRows, CallbackSteps
    <3>3. work' = [work EXCEPT ![w] = row]
      BY <2>4, <2>1 DEF AccountTypes
    <3>4. MadeFor(row.account, row.as)
      BY <3>1, <3>2 DEF MadeFor
    <3> HIDE DEF row
    <3> QED
      BY <3>2, <3>3, <3>4, <2>2, <1>9 DEF Forms
  <2> QED
    BY <1>11, <2>3, <2>4 DEF LookUp
<1>12. ASSUME NEW w \in Workers, NEW u \in Users, CreateForIdentity(w, u) PROVE AInv'
  <2> DEFINE g == work[w].as
             row == [work[w] EXCEPT !.op = "login", !.account = u]
  <2>1. work[w] \in CallbackRows /\ g \in Subjects /\ MailOf[g] \in Mails
    BY <1>12, MailsAssumption DEF CreateForIdentity, Doing, AccountTypes, CallbackRows, FormRows, Forms
  <2>2. /\ user' \in [Users -> AccountRows \cup {None}] /\ Registered' = Registered \cup {u}
        /\ Unshared' /\ user'[u].google = g /\ \A v, h : MadeFor(v, h) => MadeFor(v, h)'
    BY <1>12, <2>1, AccountAdded DEF CreateForIdentity
  <2>3. row \in CallbackRows /\ row.op = "login" /\ row.account = u /\ row.as = g
    BY <2>1 DEF CallbackRows, CallbackSteps
  <2>4. work' = [work EXCEPT ![w] = row]
    BY <1>12, <2>1 DEF CreateForIdentity, AccountTypes
  <2>5. UNCHANGED <<flow, session>>
    BY <1>12 DEF CreateForIdentity
  <2> HIDE DEF row
  <2>6. work'[w] = row /\ \A x \in Workers \ {w} : work'[x] = work[x]
    BY <2>4 DEF AccountTypes
  <2>7. AccountTypes'
    BY <2>2, <2>3, <2>4, <2>5 DEF AccountTypes
  <2>8. OwnSessions'
    BY <2>2, <2>5 DEF OwnSessions
  <2>9. OwnLogins'
    <3> SUFFICES ASSUME NEW x \in Workers
                 PROVE  /\ Doing(x, "login") => MadeFor(work[x].account, work[x].as)
                        /\ \A op \in Forms : Doing(x, op) => work[x].account \in Registered
                 '
      BY DEF OwnLogins
    <3>1. CASE x = w
      BY <3>1, <2>2, <2>3, <2>6 DEF Doing, MadeFor, Forms
    <3>2. CASE x # w
      <4>1. work'[x] = work[x]
        BY <3>2, <2>6
      <4>2. Doing(x, "login") => MadeFor(work[x].account, work[x].as)'
        BY <4>1, <2>2 DEF OwnLogins, Doing, MadeFor
      <4> QED
        BY <4>1, <4>2, <2>2 DEF OwnLogins, Doing
    <3> QED
      BY <3>1, <3>2
  <2> QED
    BY <2>2, <2>7, <2>8, <2>9
<1>13. ASSUME NEW w \in Workers, NEW b \in Browsers, CallbackDone(w), b = work[w].browser PROVE AInv'
  <2>1. work[w] \in CallbackRows /\ MadeFor(work[w].account, work[w].as)
    BY <1>13 DEF CallbackDone, Doing, AccountTypes, FormRows, Forms, OwnLogins
  <2> DEFINE row == [flow |-> 0, account |-> work[w].account, as |-> work[w].as]
  <2>2. row \in SessionRows /\ row.flow = 0 /\ row.account = work[w].account /\ row.as = work[w].as
    BY <2>1 DEF CallbackRows, SessionRows
  <2>3. session' = [session EXCEPT ![b] = row] /\ work' = [work EXCEPT ![w] = None] /\ UNCHANGED <<user, flow>>
    BY <1>13 DEF CallbackDone
  <2> HIDE DEF row
  <2>4. session'[b] = row /\ \A c \in Browsers \ {b} : session'[c] = session[c]
    BY <2>3 DEF AccountTypes
  <2>5. work'[w] = None /\ \A x \in Workers \ {w} : work'[x] = work[x]
    BY <2>3 DEF AccountTypes
  <2>6. Len(flow) \in Nat
    BY DEF AccountTypes
  <2>7. AccountTypes'
    BY <2>2, <2>3, <2>4, <2>6 DEF AccountTypes
  <2>8. OwnSessions'
    BY <2>1, <2>2, <2>3, <2>4 DEF OwnSessions, MadeFor, Registered
  <2> QED
    BY <2>3, <2>5, <2>7, <2>8 DEF OwnLogins, Doing, MadeFor, Unshared, Registered
<1>14. ASSUME NEW w \in Workers, NEW op \in Forms, NEW u \in Users, NEW mail \in Mails,
              FormBegins(w, op, u, mail)
       PROVE  AInv'
  <2> DEFINE row == [op |-> op, account |-> u, read |-> user[u], mail |-> mail]
  <2>1. u \in Registered /\ user[u] \in AccountRows
    BY <1>14 DEF FormBegins, Registered, AccountTypes
  <2>2. row \in FormRows /\ row.op = op /\ row.account = u
    BY <2>1 DEF FormRows
  <2>3. work' = [work EXCEPT ![w] = row] /\ UNCHANGED <<user, flow, session>>
    BY <1>14 DEF FormBegins
  <2> HIDE DEF row
  <2>4. row.op # "login"
    BY <2>2 DEF Forms
  <2> QED
    BY <2>1, <2>2, <2>3, <2>4, <1>9
<1>15. ASSUME NEW w \in Workers, FormSaved(w) PROVE AInv'
  <2>1. /\ user' \in [Users -> AccountRows \cup {None}] /\ Registered' = Registered
        /\ \A v \in Registered : user'[v].google = user[v].google
        /\ Unshared'
    BY <1>15, FormKeeps
  <2>2. work' = [work EXCEPT ![w] = None] /\ UNCHANGED <<flow, session>>
    BY <1>15 DEF FormSaved
  <2>3. work'[w] = None /\ \A x \in Workers \ {w} : work'[x] = work[x]
    BY <2>2 DEF AccountTypes
  <2>4. AccountTypes'
    BY <2>1, <2>2 DEF AccountTypes
  <2>5. OwnSessions'
    BY <2>1, <2>2 DEF OwnSessions, MadeFor
  <2> QED
    BY <2>1, <2>3, <2>4, <2>5 DEF OwnLogins, Doing, MadeFor
<1>16. ASSUME NEW w \in Workers, FormFails(w) PROVE AInv'
  <2>1. work' = [work EXCEPT ![w] = None] /\ UNCHANGED <<user, flow, session>>
    BY <1>16 DEF FormFails
  <2>2. work'[w] = None /\ \A x \in Workers \ {w} : work'[x] = work[x]
    BY <2>1 DEF AccountTypes
  <2>3. AccountTypes'
    BY <2>1 DEF AccountTypes
  <2> QED
    BY <2>1, <2>2, <2>3 DEF OwnSessions, OwnLogins, Doing, MadeFor, Unshared, Registered
<1>17. ASSUME NEW w \in Workers, CallbackDone(w) PROVE AInv'
  <2>1. work[w].browser \in Browsers
    BY <1>17 DEF CallbackDone, Doing, AccountTypes, CallbackRows, FormRows, Forms
  <2> QED
    BY <1>13, <1>17, <2>1
<1> QED
  BY <1>1, <1>2, <1>3, <1>4, <1>5, <1>7, <1>8, <1>10, <1>11, <1>12, <1>14, <1>15, <1>16, <1>17
     DEF AccountsNext

-----------------------------------------------------------------------------
(* The users of a store *)

StoreRows == [status : Statuses, active : BOOLEAN]
StatusTasks == {r \in [step : {"status"}, read : StoreRows, new : Statuses] :
                  <<r.read.status, r.new>> \in AllowedStatusTransitions}
StoreTasks == [step : {"store"}, read : StoreRows, new : BOOLEAN]
AddTasks == [step : {"locked", "demoted"}, rows : SUBSET Members, member : Members, primary : BOOLEAN]
MemberTasks == [step : {"member", "toggle"}, read : MemberRows, member : Members, primary : BOOLEAN]

TeamTypes ==
    /\ store \in StoreRows
    /\ member \in [Members -> MemberRows \cup {Nil}]
    /\ task \in [Managers -> StatusTasks \cup StoreTasks \cup AddTasks \cup MemberTasks \cup {Nil}]

Adding(w) == At(w, "locked") \/ At(w, "demoted")

\* A user that is being added is not there, and only one request adds it.
Newcomers ==
    \A w \in Managers : Adding(w) =>
        /\ task[w].rows \subseteq Team /\ task[w].member \notin Team
        /\ \A v \in Managers : v # w /\ Adding(v) => task[v].member # task[w].member

Editing == \A w \in Managers : At(w, "member") \/ At(w, "toggle") => task[w].member \in Team

OneAtMost == \A m, n \in Primaries : m = n

TInv == TeamTypes /\ Newcomers /\ Editing /\ OneAtMost

LEMMA TeamBegins == TeamInit => TInv
<1> SUFFICES ASSUME TeamInit PROVE TInv
  OBVIOUS
<1>1. PICK users \in {{}} \cup {{m} : m \in Members} :
        member = [m \in Members |-> IF m \in users THEN [primary |-> TRUE, active |-> TRUE] ELSE Nil]
  BY DEF TeamInit
<1>2. [primary |-> TRUE, active |-> TRUE] \in MemberRows
  BY DEF MemberRows
<1>3. member \in [Members -> MemberRows \cup {Nil}]
  BY <1>1, <1>2
<1>4. store \in StoreRows
  BY DEF TeamInit, StoreRows, Statuses
<1>5. TeamTypes
  BY <1>3, <1>4 DEF TeamInit, TeamTypes
<1>6. OneAtMost
  BY <1>1 DEF OneAtMost, Primaries, Team
<1> QED
  BY <1>5, <1>6 DEF TInv, TeamInit, Newcomers, Editing, Adding, At

\* What kind of row a task is, by its step.
LEMMA TaskKinds ==
    ASSUME TeamTypes, NEW w \in Managers
    PROVE  /\ At(w, "status") => task[w] \in StatusTasks
           /\ At(w, "store") => task[w] \in StoreTasks
           /\ Adding(w) => task[w] \in AddTasks
           /\ At(w, "member") \/ At(w, "toggle") => task[w] \in MemberTasks
  BY DEF TeamTypes, At, Adding, StatusTasks, StoreTasks, AddTasks, MemberTasks

\* A request goes on or ends, and no user changes.
LEMMA TaskStep ==
    ASSUME TInv, NEW w \in Managers, member' = member, store' \in StoreRows,
           NEW row \in StatusTasks \cup StoreTasks \cup AddTasks \cup MemberTasks \cup {Nil},
           task' = [task EXCEPT ![w] = row],
           row # Nil /\ row.step \in {"locked", "demoted"} =>
              /\ row.rows \subseteq Team /\ row.member \notin Team
              /\ \A v \in Managers : v # w /\ Adding(v) => task[v].member # row.member,
           row # Nil /\ row.step \in {"member", "toggle"} => row.member \in Team
    PROVE  TInv'
<1>1. task'[w] = row /\ \A v \in Managers \ {w} : task'[v] = task[v]
  BY DEF TInv, TeamTypes
<1>2. Team' = Team /\ Primaries' = Primaries
  BY DEF Team, Primaries
<1>3. TeamTypes'
  BY DEF TInv, TeamTypes
<1>4. Newcomers'
  BY <1>1, <1>2 DEF TInv, Newcomers, Adding, At
<1>5. Editing'
  BY <1>1, <1>2 DEF TInv, Editing, At
<1>6. OneAtMost'
  BY <1>2 DEF TInv, OneAtMost
<1> QED
  BY <1>3, <1>4, <1>5, <1>6 DEF TInv

\* A request ends with the users changed: users stay, and one may be new.
LEMMA TeamChanged ==
    ASSUME TInv, NEW w \in Managers, task' = [task EXCEPT ![w] = Nil], store' = store,
           member' \in [Members -> MemberRows \cup {Nil}],
           Team \subseteq Team',
           \A m \in Team' \ Team : Adding(w) /\ m = task[w].member,
           OneAtMost'
    PROVE  TInv'
<1>1. task'[w] = Nil /\ \A v \in Managers \ {w} : task'[v] = task[v]
  BY DEF TInv, TeamTypes
<1>2. TeamTypes'
  BY DEF TInv, TeamTypes
<1>3. Newcomers'
  <2> SUFFICES ASSUME NEW v \in Managers, Adding(v)'
               PROVE  /\ task'[v].rows \subseteq Team' /\ task'[v].member \notin Team'
                      /\ \A x \in Managers : x # v /\ Adding(x)' => task'[x].member # task'[v].member
    BY DEF Newcomers
  <2>1. v # w /\ task'[v] = task[v] /\ Adding(v)
    BY <1>1 DEF Adding, At
  <2>2. task[v].rows \subseteq Team /\ task[v].member \notin Team
    BY <2>1 DEF TInv, Newcomers
  <2>3. task[v].member \notin Team'
    BY <2>1, <2>2 DEF TInv, Newcomers
  <2>4. ASSUME NEW x \in Managers, x # v, Adding(x)' PROVE task'[x].member # task'[v].member
    <3>1. x # w /\ task'[x] = task[x] /\ Adding(x)
      BY <2>4, <1>1 DEF Adding, At
    <3> QED
      BY <3>1, <2>1, <2>4 DEF TInv, Newcomers
  <2> QED
    BY <2>1, <2>2, <2>3, <2>4
<1>4. Editing'
  BY <1>1 DEF TInv, Editing, At
<1> QED
  BY <1>2, <1>3, <1>4 DEF TInv

LEMMA TeamStep == TInv /\ TeamNext => TInv'
<1> SUFFICES ASSUME TInv, TeamNext PROVE TInv'
  OBVIOUS
<1> USE DEF TInv
<1>1. ASSUME NEW w \in Managers, NEW new \in Statuses, StatusBegins(w, new) PROVE TInv'
  <2> DEFINE row == [step |-> "status", read |-> store, new |-> new]
  <2>1. row \in StatusTasks /\ row.step = "status"
    BY <1>1 DEF StatusBegins, StatusTasks, TeamTypes
  <2>2. task' = [task EXCEPT ![w] = row] /\ UNCHANGED <<store, member>>
    BY <1>1 DEF StatusBegins
  <2> HIDE DEF row
  <2> QED
    BY <2>1, <2>2, TaskStep DEF TeamTypes
<1>2. ASSUME NEW w \in Managers, StatusSaved(w) PROVE TInv'
  <2>1. task[w] \in StatusTasks
    BY <1>2, TaskKinds DEF StatusSaved
  <2>2. store' \in StoreRows
    BY <1>2, <2>1 DEF StatusSaved, StatusTasks, StoreRows, TeamTypes
  <2> QED
    BY <1>2, <2>2, TaskStep DEF StatusSaved, Ends
<1>3. ASSUME NEW w \in Managers, NEW active \in BOOLEAN, StoreEditBegins(w, active) PROVE TInv'
  <2> DEFINE row == [step |-> "store", read |-> store, new |-> active]
  <2>1. row \in StoreTasks /\ row.step = "store"
    BY <1>3 DEF StoreTasks, TeamTypes
  <2>2. task' = [task EXCEPT ![w] = row] /\ UNCHANGED <<store, member>>
    BY <1>3 DEF StoreEditBegins
  <2> HIDE DEF row
  <2> QED
    BY <2>1, <2>2, TaskStep DEF TeamTypes
<1>4. ASSUME NEW w \in Managers, StoreEditSaved(w) PROVE TInv'
  <2>1. task[w] \in StoreTasks
    BY <1>4, TaskKinds DEF StoreEditSaved
  <2>2. store' \in StoreRows
    BY <1>4, <2>1 DEF StoreEditSaved, StoreTasks, StoreRows
  <2> QED
    BY <1>4, <2>2, TaskStep DEF StoreEditSaved, Ends
<1>5. ASSUME NEW w \in Managers, NEW m \in Members, NEW primary \in BOOLEAN, AddBegins(w, m, primary) PROVE TInv'
  <2> DEFINE row == [step |-> "locked", rows |-> Team, member |-> m, primary |-> primary]
  <2>1. Team \subseteq Members
    BY DEF Team
  <2>2. row \in AddTasks /\ row.step = "locked" /\ row.rows = Team /\ row.member = m
    BY <2>1 DEF AddTasks
  <2>3. task' = [task EXCEPT ![w] = row] /\ UNCHANGED <<store, member>>
    BY <1>5 DEF AddBegins
  <2>4. \A v \in Managers : Adding(v) => task[v].member # m
    BY <1>5 DEF AddBegins, Adding
  <2>5. m \notin Team
    BY <1>5 DEF AddBegins
  <2> HIDE DEF row
  <2> QED
    BY <2>2, <2>3, <2>4, <2>5, TaskStep DEF TeamTypes
<1>6. ASSUME NEW w \in Managers, AddDemotes(w) PROVE TInv'
  <2>1. task[w] \in AddTasks /\ Adding(w)
    BY <1>6, TaskKinds DEF AddDemotes, Adding
  <2>2. PICK rows \in {task[w].rows, task[w].rows \cup Primaries} :
          task' = [task EXCEPT ![w] = [task[w] EXCEPT !.step = "demoted", !.rows = rows]]
    BY <1>6, <2>1 DEF AddDemotes, TeamTypes
  <2> DEFINE row == [task[w] EXCEPT !.step = "demoted", !.rows = rows]
  <2>3. Primaries \subseteq Team /\ Team \subseteq Members
    BY DEF Primaries, Team
  <2>4. rows \subseteq Team
    BY <2>1, <2>3 DEF Newcomers
  <2>5. row \in AddTasks /\ row.step = "demoted" /\ row.rows = rows /\ row.member = task[w].member
    BY <2>1, <2>3, <2>4 DEF AddTasks
  <2>6. task' = [task EXCEPT ![w] = row] /\ UNCHANGED <<store, member>>
    BY <2>2, <1>6 DEF AddDemotes
  <2>7. /\ row.member \notin Team
        /\ \A v \in Managers : v # w /\ Adding(v) => task[v].member # row.member
    BY <2>1, <2>5 DEF Newcomers
  <2> HIDE DEF row
  <2> QED
    BY <2>4, <2>5, <2>6, <2>7, TaskStep DEF TeamTypes
<1>7. ASSUME NEW w \in Managers, AddCommits(w) PROVE TInv'
  <2> DEFINE a == task[w].member
  <2>1. task[w] \in AddTasks /\ Adding(w)
    BY <1>7, TaskKinds DEF AddCommits, Adding
  <2>2. a \in Members /\ a \notin Team /\ task[w].rows \subseteq Team /\ task[w].primary \in BOOLEAN
    BY <2>1 DEF AddTasks, Newcomers
  <2>3. /\ [primary |-> task[w].primary, active |-> TRUE] \in MemberRows
        /\ [primary |-> task[w].primary, active |-> TRUE] # Nil
    <3> DEFINE p == task[w].primary
    <3> p \in BOOLEAN
      BY <2>2
    <3> HIDE DEF p
    <3>1. [primary |-> p, active |-> TRUE] \in MemberRows
      BY DEF MemberRows
    <3> QED
      BY <3>1, NilAssumption DEF p
  <2>4. \A m \in Team : /\ [member[m] EXCEPT !.primary = FALSE] \in MemberRows
                        /\ [member[m] EXCEPT !.primary = FALSE].primary = FALSE
                        /\ [member[m] EXCEPT !.primary = FALSE] # Nil
    BY NilAssumption DEF Team, TeamTypes, MemberRows
  <2>5. /\ member'[a] = [primary |-> task[w].primary, active |-> TRUE]
        /\ \A m \in Members \ {a} : member'[m] =
              IF task[w].primary /\ m \in task[w].rows THEN [member[m] EXCEPT !.primary = FALSE] ELSE member[m]
    BY <1>7, <2>2 DEF AddCommits
  <2>6. member' = [m \in Members |-> member'[m]]
    BY <1>7 DEF AddCommits
  <2>7. member' \in [Members -> MemberRows \cup {Nil}]
    <3>1. \A m \in Members : member'[m] \in MemberRows \cup {Nil}
      BY <2>2, <2>3, <2>4, <2>5 DEF TeamTypes
    <3> QED
      BY <2>6, <3>1
  <2>8. Team' = Team \cup {a}
    BY <2>2, <2>3, <2>4, <2>5 DEF Team
  <2>9. ASSUME task[w].primary PROVE OneAtMost'
    <3>1. \A m \in Primaries' : m = a
      <4> SUFFICES ASSUME NEW m \in Team, m # a, member'[m].primary PROVE FALSE
        BY <2>8 DEF Primaries
      <4>1. m \in Members
        BY DEF Team
      <4>2. CASE m \in task[w].rows
        BY <2>4, <2>5, <2>9, <4>1, <4>2
      <4>3. CASE m \notin task[w].rows
        <5>1. member'[m] = member[m]
          BY <2>5, <4>1, <4>3
        <5>2. m \in Primaries
          BY <5>1 DEF Primaries
        <5> QED
          BY <5>2, <4>3, <1>7, <2>9 DEF AddCommits, PrimaryFree
      <4> QED
        BY <4>2, <4>3
    <3> QED
      BY <3>1 DEF OneAtMost
  <2>10. ASSUME ~task[w].primary PROVE OneAtMost'
    <3>1. Primaries' \subseteq Primaries
      BY <2>5, <2>8, <2>10 DEF Primaries, Team
    <3> QED
      BY <3>1 DEF OneAtMost
  <2>11. OneAtMost'
    BY <2>9, <2>10
  <2> QED
    BY <2>1, <2>7, <2>8, <2>11, <1>7, TeamChanged DEF AddCommits, Ends
<1>8. ASSUME NEW w \in Managers, NEW step \in {"member", "toggle"}, NEW m \in Members,
             NEW primary \in BOOLEAN, MemberBegins(w, step, m, primary)
      PROVE  TInv'
  <2> DEFINE row == [step |-> step, read |-> member[m], member |-> m, primary |-> primary]
  <2>1. member[m] \in MemberRows /\ m \in Team
    BY <1>8 DEF MemberBegins, Team, TeamTypes
  <2>2. row \in MemberTasks /\ row.step \in {"member", "toggle"} /\ row.member = m
    BY <2>1 DEF MemberTasks
  <2>3. task' = [task EXCEPT ![w] = row] /\ UNCHANGED <<store, member>>
    BY <1>8 DEF MemberBegins
  <2> HIDE DEF row
  <2> QED
    BY <2>1, <2>2, <2>3, TaskStep DEF TeamTypes
<1>9. ASSUME NEW w \in Managers, MemberEditSaved(w) PROVE TInv'
  <2> DEFINE a == task[w].member
             mine == [task[w].read EXCEPT !.primary = task[w].primary]
  <2>1. task[w] \in MemberTasks /\ a \in Team /\ a \in Members
    BY <1>9, TaskKinds DEF MemberEditSaved, Editing, Team
  <2>2. mine \in MemberRows /\ mine # Nil /\ mine.primary = task[w].primary
    BY <2>1, NilAssumption DEF MemberTasks, MemberRows
  <2>3. \A m \in Team : /\ [member[m] EXCEPT !.primary = FALSE] \in MemberRows
                        /\ [member[m] EXCEPT !.primary = FALSE].primary = FALSE
                        /\ [member[m] EXCEPT !.primary = FALSE] # Nil
    BY NilAssumption DEF Team, TeamTypes, MemberRows
  <2>4. member' = [n \in Members |-> IF n = a THEN mine
              ELSE IF n \in Team /\ task[w].primary THEN [member[n] EXCEPT !.primary = FALSE] ELSE member[n]]
    BY <1>9 DEF MemberEditSaved
  <2> HIDE DEF mine
  <2>5. /\ member'[a] = mine
        /\ \A m \in Members \ {a} : member'[m] =
              IF m \in Team /\ task[w].primary THEN [member[m] EXCEPT !.primary = FALSE] ELSE member[m]
    BY <2>1, <2>4
  <2>6. member' \in [Members -> MemberRows \cup {Nil}]
    <3>1. \A m \in Members : member'[m] \in MemberRows \cup {Nil}
      BY <2>2, <2>3, <2>5 DEF TeamTypes
    <3> QED
      BY <2>4, <3>1
  <2>7. Team' = Team
    BY <2>1, <2>2, <2>3, <2>5 DEF Team
  <2>8. OneAtMost'
    <3>1. CASE task[w].primary
      <4>1. \A m \in Primaries' : m = a
        BY <2>3, <2>5, <2>7, <3>1 DEF Primaries, Team
      <4> QED
        BY <4>1 DEF OneAtMost
    <3>2. CASE ~task[w].primary
      <4>1. Primaries' \subseteq Primaries
        BY <2>2, <2>5, <2>7, <3>2 DEF Primaries, Team
      <4> QED
        BY <4>1 DEF OneAtMost
    <3> QED
      BY <3>1, <3>2
  <2> QED
    BY <2>6, <2>7, <2>8, <1>9, TeamChanged DEF MemberEditSaved, Ends
<1>10. ASSUME NEW w \in Managers, MemberToggled(w) PROVE TInv'
  <2> DEFINE a == task[w].member
             row == [member[a] EXCEPT !.active = ~task[w].read.active]
  <2>1. task[w] \in MemberTasks /\ a \in Team /\ a \in Members /\ member[a] \in MemberRows
    BY <1>10, TaskKinds DEF MemberToggled, Editing, Team, TeamTypes
  <2>2. row \in MemberRows /\ row # Nil /\ row.primary = member[a].primary
    BY <2>1, NilAssumption DEF MemberTasks, MemberRows
  <2>3. member' = [member EXCEPT ![a] = row]
    BY <1>10 DEF MemberToggled
  <2> HIDE DEF row
  <2>4. member'[a] = row /\ \A m \in Members \ {a} : member'[m] = member[m]
    BY <2>1, <2>3 DEF TeamTypes
  <2>5. member' \in [Members -> MemberRows \cup {Nil}]
    BY <2>2, <2>3 DEF TeamTypes
  <2>6. Team' = Team /\ Primaries' = Primaries
    BY <2>1, <2>2, <2>4 DEF Team, Primaries
  <2>7. task' = [task EXCEPT ![w] = Nil] /\ store' = store
    BY <1>10 DEF MemberToggled, Ends
  <2>8. OneAtMost'
    BY <2>6 DEF OneAtMost
  <2> QED
    BY <2>5, <2>6, <2>7, <2>8, TeamChanged
<1>11. ASSUME NEW w \in Managers, TaskFails(w) PROVE TInv'
  <2>1. task' = [task EXCEPT ![w] = Nil] /\ UNCHANGED <<store, member>>
    BY <1>11 DEF TaskFails, Ends
  <2> QED
    BY <2>1, TaskStep DEF TeamTypes
<1> QED
  BY <1>1, <1>2, <1>3, <1>4, <1>5, <1>6, <1>7, <1>8, <1>9, <1>10, <1>11 DEF TeamNext

-----------------------------------------------------------------------------
(* The purchase form *)

FormTypes ==
    /\ issued \in 0..MaxForms /\ kept \in Nat /\ kept <= issued
    /\ desk \in [Desks -> DeskRows \cup {Idle}]
    /\ recorded \in [Sheets -> Nat]

WorksOn(d, step, f) == AtStep(d, step) /\ desk[d].form = f

\* A page that has not been issued is nowhere.
Unissued ==
    \A f \in Sheets : f > issued =>
        recorded[f] = 0 /\ \A d \in Desks : desk[d] # Idle => desk[d].form # f

\* While a request has taken the token of a page, no other one has it; as long
\* as somebody can still put it back, the page is not recorded, and while the
\* session has the token of a recorded page, its request has not answered.
OneTaker(f) ==
    /\ recorded[f] <= 1
    /\ \A d, e \in Desks : \A step \in {"record", "answer"}, other \in {"record", "answer", "other"} :
          WorksOn(d, step, f) /\ WorksOn(e, other, f) => d = e
    /\ \A d \in Desks : WorksOn(d, "record", f) \/ WorksOn(d, "other", f) => recorded[f] = 0
    /\ recorded[f] > 0 /\ kept = f => \E d \in Desks : WorksOn(d, "answer", f)

FInv == FormTypes /\ Unissued /\ \A f \in Sheets \ excused : OneTaker(f)

LEMMA FormBegin == FormInit => FInv
  BY FormsAssumption DEF FormInit, FInv, FormTypes, Unissued, OneTaker, WorksOn, AtStep, Sheets

\* A desk becomes free, and the session gets a fresh page or one that its
\* request has loaded.
LEMMA DeskFreed ==
    ASSUME FInv, recorded' = recorded, excused \subseteq excused',
           desk' = desk \/ \E d \in Desks : desk' = [desk EXCEPT ![d] = Idle] /\
              (WorksOn(d, "answer", kept') => kept' \in excused'),
           \/ issued' = issued /\ kept' \in {kept, Spent}
           \/ issued' = issued + 1 /\ kept' = issued + 1 /\ issued < MaxForms
           \/ issued' = issued /\ \E e \in Desks : WorksOn(e, "other", kept')
    PROVE  FInv'
<1>1. \A d \in Desks :
        \/ desk'[d] = desk[d]
        \/ desk'[d] = Idle /\ (WorksOn(d, "answer", kept') => kept' \in excused')
  BY DEF FInv, FormTypes
<1>2. FormTypes'
  <2>1. ASSUME NEW e \in Desks, WorksOn(e, "other", kept') PROVE kept' \in Nat /\ kept' <= issued
    <3>1. desk[e] \in DeskRows /\ desk[e] # Idle /\ desk[e].form = kept'
      BY <2>1 DEF WorksOn, AtStep, FInv, FormTypes
    <3>2. kept' \in 0..MaxForms
      BY <3>1, FormsAssumption DEF DeskRows, Sheets
    <3>3. kept' \in Sheets => ~(kept' > issued)
      BY <3>1 DEF FInv, Unissued
    <3> QED
      BY <3>2, <3>3, FormsAssumption DEF FInv, FormTypes, Sheets
  <2> QED
    BY <2>1, FormsAssumption DEF FInv, FormTypes, Spent
<1>3. Unissued'
  BY <1>1 DEF FInv, FormTypes, Unissued, Sheets
<1>4. ASSUME NEW f \in Sheets, f \notin excused' PROVE OneTaker(f)'
  <2>1. OneTaker(f)
    BY <1>4 DEF FInv
  <2>2. \A d \in Desks, step \in {"record", "answer", "other"} : WorksOn(d, step, f)' => WorksOn(d, step, f)
    BY <1>1 DEF WorksOn, AtStep
  <2>3. ASSUME recorded[f] > 0, kept' = f PROVE \E d \in Desks : WorksOn(d, "answer", f)'
    <3>1. f <= issued
      BY <2>3, <1>4 DEF FInv, FormTypes, Unissued, Sheets
    <3>2. kept = f
      BY <2>1, <2>3, <3>1 DEF FInv, FormTypes, Sheets, Spent, OneTaker
    <3>3. PICK d \in Desks : WorksOn(d, "answer", f)
      BY <2>1, <2>3, <3>2 DEF OneTaker
    <3>4. desk'[d] = desk[d]
      BY <1>1, <1>4, <2>3, <3>3
    <3> QED
      BY <1>1, <3>3, <3>4 DEF WorksOn, AtStep
  <2>4. recorded'[f] = recorded[f]
    OBVIOUS
  <2> QED
    BY <2>1, <2>2, <2>3, <2>4 DEF OneTaker
<1> QED
  BY <1>2, <1>3, <1>4 DEF FInv

\* A desk takes a page, or something else with the token of the session.
LEMMA DeskTaken ==
    ASSUME FInv, NEW d \in Desks, NEW f \in 0..MaxForms, NEW step \in {"record", "refuse", "other"},
           [form |-> f, step |-> step] \in DeskRows,
           desk[d] = Idle, desk' = [desk EXCEPT ![d] = [form |-> f, step |-> step]],
           f <= issued, excused \subseteq excused', UNCHANGED <<issued, kept, recorded>>,
           step # "refuse" =>
              /\ kept = f
              /\ f \notin excused' => ~Recording(f) /\ (step = "record" => ~Copied(f))
    PROVE  FInv'
<1> DEFINE row == [form |-> f, step |-> step]
<1>1. row \in DeskRows /\ row # Idle /\ row.form = f /\ row.step = step
  BY FormsAssumption DEF DeskRows
<1>2. desk' = [desk EXCEPT ![d] = row]
  OBVIOUS
<1> HIDE DEF row
<1>3. desk'[d] = row /\ \A e \in Desks \ {d} : desk'[e] = desk[e]
  BY <1>2 DEF FInv, FormTypes
<1>4. FormTypes'
  BY <1>1, <1>2 DEF FInv, FormTypes
<1>5. Unissued'
  BY <1>1, <1>3 DEF FInv, FormTypes, Unissued, Sheets
<1> DEFINE Holds == {"record", "answer", "other"}
<1>6. ASSUME NEW g \in Sheets, g \notin excused' PROVE OneTaker(g)'
  <2>1. OneTaker(g)
    BY <1>6 DEF FInv
  <2>2. \A e \in Desks \ {d}, s \in Holds : WorksOn(e, s, g)' <=> WorksOn(e, s, g)
    BY <1>3 DEF WorksOn, AtStep
  <2>3. \A s \in Holds : ~WorksOn(d, s, g) /\ (WorksOn(d, s, g)' <=> g = f /\ s = step)
    BY <1>1, <1>3 DEF WorksOn, AtStep
  <2>4. ASSUME g = f, step # "refuse"
        PROVE  /\ recorded[g] = 0
               /\ \A e \in Desks, s \in {"record", "answer"} : ~WorksOn(e, s, g)
               /\ step = "record" => \A e \in Desks : ~WorksOn(e, "other", g)
    <3>1. \A e \in Desks, s \in {"record", "answer"} : ~WorksOn(e, s, g)
      BY <1>6, <2>4 DEF WorksOn, Recording
    <3>2. step = "record" => \A e \in Desks : ~WorksOn(e, "other", g)
      BY <1>6, <2>4 DEF WorksOn, Copied
    <3>3. recorded[g] \in Nat /\ ~(recorded[g] > 0)
      BY <2>1, <2>4, <3>1 DEF OneTaker, FInv, FormTypes
    <3> QED
      BY <3>1, <3>2, <3>3
  <2>5. ASSUME NEW a \in Desks, NEW e \in Desks, NEW s \in {"record", "answer"}, NEW t \in Holds,
               WorksOn(a, s, g)', WorksOn(e, t, g)'
        PROVE  a = e
    <3>1. CASE a = d
      BY <3>1, <2>2, <2>3, <2>4, <2>5
    <3>2. CASE a # d
      BY <3>2, <2>1, <2>2, <2>3, <2>4, <2>5 DEF OneTaker
    <3> QED
      BY <3>1, <3>2
  <2>6. ASSUME NEW e \in Desks, WorksOn(e, "record", g)' \/ WorksOn(e, "other", g)' PROVE recorded[g] = 0
    BY <2>1, <2>2, <2>3, <2>4, <2>6 DEF OneTaker
  <2>7. recorded[g] > 0 /\ kept = g => \E e \in Desks : WorksOn(e, "answer", g)'
    BY <2>1, <2>2, <2>3 DEF OneTaker
  <2> QED
    BY <2>1, <2>5, <2>6, <2>7 DEF OneTaker
<1> QED
  BY <1>4, <1>5, <1>6 DEF FInv

LEMMA FormStep == FInv /\ FormNext => FInv'
<1> SUFFICES ASSUME FInv, FormNext PROVE FInv'
  OBVIOUS
<1>1. CASE OpenForm
  BY <1>1, DeskFreed DEF OpenForm, Issue
<1>2. ASSUME NEW d \in Desks, NEW f \in Sheets, Submit(d, f) PROVE FInv'
  <2>1. PICK step \in {"record", "refuse"} :
          /\ desk' = [desk EXCEPT ![d] = [form |-> f, step |-> step]]
          /\ step = "record" => kept = f /\ (f \notin excused' => ~Recording(f) /\ ~Copied(f))
    BY <1>2 DEF Submit, Consumed
  <2>2. /\ [form |-> f, step |-> step] \in DeskRows /\ f \in 0..MaxForms
        /\ desk[d] = Idle /\ f <= issued
        /\ excused \subseteq excused' /\ UNCHANGED <<issued, kept, recorded>>
    BY <1>2, FormsAssumption DEF Submit, DeskRows, Sheets
  <2> QED
    BY <2>1, <2>2, DeskTaken
<1>3. ASSUME NEW d \in Desks, OtherBegins(d) PROVE FInv'
  <2>1. /\ kept \in Nat /\ kept <= issued /\ (kept \in Sheets => kept \in 0..MaxForms)
        /\ desk[d] = Idle
        /\ desk' = [desk EXCEPT ![d] = [form |-> kept, step |-> "other"]]
        /\ excused \subseteq excused' /\ UNCHANGED <<issued, kept, recorded>>
        /\ kept \notin excused' => ~Recording(kept)
    BY <1>3, FormsAssumption DEF OtherBegins, FInv, FormTypes, Sheets
  <2>2. kept \in 0..MaxForms /\ [form |-> kept, step |-> "other"] \in DeskRows
    BY <2>1, FormsAssumption DEF DeskRows, FInv, FormTypes
  <2> QED
    BY <2>1, <2>2, DeskTaken
<1>4. ASSUME NEW d \in Desks, OtherAnswered(d) PROVE FInv'
  <2>1. WorksOn(d, "other", kept') /\ ~WorksOn(d, "answer", kept')
    BY <1>4 DEF OtherAnswered, WorksOn, AtStep
  <2> QED
    BY <1>4, <2>1, DeskFreed DEF OtherAnswered
<1>5. ASSUME NEW d \in Desks, RecordPurchase(d) PROVE FInv'
  <2> DEFINE f == desk[d].form
             row == [desk[d] EXCEPT !.step = "answer"]
  <2>1. desk[d] \in DeskRows /\ WorksOn(d, "record", f) /\ f \in Sheets
    BY <1>5 DEF RecordPurchase, AtStep, WorksOn, FInv, FormTypes, DeskRows
  <2>2. row \in DeskRows /\ row # Idle /\ row.form = f /\ row.step = "answer"
    BY <2>1, FormsAssumption DEF DeskRows
  <2>3. desk' = [desk EXCEPT ![d] = row] /\ UNCHANGED <<issued, kept, excused>>
    BY <1>5, <2>1 DEF RecordPurchase, FInv, FormTypes
  <2>4. /\ recorded' \in [Sheets -> Nat] /\ recorded'[f] = recorded[f] + 1
        /\ \A g \in Sheets \ {f} : recorded'[g] = recorded[g]
    BY <1>5, <2>1 DEF RecordPurchase, FInv, FormTypes
  <2> HIDE DEF row
  <2>5. desk'[d] = row /\ \A e \in Desks \ {d} : desk'[e] = desk[e]
    BY <2>3 DEF FInv, FormTypes
  <2>6. FormTypes'
    BY <2>2, <2>3, <2>4 DEF FInv, FormTypes
  <2>7. f <= issued
    BY <2>1 DEF FInv, FormTypes, Unissued, WorksOn, AtStep, Sheets
  <2>8. Unissued'
    BY <2>2, <2>3, <2>4, <2>5, <2>7 DEF FInv, FormTypes, Unissued, Sheets
  <2>9. ASSUME NEW g \in Sheets, g \notin excused' PROVE OneTaker(g)'
    <3>1. OneTaker(g)
      BY <2>3, <2>9 DEF FInv
    <3>2. \A e \in Desks \ {d}, s \in {"record", "answer", "other"} : WorksOn(e, s, g)' <=> WorksOn(e, s, g)
      BY <2>5 DEF WorksOn, AtStep
    <3>3. \A s \in {"record", "answer", "other"} : WorksOn(d, s, g)' <=> g = f /\ s = "answer"
      BY <2>2, <2>5 DEF WorksOn, AtStep
    <3>4. CASE g = f
      <4>1. recorded[f] = 0 /\ \A e \in Desks \ {d}, s \in {"record", "answer", "other"} : ~WorksOn(e, s, g)
        BY <2>1, <3>1, <3>4 DEF OneTaker
      <4> QED
        BY <3>2, <3>3, <3>4, <4>1, <2>4 DEF OneTaker
    <3>5. CASE g # f
      <4>1. \A e \in Desks, s \in {"record", "answer", "other"} : WorksOn(e, s, g)' <=> WorksOn(e, s, g)
        BY <2>1, <3>2, <3>3, <3>5 DEF WorksOn, AtStep
      <4> QED
        BY <3>1, <3>5, <4>1, <2>3, <2>4 DEF OneTaker
    <3> QED
      BY <3>4, <3>5
  <2> QED
    BY <2>6, <2>8, <2>9 DEF FInv
<1>6. ASSUME NEW d \in Desks, AnswerRecorded(d) PROVE FInv'
  <2>1. ~WorksOn(d, "answer", Spent)
    BY <1>6 DEF AnswerRecorded, AtStep, WorksOn, Spent, FInv, FormTypes, DeskRows, Sheets
  <2> QED
    BY <1>6, <2>1, DeskFreed DEF AnswerRecorded
<1>7. ASSUME NEW d \in Desks, AnswerRefused(d) PROVE FInv'
  <2>1. ~WorksOn(d, "answer", kept')
    BY <1>7 DEF AnswerRefused, AtStep, WorksOn
  <2> QED
    BY <1>7, <2>1, DeskFreed DEF AnswerRefused, Issue
<1>8. ASSUME NEW d \in Desks, DeskLost(d) PROVE FInv'
  <2>1. WorksOn(d, "answer", kept') => kept' \in excused'
    BY <1>8 DEF DeskLost, WorksOn
  <2>2. excused \subseteq excused'
    BY <1>8 DEF DeskLost
  <2> QED
    BY <1>8, <2>1, <2>2, DeskFreed DEF DeskLost
<1> QED
  BY <1>1, <1>2, <1>3, <1>4, <1>5, <1>6, <1>7, <1>8 DEF FormNext

-----------------------------------------------------------------------------
(* The address book *)

CreationRows ==
    [step : {"decided", "demote", "insert", "commit"}, default : BOOLEAN,
     seen : SUBSET Addresses, demoted : SUBSET Addresses, row : 0..MaxAddresses]

BookTypes ==
    /\ address \in [Addresses -> AddressRows \cup {NoRow}]
    /\ creation \in [Tabs -> CreationRows \cup {NoRow}]

Existing == {a \in Addresses : address[a] # NoRow}

\* Only a default address demotes others; one that is not saw another address.
Demotions ==
    \A t \in Tabs : creation[t] # NoRow =>
        /\ creation[t].demoted \subseteq Existing
        /\ ~creation[t].default => creation[t].seen # {} /\ creation[t].demoted = {}

\* The inserted rows are new, and different.
NewRows ==
    \A t \in Tabs : Creating(t, "commit") =>
        /\ creation[t].row \in Addresses /\ address[creation[t].row] = NoRow
        /\ \A u \in Tabs : u # t /\ Creating(u, "commit") => creation[u].row # creation[t].row

\* The default address about to be committed is alone, and demotes all others.
OnePending ==
    \A t \in Tabs : Creating(t, "commit") /\ creation[t].default =>
        /\ Defaults \subseteq creation[t].demoted
        /\ \A u \in Tabs : Creating(u, "commit") /\ creation[u].default => u = t

OneDefault == \A a, b \in Defaults : a = b

BInv == BookTypes /\ Demotions /\ NewRows /\ OnePending /\ OneDefault

\* What DefaultKept says of a step of the address book.
StaysSettled == Settled => Settled' \/ \E t \in Tabs : Overtaken(t) /\ creation'[t] = NoRow

LEMMA BookBegins == BookInit => BInv
  BY DEF BookInit, BInv, BookTypes, Demotions, NewRows, OnePending, OneDefault, Creating, Defaults, Active

\* A set of addresses that is not empty has a newest one.
LEMMA Newest ==
    ASSUME NEW S \in SUBSET Addresses, S # {}
    PROVE  \E b \in S : \A c \in S : c <= b
<1> DEFINE T == {MaxAddresses - b : b \in S}
<1>1. T \subseteq Nat /\ T # {}
  <2>1. \A b \in S : MaxAddresses - b \in Nat
    BY BookAssumption DEF Addresses
  <2> QED
    BY <2>1
<1>2. IsWellFoundedOn(OpToRel(<, Nat), Nat)
  BY NatLessThanWellFounded
<1> HIDE DEF T
<1>3. PICK x \in T : \A y \in T : ~(<<y, x>> \in OpToRel(<, Nat))
  BY <1>1, <1>2, WFMin
<1>4. \A y \in T : ~(y < x)
  BY <1>1, <1>3 DEF OpToRel
<1>5. PICK b \in S : x = MaxAddresses - b
  BY DEF T
<1>6. \A c \in S : ~(MaxAddresses - c < MaxAddresses - b)
  BY <1>4, <1>5 DEF T
<1> QED
  BY <1>5, <1>6, BookAssumption DEF Addresses

LEMMA ReplacementsSound ==
    ASSUME NEW a \in Active
    PROVE  /\ Replacements(a) \subseteq Active \ {a}
           /\ \A b, c \in Replacements(a) : b = c
           /\ Active \ {a} # {} => Replacements(a) # {}
<1>1. Active \ {a} \in SUBSET Addresses
  BY DEF Active
<1>2. Active \ {a} # {} => Replacements(a) # {}
  BY <1>1, Newest DEF Replacements
<1>3. \A b, c \in Replacements(a) : b = c
  BY <1>1, BookAssumption DEF Replacements, Addresses
<1> QED
  BY <1>2, <1>3 DEF Replacements

\* An address after a save that chose these and deactivated those.
SavedRow(b, chosen, gone) ==
    IF b \in gone THEN [active |-> FALSE, default |-> FALSE]
    ELSE IF b \in Active THEN [address[b] EXCEPT !.default = b \in chosen] ELSE address[b]

\* The defaults after such a save.
LEMMA Rewritten ==
    ASSUME BInv, NEW chosen, NEW gone \in SUBSET Active, creation' = creation,
           address' \in [Addresses -> AddressRows \cup {NoRow}],
           \A b \in Addresses : address'[b] = SavedRow(b, chosen, gone),
           \A b, c \in (chosen \cap Active) \ gone : b = c,
           DefaultPending => chosen \subseteq Defaults
    PROVE  /\ BInv'
           /\ Active' = Active \ gone
           /\ Defaults' = (chosen \cap Active) \ gone
<1>1. \A b \in Active : address[b] \in AddressRows /\ b \in Addresses
  BY DEF Active, BInv, BookTypes
<1>2. /\ [active |-> FALSE, default |-> FALSE] \in AddressRows
      /\ [active |-> FALSE, default |-> FALSE].active = FALSE
  BY DEF AddressRows
<1>3. \A b \in Active, d \in BOOLEAN :
        /\ [address[b] EXCEPT !.default = d] \in AddressRows
        /\ [address[b] EXCEPT !.default = d].active = address[b].active
        /\ [address[b] EXCEPT !.default = d].default = d
  BY <1>1 DEF AddressRows
<1>4. \A b \in gone : address'[b] \in AddressRows /\ address'[b].active = FALSE
  BY <1>1, <1>2 DEF SavedRow
<1>5. \A b \in Active \ gone :
        /\ address'[b] \in AddressRows /\ address'[b].active
        /\ address'[b].default <=> b \in chosen
  <2> SUFFICES ASSUME NEW b \in Active \ gone
               PROVE  /\ address'[b] \in AddressRows /\ address'[b].active
                      /\ address'[b].default <=> b \in chosen
    OBVIOUS
  <2>1. b \in Addresses /\ address'[b] = [address[b] EXCEPT !.default = b \in chosen]
    BY <1>1 DEF SavedRow
  <2>2. CASE b \in chosen
    <3>1. (b \in chosen) = TRUE
      BY <2>2
    <3>2. address'[b] = [address[b] EXCEPT !.default = TRUE]
      BY <2>1, <3>1
    <3> QED
      BY <1>3, <2>2, <3>2 DEF Active
  <2>3. CASE b \notin chosen
    <3>1. (b \in chosen) = FALSE
      BY <2>3
    <3>2. address'[b] = [address[b] EXCEPT !.default = FALSE]
      BY <2>1, <3>1
    <3> QED
      BY <1>3, <2>3, <3>2 DEF Active
  <2> QED
    BY <2>2, <2>3
<1>6. \A b \in Addresses \ Active : address'[b] = address[b]
  BY DEF SavedRow
<1>7. Active' = Active \ gone
  <2>1. \A b \in Addresses : address'[b] # NoRow /\ address'[b].active <=> b \in Active \ gone
    <3> SUFFICES ASSUME NEW b \in Addresses
                 PROVE  address'[b] # NoRow /\ address'[b].active <=> b \in Active \ gone
      OBVIOUS
    <3>1. CASE b \in gone
      BY <1>4, <3>1
    <3>2. CASE b \in Active \ gone
      BY <1>5, <3>2, BookAssumption
    <3>3. CASE b \notin Active
      BY <1>6, <3>3 DEF Active
    <3> QED
      BY <3>1, <3>2, <3>3
  <2> QED
    BY <2>1, <1>1 DEF Active
<1>8. Defaults' = (chosen \cap Active) \ gone
  <2>1. Defaults' = {b \in Active \ gone : address'[b].default}
    BY <1>7 DEF Defaults
  <2>2. \A b \in Active \ gone : address'[b].default <=> b \in chosen
    BY <1>5
  <2> QED
    BY <2>1, <2>2
<1>9. Existing' = Existing
  <2>1. \A b \in Active : address'[b] # NoRow /\ address[b] # NoRow
    BY <1>1, <1>4, <1>5, BookAssumption
  <2>2. \A b \in Addresses : address'[b] # NoRow <=> address[b] # NoRow
    BY <1>6, <2>1
  <2> QED
    BY <2>2 DEF Existing
<1>10. BookTypes'
  BY DEF BInv, BookTypes
<1>11. Demotions'
  BY <1>9 DEF BInv, Demotions
<1>12. NewRows'
  BY <1>9 DEF BInv, NewRows, Creating, Existing
<1>13. OnePending'
  BY <1>8 DEF BInv, OnePending, Creating, DefaultPending
<1>14. OneDefault'
  BY <1>8 DEF OneDefault
<1> QED
  BY <1>7, <1>8, <1>10, <1>11, <1>12, <1>13, <1>14 DEF BInv

\* A save writes address rows.
LEMMA WithDefaultTypes ==
    ASSUME BInv, NEW chosen
    PROVE  WithDefault(chosen) \in [Addresses -> AddressRows \cup {NoRow}]
<1> SUFFICES ASSUME NEW b \in Active
             PROVE  [address[b] EXCEPT !.default = b \in chosen] \in AddressRows
  BY DEF WithDefault, BInv, BookTypes
<1> DEFINE d == b \in chosen
<1>1. d \in BOOLEAN /\ address[b] \in AddressRows
  BY DEF Active, BInv, BookTypes
<1> HIDE DEF d
<1>2. [address[b] EXCEPT !.default = d] \in AddressRows
  BY <1>1 DEF AddressRows
<1> QED
  BY <1>2 DEF d

\* A save that deactivates nothing.
LEMMA ChosenSaved ==
    ASSUME BInv, NEW chosen \in SUBSET Active, creation' = creation,
           address' = WithDefault(chosen),
           \A b, c \in chosen : b = c,
           DefaultPending => chosen \subseteq Defaults
    PROVE  BInv' /\ Active' = Active /\ Defaults' = chosen
<1>1. address' \in [Addresses -> AddressRows \cup {NoRow}]
  BY WithDefaultTypes
<1> PICK gone \in SUBSET Active : gone = {}
  OBVIOUS
<1>2. \A b \in Addresses : address'[b] = SavedRow(b, chosen, gone)
  BY DEF WithDefault, SavedRow
<1>3. \A b, c \in (chosen \cap Active) \ gone : b = c
  OBVIOUS
<1>4. BInv' /\ Active' = Active \ gone /\ Defaults' = (chosen \cap Active) \ gone
  BY <1>1, <1>2, <1>3, Rewritten, SMTT(30)
<1> QED
  BY <1>4

\* A request for a new address goes on or ends, and no row is written.
LEMMA CreationStep ==
    ASSUME BInv, NEW t \in Tabs, address' = address,
           NEW row \in CreationRows \cup {NoRow}, creation' = [creation EXCEPT ![t] = row],
           row # NoRow =>
              /\ row.demoted \subseteq Existing
              /\ ~row.default => row.seen # {} /\ row.demoted = {},
           row # NoRow /\ row.step = "commit" =>
              /\ row.row \in Addresses /\ address[row.row] = NoRow
              /\ \A u \in Tabs : u # t /\ Creating(u, "commit") => creation[u].row # row.row
              /\ row.default => Defaults \subseteq row.demoted /\ ~DefaultPending
    PROVE  BInv' /\ StaysSettled
<1>1. creation'[t] = row /\ \A u \in Tabs \ {t} : creation'[u] = creation[u]
  BY DEF BInv, BookTypes
<1>2. Existing' = Existing /\ Active' = Active /\ Defaults' = Defaults
  BY DEF Existing, Active, Defaults
<1>3. BookTypes'
  BY DEF BInv, BookTypes
<1>4. Demotions'
  BY <1>1, <1>2 DEF BInv, Demotions
<1>5. \A u \in Tabs \ {t} : Creating(u, "commit")' <=> Creating(u, "commit")
  BY <1>1 DEF Creating
<1>6. NewRows'
  BY <1>1, <1>5 DEF BInv, NewRows, Creating
<1>7. OnePending'
  BY <1>1, <1>2, <1>5 DEF BInv, OnePending, Creating, DefaultPending
<1>8. OneDefault'
  BY <1>2 DEF BInv, OneDefault
<1> QED
  BY <1>2, <1>3, <1>4, <1>6, <1>7, <1>8 DEF BInv, StaysSettled, Settled

LEMMA BookStep == BInv /\ BookNext => BInv' /\ StaysSettled
<1> SUFFICES ASSUME BInv, BookNext PROVE BInv' /\ StaysSettled
  OBVIOUS
<1>a. Active \subseteq Existing /\ Defaults \subseteq Active /\ Existing \subseteq Addresses
  BY DEF Active, Defaults, Existing
<1>1. ASSUME NEW t \in Tabs, NEW want \in BOOLEAN, CreateBegins(t, want) PROVE BInv' /\ StaysSettled
  <2> DEFINE d == IsDefault(Active, want)
             row == [step |-> "decided", default |-> d, seen |-> Active, demoted |-> {}, row |-> 0]
  <2>1. d \in BOOLEAN /\ (~d => Active # {})
    BY DEF IsDefault
  <2>2. creation' = [creation EXCEPT ![t] = row] /\ address' = address
    BY <1>1 DEF CreateBegins
  <2> HIDE DEF d
  <2>3. row \in CreationRows /\ row.step = "decided" /\ row.demoted = {} /\ row.seen = Active /\ row.default = d
    BY <2>1, <1>a, BookAssumption DEF CreationRows
  <2> HIDE DEF row
  <2> QED
    BY <2>1, <2>2, <2>3, CreationStep
<1>2. ASSUME NEW t \in Tabs, DemotionBegins(t) \/ Demotes(t) PROVE BInv' /\ StaysSettled
  <2>1. creation[t] \in CreationRows /\ creation[t] # NoRow
    BY <1>2 DEF DemotionBegins, Demotes, Creating, BInv, BookTypes
  <2>2. PICK step \in {"demote", "insert"}, demoted \in SUBSET Defaults :
          /\ creation' = [creation EXCEPT ![t].step = step, ![t].demoted = demoted]
          /\ ~creation[t].default => demoted = {}
    <3>1. CASE DemotionBegins(t)
      BY <3>1 DEF DemotionBegins
    <3>2. CASE Demotes(t)
      <4>1. ~creation[t].default => creation[t].demoted = {}
        BY <2>1 DEF BInv, Demotions
      <4>2. creation' = [creation EXCEPT ![t].step = "insert", ![t].demoted = creation[t].demoted \cap Defaults]
        BY <3>2 DEF Demotes
      <4> QED
        BY <4>1, <4>2
    <3> QED
      BY <1>2, <3>1, <3>2
  <2> DEFINE row == [creation[t] EXCEPT !.step = step, !.demoted = demoted]
  <2>3. /\ row \in CreationRows /\ row.step = step /\ row.demoted = demoted
        /\ row.default = creation[t].default /\ row.seen = creation[t].seen
    BY <2>1, <1>a DEF CreationRows
  <2>4. creation' = [creation EXCEPT ![t] = row] /\ address' = address
    BY <2>2, <1>2 DEF DemotionBegins, Demotes, BInv, BookTypes
  <2>5. ~row.default => row.seen # {} /\ row.demoted = {}
    BY <2>1, <2>2, <2>3 DEF BInv, Demotions
  <2> HIDE DEF row
  <2> QED
    BY <1>a, <2>3, <2>4, <2>5, CreationStep
<1>3. ASSUME NEW t \in Tabs, NEW a \in Addresses, Inserts(t, a) PROVE BInv' /\ StaysSettled
  <2> DEFINE row == [creation[t] EXCEPT !.step = "commit", !.row = a]
  <2>1. creation[t] \in CreationRows /\ creation[t] # NoRow
    BY <1>3 DEF Inserts, Creating, BInv, BookTypes
  <2>2. a \notin Taken
    BY <1>3, BookAssumption DEF Inserts, Addresses
  <2>3. address[a] = NoRow /\ \A u \in Tabs : Creating(u, "commit") => creation[u].row # a
    BY <2>2 DEF Taken
  <2>4. /\ row \in CreationRows /\ row.step = "commit" /\ row.row = a /\ row.demoted = creation[t].demoted
        /\ row.default = creation[t].default /\ row.seen = creation[t].seen
    <3>1. a \in 0..MaxAddresses
      BY BookAssumption DEF Addresses
    <3> QED
      BY <2>1, <3>1 DEF CreationRows
  <2>5. creation' = [creation EXCEPT ![t] = row] /\ address' = address
    BY <2>1, <1>3 DEF Inserts, BInv, BookTypes
  <2>6. row.demoted \subseteq Existing /\ (~row.default => row.seen # {} /\ row.demoted = {})
    BY <2>1, <2>4 DEF BInv, Demotions
  <2>7. row.default => Defaults \subseteq row.demoted /\ ~DefaultPending
    BY <2>4, <1>3 DEF Inserts, IndexFree
  <2> HIDE DEF row
  <2> QED
    BY <2>3, <2>4, <2>5, <2>6, <2>7, CreationStep
<1>4. ASSUME NEW t \in Tabs, CreateFails(t) PROVE BInv' /\ StaysSettled
  BY <1>4, CreationStep DEF CreateFails
<1>5. ASSUME NEW t \in Tabs, CreateCommits(t) PROVE BInv' /\ StaysSettled
  <2> DEFINE c == creation[t]
             n == c.row
             new == [active |-> TRUE, default |-> c.default]
  <2>1. c \in CreationRows /\ c # NoRow /\ Creating(t, "commit")
    BY <1>5 DEF CreateCommits, Creating, BInv, BookTypes
  <2>2. n \in Addresses /\ address[n] = NoRow
    BY <2>1 DEF BInv, NewRows
  <2>3. c.default \in BOOLEAN /\ c.demoted \subseteq Existing
    BY <2>1 DEF CreationRows, BInv, Demotions
  <2>4. new \in AddressRows /\ new.active /\ new.default = c.default
    <3> DEFINE d == c.default
    <3> d \in BOOLEAN
      BY <2>3
    <3> HIDE DEF d
    <3>1. /\ [active |-> TRUE, default |-> d] \in AddressRows
          /\ [active |-> TRUE, default |-> d].active
          /\ [active |-> TRUE, default |-> d].default = d
      BY DEF AddressRows
    <3> QED
      BY <3>1 DEF d
  <2>5. n \notin Existing /\ n \notin c.demoted
    BY <2>2, <2>3 DEF Existing
  <2> HIDE DEF new
  <2>6. /\ address' = [a \in Addresses |-> IF a = n THEN new
                          ELSE IF a \in c.demoted THEN [address[a] EXCEPT !.default = FALSE] ELSE address[a]]
        /\ creation' = [creation EXCEPT ![t] = NoRow]
    BY <1>5 DEF CreateCommits, new
  <2>7. /\ address'[n] = new
        /\ \A a \in Addresses \ {n} : address'[a] =
              IF a \in c.demoted THEN [address[a] EXCEPT !.default = FALSE] ELSE address[a]
    BY <2>2, <2>6
  <2>8. \A a \in Existing : /\ address[a] \in AddressRows
                            /\ [address[a] EXCEPT !.default = FALSE] \in AddressRows
                            /\ [address[a] EXCEPT !.default = FALSE].active = address[a].active
                            /\ [address[a] EXCEPT !.default = FALSE].default = FALSE
    BY DEF Existing, BInv, BookTypes, AddressRows
  <2>9. address' \in [Addresses -> AddressRows \cup {NoRow}]
    <3>1. \A a \in Addresses : address'[a] \in AddressRows \cup {NoRow}
      BY <2>3, <2>4, <2>7, <2>8 DEF BInv, BookTypes
    <3> QED
      BY <2>6, <3>1
  <2>a. \A a \in Addresses \ {n} :
          /\ address'[a] # NoRow <=> a \in Existing
          /\ a \in Existing => (address'[a].active <=> address[a].active)
    <3> SUFFICES ASSUME NEW a \in Addresses \ {n}
                 PROVE  /\ address'[a] # NoRow <=> a \in Existing
                        /\ a \in Existing => (address'[a].active <=> address[a].active)
      OBVIOUS
    <3>1. CASE a \in c.demoted
      <4>1. a \in Existing /\ address'[a] = [address[a] EXCEPT !.default = FALSE]
        BY <2>3, <2>7, <3>1
      <4> QED
        BY <4>1, <2>8, BookAssumption
    <3>2. CASE a \notin c.demoted
      BY <2>7, <3>2 DEF Existing
    <3> QED
      BY <3>1, <3>2
  <2>b. address'[n] # NoRow /\ address'[n].active
    BY <2>4, <2>7, BookAssumption
  <2>10. Existing' = Existing \cup {n}
    BY <2>2, <2>a, <2>b DEF Existing
  <2>11. Active' = Active \cup {n}
    BY <2>2, <2>a, <2>b DEF Existing, Active
  <2>12. c.default => Defaults' = {n}
    <3> SUFFICES ASSUME c.default PROVE Defaults' = {n}
      OBVIOUS
    <3>1. Defaults \subseteq c.demoted
      BY <2>1 DEF BInv, OnePending
    <3>2. \A a \in Active : a # n /\ ~address'[a].default
      <4> SUFFICES ASSUME NEW a \in Active PROVE a # n /\ ~address'[a].default
        OBVIOUS
      <4>1. a \in Existing /\ a # n /\ a \in Addresses
        BY <1>a, <2>5
      <4>2. CASE a \in c.demoted
        BY <4>1, <4>2, <2>7, <2>8
      <4>3. CASE a \notin c.demoted
        <5>1. address'[a] = address[a] /\ a \notin Defaults
          BY <4>1, <4>3, <2>7, <3>1
        <5> QED
          BY <4>1, <5>1 DEF Defaults
      <4> QED
        BY <4>2, <4>3
    <3> QED
      BY <2>4, <2>7, <2>11, <3>2 DEF Defaults
  <2>13. ~c.default => c.demoted = {} /\ Defaults' = Defaults
    <3> SUFFICES ASSUME ~c.default PROVE c.demoted = {} /\ Defaults' = Defaults
      OBVIOUS
    <3>1. c.demoted = {}
      BY <2>1 DEF BInv, Demotions
    <3>2. \A a \in Active : a # n /\ address'[a] = address[a]
      BY <1>a, <2>5, <2>7, <3>1
    <3> QED
      BY <2>4, <2>7, <2>11, <3>1, <3>2 DEF Defaults
  <2>14. creation'[t] = NoRow /\ \A u \in Tabs \ {t} : creation'[u] = creation[u]
    BY <2>6 DEF BInv, BookTypes
  <2>15. BookTypes'
    BY <2>6, <2>9 DEF BInv, BookTypes
  <2>16. Demotions'
    BY <2>10, <2>14 DEF BInv, Demotions
  <2>17. \A u \in Tabs : Creating(u, "commit")' => Creating(u, "commit") /\ u # t
    BY <2>14 DEF Creating
  <2>18. NewRows'
    <3> SUFFICES ASSUME NEW u \in Tabs, Creating(u, "commit")'
                 PROVE  /\ creation'[u].row \in Addresses /\ address'[creation'[u].row] = NoRow
                        /\ \A v \in Tabs : v # u /\ Creating(v, "commit")' => creation'[v].row # creation'[u].row
      BY DEF NewRows
    <3>1. u # t /\ Creating(u, "commit") /\ creation'[u] = creation[u]
      BY <2>14, <2>17
    <3>2. creation[u].row \in Addresses /\ address[creation[u].row] = NoRow /\ creation[u].row # n
      BY <2>1, <3>1 DEF BInv, NewRows
    <3>3. creation[u].row \notin Existing
      BY <3>2 DEF Existing
    <3>4. creation[u].row \notin Existing'
      BY <2>10, <3>2, <3>3
    <3>5. address'[creation[u].row] = NoRow
      BY <3>2, <3>4 DEF Existing
    <3> QED
      BY <2>14, <2>17, <3>1, <3>2, <3>5 DEF BInv, NewRows
  <2>19. OnePending'
    <3> SUFFICES ASSUME NEW u \in Tabs, Creating(u, "commit")', creation'[u].default
                 PROVE  /\ Defaults' \subseteq creation'[u].demoted
                        /\ \A v \in Tabs : Creating(v, "commit")' /\ creation'[v].default => v = u
      BY DEF OnePending
    <3>1. u # t /\ Creating(u, "commit") /\ creation'[u] = creation[u]
      BY <2>14, <2>17
    <3>2. ~c.default
      BY <2>1, <3>1 DEF BInv, OnePending
    <3> QED
      BY <2>13, <2>14, <2>17, <3>1, <3>2 DEF BInv, OnePending
  <2>20. OneDefault'
    BY <2>3, <2>12, <2>13 DEF BInv, OneDefault
  <2>21. StaysSettled
    <3>1. CASE c.default
      BY <3>1, <2>12 DEF StaysSettled, Settled
    <3>2. CASE ~c.default /\ Active # {}
      BY <3>2, <2>13 DEF StaysSettled, Settled
    <3>3. CASE ~c.default /\ Active = {}
      <4>1. c.seen # {} /\ c.seen \cap Active = {}
        BY <3>3, <2>1 DEF BInv, Demotions
      <4>2. Overtaken(t)
        BY <4>1, <3>3, <2>1 DEF Overtaken
      <4> QED
        BY <4>2, <2>14 DEF StaysSettled
    <3> QED
      BY <3>1, <3>2, <3>3
  <2> QED
    BY <2>15, <2>16, <2>18, <2>19, <2>20, <2>21 DEF BInv
\* A save that chooses a default, or keeps one, settles the customer.
<1>6. ASSUME NEW a \in Active, NEW chosen \in SUBSET Active, creation' = creation,
             address' = WithDefault(chosen),
             chosen # {}, \A b, c \in chosen : b = c, DefaultPending => chosen \subseteq Defaults
      PROVE  BInv' /\ StaysSettled
  <2>1. BInv' /\ Defaults' = chosen
    BY <1>6, ChosenSaved
  <2> QED
    BY <1>6, <2>1 DEF StaysSettled, Settled
<1>7. ASSUME NEW a \in Addresses, SetDefault(a) PROVE BInv' /\ StaysSettled
  BY <1>6, <1>7 DEF SetDefault, CanSave
<1>8. ASSUME NEW a \in Addresses, NEW want \in BOOLEAN, UpdateAddress(a, want) PROVE BInv' /\ StaysSettled
  <2>1. a \in Active
    BY <1>8 DEF UpdateAddress
  <2>2. CASE IsDefault(Active \ {a}, want)
    <3>1. address' = WithDefault({a}) /\ creation' = creation /\ (DefaultPending => {a} \subseteq Defaults)
      BY <1>8, <2>2 DEF UpdateAddress, CanSave
    <3> QED
      BY <1>6, <2>1, <3>1
  <2>3. CASE ~IsDefault(Active \ {a}, want) /\ address[a].default
    <3>1. /\ address' = WithDefault(Replacements(a)) /\ creation' = creation
          /\ DefaultPending => Replacements(a) \subseteq Defaults
      BY <1>8, <2>3 DEF UpdateAddress, CanSave
    <3>2. Active \ {a} # {}
      BY <2>3 DEF IsDefault
    <3>3. Replacements(a) \in SUBSET Active /\ Replacements(a) # {} /\ \A b, c \in Replacements(a) : b = c
      BY <2>1, <3>2, ReplacementsSound
    <3> QED
      BY <1>6, <2>1, <3>1, <3>3
  <2>4. CASE ~IsDefault(Active \ {a}, want) /\ ~address[a].default
    <3>1. address' = WithDefault(Defaults) /\ creation' = creation
      BY <1>8, <2>4 DEF UpdateAddress
    <3>2. Defaults \in SUBSET Active /\ \A b, c \in Defaults : b = c
      BY DEF Defaults, BInv, OneDefault
    <3>3. BInv' /\ Defaults' = Defaults /\ Active' = Active
      BY <3>1, <3>2, ChosenSaved
    <3> QED
      BY <1>a, <3>3 DEF StaysSettled, Settled
  <2> QED
    BY <2>2, <2>3, <2>4
<1>9. ASSUME NEW a \in Addresses, Deactivate(a) PROVE BInv' /\ StaysSettled
  <2> DEFINE off == [active |-> FALSE, default |-> FALSE]
  <2>1. PICK chosen : /\ chosen = IF address[a].default THEN Replacements(a) ELSE Defaults
                      /\ address' = [WithDefault(chosen) EXCEPT ![a] = off]
                      /\ CanSave(a, chosen \ Defaults)
    BY <1>9 DEF Deactivate
  <2>2. a \in Active /\ creation' = creation /\ (DefaultPending => chosen \subseteq Defaults)
    BY <1>9, <2>1 DEF Deactivate, CanSave
  <2>3. /\ chosen \subseteq Active /\ a \notin chosen /\ \A b, c \in chosen : b = c
        /\ Active \ {a} # {} /\ Settled => chosen # {}
    <3>1. CASE address[a].default
      BY <3>1, <2>1, <2>2, ReplacementsSound
    <3>2. CASE ~address[a].default
      BY <3>2, <1>a, <2>1, <2>2 DEF BInv, OneDefault, Defaults, Settled
    <3> QED
      BY <3>1, <3>2
  <2>4. off \in AddressRows
    BY DEF AddressRows
  <2>5. WithDefault(chosen) \in [Addresses -> AddressRows \cup {NoRow}]
    BY WithDefaultTypes
  <2> HIDE DEF off
  <2>6. address' \in [Addresses -> AddressRows \cup {NoRow}]
    BY <2>1, <2>4, <2>5
  <2> PICK gone \in SUBSET Active : gone = {a}
    BY <2>2
  <2>7. \A b \in Addresses : address'[b] = SavedRow(b, chosen, gone)
    BY <2>1 DEF WithDefault, SavedRow, off
  <2>8. \A b, c \in (chosen \cap Active) \ gone : b = c
    BY <2>3
  <2>9. BInv' /\ Active' = Active \ gone /\ Defaults' = (chosen \cap Active) \ gone
    BY <2>2, <2>6, <2>7, <2>8, Rewritten, SMTT(30)
  <2> QED
    BY <2>3, <2>9 DEF StaysSettled, Settled
<1> QED
  BY <1>1, <1>2, <1>3, <1>4, <1>5, <1>7, <1>8, <1>9 DEF BookNext

-----------------------------------------------------------------------------
(* The portals *)

IInv == AInv /\ BInv /\ TInv /\ FInv

LEMMA PortalsStep == IInv /\ [Next]_vars => IInv'
<1> SUFFICES ASSUME IInv, [Next]_vars PROVE IInv'
  OBVIOUS
<1>1. AInv'
  <2>1. CASE AccountsNext
    BY <2>1, AccountsStep DEF IInv
  <2>2. CASE UNCHANGED accountVars
    BY <2>2 DEF accountVars, IInv, AInv, AccountTypes, OwnSessions, OwnLogins, Unshared, MadeFor, Doing, Registered
  <2> QED
    BY <2>1, <2>2 DEF Next, vars
<1>2. BInv'
  <2>1. CASE BookNext
    BY <2>1, BookStep DEF IInv
  <2>2. CASE UNCHANGED bookVars
    BY <2>2 DEF bookVars, IInv, BInv, BookTypes, Demotions, NewRows, OnePending, OneDefault, Existing,
       Creating, Defaults, Active
  <2> QED
    BY <2>1, <2>2 DEF Next, vars
<1>3. TInv'
  <2>1. CASE TeamNext
    BY <2>1, TeamStep DEF IInv
  <2>2. CASE UNCHANGED teamVars
    BY <2>2 DEF teamVars, IInv, TInv, TeamTypes, Newcomers, Editing, OneAtMost, Adding, At, Team, Primaries
  <2> QED
    BY <2>1, <2>2 DEF Next, vars
<1>4. FInv'
  <2>1. CASE FormNext
    BY <2>1, FormStep DEF IInv
  <2>2. CASE UNCHANGED formVars
    BY <2>2 DEF formVars, IInv, FInv, FormTypes, Unissued, OneTaker, WorksOn, AtStep
  <2> QED
    BY <2>1, <2>2 DEF Next, vars
<1> QED
  BY <1>1, <1>2, <1>3, <1>4 DEF IInv

\* The invariant of every part holds whatever the portals' pages are asked.
THEOREM Invariance == Spec => []IInv
<1>1. Init => IInv
  BY AccountsBegin, BookBegins, TeamBegins, FormBegin DEF Init, IInv
<1> QED
  BY <1>1, PortalsStep, PTL DEF Spec

\* No browser is ever signed in to the account of another Google identity, and
\* no two accounts share an e-mail address or a Google account (google_callback).
THEOREM GoogleAccountsAreOwn == Spec => []OwnAccountOnly
<1>1. IInv => OwnAccountOnly
  BY DEF IInv, AInv, OwnSessions, Unshared, MadeFor, OwnAccountOnly
<1> QED
  BY <1>1, Invariance, PTL

\* A store never has two primary users (create_additional_store_user,
\* transfer_store_user_primary and the index of primary users).
THEOREM OnePrimaryUser == Spec => []OnePrimary
<1>1. ASSUME TInv PROVE OnePrimary
  <2>1. CASE Primaries = {}
    BY <2>1, FS_EmptySet DEF OnePrimary
  <2>2. ASSUME NEW m \in Primaries PROVE OnePrimary
    <3>1. Primaries = {m}
      BY <1>1, <2>2 DEF TInv, OneAtMost
    <3>2. Cardinality({m}) = 1
      BY FS_Singleton
    <3> QED
      BY <3>1, <3>2 DEF OnePrimary
  <2> QED
    BY <2>1, <2>2
<1>2. IInv => OnePrimary
  BY <1>1 DEF IInv
<1> QED
  BY <1>2, Invariance, PTL

\* A page of the purchase form becomes two purchases only when another request
\* of the session overlapped with the one that recorded it, or a worker was
\* lost (consume_purchase_submission_token), for any number of requests.
THEOREM FormsRecordOnce == Spec => []RecordedOnce
<1>1. IInv => RecordedOnce
  BY DEF IInv, FInv, FormTypes, OneTaker, RecordedOnce
<1> QED
  BY <1>1, Invariance, PTL

\* A customer has one default address at most and keeps one through every
\* change but the arrival of an overtaken address (CustomerAddress.save).
THEOREM DefaultsKept == Spec => DefaultKept
<1>1. ASSUME BInv' PROVE Cardinality(Defaults') <= 1
  <2>1. CASE Defaults' = {}
    BY <2>1, FS_EmptySet
  <2>2. ASSUME NEW a \in Defaults' PROVE Cardinality(Defaults') <= 1
    <3>1. Defaults' = {a}
      BY <1>1, <2>2 DEF BInv, OneDefault
    <3>2. Cardinality({a}) = 1
      BY FS_Singleton
    <3> QED
      BY <3>1, <3>2
  <2> QED
    BY <2>1, <2>2
<1>2. ASSUME IInv, [Next]_vars, ~UNCHANGED bookVars PROVE StaysSettled
  BY <1>2, BookStep DEF IInv, Next, vars
<1>3. IInv /\ IInv' /\ [Next]_vars =>
        [/\ Cardinality(Defaults') <= 1
         /\ Settled => Settled' \/ \E t \in Tabs : Overtaken(t) /\ creation'[t] = NoRow ]_bookVars
  BY <1>1, <1>2 DEF IInv, StaysSettled
<1> QED
  BY <1>3, Invariance, PTL DEF Spec, DefaultKept
=============================================================================

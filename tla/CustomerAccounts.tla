--------------------------- MODULE CustomerAccounts ---------------------------
(***************************************************************************)
(* Customer accounts: registration, sign-in by password or with Google,    *)
(* and the forms that change an account.  A form reads the account when    *)
(* its request begins and saves it later; the profile form saves every     *)
(* column it has read.  A request from Google takes what the session knew  *)
(* of the sign-in, asks Google for the claims, and looks the account up    *)
(* before it creates one.                                                  *)
(*                                                                         *)
(* Left out: names, phone numbers, dates, the mark "verified", and         *)
(* passwords (an account made for a Google identity has none to be used).  *)
(***************************************************************************)
EXTENDS Integers, Sequences

CONSTANTS
    Users,          \* keys of accounts
    Mails,          \* e-mail addresses
    Subjects,       \* Google accounts
    MailOf,         \* the verified e-mail address of each of them
    Browsers,
    Workers,        \* who serves the requests that take more than one step
    MaxFlows,       \* bound: sign-ins with Google that are begun
    None

\* User, Customer and CustomerGoogleIdentity of one customer.
AccountRows == [mail : Mails, google : Subjects \cup {None}, active : BOOLEAN]

ASSUME MailsAssumption ==
    /\ MailOf \in [Subjects -> Mails]
    /\ None \notin Users /\ None \notin AccountRows

VARIABLES
    user,           \* the accounts, or None
    flow,           \* the Google account chosen in each sign-in begun
    redeemed,       \* the sign-ins whose code Google has taken
    session,        \* of each browser: the sign-in in it, who is signed in
                    \* and with which Google account
    work            \* what each worker is doing

accountVars == <<user, flow, redeemed, session, work>>

NoSession == [flow |-> 0, account |-> None, as |-> None]

AccountsInit ==
    /\ user = [u \in Users |-> None]
    /\ flow = <<>>
    /\ redeemed = {}
    /\ session = [b \in Browsers |-> NoSession]
    /\ work = [w \in Workers |-> None]

Registered == {u \in Users : user[u] # None}

\* The unique constraints of e-mail addresses and of Google subjects.
MailFree(mail) == \A u \in Registered : user[u].mail # mail
SubjectFree(g) == \A u \in Registered : user[u].google # g

NewAccount(mail, g) == [mail |-> mail, google |-> g, active |-> TRUE]

-----------------------------------------------------------------------------
(* Passwords *)

\* customer_create_view, in the management portal
CreateCustomer(u, mail) ==
    /\ user[u] = None /\ MailFree(mail)
    /\ user' = [user EXCEPT ![u] = NewAccount(mail, None)]
    /\ UNCHANGED <<flow, redeemed, session, work>>

\* customer_register_view: the new customer is signed in.
Register(b, u, mail) ==
    /\ session[b].account = None
    /\ user[u] = None /\ MailFree(mail)
    /\ user' = [user EXCEPT ![u] = NewAccount(mail, None)]
    /\ session' = [session EXCEPT ![b].account = u, ![b].as = None]
    /\ UNCHANGED <<flow, redeemed, work>>

\* customer_portal_login_view.  Signing in as somebody else empties the session.
SignIn(b, u) ==
    /\ u \in Registered /\ user[u].active /\ user[u].google = None
    /\ session' = [session EXCEPT ![b] =
          [flow |-> IF @.account \in {None, u} THEN @.flow ELSE 0, account |-> u, as |-> None]]
    /\ UNCHANGED <<user, flow, redeemed, work>>

SignOut(b) ==
    /\ session[b] # NoSession
    /\ session' = [session EXCEPT ![b] = NoSession]
    /\ UNCHANGED <<user, flow, redeemed, work>>

-----------------------------------------------------------------------------
(* Sign-in with Google *)

\* google_start; at Google somebody will choose account g.
GoogleStart(b, g) ==
    /\ Len(flow) < MaxFlows
    /\ flow' = Append(flow, g)
    /\ session' = [session EXCEPT ![b].flow = Len(flow) + 1]
    /\ UNCHANGED <<user, redeemed, work>>

\* google_callback without a sign-in in the session, with that of another one,
\* late, cancelled, or with a code Google does not take: nothing remains of it.
CallbackRefused(b) ==
    /\ session[b].flow # 0
    /\ session' = [session EXCEPT ![b].flow = 0]
    /\ UNCHANGED <<user, flow, redeemed, work>>

\* google_callback with the sign-in of its session: a second request may find
\* it there too before the first one's response, but Google takes a code once.
CallbackAccepted(w, b) ==
    /\ work[w] = None
    /\ session[b].flow # 0 /\ session[b].flow \notin redeemed
    /\ redeemed' = redeemed \cup {session[b].flow}
    /\ work' = [work EXCEPT ![w] =
          [op |-> "callback", browser |-> b, as |-> flow[session[b].flow], account |-> None]]
    /\ UNCHANGED <<user, flow, session>>

\* Mutant: an account with the same e-mail address is taken for the same person.
AccountsByMail(g) == {u \in Registered : user[u].google = g \/ user[u].mail = MailOf[g]}

AccountsOf(g) == {u \in Registered : user[u].google = g}

Doing(w, op) == work[w] # None /\ work[w].op = op

\* The request ends with a message, its transaction rolled back.
CallbackFails(w) ==
    /\ Doing(w, "callback") \/ Doing(w, "create") \/ Doing(w, "login")
    /\ work' = [work EXCEPT ![w] = None]
    /\ session' = [session EXCEPT ![work[w].browser].flow = 0]
    /\ UNCHANGED <<user, flow, redeemed>>

\* The lookup: an active account of this Google account, or none and no account
\* with its e-mail address.
LookUp(w) ==
    /\ Doing(w, "callback")
    /\ LET g == work[w].as
       IN  \/ \E u \in AccountsOf(g) :
                 /\ user[u].active
                 /\ work' = [work EXCEPT ![w].op = "login", ![w].account = u]
           \/ /\ AccountsOf(g) = {} /\ MailFree(MailOf[g])
              /\ work' = [work EXCEPT ![w].op = "create"]
    /\ UNCHANGED <<user, flow, redeemed, session>>

\* The account and its identity, unless the constraints refuse one of them.
CreateForIdentity(w, u) ==
    /\ Doing(w, "create")
    /\ LET g == work[w].as
       IN  /\ user[u] = None /\ MailFree(MailOf[g]) /\ SubjectFree(g)
           /\ user' = [user EXCEPT ![u] = NewAccount(MailOf[g], g)]
    /\ work' = [work EXCEPT ![w].op = "login", ![w].account = u]
    /\ UNCHANGED <<flow, redeemed, session>>

\* login(), and the response that saves the session.
CallbackDone(w) ==
    /\ Doing(w, "login")
    /\ session' = [session EXCEPT ![work[w].browser] =
          [flow |-> 0, account |-> work[w].account, as |-> work[w].as]]
    /\ work' = [work EXCEPT ![w] = None]
    /\ UNCHANGED <<user, flow, redeemed>>

-----------------------------------------------------------------------------
(* Forms that change an account *)

\* A request reads the account: the profile form with its new e-mail address,
\* or the switch.
FormBegins(w, op, u, mail) ==
    /\ work[w] = None
    /\ u \in Registered
    /\ op = "profile" => \A v \in Registered \ {u} : user[v].mail # mail
    /\ op # "profile" => mail = user[u].mail
    /\ work' = [work EXCEPT ![w] = [op |-> op, account |-> u, read |-> user[u], mail |-> mail]]
    /\ UNCHANGED <<user, flow, redeemed, session>>

\* customer_toggle_status_view: the opposite of what was read.
Switched(w) == ~work[w].read.active

\* update_customer_profile writes every column, set_customer_active its own.
Saved(w) ==
    LET u == work[w].account
        read == work[w].read
    IN  CASE work[w].op = "profile" -> [user[u] EXCEPT !.mail = work[w].mail, !.active = read.active]
          [] work[w].op = "switch" -> [user[u] EXCEPT !.active = Switched(w)]

Forms == {"profile", "switch"}

FormSaved(w) ==
    /\ \E op \in Forms : Doing(w, op)
    /\ \A v \in Registered \ {work[w].account} : user[v].mail # Saved(w).mail
    /\ user' = [user EXCEPT ![work[w].account] = Saved(w)]
    /\ work' = [work EXCEPT ![w] = None]
    /\ UNCHANGED <<flow, redeemed, session>>

\* The e-mail address is taken, or the request is lost.
FormFails(w) ==
    /\ \E op \in Forms : Doing(w, op)
    /\ work' = [work EXCEPT ![w] = None]
    /\ UNCHANGED <<user, flow, redeemed, session>>

AccountsNext ==
    \/ \E u \in Users, mail \in Mails : CreateCustomer(u, mail)
    \/ \E b \in Browsers :
         \/ \E u \in Users, mail \in Mails : Register(b, u, mail)
         \/ \E u \in Users : SignIn(b, u)
         \/ SignOut(b)
         \/ \E g \in Subjects : GoogleStart(b, g)
         \/ CallbackRefused(b)
    \/ \E w \in Workers :
         \/ \E b \in Browsers : CallbackAccepted(w, b)
         \/ LookUp(w) \/ CallbackFails(w) \/ CallbackDone(w)
         \/ \E u \in Users : CreateForIdentity(w, u)
         \/ \E op \in Forms, u \in Users, mail \in Mails : FormBegins(w, op, u, mail)
         \/ FormSaved(w) \/ FormFails(w)
=============================================================================

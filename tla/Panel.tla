------------------------------- MODULE Panel --------------------------------
(***************************************************************************)
(* The administrators' panel (admin.service.ts, admin.guard.ts): its own   *)
(* accounts with roles, sign-in by password and mailed code, sessions that *)
(* are rows, and links that reset a password.  Whatever changes what an    *)
(* account may do or how it proves itself deletes the account's sessions.  *)
(***************************************************************************)
EXTENDS Requests

CONSTANTS Admins, LogIns, Links, PanelCodeLife, PanelLife, LinkLife, MaxSecret

ASSUME MaxSecretNat == MaxSecret \in Nat \ {0}

VARIABLES
    operator,    \* the adminUser rows; the n-th password of an account is n
    login,       \* the adminSession rows, with the password and role read at the sign-in
    link         \* the adminPasswordResetToken rows

panelVars == <<operator, login, link>>

PanelRoles == {"SUPER_ADMIN", "OPS_ADMIN"}

NoOperator == [role |-> "none"]
NoLogIn == [verified |-> FALSE]
NoLink == [used |-> FALSE]

\* The rows a request is at: who may do what, and, named by the account, how it gets in.
OperatorsRow == "operators"

NewOperator(role) == [role |-> role, active |-> TRUE, secret |-> 1]

\* The first account is made when the process starts and there is none.
PanelInit ==
    /\ \E a \in Admins :
          operator = [b \in Admins |-> IF b = a THEN NewOperator("SUPER_ADMIN") ELSE NoOperator]
    /\ login = [s \in LogIns |-> NoLogIn]
    /\ link = [k \in Links |-> NoLink]

SignedIn(a) == {s \in LogIns : login[s] # NoLogIn /\ login[s].admin = a}
LiveLinks(a) ==
    {k \in Links : link[k] # NoLink /\ link[k].admin = a /\ ~link[k].used /\ link[k].born + LinkLife > now}

\* The guard: a session of two factors that has not run out, of an account that is active.
Admitted(s) ==
    /\ login[s].verified /\ login[s].born + PanelLife >= now
    /\ operator[login[s].admin].active

IsSuperAdmin(a) ==
    /\ operator[a].role = "SUPER_ADMIN"
    /\ \E s \in SignedIn(a) : Admitted(s)

\* The password is compared with the account's as read.
LogInRead(i, a) ==
    /\ operator[a] # NoOperator /\ operator[a].active
    /\ Begin(i, [op |-> "login", rows |-> {a}, admin |-> a, step |-> "login",
                 secret |-> operator[a].secret, role |-> operator[a].role])
    /\ UNCHANGED panelVars

CreateLogIn(i, s) ==
    LET r == req[i] IN
    /\ r # Idle /\ r.step = "login"
    /\ login[s] = NoLogIn /\ ~\E j \in Slots : req[j].op = "verify" /\ req[j].login = s
    /\ login' = [login EXCEPT ![s] = [admin |-> r.admin, born |-> now, verified |-> FALSE,
                                      secret |-> r.secret, role |-> r.role]]
    /\ End(i)
    /\ UNCHANGED <<operator, link>>

VerifyAdminOtp(i, s) ==
    LET v == login[s] IN
    /\ v # NoLogIn /\ ~v.verified /\ v.born + PanelCodeLife >= now
    /\ operator[v.admin].active
    /\ Begin(i, [op |-> "verify", rows |-> {v.admin}, login |-> s, step |-> "verify"])
    /\ UNCHANGED panelVars

\* Mutant: an upsert, which puts back a session that is gone.
MarkVerifiedMutant(i) ==
    LET r == req[i] IN
    /\ r # Idle /\ r.step = "verify"
    /\ login' = [login EXCEPT ![r.login].verified = TRUE]
    /\ End(i)
    /\ UNCHANGED <<operator, link>>

\* By token: it fails when the session is gone.
MarkVerified(i) ==
    LET r == req[i] IN
    /\ r # Idle /\ r.step = "verify"
    /\ login' = IF login[r.login] = NoLogIn THEN login
                ELSE [login EXCEPT ![r.login].verified = TRUE]
    /\ End(i)
    /\ UNCHANGED <<operator, link>>

LogOut(s) ==
    /\ login[s] # NoLogIn /\ Admitted(s)
    /\ login' = [login EXCEPT ![s] = NoLogIn]
    /\ Once(login[s].admin)
    /\ UNCHANGED <<operator, link>>

\* Earlier links go before the new one is made, in a call of its own.
RequestPasswordReset(i, a) ==
    /\ operator[a] # NoOperator /\ operator[a].active
    /\ Begin(i, [op |-> "forgot", rows |-> {a}, admin |-> a, step |-> "links"])
    /\ UNCHANGED panelVars

DropLinks(i) ==
    LET r == req[i] IN
    /\ r # Idle /\ r.step = "links"
    /\ link' = [k \in Links |-> IF k \in LiveLinks(r.admin) THEN NoLink ELSE link[k]]
    /\ Proceed(i, [r EXCEPT !.step = "link"])
    /\ UNCHANGED <<operator, login>>

CreateLink(i, k) ==
    LET r == req[i] IN
    /\ r # Idle /\ r.step = "link"
    /\ link[k] = NoLink /\ ~\E j \in Slots : req[j].op = "reset" /\ req[j].link = k
    /\ link' = [link EXCEPT ![k] = [admin |-> r.admin, born |-> now, used |-> FALSE]]
    /\ End(i)
    /\ UNCHANGED <<operator, login>>

ResetRead(i, k) ==
    LET v == link[k] IN
    /\ v # NoLink /\ ~v.used /\ v.born + LinkLife >= now
    /\ operator[v.admin].active
    /\ Begin(i, [op |-> "reset", rows |-> {v.admin},
                 admin |-> v.admin, link |-> k, step |-> "reset"])
    /\ UNCHANGED panelVars

\* Mutant: the sessions stay.
ResetAdminPasswordMutant(i) ==
    LET r == req[i] IN
    /\ r # Idle /\ r.step = "reset"
    /\ operator[r.admin].secret < MaxSecret
    /\ operator' = [operator EXCEPT ![r.admin].secret = @ + 1]
    /\ link' = [link EXCEPT ![r.link].used = TRUE]
    /\ End(i)
    /\ UNCHANGED login

\* One transaction: password, sessions, link.  It is undone when the link is gone.
ResetAdminPassword(i) ==
    LET r == req[i] IN
    /\ r # Idle /\ r.step = "reset"
    /\ IF link[r.link] = NoLink THEN UNCHANGED panelVars
       ELSE /\ operator[r.admin].secret < MaxSecret
            /\ operator' = [operator EXCEPT ![r.admin].secret = @ + 1]
            /\ login' = [s \in LogIns |-> IF s \in SignedIn(r.admin) THEN NoLogIn ELSE login[s]]
            /\ link' = [link EXCEPT ![r.link].used = TRUE]
    /\ End(i)

CreateAdminUser(a) ==
    /\ \E b \in Admins : IsSuperAdmin(b)
    /\ operator[a] = NoOperator
    /\ \E role \in PanelRoles : operator' = [operator EXCEPT ![a] = NewOperator(role)]
    /\ Once(OperatorsRow)
    /\ UNCHANGED <<login, link>>

\* What a request may ask to change: the role, the activity, or both.
Changes == [role : PanelRoles] \cup [active : BOOLEAN] \cup [role : PanelRoles, active : BOOLEAN]

Alters(w, was) == \E column \in DOMAIN w : w[column] # was[column]

\* The guard has admitted a, who asks to change b.
UpdateAdminUser(i, a, b) ==
    /\ IsSuperAdmin(a)
    /\ operator[b] # NoOperator
    /\ \E w \in Changes :
          Begin(i, [op |-> "update", rows |-> {OperatorsRow, b},
                    actor |-> a, admin |-> b, write |-> w, step |-> "existing"])
    /\ UNCHANGED panelVars

\* Mutant: who may be demoted is not asked.
ReadExistingMutant(i) ==
    LET r == req[i] IN
    /\ r # Idle /\ r.step = "existing"
    /\ Proceed(i, [op |-> "update", rows |-> r.rows, admin |-> r.admin, write |-> r.write,
                   drop |-> Alters(r.write, operator[r.admin]), step |-> "update"])
    /\ UNCHANGED panelVars

\* Nobody deactivates or demotes the account he works with.
ReadExisting(i) ==
    LET r == req[i] IN
    /\ r # Idle /\ r.step = "existing"
    /\ IF r.actor = r.admin /\ Alters(r.write, NewOperator("SUPER_ADMIN"))
       THEN End(i)
       ELSE Proceed(i, [op |-> "update", rows |-> r.rows, admin |-> r.admin, write |-> r.write,
                        drop |-> Alters(r.write, operator[r.admin]), step |-> "update"])
    /\ UNCHANGED panelVars

\* Mutant: the sessions stay, since the role is all that changes.
WriteOperatorMutant(i) ==
    LET r == req[i] IN
    /\ r # Idle /\ r.step = "update"
    /\ operator' = [operator EXCEPT ![r.admin] = Written(r.write, @)]
    /\ IF r.drop /\ "active" \in DOMAIN r.write THEN Proceed(i, [r EXCEPT !.step = "drop"]) ELSE End(i)
    /\ UNCHANGED <<login, link>>

WriteOperator(i) ==
    LET r == req[i] IN
    /\ r # Idle /\ r.step = "update"
    /\ operator' = [operator EXCEPT ![r.admin] = Written(r.write, @)]
    /\ IF r.drop THEN Proceed(i, [r EXCEPT !.step = "drop"]) ELSE End(i)
    /\ UNCHANGED <<login, link>>

\* A changed account signs in again.
DropLogIns(i) ==
    LET r == req[i] IN
    /\ r # Idle /\ r.step = "drop"
    /\ login' = [s \in LogIns |-> IF s \in SignedIn(r.admin) THEN NoLogIn ELSE login[s]]
    /\ End(i)
    /\ UNCHANGED <<operator, link>>

PanelStep(i) ==
    \/ \E a \in Admins :
          \/ LogInRead(i, a)
          \/ RequestPasswordReset(i, a)
          \/ \E b \in Admins : UpdateAdminUser(i, a, b)
    \/ \E s \in LogIns : CreateLogIn(i, s) \/ VerifyAdminOtp(i, s)
    \/ \E k \in Links : CreateLink(i, k) \/ ResetRead(i, k)
    \/ MarkVerified(i)
    \/ DropLinks(i)
    \/ ResetAdminPassword(i)
    \/ ReadExisting(i)
    \/ WriteOperator(i)
    \/ DropLogIns(i)

\* An update that is cut short leaves sessions of the account it has changed.
CutShort(i) == IF req[i] # Idle /\ req[i].step = "drop" THEN Cut(i) ELSE Abort(i)

PanelNext ==
    \/ \E i \in Slots : PanelStep(i)
    \/ \E s \in LogIns : LogOut(s)
    \/ \E a \in Admins : CreateAdminUser(a)
    \/ (Tick \/ \E i \in Slots : CutShort(i)) /\ UNCHANGED panelVars

-----------------------------------------------------------------------------

PanelTypeOK ==
    /\ \A a \in Admins : operator[a] = NoOperator
          \/ operator[a] \in [role : PanelRoles, active : BOOLEAN, secret : 1..MaxSecret]
    /\ \A s \in LogIns : login[s] = NoLogIn
          \/ login[s] \in [admin : Admins, born : 1..MaxTime, verified : BOOLEAN,
                           secret : 1..MaxSecret, role : PanelRoles]
    /\ \A k \in Links : link[k] = NoLink
          \/ link[k] \in [admin : Admins, born : 1..MaxTime, used : BOOLEAN]

\* Administrators demote and deactivate one another, but never all of them: one who can
\* undo it is left.  Two who demote each other at the same time are excepted.
SuperAdminRemains ==
    OperatorsRow \notin contested =>
        \E a \in Admins : /\ operator[a] # NoOperator
                          /\ operator[a].active /\ operator[a].role = "SUPER_ADMIN"

\* A session was signed in to with the password and the role the account has now: each
\* change of either ends the sessions of before, those half way through two factors as
\* well.  Excepted are sign-ins that overlap the change, whose sessions may come after it.
LogInsAreCurrent ==
    \A a \in Admins : a \notin contested /\ InFlight(a) = {} =>
        \A s \in SignedIn(a) : /\ operator[a].active
                               /\ login[s].secret = operator[a].secret
                               /\ login[s].role = operator[a].role

=============================================================================

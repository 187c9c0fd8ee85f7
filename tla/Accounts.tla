-------------------------------- MODULE Accounts --------------------------------
(***************************************************************************)
(* The row of one email address in the users table, and the requests that  *)
(* load and save it: registration with its verification mail, the          *)
(* verification link, login, profile edits, password resets and the user   *)
(* form of the admin site.  There is no transaction around a request, so   *)
(* whatever it loads may have changed when it saves; some save single      *)
(* columns, some the whole row.                                            *)
(*                                                                         *)
(* A password is a number, new for every set_password: hashes are salted.  *)
(* Names, roles and the login's address are left out, so are JWTs and      *)
(* their rotation, which are the library's.                                *)
(***************************************************************************)
EXTENDS Integers

CONSTANTS
  Requests,      \* requests under way
  MaxPasswords,  \* bound: calls of set_password
  Forms          \* what staff may leave in the admin site's form

ASSUME AccountsAssumption ==
  /\ MaxPasswords \in Nat /\ "none" \notin Requests
  /\ Forms \subseteq [verified : BOOLEAN, active : BOOLEAN, logged : BOOLEAN]

VARIABLES
  row,        \* password (0 without a row), is_verified, is_active, last_login_at
  passwords,  \* the last password given out
  token,      \* the registration that stored the EmailVerificationToken, "none"
  mailed,     \* the registrations whose verification link was sent, answered 201
  links,      \* password reset links sent, each bound to a password
  spent,      \* reset links that have set a password, answered 200
  request,    \* each request's step, the row it has loaded, its reset link
  clobbered   \* history: a whole row was saved over a change made meanwhile

mailVars == <<token, mailed, links>>
vars == <<row, passwords, mailVars, spent, request, clobbered>>

NoRow == [password |-> 0, verified |-> FALSE, active |-> FALSE, logged |-> FALSE]
NewRow == [password |-> passwords + 1, verified |-> FALSE, active |-> TRUE, logged |-> FALSE]
RowSet == [password : 0..MaxPasswords, verified : BOOLEAN, active : BOOLEAN, logged : BOOLEAN]
Idle == [step |-> "idle", copy |-> NoRow, link |-> 0]
Steps == {"idle", "insert", "token", "mail", "verify", "record", "patch", "confirm", "form"}
RequestSet == [step : Steps, copy : RowSet, link : 0..MaxPasswords]

Init ==
  /\ row = NoRow
  /\ passwords = 0
  /\ token = "none"
  /\ mailed = {} /\ links = {} /\ spent = {}
  /\ request = [r \in Requests |-> Idle]
  /\ clobbered = FALSE

Exists == row # NoRow

-----------------------------------------------------------------------------
(* How a request proceeds.                                                 *)

At(r, step) == request[r].step = step
Proceed(r, step) == request' = [request EXCEPT ![r].step = step]
Done(r) == request' = [request EXCEPT ![r] = Idle]
Loaded(r, step, link) ==
  /\ At(r, "idle")
  /\ request' = [request EXCEPT ![r] = [step |-> step, copy |-> row, link |-> link]]
  /\ UNCHANGED <<row, passwords, mailVars, spent, clobbered>>

Copy(r) == request[r].copy

(* save() without update_fields: every column, as loaded or set since. *)
SaveWhole(r, new) ==
  /\ row' = new
  /\ clobbered' = (clobbered \/ row # Copy(r))
  /\ Done(r)

(* The server fails or dies, or the mail server refuses: an error is the *)
(* answer, and what has been committed stays. *)
Fail(r) ==
  /\ ~At(r, "idle")
  /\ Done(r)
  /\ UNCHANGED <<row, passwords, mailVars, spent, clobbered>>

-----------------------------------------------------------------------------
(* Registration.                                                           *)

(* validate_email: no account has the address. *)
BeginRegister(r) ==
  /\ ~Exists
  /\ Loaded(r, "insert", 0)

(* The unique index decides between two registrations. *)
(* Mutant: the loser goes on with the row it finds. *)
InsertOrGet(r) ==
  /\ At(r, "insert") /\ (~Exists => passwords < MaxPasswords)
  /\ Proceed(r, "token")
  /\ IF Exists THEN UNCHANGED <<row, passwords>>
               ELSE row' = NewRow /\ passwords' = passwords + 1
  /\ UNCHANGED <<mailVars, spent, clobbered>>
Insert(r) ==
  /\ At(r, "insert") /\ ~Exists /\ passwords < MaxPasswords
  /\ row' = NewRow /\ passwords' = passwords + 1
  /\ Proceed(r, "token")
  /\ UNCHANGED <<mailVars, spent, clobbered>>

EmailTaken(r) ==
  /\ At(r, "insert") /\ Exists
  /\ Done(r)
  /\ UNCHANGED <<row, passwords, mailVars, spent, clobbered>>

(* Any earlier token of the user is deleted. *)
StoreToken(r) ==
  /\ At(r, "token")
  /\ token' = r
  /\ Proceed(r, "mail")
  /\ UNCHANGED <<row, passwords, mailed, links, spent, clobbered>>

SendVerification(r) ==
  /\ At(r, "mail")
  /\ mailed' = mailed \cup {r}
  /\ Done(r)
  /\ UNCHANGED <<row, passwords, token, links, spent, clobbered>>

-----------------------------------------------------------------------------
(* The verification link: the token is found, however old, and the account *)
(* not verified yet.                                                       *)

BeginVerify(r) ==
  /\ token \in mailed /\ ~row.verified
  /\ Loaded(r, "verify", 0)

(* Mutant: save() without update_fields. *)
SaveVerifiedWhole(r) ==
  /\ At(r, "verify")
  /\ row' = [Copy(r) EXCEPT !.verified = TRUE]
  /\ Done(r)
  /\ UNCHANGED <<passwords, mailVars, spent, clobbered>>
SaveVerified(r) ==
  /\ At(r, "verify")
  /\ row' = [row EXCEPT !.verified = TRUE]
  /\ Done(r)
  /\ UNCHANGED <<passwords, mailVars, spent, clobbered>>

-----------------------------------------------------------------------------
(* Login, and the requests of somebody logged in.                          *)

BeginLogin(r) ==
  /\ At(r, "idle") /\ Exists /\ row.active /\ row.verified
  /\ Proceed(r, "record")
  /\ UNCHANGED <<row, passwords, mailVars, spent, clobbered>>

RecordLogin(r) ==
  /\ At(r, "record")
  /\ row' = [row EXCEPT !.logged = TRUE]
  /\ Done(r)
  /\ UNCHANGED <<passwords, mailVars, spent, clobbered>>

(* request.user is loaded by the authentication, and saved at the end. *)
BeginPatch(r) ==
  /\ row.logged /\ row.active /\ row.verified
  /\ Loaded(r, "patch", 0)

SavePatch(r) ==
  /\ At(r, "patch")
  /\ SaveWhole(r, Copy(r))
  /\ UNCHANGED <<passwords, mailVars, spent>>

(* The form of the admin site.  The password is read-only in it; whether *)
(* the account is verified or active, and its last login, are saved as the *)
(* page has them. *)
BeginForm(r) == Exists /\ Loaded(r, "form", 0)

Filled(c, f) == [c EXCEPT !.verified = f.verified, !.active = f.active, !.logged = f.logged]
SaveForm(r) ==
  /\ At(r, "form")
  /\ \E f \in Forms : SaveWhole(r, Filled(Copy(r), f))
  /\ UNCHANGED <<passwords, mailVars, spent>>

-----------------------------------------------------------------------------
(* Password reset.                                                         *)

(* An unknown address gets the same answer and no mail. *)
(* Mutant: a link for an account that does not exist. *)
SendLinkAnyway(r) ==
  /\ At(r, "idle") /\ (Exists => row.active)
  /\ links' = links \cup {row.password}
  /\ UNCHANGED <<row, passwords, token, mailed, spent, request, clobbered>>
SendLink(r) ==
  /\ At(r, "idle") /\ Exists /\ row.active
  /\ links' = links \cup {row.password}
  /\ UNCHANGED <<row, passwords, token, mailed, spent, request, clobbered>>

(* default_token_generator hashes the password it was made for. *)
(* Mutant: any link sent to the account will do. *)
AnyLink(l) == l \in links
LinkValid(l) == l \in links /\ l = row.password

BeginConfirm(r) ==
  \E l \in links :
    /\ LinkValid(l) /\ row.active
    /\ Loaded(r, "confirm", l)

SaveConfirm(r) ==
  /\ At(r, "confirm") /\ passwords < MaxPasswords
  /\ passwords' = passwords + 1
  /\ SaveWhole(r, [Copy(r) EXCEPT !.password = passwords + 1])
  /\ spent' = spent \cup {request[r].link}
  /\ UNCHANGED mailVars

-----------------------------------------------------------------------------

Next ==
  \E r \in Requests :
    \/ BeginRegister(r) \/ Insert(r) \/ EmailTaken(r) \/ StoreToken(r) \/ SendVerification(r)
    \/ BeginVerify(r) \/ SaveVerified(r)
    \/ BeginLogin(r) \/ RecordLogin(r)
    \/ BeginPatch(r) \/ SavePatch(r) \/ BeginForm(r) \/ SaveForm(r)
    \/ SendLink(r) \/ BeginConfirm(r) \/ SaveConfirm(r)
    \/ Fail(r)

Spec == Init /\ [][Next]_vars

-----------------------------------------------------------------------------
(* Properties.                                                             *)

TypeOK ==
  /\ row \in RowSet
  /\ passwords \in 0..MaxPasswords
  /\ token \in Requests \cup {"none"}
  /\ mailed \subseteq Requests
  /\ links \subseteq 1..passwords /\ spent \subseteq links
  /\ request \in [Requests -> RequestSet]
  /\ clobbered \in BOOLEAN

(* A row, once there, has a password, and so has every copy of it. *)
RowsHavePasswords ==
  /\ Exists => row.password \in 1..passwords
  /\ \A r \in Requests : At(r, "record") => Exists
  /\ \A r \in Requests :
       At(r, "verify") \/ At(r, "patch") \/ At(r, "form") \/ At(r, "confirm")
         => Exists /\ Copy(r).password \in 1..passwords

(* Only the registration that inserted the row is on its way to the mail. *)
OneRegistration ==
  /\ ~Exists => token = "none"
  /\ \A r \in Requests : At(r, "token") => Exists /\ token = "none"
  /\ \A r \in Requests : At(r, "mail") => token = r
  /\ \A r, s \in Requests : At(r, "token") /\ At(s, "token") => r = s

(* However registrations of one address overlap, at most one is answered *)
(* 201, and its link finds its token. *)
MailedLinkWorks == \A r \in mailed : token = r

(* As long as nothing was clobbered, a spent link is older than the password. *)
LinksAge ==
  /\ \A r \in Requests : At(r, "confirm") =>
       request[r].link \in links /\ request[r].link = Copy(r).password
  /\ clobbered \/ \A l \in spent : l < row.password

AccountsInv == TypeOK /\ RowsHavePasswords /\ OneRegistration /\ MailedLinkWorks /\ LinksAge

(* A reset link sets a password once: a second time it takes a whole row *)
(* saved from an earlier load, the link's own two confirmations at once or *)
(* a save that has brought the old password back. *)
LinkSpentByUse ==
  [][\A r \in Requests : SaveConfirm(r) /\ request[r].link \in spent => clobbered']_vars

(* A new password is never undone but by a profile edit, a reset or an *)
(* admin's form that saves at that very step a whole row loaded before the *)
(* row last changed; verification and the last login only so too, or by *)
(* what staff have filled in the form. *)
Wholes == {"patch", "form", "confirm"}
SavesWhole(r) == request[r].step \in Wholes /\ request'[r].step = "idle"
Overtaken(r) == SavesWhole(r) /\ row # Copy(r)
Undone == (row.verified /\ ~row'.verified) \/ (row.logged /\ ~row'.logged)
NothingUndone ==
  [][/\ row'.password < row.password => \E r \in Requests : Overtaken(r)
     /\ Undone => \E r \in Requests : Overtaken(r) \/ (SavesWhole(r) /\ At(r, "form"))]_vars
=================================================================================

---------------------------- MODULE AccountsProofs ----------------------------
(***************************************************************************)
(* Proofs about one address's account, for any number of requests under    *)
(* way: at most one registration is answered 201 and its link works, and   *)
(* what a request has done to the row is undone, or a spent reset link     *)
(* used again, only after a whole row was saved over a newer one.          *)
(***************************************************************************)
EXTENDS Accounts, TLAPS

(* A request that has nothing under way is well formed. *)
LEMMA IdleOK == NoRow \in RowSet /\ Idle \in RequestSet /\ Idle.step = "idle"
<1>1. NoRow \in RowSet
  BY AccountsAssumption DEF NoRow, RowSet
<1>2. Idle \in RequestSet
  BY <1>1, AccountsAssumption DEF Idle, RequestSet, Steps
<1> QED BY <1>1, <1>2 DEF Idle

(* Before the first registration there is nothing to keep. *)
LEMMA AccountsInit == Init => AccountsInv
<1> SUFFICES ASSUME Init PROVE AccountsInv
  OBVIOUS
<1> USE AccountsAssumption, IdleOK DEF Init
<1>1. TypeOK
  <2>1. row \in RowSet /\ request \in [Requests -> RequestSet]
    OBVIOUS
  <2>2. passwords \in 0..MaxPasswords /\ token \in Requests \cup {"none"}
    OBVIOUS
  <2>3. mailed \subseteq Requests /\ links \subseteq 1..passwords /\ spent \subseteq links
    OBVIOUS
  <2>4. clobbered \in BOOLEAN
    OBVIOUS
  <2> QED BY <2>1, <2>2, <2>3, <2>4 DEF TypeOK
<1>2. RowsHavePasswords /\ OneRegistration /\ MailedLinkWorks /\ LinksAge
  BY DEF RowsHavePasswords, OneRegistration, MailedLinkWorks, LinksAge, Exists, At
<1> QED BY <1>1, <1>2 DEF AccountsInv

(* A step of one request leaves the others where they are. *)
LEMMA RequestsOK ==
  ASSUME TypeOK, NEW r \in Requests, NEW q \in RequestSet,
         request' = [request EXCEPT ![r] = q]
  PROVE  /\ request' \in [Requests -> RequestSet]
         /\ request'[r] = q
         /\ \A s \in Requests : s # r => request'[s] = request[s]
BY DEF TypeOK

LEMMA ProceedOK ==
  ASSUME TypeOK, NEW r \in Requests, NEW step \in Steps, Proceed(r, step)
  PROVE  /\ request' \in [Requests -> RequestSet]
         /\ request'[r].step = step
         /\ \A s \in Requests : s # r => request'[s] = request[s]
<1> DEFINE q == [request[r] EXCEPT !.step = step]
<1>1. q \in RequestSet /\ q.step = step /\ request' = [request EXCEPT ![r] = q]
  BY DEF TypeOK, Proceed, RequestSet
<1> QED BY <1>1, RequestsOK

LEMMA DoneOK ==
  ASSUME TypeOK, NEW r \in Requests, Done(r)
  PROVE  /\ request' \in [Requests -> RequestSet]
         /\ request'[r].step = "idle"
         /\ \A s \in Requests : s # r => request'[s] = request[s]
BY IdleOK, RequestsOK DEF Done

(* The row as a request loads it.                                          *)
LEMMA LoadedOK ==
  ASSUME AccountsInv, NEW r \in Requests, NEW step \in Steps, NEW link \in 0..MaxPasswords,
         Loaded(r, step, link),
         step \in {"insert", "verify", "patch", "form", "confirm"},
         step # "insert" => Exists,
         step = "confirm" => link \in links /\ link = row.password
  PROVE  AccountsInv'
<1> DEFINE q == [step |-> step, copy |-> row, link |-> link]
<1>1. q \in RequestSet
  BY DEF AccountsInv, TypeOK, RequestSet
<1>2. /\ request' = [request EXCEPT ![r] = q] /\ At(r, "idle")
      /\ UNCHANGED <<row, passwords, token, mailed, links, spent, clobbered>>
  BY DEF Loaded, mailVars
<1> HIDE DEF q
<1>3. /\ request' \in [Requests -> RequestSet] /\ request'[r] = q
      /\ \A s \in Requests : s # r => request'[s] = request[s]
  BY <1>1, <1>2, RequestsOK DEF AccountsInv
<1>q. q.step = step /\ q.copy = row /\ q.link = link
  BY DEF q
<1>4. TypeOK'
  BY <1>2, <1>3 DEF AccountsInv, TypeOK
<1>5. RowsHavePasswords'
  BY <1>2, <1>3, <1>q DEF AccountsInv, RowsHavePasswords, At, Copy, Exists
<1>6. OneRegistration'
  BY <1>2, <1>3, <1>q DEF AccountsInv, OneRegistration, At, Exists
<1>7. MailedLinkWorks'
  BY <1>2 DEF AccountsInv, MailedLinkWorks
<1>8. LinksAge'
  BY <1>2, <1>3, <1>q DEF AccountsInv, LinksAge, At, Copy
<1> QED BY <1>4, <1>5, <1>6, <1>7, <1>8 DEF AccountsInv

-----------------------------------------------------------------------------
(* The inductive step, one lemma for each group of handlers.               *)

(* Registration.  What makes one answer of 201 enough is the unique index: *)
(* between Insert and the mail no other request inserts the row, and none  *)
(* is still on its way with an earlier one.                                *)
LEMMA RegistrationKeeps ==
  ASSUME AccountsInv, NEW r \in Requests,
         BeginRegister(r) \/ Insert(r) \/ StoreToken(r) \/ SendVerification(r)
  PROVE  AccountsInv'
<1> USE AccountsAssumption DEF AccountsInv
<1>1. CASE BeginRegister(r)
  <2>1. Loaded(r, "insert", 0) /\ "insert" \in Steps /\ 0 \in 0..MaxPasswords
    BY <1>1 DEF BeginRegister, Steps
  <2> QED BY <2>1, LoadedOK
<1>2. CASE Insert(r)
  <2>1. /\ request' \in [Requests -> RequestSet] /\ request'[r].step = "token"
        /\ \A s \in Requests : s # r => request'[s] = request[s]
    BY <1>2, ProceedOK DEF Insert, Steps
  <2>2. /\ row' \in RowSet /\ row'.password = passwords' /\ row' # NoRow
        /\ passwords' = passwords + 1 /\ passwords' \in 1..MaxPasswords
        /\ UNCHANGED <<token, mailed, links, spent, clobbered>>
    BY <1>2 DEF Insert, NewRow, NoRow, RowSet, TypeOK, mailVars
  <2>3. At(r, "insert") /\ row = NoRow /\ token = "none" /\ passwords \in Nat
    BY <1>2 DEF Insert, Exists, OneRegistration, TypeOK
  <2>4. TypeOK'
    BY <2>1, <2>2, <2>3 DEF TypeOK
  <2>5. RowsHavePasswords'
    BY <2>1, <2>2, <2>3 DEF RowsHavePasswords, At, Copy, Exists
  <2>6. OneRegistration'
    BY <2>1, <2>2, <2>3 DEF OneRegistration, At, Exists
  <2>7. MailedLinkWorks'
    BY <2>2 DEF MailedLinkWorks
  <2>8. LinksAge'
    BY <2>1, <2>2, <2>3 DEF LinksAge, TypeOK, At, Copy
  <2> QED BY <2>4, <2>5, <2>6, <2>7, <2>8
<1>3. CASE StoreToken(r)
  <2>1. /\ request' \in [Requests -> RequestSet] /\ request'[r].step = "mail"
        /\ \A s \in Requests : s # r => request'[s] = request[s]
    BY <1>3, ProceedOK DEF StoreToken, Steps
  <2>2. /\ At(r, "token") /\ token' = r
        /\ UNCHANGED <<row, passwords, mailed, links, spent, clobbered>>
    BY <1>3 DEF StoreToken
  <2>3. Exists /\ token = "none" /\ mailed = {} /\ \A s \in Requests : ~At(s, "mail")
    BY <2>2 DEF OneRegistration, MailedLinkWorks, TypeOK
  <2>4. TypeOK'
    BY <2>1, <2>2 DEF TypeOK
  <2>5. RowsHavePasswords'
    BY <2>1, <2>2 DEF RowsHavePasswords, At, Copy, Exists
  <2>6. OneRegistration'
    BY <2>1, <2>2, <2>3 DEF OneRegistration, At, Exists
  <2>7. MailedLinkWorks'
    BY <2>2, <2>3 DEF MailedLinkWorks
  <2>8. LinksAge'
    BY <2>1, <2>2 DEF LinksAge, At, Copy
  <2> QED BY <2>4, <2>5, <2>6, <2>7, <2>8
<1>4. CASE SendVerification(r)
  <2>1. /\ request' \in [Requests -> RequestSet] /\ request'[r].step = "idle"
        /\ \A s \in Requests : s # r => request'[s] = request[s]
    BY <1>4, DoneOK DEF SendVerification
  <2>2. /\ At(r, "mail") /\ mailed' = mailed \cup {r}
        /\ UNCHANGED <<row, passwords, token, links, spent, clobbered>>
    BY <1>4 DEF SendVerification
  <2>3. TypeOK'
    BY <2>1, <2>2 DEF TypeOK
  <2>4. RowsHavePasswords'
    BY <2>1, <2>2 DEF RowsHavePasswords, At, Copy, Exists
  <2>5. OneRegistration'
    BY <2>1, <2>2 DEF OneRegistration, At, Exists
  <2>6. MailedLinkWorks'
    BY <2>2 DEF MailedLinkWorks, OneRegistration
  <2>7. LinksAge'
    BY <2>1, <2>2 DEF LinksAge, At, Copy
  <2> QED BY <2>3, <2>4, <2>5, <2>6, <2>7
<1> QED BY <1>1, <1>2, <1>3, <1>4

(* A request that loads the row for later. *)
LEMMA LoadKeeps ==
  ASSUME AccountsInv, NEW r \in Requests,
         BeginVerify(r) \/ BeginPatch(r) \/ BeginForm(r) \/ BeginConfirm(r)
  PROVE  AccountsInv'
<1> USE AccountsAssumption DEF AccountsInv
<1>1. CASE BeginVerify(r)
  <2>1. Exists
    BY <1>1 DEF BeginVerify, OneRegistration, TypeOK
  <2>2. Loaded(r, "verify", 0) /\ "verify" \in Steps /\ 0 \in 0..MaxPasswords
    BY <1>1 DEF BeginVerify, Steps
  <2> QED BY <2>1, <2>2, LoadedOK
<1>2. CASE BeginPatch(r)
  <2>1. Exists
    BY <1>2 DEF BeginPatch, Exists, NoRow
  <2>2. Loaded(r, "patch", 0) /\ "patch" \in Steps /\ 0 \in 0..MaxPasswords
    BY <1>2 DEF BeginPatch, Steps
  <2> QED BY <2>1, <2>2, LoadedOK
<1>3. CASE BeginForm(r)
  <2>1. Exists /\ Loaded(r, "form", 0) /\ "form" \in Steps /\ 0 \in 0..MaxPasswords
    BY <1>3 DEF BeginForm, Steps
  <2> QED BY <2>1, LoadedOK
<1>4. CASE BeginConfirm(r)
  <2>1. PICK l \in links : LinkValid(l) /\ row.active /\ Loaded(r, "confirm", l)
    BY <1>4 DEF BeginConfirm
  <2>2. Exists
    BY <2>1 DEF Exists, NoRow
  <2>3. l = row.password /\ "confirm" \in Steps
    BY <2>1 DEF LinkValid, Steps
  <2>4. l \in 0..MaxPasswords
    BY DEF TypeOK
  <2> QED BY <2>1, <2>2, <2>3, <2>4, LoadedOK
<1> QED BY <1>1, <1>2, <1>3, <1>4

(* The saves of single columns never touch the password. *)
LEMMA ColumnKeeps ==
  ASSUME AccountsInv, NEW r \in Requests, SaveVerified(r) \/ RecordLogin(r)
  PROVE  AccountsInv'
<1> USE DEF AccountsInv
<1>1. /\ request' \in [Requests -> RequestSet] /\ request'[r].step = "idle"
      /\ \A s \in Requests : s # r => request'[s] = request[s]
  BY DoneOK DEF SaveVerified, RecordLogin
<1>2. /\ row' \in RowSet /\ row'.password = row.password
      /\ row'.verified \/ row'.logged
      /\ UNCHANGED <<passwords, token, mailed, links, spent, clobbered>>
  BY DEF SaveVerified, RecordLogin, RowSet, TypeOK, mailVars
<1>3. Exists /\ Exists'
  <2>1. At(r, "verify") \/ At(r, "record")
    BY DEF SaveVerified, RecordLogin
  <2>2. Exists
    BY <2>1 DEF RowsHavePasswords
  <2>3. row' # NoRow
    BY <1>2 DEF NoRow
  <2> QED BY <2>2, <2>3 DEF Exists
<1>4. TypeOK'
  BY <1>1, <1>2 DEF TypeOK
<1>5. RowsHavePasswords'
  BY <1>1, <1>2, <1>3 DEF RowsHavePasswords, At, Copy
<1>6. OneRegistration'
  BY <1>1, <1>2, <1>3 DEF OneRegistration, At
<1>7. MailedLinkWorks'
  BY <1>2 DEF MailedLinkWorks
<1>8. LinksAge'
  BY <1>1, <1>2 DEF LinksAge, At, Copy
<1> QED BY <1>4, <1>5, <1>6, <1>7, <1>8

(* The form leaves the password it has loaded, the reset all else.         *)
LEMMA FormRow ==
  ASSUME NEW c \in RowSet, NEW f \in Forms
  PROVE  Filled(c, f) \in RowSet /\ Filled(c, f).password = c.password
BY AccountsAssumption DEF RowSet, Filled

LEMMA ResetRow ==
  ASSUME NEW c \in RowSet, NEW p \in 0..MaxPasswords
  PROVE  [c EXCEPT !.password = p] \in RowSet /\ [c EXCEPT !.password = p].password = p
BY DEF RowSet

(* A whole row that was loaded earlier may bring anything back, and then it *)
(* is clobbered; a row that was not keeps its links older than its password. *)
LEMMA WholeRowKeeps ==
  ASSUME AccountsInv, NEW r \in Requests, SavePatch(r) \/ SaveForm(r) \/ SaveConfirm(r)
  PROVE  AccountsInv'
<1> USE AccountsAssumption DEF AccountsInv
<1>1. At(r, "patch") \/ At(r, "form") \/ At(r, "confirm")
  BY DEF SavePatch, SaveForm, SaveConfirm
<1>2. /\ request' \in [Requests -> RequestSet] /\ request'[r].step = "idle"
      /\ \A s \in Requests : s # r => request'[s] = request[s]
  BY DoneOK DEF SavePatch, SaveForm, SaveConfirm, SaveWhole
<1>3. /\ UNCHANGED <<token, mailed, links>>
      /\ clobbered' = (clobbered \/ row # Copy(r))
  BY DEF SavePatch, SaveForm, SaveConfirm, SaveWhole, mailVars
<1>4. Copy(r) \in RowSet /\ Copy(r).password \in 1..passwords /\ Exists
  BY <1>1 DEF RowsHavePasswords, TypeOK, RequestSet, Copy
<1>p. passwords \in Nat /\ passwords <= MaxPasswords
  BY DEF TypeOK
<1>5. /\ row' \in RowSet /\ passwords' \in passwords..MaxPasswords
      /\ row'.password \in 1..passwords'
      /\ \/ passwords' = passwords /\ row'.password = Copy(r).password /\ spent' = spent
         \/ /\ At(r, "confirm") /\ row'.password = passwords + 1
            /\ passwords' = passwords + 1 /\ spent' = spent \cup {request[r].link}
  <2>1. CASE SavePatch(r)
    <3>1. row' = Copy(r) /\ UNCHANGED <<passwords, spent>>
      BY <2>1 DEF SavePatch, SaveWhole
    <3> QED BY <1>p, <1>4, <3>1
  <2>2. CASE SaveForm(r)
    <3>1. PICK f \in Forms : row' = Filled(Copy(r), f)
      BY <2>2 DEF SaveForm, SaveWhole
    <3>2. row' \in RowSet /\ row'.password = Copy(r).password /\ UNCHANGED <<passwords, spent>>
      BY <2>2, <3>1, <1>4, FormRow DEF SaveForm
    <3> QED BY <1>p, <1>4, <3>1, <3>2
  <2>3. CASE SaveConfirm(r)
    <3>1. /\ At(r, "confirm") /\ passwords + 1 \in 1..MaxPasswords
          /\ row' = [Copy(r) EXCEPT !.password = passwords + 1]
          /\ passwords' = passwords + 1 /\ spent' = spent \cup {request[r].link}
      BY <1>p, <2>3 DEF SaveConfirm, SaveWhole
    <3>2. row' \in RowSet /\ row'.password = passwords + 1
      <4>1. passwords + 1 \in 0..MaxPasswords
        BY <3>1
      <4> QED BY <3>1, <4>1, <1>4, ResetRow
    <3> QED BY <1>p, <3>1, <3>2
  <2> QED BY <2>1, <2>2, <2>3
<1>6. Exists'
  BY <1>5 DEF Exists, NoRow
<1>7. TypeOK'
  <2>1. At(r, "confirm") => request[r].link \in links
    BY DEF LinksAge
  <2>2. passwords' \in 0..MaxPasswords /\ links' \subseteq 1..passwords' /\ spent' \subseteq links'
    <3>1. links \subseteq 1..passwords /\ spent \subseteq links
      BY DEF TypeOK
    <3>2. CASE passwords' = passwords /\ spent' = spent
      BY <1>p, <1>3, <3>1, <3>2
    <3>3. CASE At(r, "confirm") /\ passwords' = passwords + 1 /\ spent' = spent \cup {request[r].link}
      <4>1. spent' \subseteq links'
        BY <1>3, <2>1, <3>1, <3>3
      <4>2. passwords' \in 0..MaxPasswords /\ links' \subseteq 1..passwords'
        BY <1>p, <1>3, <1>5, <3>1, <3>3
      <4> QED BY <4>1, <4>2
    <3> QED BY <1>5, <3>2, <3>3
  <2>3. clobbered' \in BOOLEAN
    BY <1>3, Zenon
  <2> QED BY <1>2, <1>3, <1>5, <2>2, <2>3 DEF TypeOK
<1>8. RowsHavePasswords'
  <2>1. passwords \in Nat /\ passwords' \in Nat /\ passwords <= passwords'
    BY <1>5 DEF TypeOK
  <2> QED BY <1>2, <1>5, <1>6, <2>1 DEF RowsHavePasswords, At, Copy
<1>9. OneRegistration'
  BY <1>2, <1>3, <1>4, <1>6 DEF OneRegistration, At
<1>10. MailedLinkWorks'
  BY <1>3 DEF MailedLinkWorks
<1>11. LinksAge'
  <2>1. \A s \in Requests : At(s, "confirm")' =>
          (request[s].link)' \in links' /\ (request[s].link)' = Copy(s)'.password
    BY <1>2, <1>3 DEF LinksAge, At, Copy
  <2>2. ASSUME ~clobbered' PROVE \A l \in spent' : l < row'.password
    <3>1. ~clobbered /\ row = Copy(r)
      BY <2>2, <1>3
    <3>2. /\ \A l \in spent : l \in Nat /\ l < row.password /\ l < passwords + 1
          /\ passwords \in Nat /\ row.password \in 1..passwords
      BY <3>1, <1>4 DEF LinksAge, TypeOK
    <3>3. At(r, "confirm") => request[r].link = row.password
      BY <3>1 DEF LinksAge
    <3> QED BY <1>5, <3>1, <3>2, <3>3
  <2> QED BY <2>1, <2>2 DEF LinksAge
<1> QED BY <1>7, <1>8, <1>9, <1>10, <1>11

(* A link that is sent is bound to the password the row has. *)
LEMMA LinkKeeps ==
  ASSUME AccountsInv, NEW r \in Requests, SendLink(r)
  PROVE  AccountsInv'
<1> USE AccountsAssumption DEF AccountsInv
<1>1. /\ links' = links \cup {row.password} /\ row.password \in 1..passwords
      /\ UNCHANGED <<row, passwords, token, mailed, spent, request, clobbered>>
  BY DEF SendLink, RowsHavePasswords
<1>2. TypeOK'
  BY <1>1 DEF TypeOK
<1>3. RowsHavePasswords' /\ OneRegistration' /\ MailedLinkWorks' /\ LinksAge'
  BY <1>1 DEF RowsHavePasswords, OneRegistration, MailedLinkWorks, LinksAge, At, Copy, Exists
<1> QED BY <1>2, <1>3

(* A request that ends, or begins, without touching anything. *)
LEMMA EndKeeps ==
  ASSUME AccountsInv, NEW r \in Requests, EmailTaken(r) \/ Fail(r) \/ BeginLogin(r)
  PROVE  AccountsInv'
<1> USE AccountsAssumption DEF AccountsInv
<1>1. /\ request' \in [Requests -> RequestSet]
      /\ request'[r].step = "idle" \/ (Exists /\ request'[r].step = "record")
      /\ \A s \in Requests : s # r => request'[s] = request[s]
  <2>1. CASE BeginLogin(r)
    <3>1. Proceed(r, "record") /\ Exists /\ "record" \in Steps
      BY <2>1 DEF BeginLogin, Steps
    <3> QED BY <3>1, ProceedOK
  <2>2. CASE EmailTaken(r) \/ Fail(r)
    <3>1. Done(r)
      BY <2>2 DEF EmailTaken, Fail
    <3> QED BY <3>1, DoneOK
  <2> QED BY <2>1, <2>2
<1>2. UNCHANGED <<row, passwords, token, mailed, links, spent, clobbered>>
  BY DEF EmailTaken, Fail, BeginLogin, mailVars
<1>3. TypeOK'
  BY <1>1, <1>2 DEF TypeOK
<1>4. RowsHavePasswords'
  BY <1>1, <1>2 DEF RowsHavePasswords, At, Copy, Exists
<1>5. OneRegistration' /\ MailedLinkWorks' /\ LinksAge'
  BY <1>1, <1>2 DEF OneRegistration, MailedLinkWorks, LinksAge, At, Copy, Exists
<1> QED BY <1>3, <1>4, <1>5

LEMMA AccountsStep == AccountsInv /\ [Next]_vars => AccountsInv'
<1> SUFFICES ASSUME AccountsInv, [Next]_vars PROVE AccountsInv'
  OBVIOUS
<1>1. CASE UNCHANGED vars
  BY <1>1 DEF vars, mailVars, AccountsInv, TypeOK, RowsHavePasswords, OneRegistration,
              MailedLinkWorks, LinksAge, At, Copy, Exists
<1>2. CASE Next
  BY <1>2, RegistrationKeeps, LoadKeeps, ColumnKeeps, WholeRowKeeps, LinkKeeps, EndKeeps DEF Next
<1> QED BY <1>1, <1>2

-----------------------------------------------------------------------------
(* The theorems.                                                           *)

(* The invariant of the account holds in every reachable state: the row a  *)
(* request saves is one that had a password, one registration at a time is *)
(* on its way to the mail, and unless a whole row was saved over a newer   *)
(* one, every spent reset link is older than the password                  *)
(* (users/views.py, users/serializers.py).                                 *)
THEOREM AccountsInvariant == Spec => []AccountsInv
BY AccountsInit, AccountsStep, PTL DEF Spec

(* However many registrations of one address overlap, at most one is       *)
(* answered 201, and the link it mailed finds its token.                   *)
THEOREM OneAnswerOneLink ==
  Spec => [](MailedLinkWorks /\ \A r, s \in mailed : r = s)
<1>1. AccountsInv => MailedLinkWorks /\ \A r, s \in mailed : r = s
  BY DEF AccountsInv, MailedLinkWorks
<1> QED BY <1>1, AccountsInvariant, PTL

(* A reset link sets a password a second time only after a whole row was   *)
(* saved over a newer one, or by that very save.                           *)
THEOREM ResetLinkSpentByUse == Spec => LinkSpentByUse
<1>1. ASSUME AccountsInv, NEW r \in Requests, SaveConfirm(r), request[r].link \in spent
      PROVE  clobbered'
  <2>1. At(r, "confirm") /\ RowsHavePasswords /\ LinksAge
    BY <1>1 DEF SaveConfirm, AccountsInv
  <2>2. request[r].link = Copy(r).password /\ Copy(r).password \in 1..passwords
    BY <2>1 DEF LinksAge, RowsHavePasswords
  <2>3. ~clobbered => request[r].link < row.password
    BY <1>1, <2>1, Zenon DEF LinksAge
  <2>4. clobbered' \/ (~clobbered /\ row = Copy(r))
    BY <1>1, Zenon DEF SaveConfirm, SaveWhole
  <2>5. passwords \in Nat
    BY <1>1, AccountsAssumption DEF AccountsInv, TypeOK
  <2> QED BY <2>2, <2>3, <2>4, <2>5
<1>2. AccountsInv /\ [Next]_vars
        => [\A r \in Requests : SaveConfirm(r) /\ request[r].link \in spent => clobbered']_vars
  BY <1>1
<1> QED BY <1>2, AccountsInvariant, PTL DEF Spec, LinkSpentByUse

(* A new password is undone only by the save of a whole row that was       *)
(* overtaken since it was loaded; verification and a recorded login only   *)
(* so, or by what staff have filled in the form of the admin site.         *)
THEOREM NothingIsUndone == Spec => NothingUndone
<1> DEFINE Kept == /\ row'.password < row.password => \E r \in Requests : Overtaken(r)
                   /\ Undone => \E r \in Requests :
                                  Overtaken(r) \/ (SavesWhole(r) /\ At(r, "form"))
<1>1. ASSUME AccountsInv, [Next]_vars PROVE Kept
  <2>1. /\ passwords \in Nat /\ row \in RowSet
        /\ row.password \in 0..passwords /\ (row = NoRow \/ row.password \in 1..passwords)
    BY <1>1, AccountsAssumption DEF AccountsInv, TypeOK, RowsHavePasswords, Exists, NoRow
  <2>2. ASSUME row' = row PROVE Kept
    BY <2>1, <2>2 DEF Undone, RowSet
  <2>3. ASSUME NEW r \in Requests, Insert(r) PROVE Kept
    BY <2>1, <2>3 DEF Insert, Exists, NoRow, NewRow, Undone
  <2>4. ASSUME NEW r \in Requests, SaveVerified(r) \/ RecordLogin(r) PROVE Kept
    BY <2>1, <2>4 DEF SaveVerified, RecordLogin, Undone, RowSet
  <2>5. ASSUME NEW r \in Requests, SavePatch(r) \/ SaveForm(r) \/ SaveConfirm(r)
        PROVE  Kept
    <3>1. SavesWhole(r)
      <4>1. request'[r].step = "idle"
        BY <1>1, <2>5, DoneOK DEF AccountsInv, SavePatch, SaveForm, SaveConfirm, SaveWhole
      <4> QED BY <2>5, <4>1 DEF SavesWhole, Wholes, SavePatch, SaveForm, SaveConfirm, At
    <3>2. CASE row # Copy(r)
      BY <3>1, <3>2, Zenon DEF Overtaken
    <3>3. CASE row = Copy(r)
      <4>1. CASE SavePatch(r)
        BY <2>2, <3>3, <4>1, Zenon DEF SavePatch, SaveWhole
      <4>2. CASE SaveForm(r)
        <5>1. PICK f \in Forms : row' = Filled(row, f)
          BY <3>3, <4>2, Zenon DEF SaveForm, SaveWhole
        <5>2. row'.password = row.password
          BY <2>1, <5>1, FormRow
        <5>3. At(r, "form")
          BY <4>2 DEF SaveForm
        <5>4. ~(row'.password < row.password)
          BY <2>1, <5>2
        <5> QED BY <3>1, <5>3, <5>4, Zenon
      <4>3. CASE SaveConfirm(r)
        <5>1. row' = [row EXCEPT !.password = passwords + 1]
          BY <3>3, <4>3, Zenon DEF SaveConfirm, SaveWhole
        <5> QED BY <2>1, <5>1 DEF Undone, RowSet
      <4> QED BY <2>5, <4>1, <4>2, <4>3
    <3> QED BY <3>2, <3>3
  <2>6. ASSUME NEW r \in Requests,
               \/ BeginRegister(r) \/ EmailTaken(r) \/ StoreToken(r) \/ SendVerification(r)
               \/ BeginVerify(r) \/ BeginLogin(r) \/ BeginPatch(r) \/ BeginForm(r)
               \/ SendLink(r) \/ BeginConfirm(r) \/ Fail(r)
        PROVE  row' = row
    BY <2>6 DEF BeginRegister, EmailTaken, StoreToken, SendVerification, BeginVerify, BeginLogin,
                BeginPatch, BeginForm, SendLink, BeginConfirm, Fail, Loaded
  <2>7. UNCHANGED vars => row' = row
    BY DEF vars
  <2> HIDE DEF Kept
  <2> QED BY <1>1, <2>2, <2>3, <2>4, <2>5, <2>6, <2>7 DEF Next
<1>2. AccountsInv /\ [Next]_vars => [Kept]_vars
  BY <1>1
<1> QED BY <1>2, AccountsInvariant, PTL DEF Spec, NothingUndone
===============================================================================

-------------------------- MODULE OrganizationsProofs --------------------------
(***************************************************************************)
(* Proofs about organizations and their events, for any numbers of users,  *)
(* organizations, events and overlapping requests: the tables stay         *)
(* consistent, what was deactivated or deleted returns only by a late      *)
(* save, and creation fails only for a row that the request did not see.   *)
(***************************************************************************)
EXTENDS Organizations, TLAPS

-----------------------------------------------------------------------------
(* Rows and requests.                                                      *)

(* NoRow is not a row. *)
LEMMA RowsAreRows ==
  /\ NoRow \notin OrgRows /\ NoRow \notin EventRows
<1>1. ASSUME NEW x \in OrgRows PROVE x # NoRow
  <2>1. DOMAIN x = {"slug", "owner", "active", "deleted"} /\ DOMAIN NoRow = {"slug"}
    BY DEF OrgRows, NoRow
  <2>2. "owner" \in DOMAIN x /\ "owner" \notin DOMAIN NoRow
    BY <2>1
  <2> QED BY <2>2
<1>2. ASSUME NEW x \in EventRows PROVE x # NoRow
  <2>1. DOMAIN x = {"slug", "org", "deleted", "by"} /\ DOMAIN NoRow = {"slug"}
    BY DEF EventRows, NoRow
  <2>2. "org" \in DOMAIN x /\ "org" \notin DOMAIN NoRow
    BY <2>1
  <2> QED BY <2>2
<1> QED BY <1>1, <1>2

(* What is known of a request by what it is doing. *)
LEMMA WorkOf ==
  ASSUME NEW w \in Works
  PROVE  /\ w = Idle <=> w.doing = "nothing"
         /\ w # Idle => w.key \in Orgs \cup Events
         /\ w.doing = "create" => w.user \in Users /\ w.key \in Orgs /\ w.slug \in Bases \cup Orgs
         /\ w.doing \in {"patch", "form"} => w.key \in Orgs /\ w.copy \in OrgRows
         /\ w.doing \in {"invite", "join"} => w.key \in Orgs /\ w.invitee \in Users
         /\ w.doing = "slug" => /\ w.user \in Users /\ w.key \in Events /\ w.org \in Orgs
                                /\ w.next \in 0..MaxSlugRetries
         /\ w.doing = "insert" => /\ w.user \in Users /\ w.key \in Events /\ w.org \in Orgs
                                  /\ w.slug \in 0..MaxSlugRetries \cup Events
         /\ w.doing \in {"update", "move"} => w.key \in Events /\ w.copy \in EventRows
         /\ w.doing \in {"nothing", "create", "patch", "form", "invite", "join", "slug", "insert",
                         "update", "move"}
<1> USE DEF Idle
<1>1. CASE w = Idle
  BY <1>1
<1>2. CASE w \in [doing : {"create"}, user : Users, key : Orgs, slug : Bases \cup Orgs]
  BY <1>2
<1>3. CASE w \in [doing : {"patch", "form"}, key : Orgs, copy : OrgRows]
  BY <1>3
<1>4. CASE w \in [doing : {"invite", "join"}, key : Orgs, invitee : Users]
  BY <1>4
<1>5. CASE w \in [doing : {"slug"}, user : Users, key : Events, org : Orgs, next : 0..MaxSlugRetries]
  BY <1>5
<1>6. CASE w \in [doing : {"insert"}, user : Users, key : Events, org : Orgs,
                  slug : 0..MaxSlugRetries \cup Events]
  BY <1>6
<1>7. CASE w \in [doing : {"update", "move"}, key : Events, copy : EventRows]
  BY <1>7
<1> QED BY <1>1, <1>2, <1>3, <1>4, <1>5, <1>6, <1>7 DEF Works

(* A step of one request leaves the others where they are. *)
LEMMA ReqMoves ==
  ASSUME TypeOK, NEW r \in Requests, NEW w \in Works, req' = [req EXCEPT ![r] = w]
  PROVE  /\ req' \in [Requests -> Works] /\ req'[r] = w
         /\ \A q \in Requests \ {r} : req'[q] = req[q]
BY DEF TypeOK

LEMMA IdleWorks == Idle \in Works /\ Idle.doing = "nothing"
BY DEF Works, Idle

(* The parts of the invariant that the tables alone decide. *)
RowsInv == OwnerIsOWNER /\ SlugsUnique /\ NoOrphans /\ OnlyInsidersWrite /\ SlugsNamed

-----------------------------------------------------------------------------
(* What a step does to the requests that it is not a step of.              *)

(* Such a request is late from the first change of what it read. *)
LEMMA OthersFit ==
  ASSUME OrganizationsInv, TypeOK', NEW q \in Requests, req'[q] = req[q],
         insiders \subseteq insiders', staffed \subseteq staffed',
         req[q] # Idle /\ q \notin late' => q \notin late /\ ~Changed(req[q]),
         \A o \in Orgs \ staffed' :
           orgs[o] # NoRow => orgs'[o] # NoRow /\ orgs'[o].owner = orgs[o].owner
  PROVE  CopyFits(q)' /\ StillTrue(q)'
<1> DEFINE w == req[q]
<1>1. w \in Works /\ CopyFits(q) /\ StillTrue(q)
  BY DEF OrganizationsInv, TypeOK
<1>2. CopyFits(q)'
  <2>1. ASSUME w.doing = "patch", w.key \notin staffed'
        PROVE  orgs'[w.key] # NoRow /\ w.copy.owner = orgs'[w.key].owner
    BY <1>1, <2>1, WorkOf DEF CopyFits
  <2>2. ASSUME w.doing \in {"slug", "insert"} PROVE Insider(w.user, w.org)'
    BY <1>1, <2>2 DEF CopyFits, Insider
  <2>3. ASSUME w.doing \in {"update", "move"}
        PROVE  w.copy.slug \in Nat \cup {w.key} /\ Insider(w.copy.by, w.copy.org)'
    BY <1>1, <2>3 DEF CopyFits, Insider
  <2> QED BY <1>1, <2>1, <2>2, <2>3 DEF CopyFits
<1>3. ASSUME w # Idle, q \notin late' PROVE q \notin late /\ ~Changed(w)
  BY <1>3
<1>4. StillTrue(q)'
  <2> SUFFICES ASSUME q \notin late'
               PROVE  /\ w.doing = "patch" => Live(w.key)'
                      /\ w.doing \in {"update", "move"} => Shown(events, w.key)'
                      /\ w.doing = "update" => w.copy.org = events'[w.key].org
                      /\ w.doing = "create" => w.slug = w.key \/ Free(orgs, w.slug)'
                      /\ w.doing = "insert" => w.slug = w.key \/ Free(events, w.slug)'
    BY DEF StillTrue
  <2>1. CASE w.doing = "patch"
    <3>1. w # Idle /\ w.key \in Orgs /\ q \notin late /\ orgs'[w.key] = orgs[w.key]
      BY <1>1, <1>3, <2>1, WorkOf DEF Changed
    <3> QED BY <1>1, <2>1, <3>1 DEF StillTrue, Live, Shown
  <2>2. CASE w.doing \in {"update", "move"}
    <3>1. w # Idle /\ w.key \in Events /\ w.key \notin Orgs
      BY <1>1, <2>2, WorkOf, OrganizationsAssumption
    <3>2. q \notin late /\ events'[w.key] = events[w.key]
      BY <1>3, <2>2, <3>1 DEF Changed
    <3> QED BY <1>1, <2>2, <3>2 DEF StillTrue, Shown
  <2>3. CASE w.doing = "create"
    <3>1. w # Idle
      BY <1>1, <2>3, WorkOf
    <3>2. q \notin late /\ ~Changed(w)
      BY <1>3, <3>1
    <3>3. orgs' = orgs
      BY <2>3, <3>2 DEF Changed
    <3> QED BY <1>1, <2>3, <3>2, <3>3 DEF StillTrue, Free, Shown
  <2>4. CASE w.doing = "insert"
    <3>1. w # Idle
      BY <1>1, <2>4, WorkOf
    <3>2. q \notin late /\ ~Changed(w)
      BY <1>3, <3>1
    <3>3. events' = events
      BY <2>4, <3>2 DEF Changed
    <3> QED BY <1>1, <2>4, <3>2, <3>3 DEF StillTrue, Free, Shown
  <2> QED BY <2>1, <2>2, <2>3, <2>4
<1> QED BY <1>2, <1>4

(* What the tables alone decide stays with them. *)
LEMMA SameRows ==
  ASSUME OrganizationsInv, UNCHANGED <<orgs, role, events>>, staffed \subseteq staffed'
  PROVE  OwnerIsOWNER' /\ SlugsUnique' /\ NoOrphans' /\ SlugsNamed'
<1>1. OwnerIsOWNER'
  BY DEF OrganizationsInv, OwnerIsOWNER
<1>2. SlugsUnique'
  BY DEF OrganizationsInv, SlugsUnique, Held
<1>3. NoOrphans'
  BY DEF OrganizationsInv, NoOrphans
<1>4. SlugsNamed'
  BY DEF OrganizationsInv, SlugsNamed
<1> QED BY <1>1, <1>2, <1>3, <1>4

(* A request takes a step in which the tables stay. *)
LEMMA LoadKeeps ==
  ASSUME OrganizationsInv, NEW r \in Requests, NEW w \in Works, req' = [req EXCEPT ![r] = w],
         UNCHANGED <<rows, insiders, staffed, late, gone>>, edits' \in 0..MaxStaffEdits,
         \A q \in Requests \ {r} : Inserting(q) => req[q].key # w.key,
         KeyIsNew(r)', CopyFits(r)', StillTrue(r)'
  PROVE  OrganizationsInv'
<1> USE DEF rows
<1>1. /\ req' \in [Requests -> Works] /\ req'[r] = w
      /\ \A q \in Requests \ {r} : req'[q] = req[q]
  BY ReqMoves DEF OrganizationsInv
<1>2. TypeOK'
  BY <1>1 DEF OrganizationsInv, TypeOK
<1>3. OwnerIsOWNER' /\ SlugsUnique' /\ NoOrphans' /\ SlugsNamed'
  BY SameRows
<1>4. OnlyInsidersWrite'
  BY DEF OrganizationsInv, OnlyInsidersWrite, Insiders, ActiveMember, Insider
<1>5. ASSUME NEW q \in Requests PROVE KeyIsNew(q)' /\ CopyFits(q)' /\ StillTrue(q)'
  <2>1. CASE q = r
    BY <2>1
  <2>2. CASE q # r
    <3>1. req'[q] = req[q] /\ ~Changed(req[q])
      BY <1>1, <2>2 DEF Changed
    <3>2. CopyFits(q)' /\ StillTrue(q)'
      BY <1>2, <3>1, OthersFit
    <3>3. KeyIsNew(q)'
      BY <1>1, <2>2, <3>1 DEF OrganizationsInv, KeyIsNew, Inserting
    <3> QED BY <3>2, <3>3
  <2> QED BY <2>1, <2>2
<1> QED BY <1>2, <1>3, <1>4, <1>5 DEF OrganizationsInv

(* The tables change, and the requests in done end. *)
LEMMA TablesKeep ==
  ASSUME OrganizationsInv, NEW done \in SUBSET Requests,
         req' = [q \in Requests |-> IF q \in done THEN Idle ELSE req[q]],
         Note(done), edits' \in 0..MaxStaffEdits,
         staffed \subseteq staffed', staffed' \subseteq Orgs, gone' \subseteq Orgs \cup Events,
         orgs' \in [Orgs -> OrgRows \cup {NoRow}],
         role' \in [Users \X Orgs -> Roles \cup {"none"}],
         events' \in [Events -> EventRows \cup {NoRow}],
         OwnerIsOWNER', SlugsUnique', NoOrphans', SlugsNamed',
         \A e \in Events : events'[e] # NoRow =>
           Insider(events'[e].by, events'[e].org),
         \A o \in Orgs \ staffed' :
           orgs[o] # NoRow => orgs'[o] # NoRow /\ orgs'[o].owner = orgs[o].owner,
         \A q \in Requests \ done : Inserting(q) =>
           /\ req[q].key \notin gone'
           /\ IF req[q].doing = "create" THEN orgs'[req[q].key] = NoRow
                                         ELSE events'[req[q].key] = NoRow
  PROVE  OrganizationsInv'
<1>1. req' \in [Requests -> Works] /\ \A q \in Requests : req'[q] = IF q \in done THEN Idle ELSE req[q]
  BY IdleWorks DEF OrganizationsInv, TypeOK
<1>2. Insiders' \subseteq Users \X Orgs /\ insiders' = insiders \cup Insiders'
  BY DEF Insiders, Note
<1>3. TypeOK'
  BY <1>1, <1>2 DEF Note, OrganizationsInv, TypeOK
<1>4. OnlyInsidersWrite'
  BY <1>2 DEF OnlyInsidersWrite, Insider
<1>5. ASSUME NEW q \in Requests PROVE KeyIsNew(q)' /\ CopyFits(q)' /\ StillTrue(q)'
  <2>1. CASE q \in done
    BY <1>1, <2>1, IdleWorks DEF KeyIsNew, Inserting, CopyFits, StillTrue
  <2>2. CASE q \notin done
    <3>1. req'[q] = req[q]
      BY <1>1, <2>2
    <3>2. req[q] # Idle /\ q \notin late' => q \notin late /\ ~Changed(req[q])
      BY <2>2 DEF Note
    <3>3. CopyFits(q)' /\ StillTrue(q)'
      BY <1>2, <1>3, <3>1, <3>2, OthersFit
    <3>4. KeyIsNew(q)'
      BY <1>1, <2>2, <3>1, IdleWorks DEF OrganizationsInv, KeyIsNew, Inserting
    <3> QED BY <3>3, <3>4
  <2> QED BY <2>1, <2>2
<1> QED BY <1>3, <1>4, <1>5 DEF OrganizationsInv

-----------------------------------------------------------------------------
(* Steps that end a request.                                               *)

(* What a request that ends leaves alone. *)
LEMMA Ends ==
  ASSUME OrganizationsInv, NEW r \in Requests, req[r] # Idle, End(r)
  PROVE  /\ req' = [q \in Requests |-> IF q \in {r} THEN Idle ELSE req[q]]
         /\ Note({r}) /\ edits' \in 0..MaxStaffEdits /\ gone' = gone
         /\ \A q \in Requests \ {r} : Inserting(q) =>
              req[q].key \notin gone' /\ req[q].key # req[r].key
BY DEF End, OrganizationsInv, TypeOK, KeyIsNew

LEMMA FailKeeps ==
  ASSUME OrganizationsInv, NEW r \in Requests, req[r] # Idle, Fail(r),
         staffed \subseteq staffed', staffed' \subseteq Orgs
  PROVE  OrganizationsInv'
<1> USE DEF rows
<1>1. End(r) /\ UNCHANGED <<orgs, role, events>>
  BY DEF Fail
<1>2. \A q \in Requests \ {r} : Inserting(q) =>
        /\ req[q].key \notin gone'
        /\ IF req[q].doing = "create" THEN orgs'[req[q].key] = NoRow
                                      ELSE events'[req[q].key] = NoRow
  BY <1>1, Ends DEF OrganizationsInv, KeyIsNew
<1>3. /\ orgs' \in [Orgs -> OrgRows \cup {NoRow}] /\ role' \in [Users \X Orgs -> Roles \cup {"none"}]
      /\ events' \in [Events -> EventRows \cup {NoRow}]
      /\ staffed' \subseteq Orgs /\ gone' \subseteq Orgs \cup Events
  BY <1>1, Ends DEF OrganizationsInv, TypeOK
<1>4. OwnerIsOWNER' /\ SlugsUnique' /\ NoOrphans' /\ SlugsNamed'
  BY <1>1, SameRows
<1>5. \A e \in Events : events'[e] # NoRow => Insider(events'[e].by, events'[e].org)
  BY <1>1 DEF OrganizationsInv, OnlyInsidersWrite
<1>6. /\ {r} \in SUBSET Requests /\ Note({r}) /\ edits' \in 0..MaxStaffEdits
      /\ req' = [q \in Requests |-> IF q \in {r} THEN Idle ELSE req[q]]
  BY <1>1, Ends
<1> QED BY <1>1, <1>2, <1>3, <1>4, <1>5, <1>6, TablesKeep

(* The row of an organization is written as somebody loaded it. *)
LEMMA SaveOrgKeeps ==
  ASSUME OrganizationsInv, NEW r \in Requests, req[r].doing \in {"patch", "form"},
         NEW row \in OrgRows, row.slug \in Bases \cup {req[r].key}, SaveOrg(r, row),
         staffed \subseteq staffed', staffed' \subseteq Orgs,
         ~(staffed' = staffed) => req[r].key \in staffed',
         req[r].key \notin staffed' => orgs[req[r].key] # NoRow /\ row.owner = orgs[req[r].key].owner
  PROVE  OrganizationsInv' \/ Fail(r)
<1> USE DEF rows
<1> DEFINE o == req[r].key
           slug == IF row.slug = Blank THEN GenerateOrgSlug(o, Blank) ELSE row.slug
           new == [row EXCEPT !.slug = slug]
<1>1. req[r] \in Works /\ req[r] # Idle /\ o \in Orgs
  BY WorkOf DEF OrganizationsInv, TypeOK
<1>2. CASE Held(orgs, slug, o)
  BY <1>2 DEF SaveOrg
<1>3. CASE ~Held(orgs, slug, o)
  <2>1. /\ orgs' = [orgs EXCEPT ![o] = new] /\ UNCHANGED <<role, events>> /\ End(r)
    BY <1>3 DEF SaveOrg
  <2>2. slug \in Bases \cup {o} /\ slug \in Bases \cup Orgs
    BY <1>1 DEF GenerateOrgSlug, OrgRows
  <2>3. new \in OrgRows /\ new # NoRow /\ new.slug = slug /\ new.owner = row.owner
    BY <2>2, RowsAreRows DEF OrgRows
  <2>4. /\ orgs' \in [Orgs -> OrgRows \cup {NoRow}] /\ orgs'[o] = new
        /\ \A x \in Orgs \ {o} : orgs'[x] = orgs[x]
    BY <1>1, <2>1, <2>3 DEF OrganizationsInv, TypeOK
  <2> HIDE DEF new, slug
  <2>5. OwnerIsOWNER'
    <3> SUFFICES ASSUME NEW x \in Orgs, NEW u \in Users, orgs'[x] # NoRow, x \notin staffed'
                 PROVE  role[<<u, x>>] = "OWNER" <=> orgs'[x].owner = u
      BY <2>1 DEF OwnerIsOWNER
    <3>1. orgs[x] # NoRow /\ orgs'[x].owner = orgs[x].owner /\ x \notin staffed
      BY <2>3, <2>4
    <3> QED BY <3>1 DEF OrganizationsInv, OwnerIsOWNER
  <2>6. SlugsUnique'
    <3>1. ASSUME NEW x \in Orgs, NEW y \in Orgs, x # y, orgs'[x] # NoRow, orgs'[y] # NoRow
          PROVE  orgs'[x].slug # orgs'[y].slug
      <4>1. \A z \in Orgs \ {o} : orgs[z] # NoRow => orgs[z].slug # slug
        BY <1>3 DEF Held, OrganizationsInv, TypeOK
      <4>2. \A z, t \in Orgs : z # t /\ orgs[z] # NoRow /\ orgs[t] # NoRow => orgs[z].slug # orgs[t].slug
        BY DEF Held, OrganizationsInv, TypeOK, SlugsUnique
      <4>3. CASE x = o
        BY <2>3, <2>4, <3>1, <4>1, <4>3
      <4>4. CASE y = o
        BY <2>3, <2>4, <3>1, <4>1, <4>4
      <4>5. CASE x # o /\ y # o
        BY <2>4, <3>1, <4>2, <4>5
      <4> QED BY <4>3, <4>4, <4>5
    <3>2. \A x \in Orgs : orgs'[x] # NoRow => ~Held(orgs, orgs[x].slug, x)'
      BY <2>4, <3>1 DEF Held
    <3>3. \A e \in Events : events'[e] # NoRow => ~Held(events, events[e].slug, e)'
      BY <2>1 DEF OrganizationsInv, SlugsUnique, Held
    <3> QED BY <3>2, <3>3 DEF SlugsUnique
  <2>7. NoOrphans'
    BY <2>1, <2>3, <2>4 DEF OrganizationsInv, TypeOK, EventRows, NoOrphans
  <2>8. SlugsNamed'
    BY <2>1, <2>2, <2>3, <2>4 DEF OrganizationsInv, SlugsNamed
  <2>9. \A e \in Events : events'[e] # NoRow => Insider(events'[e].by, events'[e].org)
    BY <2>1 DEF OrganizationsInv, OnlyInsidersWrite
  <2>10. /\ role' \in [Users \X Orgs -> Roles \cup {"none"}]
         /\ events' \in [Events -> EventRows \cup {NoRow}]
    BY <2>1 DEF OrganizationsInv, TypeOK
  <2>11. \A x \in Orgs \ staffed' :
           orgs[x] # NoRow => orgs'[x] # NoRow /\ orgs'[x].owner = orgs[x].owner
    BY <2>3, <2>4
  <2>12. \A q \in Requests \ {r} : Inserting(q) =>
           /\ req[q].key \notin gone'
           /\ IF req[q].doing = "create" THEN orgs'[req[q].key] = NoRow
                                         ELSE events'[req[q].key] = NoRow
    <3>1. \A q \in Requests \ {r} : req[q].doing = "create" => req[q].key \in Orgs
      BY WorkOf DEF OrganizationsInv, TypeOK
    <3> QED BY <1>1, <2>1, <2>4, <3>1, Ends DEF OrganizationsInv, KeyIsNew, Inserting
  <2>13. /\ {r} \in SUBSET Requests /\ Note({r}) /\ edits' \in 0..MaxStaffEdits
         /\ req' = [q \in Requests |-> IF q \in {r} THEN Idle ELSE req[q]]
         /\ gone' \subseteq Orgs \cup Events
    BY <1>1, <2>1, Ends DEF OrganizationsInv, TypeOK
  <2> QED BY <2>4, <2>5, <2>6, <2>7, <2>8, <2>9, <2>10, <2>11, <2>12, <2>13, TablesKeep
<1> QED BY <1>2, <1>3

LEMMA SavePatchKeeps ==
  ASSUME OrganizationsInv, NEW r \in Requests, SavePatch(r) PROVE OrganizationsInv'
<1>1. /\ req[r].doing = "patch" /\ SaveOrg(r, req[r].copy) /\ staffed' = staffed
      /\ req[r] \in Works
  BY DEF SavePatch, OrganizationsInv, TypeOK
<1>2. req[r] # Idle /\ req[r].copy \in OrgRows /\ req[r].copy.slug \in Bases \cup {req[r].key}
  BY <1>1, WorkOf DEF OrganizationsInv, CopyFits
<1>3. req[r].key \notin staffed =>
        orgs[req[r].key] # NoRow /\ req[r].copy.owner = orgs[req[r].key].owner
  BY <1>1 DEF OrganizationsInv, CopyFits
<1>4. OrganizationsInv' \/ Fail(r)
  BY <1>1, <1>2, <1>3, SaveOrgKeeps DEF OrganizationsInv, TypeOK
<1> QED BY <1>1, <1>2, <1>4, FailKeeps DEF OrganizationsInv, TypeOK

LEMMA PostFormKeeps ==
  ASSUME OrganizationsInv, NEW r \in Requests, PostForm(r) PROVE OrganizationsInv'
<1> DEFINE o == req[r].key
           row == [req[r].copy EXCEPT !.slug = orgs[o].slug]
<1>1. req[r].doing = "form" /\ req[r] \in Works /\ req[r] # Idle /\ o \in Orgs /\ req[r].copy \in OrgRows
  BY WorkOf DEF PostForm, OrganizationsInv, TypeOK
<1>2. CASE ~Shown(orgs, o)
  BY <1>1, <1>2, FailKeeps DEF PostForm, OrganizationsInv, TypeOK
<1>3. CASE Shown(orgs, o)
  <2>1. SaveOrg(r, row) /\ staffed' = staffed \cup {o}
    BY <1>3 DEF PostForm
  <2>2. orgs[o] \in OrgRows /\ orgs[o].slug \in Bases \cup {o}
    BY <1>1, <1>3 DEF Shown, OrganizationsInv, TypeOK, SlugsNamed
  <2>3. row \in OrgRows /\ row.slug \in Bases \cup {o}
    BY <1>1, <2>2 DEF OrgRows
  <2>4. OrganizationsInv' \/ Fail(r)
    BY <1>1, <2>1, <2>3, SaveOrgKeeps DEF OrganizationsInv, TypeOK
  <2> QED BY <1>1, <2>1, <2>4, FailKeeps DEF OrganizationsInv, TypeOK
<1> QED BY <1>2, <1>3

(* A new organization comes with its OWNER, and takes a slug that no row   *)
(* has.                                                                    *)
LEMMA CreateOrgKeeps ==
  ASSUME OrganizationsInv, NEW r \in Requests, CreateOrg(r) PROVE OrganizationsInv'
<1> USE DEF rows
<1> DEFINE w == req[r]
           o == w.key
           new == [slug |-> w.slug, owner |-> w.user, active |-> TRUE, deleted |-> FALSE]
<1>1. /\ w.doing = "create" /\ w \in Works /\ staffed' = staffed
      /\ staffed \subseteq Orgs
  BY DEF CreateOrg, OrganizationsInv, TypeOK
<1>2. /\ w # Idle /\ w.user \in Users /\ o \in Orgs /\ w.slug \in Bases \cup Orgs
      /\ w.slug \in Bases \cup {o} /\ orgs[o] = NoRow
  BY <1>1, WorkOf DEF OrganizationsInv, CopyFits, KeyIsNew, Inserting
<1>3. CASE Held(orgs, w.slug, o)
  BY <1>1, <1>2, <1>3, FailKeeps DEF CreateOrg
<1>4. CASE ~Held(orgs, w.slug, o)
  <2>1. /\ orgs' = [orgs EXCEPT ![o] = new] /\ role' = [role EXCEPT ![<<w.user, o>>] = "OWNER"]
        /\ events' = events /\ End(r)
    BY <1>4 DEF CreateOrg
  <2>2. new \in OrgRows /\ new # NoRow /\ new.slug = w.slug /\ new.owner = w.user
    <3>1. new \in OrgRows
      BY <1>2 DEF OrgRows
    <3> QED BY <3>1, RowsAreRows
  <2>3. /\ orgs' \in [Orgs -> OrgRows \cup {NoRow}] /\ orgs'[o] = new
        /\ \A x \in Orgs \ {o} : orgs'[x] = orgs[x]
    BY <1>2, <2>1, <2>2 DEF OrganizationsInv, TypeOK
  <2>4. /\ role' \in [Users \X Orgs -> Roles \cup {"none"}]
        /\ \A u \in Users, x \in Orgs :
             role'[<<u, x>>] = IF u = w.user /\ x = o THEN "OWNER" ELSE role[<<u, x>>]
    BY <1>2, <2>1 DEF OrganizationsInv, TypeOK, Roles
  <2>5. \A u \in Users : role[<<u, o>>] = "none"
    BY <1>2 DEF OrganizationsInv, NoOrphans
  <2>6. OwnerIsOWNER'
    <3> SUFFICES ASSUME NEW x \in Orgs, NEW u \in Users, orgs'[x] # NoRow, x \notin staffed
                 PROVE  role'[<<u, x>>] = "OWNER" <=> orgs'[x].owner = u
      BY <1>1 DEF OwnerIsOWNER
    <3>1. CASE x = o
      BY <2>2, <2>3, <2>4, <2>5, <3>1
    <3>2. CASE x # o
      BY <2>3, <2>4, <3>2 DEF OrganizationsInv, OwnerIsOWNER
    <3> QED BY <3>1, <3>2
  <2>7. SlugsUnique'
    <3>1. ASSUME NEW x \in Orgs, NEW y \in Orgs, x # y, orgs'[x] # NoRow, orgs'[y] # NoRow
          PROVE  orgs'[x].slug # orgs'[y].slug
      <4>1. \A z \in Orgs \ {o} : orgs[z] # NoRow => orgs[z].slug # w.slug
        BY <1>4 DEF Held, OrganizationsInv, TypeOK
      <4>2. \A z, t \in Orgs : z # t /\ orgs[z] # NoRow /\ orgs[t] # NoRow => orgs[z].slug # orgs[t].slug
        BY DEF Held, OrganizationsInv, TypeOK, SlugsUnique
      <4>3. CASE x = o
        BY <2>2, <2>3, <3>1, <4>1, <4>3
      <4>4. CASE y = o
        BY <2>2, <2>3, <3>1, <4>1, <4>4
      <4>5. CASE x # o /\ y # o
        BY <2>3, <3>1, <4>2, <4>5
      <4> QED BY <4>3, <4>4, <4>5
    <3>2. \A x \in Orgs : orgs'[x] # NoRow => ~Held(orgs, orgs[x].slug, x)'
      BY <2>3, <3>1 DEF Held
    <3>3. \A e \in Events : events'[e] # NoRow => ~Held(events, events[e].slug, e)'
      BY <2>1 DEF OrganizationsInv, SlugsUnique, Held
    <3> QED BY <3>2, <3>3 DEF SlugsUnique
  <2>8. NoOrphans'
    BY <1>2, <2>1, <2>2, <2>3, <2>4 DEF OrganizationsInv, TypeOK, EventRows, NoOrphans
  <2>9. SlugsNamed'
    BY <1>2, <2>1, <2>2, <2>3 DEF OrganizationsInv, SlugsNamed
  <2>10. \A e \in Events : events'[e] # NoRow => Insider(events'[e].by, events'[e].org)
    BY <2>1 DEF OrganizationsInv, OnlyInsidersWrite
  <2>11. \A x \in Orgs \ staffed' :
           orgs[x] # NoRow => orgs'[x] # NoRow /\ orgs'[x].owner = orgs[x].owner
    BY <1>2, <2>2, <2>3
  <2>12. \A q \in Requests \ {r} : Inserting(q) =>
           /\ req[q].key \notin gone'
           /\ IF req[q].doing = "create" THEN orgs'[req[q].key] = NoRow
                                         ELSE events'[req[q].key] = NoRow
    <3>1. \A q \in Requests \ {r} : req[q].doing = "create" => req[q].key \in Orgs
      BY WorkOf DEF OrganizationsInv, TypeOK
    <3> QED BY <1>2, <2>1, <2>3, <3>1, Ends DEF OrganizationsInv, KeyIsNew, Inserting
  <2>13. /\ {r} \in SUBSET Requests /\ Note({r}) /\ edits' \in 0..MaxStaffEdits
         /\ req' = [q \in Requests |-> IF q \in {r} THEN Idle ELSE req[q]]
         /\ gone' \subseteq Orgs \cup Events
         /\ events' \in [Events -> EventRows \cup {NoRow}]
    BY <1>2, <2>1, Ends DEF OrganizationsInv, TypeOK
  <2> QED BY <1>1, <2>3, <2>4, <2>6, <2>7, <2>8, <2>9, <2>10, <2>11, <2>12, <2>13, TablesKeep
<1> QED BY <1>3, <1>4

(* An event's row is written by an insider, into an organization that has  *)
(* its row and under a slug that no other event has.                       *)
LEMMA WriteEventKeeps ==
  ASSUME OrganizationsInv, NEW r \in Requests, req[r] # Idle, NEW e \in Events, req[r].key = e,
         NEW row \in EventRows, ~Held(events, row.slug, e), orgs[row.org] # NoRow,
         row.slug \in Nat \cup {e}, Insider(row.by, row.org),
         events' = [events EXCEPT ![e] = row], UNCHANGED <<orgs, role, staffed>>, End(r)
  PROVE  OrganizationsInv'
<1>1. row # NoRow
  BY RowsAreRows
<1>2. /\ events' \in [Events -> EventRows \cup {NoRow}] /\ events'[e] = row
      /\ \A x \in Events \ {e} : events'[x] = events[x]
  BY DEF OrganizationsInv, TypeOK
<1>3. OwnerIsOWNER'
  BY DEF OrganizationsInv, OwnerIsOWNER
<1>4. SlugsUnique'
  <2>1. ASSUME NEW x \in Events, NEW y \in Events, x # y, events'[x] # NoRow, events'[y] # NoRow
        PROVE  events'[x].slug # events'[y].slug
    <3>1. \A z \in Events \ {e} : events[z] # NoRow => events[z].slug # row.slug
      BY DEF Held, OrganizationsInv, TypeOK
    <3>2. \A z, t \in Events :
            z # t /\ events[z] # NoRow /\ events[t] # NoRow => events[z].slug # events[t].slug
      BY DEF Held, OrganizationsInv, TypeOK, SlugsUnique
    <3>3. CASE x = e
      BY <1>2, <2>1, <3>1, <3>3
    <3>4. CASE y = e
      BY <1>2, <2>1, <3>1, <3>4
    <3>5. CASE x # e /\ y # e
      BY <1>2, <2>1, <3>2, <3>5
    <3> QED BY <3>3, <3>4, <3>5
  <2>2. \A x \in Events : events'[x] # NoRow => ~Held(events, events[x].slug, x)'
    BY <1>2, <2>1 DEF Held
  <2>3. \A o \in Orgs : orgs'[o] # NoRow => ~Held(orgs, orgs[o].slug, o)'
    BY DEF OrganizationsInv, SlugsUnique, Held
  <2> QED BY <2>2, <2>3 DEF SlugsUnique
<1>5. NoOrphans'
  BY <1>1, <1>2 DEF OrganizationsInv, NoOrphans
<1>6. SlugsNamed'
  BY <1>1, <1>2 DEF OrganizationsInv, SlugsNamed
<1>7. \A x \in Events : events'[x] # NoRow => Insider(events'[x].by, events'[x].org)
  BY <1>2 DEF OrganizationsInv, OnlyInsidersWrite
<1>8. \A q \in Requests \ {r} : Inserting(q) =>
        /\ req[q].key \notin gone'
        /\ IF req[q].doing = "create" THEN orgs'[req[q].key] = NoRow
                                      ELSE events'[req[q].key] = NoRow
  <2>1. \A q \in Requests \ {r} : req[q].doing \in {"slug", "insert"} => req[q].key \in Events
    BY WorkOf DEF OrganizationsInv, TypeOK
  <2> QED BY <1>2, <2>1, Ends DEF OrganizationsInv, KeyIsNew, Inserting
<1>9. /\ {r} \in SUBSET Requests /\ Note({r}) /\ edits' \in 0..MaxStaffEdits
      /\ req' = [q \in Requests |-> IF q \in {r} THEN Idle ELSE req[q]]
      /\ gone' \subseteq Orgs \cup Events /\ staffed' \subseteq Orgs
      /\ orgs' \in [Orgs -> OrgRows \cup {NoRow}] /\ role' \in [Users \X Orgs -> Roles \cup {"none"}]
  BY Ends DEF OrganizationsInv, TypeOK
<1> QED BY <1>2, <1>3, <1>4, <1>5, <1>6, <1>7, <1>8, <1>9, TablesKeep

LEMMA InsertEventKeeps ==
  ASSUME OrganizationsInv, NEW r \in Requests, InsertEvent(r) PROVE OrganizationsInv'
<1> DEFINE w == req[r]
           row == [slug |-> w.slug, org |-> w.org, deleted |-> FALSE, by |-> w.user]
<1>1. w.doing = "insert" /\ w \in Works /\ staffed' = staffed /\ staffed \subseteq Orgs
  BY DEF InsertEvent, OrganizationsInv, TypeOK
<1>2. /\ w # Idle /\ w.user \in Users /\ w.key \in Events /\ w.org \in Orgs
      /\ w.slug \in 0..MaxSlugRetries \cup Events /\ w.slug \in Nat \cup {w.key}
      /\ Insider(w.user, w.org)
  BY <1>1, WorkOf DEF OrganizationsInv, CopyFits
<1>3. CASE Held(events, w.slug, w.key) \/ orgs[w.org] = NoRow
  BY <1>1, <1>2, <1>3, FailKeeps DEF InsertEvent
<1>4. CASE ~(Held(events, w.slug, w.key) \/ orgs[w.org] = NoRow)
  <2>1. row \in EventRows /\ row.slug = w.slug /\ row.org = w.org /\ row.by = w.user
    BY <1>2 DEF EventRows
  <2>2. events' = [events EXCEPT ![w.key] = row] /\ UNCHANGED <<orgs, role>> /\ End(r)
    BY <1>4 DEF InsertEvent
  <2> HIDE DEF row
  <2> QED BY <1>1, <1>2, <1>4, <2>1, <2>2, WriteEventKeeps
<1> QED BY <1>3, <1>4

LEMMA SaveUpdateKeeps ==
  ASSUME OrganizationsInv, NEW r \in Requests, SaveUpdate(r) PROVE OrganizationsInv'
<1> DEFINE w == req[r]
<1>1. w.doing \in {"update", "move"} /\ w \in Works /\ staffed' = staffed /\ staffed \subseteq Orgs
  BY DEF SaveUpdate, OrganizationsInv, TypeOK
<1>2. /\ w # Idle /\ w.key \in Events /\ w.copy \in EventRows
      /\ w.copy.slug \in Nat \cup {w.key} /\ Insider(w.copy.by, w.copy.org)
  BY <1>1, WorkOf DEF OrganizationsInv, CopyFits
<1>3. CASE Held(events, w.copy.slug, w.key) \/ orgs[w.copy.org] = NoRow
  BY <1>1, <1>2, <1>3, FailKeeps DEF SaveUpdate
<1>4. CASE ~(Held(events, w.copy.slug, w.key) \/ orgs[w.copy.org] = NoRow)
  <2>1. events' = [events EXCEPT ![w.key] = w.copy] /\ UNCHANGED <<orgs, role>> /\ End(r)
    BY <1>4 DEF SaveUpdate
  <2> QED BY <1>1, <1>2, <1>4, <2>1, WriteEventKeeps
<1> QED BY <1>3, <1>4

(* An invitation is by nobody who could become the OWNER. *)
LEMMA InsertMemberKeeps ==
  ASSUME OrganizationsInv, NEW r \in Requests, InsertMember(r) PROVE OrganizationsInv'
<1> DEFINE v == req[r].invitee
           o == req[r].key
<1>1. /\ req[r].doing = "join" /\ req[r] \in Works /\ staffed' = staffed /\ staffed \subseteq Orgs
      /\ req[r] # Idle /\ v \in Users /\ o \in Orgs
  BY WorkOf DEF InsertMember, OrganizationsInv, TypeOK
<1>2. CASE role[<<v, o>>] # "none" \/ orgs[o] = NoRow
  BY <1>1, <1>2, FailKeeps DEF InsertMember
<1>3. CASE ~(role[<<v, o>>] # "none" \/ orgs[o] = NoRow)
  <2>1. role' = [role EXCEPT ![<<v, o>>] = "MEMBER"] /\ UNCHANGED <<orgs, events>> /\ End(r)
    BY <1>3 DEF InsertMember
  <2>2. /\ role' \in [Users \X Orgs -> Roles \cup {"none"}]
        /\ \A u \in Users, x \in Orgs :
             role'[<<u, x>>] = IF u = v /\ x = o THEN "MEMBER" ELSE role[<<u, x>>]
    BY <1>1, <2>1 DEF OrganizationsInv, TypeOK, Roles
  <2>3. OwnerIsOWNER'
    BY <1>1, <1>3, <2>1, <2>2 DEF OrganizationsInv, OwnerIsOWNER
  <2>4. NoOrphans'
    BY <1>3, <2>1, <2>2 DEF OrganizationsInv, NoOrphans
  <2>5. SlugsUnique'
    BY <2>1 DEF OrganizationsInv, SlugsUnique, Held
  <2>6. SlugsNamed'
    BY <2>1 DEF OrganizationsInv, SlugsNamed
  <2>7. \A e \in Events : events'[e] # NoRow => Insider(events'[e].by, events'[e].org)
    BY <2>1 DEF OrganizationsInv, OnlyInsidersWrite
  <2>8. \A q \in Requests \ {r} : Inserting(q) =>
          /\ req[q].key \notin gone'
          /\ IF req[q].doing = "create" THEN orgs'[req[q].key] = NoRow
                                        ELSE events'[req[q].key] = NoRow
    BY <1>1, <2>1, Ends DEF OrganizationsInv, KeyIsNew
  <2>9. /\ {r} \in SUBSET Requests /\ Note({r}) /\ edits' \in 0..MaxStaffEdits
        /\ req' = [q \in Requests |-> IF q \in {r} THEN Idle ELSE req[q]]
        /\ gone' \subseteq Orgs \cup Events
        /\ orgs' \in [Orgs -> OrgRows \cup {NoRow}] /\ events' \in [Events -> EventRows \cup {NoRow}]
    BY <1>1, <2>1, Ends DEF OrganizationsInv, TypeOK
  <2> QED BY <1>1, <2>1, <2>2, <2>3, <2>4, <2>5, <2>6, <2>7, <2>8, <2>9, TablesKeep
<1> QED BY <1>2, <1>3

-----------------------------------------------------------------------------
(* The admin site.                                                         *)

(* A step of staff ends no request. *)
LEMMA StaffStays ==
  ASSUME OrganizationsInv, Staff
  PROVE  /\ {} \in SUBSET Requests /\ Note({}) /\ edits' \in 0..MaxStaffEdits
         /\ req' = [q \in Requests |-> IF q \in {} THEN Idle ELSE req[q]]
<1>1. edits' \in 0..MaxStaffEdits
  BY OrganizationsAssumption DEF Staff, OrganizationsInv, TypeOK
<1>2. req' = [q \in Requests |-> req[q]]
  BY DEF Staff, OrganizationsInv, TypeOK
<1> QED BY <1>1, <1>2 DEF Staff

LEMMA RemoveMemberKeeps ==
  ASSUME OrganizationsInv, RemoveMember PROVE OrganizationsInv'
<1>1. PICK u \in Users, o \in Orgs :
        /\ role' = [role EXCEPT ![<<u, o>>] = "none"] /\ staffed' = staffed \cup {o}
        /\ UNCHANGED <<orgs, events, gone>> /\ Staff
  BY DEF RemoveMember
<1>2. /\ role' \in [Users \X Orgs -> Roles \cup {"none"}]
      /\ \A v \in Users, x \in Orgs :
           role'[<<v, x>>] = IF v = u /\ x = o THEN "none" ELSE role[<<v, x>>]
  BY <1>1 DEF OrganizationsInv, TypeOK
<1>3. OwnerIsOWNER'
  BY <1>1, <1>2 DEF OrganizationsInv, OwnerIsOWNER
<1>4. NoOrphans'
  BY <1>1, <1>2 DEF OrganizationsInv, NoOrphans
<1>5. SlugsUnique'
  BY <1>1 DEF OrganizationsInv, SlugsUnique, Held
<1>6. SlugsNamed'
  BY <1>1 DEF OrganizationsInv, SlugsNamed
<1>7. \A e \in Events : events'[e] # NoRow => Insider(events'[e].by, events'[e].org)
  BY <1>1 DEF OrganizationsInv, OnlyInsidersWrite
<1>8. \A q \in Requests \ {} : Inserting(q) =>
        /\ req[q].key \notin gone'
        /\ IF req[q].doing = "create" THEN orgs'[req[q].key] = NoRow
                                      ELSE events'[req[q].key] = NoRow
  BY <1>1 DEF OrganizationsInv, KeyIsNew
<1>9. /\ gone' \subseteq Orgs \cup Events /\ staffed' \subseteq Orgs
      /\ orgs' \in [Orgs -> OrgRows \cup {NoRow}] /\ events' \in [Events -> EventRows \cup {NoRow}]
  BY <1>1 DEF OrganizationsInv, TypeOK
<1> QED BY <1>1, <1>2, <1>3, <1>4, <1>5, <1>6, <1>7, <1>8, <1>9, StaffStays, TablesKeep

(* Memberships and events go with their organization. *)
LEMMA DeleteOrgKeeps ==
  ASSUME OrganizationsInv, DeleteOrg PROVE OrganizationsInv'
<1> DEFINE going(e, o) == events[e] # NoRow /\ events[e].org = o
<1>1. PICK o \in Orgs :
        /\ Shown(orgs, o)
        /\ orgs' = [orgs EXCEPT ![o] = NoRow]
        /\ role' = [p \in Users \X Orgs |-> IF p[2] = o THEN "none" ELSE role[p]]
        /\ events' = [e \in Events |-> IF going(e, o) THEN NoRow ELSE events[e]]
        /\ staffed' = staffed \cup {o}
        /\ gone' = gone \cup {o} \cup {e \in Events : going(e, o)}
        /\ Staff
  BY DEF DeleteOrg
<1>2. /\ orgs' \in [Orgs -> OrgRows \cup {NoRow}]
      /\ orgs'[o] = NoRow /\ \A x \in Orgs \ {o} : orgs'[x] = orgs[x]
  BY <1>1 DEF OrganizationsInv, TypeOK
<1>3. /\ role' \in [Users \X Orgs -> Roles \cup {"none"}]
      /\ \A u \in Users, x \in Orgs : role'[<<u, x>>] = IF x = o THEN "none" ELSE role[<<u, x>>]
  BY <1>1 DEF OrganizationsInv, TypeOK
<1>4. /\ events' \in [Events -> EventRows \cup {NoRow}]
      /\ \A e \in Events : events'[e] # NoRow => events'[e] = events[e] /\ events[e].org # o
  BY <1>1 DEF OrganizationsInv, TypeOK
<1>5. OwnerIsOWNER'
  BY <1>1, <1>2, <1>3 DEF OrganizationsInv, OwnerIsOWNER
<1>6. NoOrphans'
  <2>1. \A u \in Users, x \in Orgs : role'[<<u, x>>] # "none" => orgs'[x] # NoRow
    BY <1>2, <1>3 DEF OrganizationsInv, NoOrphans
  <2>2. ASSUME NEW e \in Events, events'[e] # NoRow PROVE orgs'[events'[e].org] # NoRow
    <3>1. events[e] \in EventRows /\ events[e].org \in Orgs /\ events'[e] = events[e] /\ events[e].org # o
      BY <1>4, <2>2 DEF OrganizationsInv, TypeOK, EventRows
    <3> QED BY <1>2, <2>2, <3>1 DEF OrganizationsInv, NoOrphans
  <2> QED BY <2>1, <2>2 DEF NoOrphans
<1>7. SlugsUnique'
  <2>1. \A x \in Orgs : orgs'[x] # NoRow => ~Held(orgs, orgs[x].slug, x)'
    BY <1>2 DEF OrganizationsInv, TypeOK, SlugsUnique, Held
  <2>2. \A e \in Events : events'[e] # NoRow => ~Held(events, events[e].slug, e)'
    BY <1>4 DEF OrganizationsInv, TypeOK, SlugsUnique, Held
  <2> QED BY <2>1, <2>2 DEF SlugsUnique
<1>8. SlugsNamed'
  BY <1>2, <1>4 DEF OrganizationsInv, SlugsNamed
<1>9. \A e \in Events : events'[e] # NoRow => Insider(events'[e].by, events'[e].org)
  BY <1>4 DEF OrganizationsInv, OnlyInsidersWrite
<1>10. \A q \in Requests \ {} : Inserting(q) =>
         /\ req[q].key \notin gone'
         /\ IF req[q].doing = "create" THEN orgs'[req[q].key] = NoRow
                                       ELSE events'[req[q].key] = NoRow
  <2> SUFFICES ASSUME NEW q \in Requests, Inserting(q)
               PROVE  /\ req[q].key \notin gone'
                      /\ IF req[q].doing = "create" THEN orgs'[req[q].key] = NoRow
                                                    ELSE events'[req[q].key] = NoRow
    OBVIOUS
  <2>1. /\ req[q].doing = "create" => req[q].key \in Orgs
        /\ req[q].doing # "create" => req[q].key \in Events
    BY WorkOf DEF OrganizationsInv, TypeOK, Inserting
  <2>2. /\ req[q].key \notin gone
        /\ req[q].doing = "create" => orgs[req[q].key] = NoRow
        /\ req[q].doing # "create" => events[req[q].key] = NoRow
    BY DEF OrganizationsInv, KeyIsNew
  <2>3. req[q].key # o /\ req[q].key \notin {e \in Events : going(e, o)}
    BY <1>1, <2>1, <2>2, OrganizationsAssumption DEF Shown
  <2>4. req[q].key \notin gone'
    BY <1>1, <2>2, <2>3
  <2> QED BY <1>1, <1>2, <2>1, <2>2, <2>3, <2>4
<1>11. gone' \subseteq Orgs \cup Events /\ staffed' \subseteq Orgs /\ staffed \subseteq staffed'
  BY <1>1 DEF OrganizationsInv, TypeOK
<1>12. \A x \in Orgs \ staffed' :
         orgs[x] # NoRow => orgs'[x] # NoRow /\ orgs'[x].owner = orgs[x].owner
  BY <1>1, <1>2
<1> QED BY <1>1, <1>2, <1>3, <1>4, <1>5, <1>6, <1>7, <1>8, <1>9, <1>10, <1>11, <1>12,
           StaffStays, TablesKeep

LEMMA SoftDeleteEventKeeps ==
  ASSUME OrganizationsInv, SoftDeleteEvent PROVE OrganizationsInv'
<1>1. PICK e \in Events :
        /\ Shown(events, e) /\ events' = [events EXCEPT ![e].deleted = TRUE]
        /\ UNCHANGED <<orgs, role, staffed, gone>> /\ Staff
  BY DEF SoftDeleteEvent
<1> DEFINE row == [events[e] EXCEPT !.deleted = TRUE]
<1>2. /\ events[e] \in EventRows /\ events[e] # NoRow
      /\ row \in EventRows /\ row.slug = events[e].slug /\ row.org = events[e].org
      /\ row.by = events[e].by
  BY <1>1 DEF Shown, OrganizationsInv, TypeOK, EventRows
<1>3. /\ row # NoRow /\ events' \in [Events -> EventRows \cup {NoRow}] /\ events'[e] = row
      /\ \A x \in Events \ {e} : events'[x] = events[x]
  BY <1>1, <1>2, RowsAreRows DEF OrganizationsInv, TypeOK
<1> HIDE DEF row
<1>4. \A x \in Events : events'[x] # NoRow =>
        /\ events[x] # NoRow /\ events'[x].slug = events[x].slug
        /\ events'[x].org = events[x].org /\ events'[x].by = events[x].by
  BY <1>2, <1>3
<1>5. OwnerIsOWNER'
  BY <1>1 DEF OrganizationsInv, OwnerIsOWNER
<1>6. NoOrphans'
  BY <1>1, <1>4 DEF OrganizationsInv, NoOrphans
<1>7. SlugsUnique'
  <2>1. \A x \in Events : events'[x] # NoRow => ~Held(events, events[x].slug, x)'
    BY <1>3, <1>4 DEF OrganizationsInv, TypeOK, SlugsUnique, Held
  <2>2. \A o \in Orgs : orgs'[o] # NoRow => ~Held(orgs, orgs[o].slug, o)'
    BY <1>1 DEF OrganizationsInv, SlugsUnique, Held
  <2> QED BY <2>1, <2>2 DEF SlugsUnique
<1>8. SlugsNamed'
  BY <1>1, <1>4 DEF OrganizationsInv, SlugsNamed
<1>9. \A x \in Events : events'[x] # NoRow => Insider(events'[x].by, events'[x].org)
  BY <1>4 DEF OrganizationsInv, OnlyInsidersWrite
<1>10. \A q \in Requests \ {} : Inserting(q) =>
         /\ req[q].key \notin gone'
         /\ IF req[q].doing = "create" THEN orgs'[req[q].key] = NoRow
                                       ELSE events'[req[q].key] = NoRow
  <2>1. \A q \in Requests : Inserting(q) /\ req[q].doing # "create" => req[q].key \in Events
    BY WorkOf DEF OrganizationsInv, TypeOK, Inserting
  <2> QED BY <1>1, <1>2, <1>3, <2>1 DEF OrganizationsInv, KeyIsNew
<1>11. /\ gone' \subseteq Orgs \cup Events /\ staffed' \subseteq Orgs
       /\ orgs' \in [Orgs -> OrgRows \cup {NoRow}]
       /\ role' \in [Users \X Orgs -> Roles \cup {"none"}]
  BY <1>1 DEF OrganizationsInv, TypeOK
<1> QED BY <1>1, <1>3, <1>5, <1>6, <1>7, <1>8, <1>9, <1>10, <1>11, StaffStays, TablesKeep

-----------------------------------------------------------------------------
(* Steps in which the tables stay.                                         *)

LEMMA BeginCreateKeeps ==
  ASSUME OrganizationsInv, NEW r \in Requests, NEW u \in Users, BeginCreate(r, u)
  PROVE  OrganizationsInv'
<1>1. PICK o \in Orgs, base \in Bases :
        /\ NewKey(orgs, o)
        /\ Begin(r, [doing |-> "create", user |-> u, key |-> o, slug |-> GenerateOrgSlug(o, base)])
  BY DEF BeginCreate
<1> DEFINE w == [doing |-> "create", user |-> u, key |-> o, slug |-> GenerateOrgSlug(o, base)]
<1>2. w.slug \in {base, o} /\ (w.slug = o \/ Free(orgs, w.slug))
  BY DEF GenerateOrgSlug
<1>3. w \in Works /\ w.doing = "create" /\ w.key = o
  BY <1>2 DEF Works
<1> HIDE DEF w
<1>4. /\ req[r] = Idle /\ req' = [req EXCEPT ![r] = w]
      /\ UNCHANGED <<rows, insiders, staffed, late, gone>> /\ edits' \in 0..MaxStaffEdits
      /\ UNCHANGED <<orgs, events>>
  BY <1>1 DEF w, Begin, Load, OrganizationsInv, TypeOK, rows
<1>5. /\ req'[r] = w /\ \A q \in Requests \ {r} : req'[q] = req[q]
  BY <1>3, <1>4, ReqMoves DEF OrganizationsInv
<1>6. orgs[o] = NoRow /\ o \notin gone /\ \A q \in Requests : req[q] # Idle => req[q].key # o
  BY <1>1 DEF NewKey
<1>7. KeyIsNew(r)'
  BY <1>3, <1>4, <1>5, <1>6 DEF KeyIsNew, Inserting
<1>8. CopyFits(r)' /\ StillTrue(r)'
  BY <1>2, <1>3, <1>4, <1>5 DEF CopyFits, StillTrue, Free, Shown
<1>9. \A q \in Requests \ {r} : Inserting(q) => req[q].key # w.key
  BY <1>3, <1>6, IdleWorks DEF Inserting
<1> QED BY <1>3, <1>4, <1>7, <1>8, <1>9, LoadKeeps

(* A request that loads a row has a key that no other one is about to      *)
(* insert.                                                                 *)
LEMMA LoadsKeep ==
  ASSUME OrganizationsInv, NEW r \in Requests, NEW w \in Works,
         w.doing \in {"patch", "form", "invite", "update", "move"},
         (w.key \in Orgs /\ orgs[w.key] # NoRow) \/ (w.key \in Events /\ events[w.key] # NoRow),
         req' = [req EXCEPT ![r] = w], UNCHANGED <<rows, insiders, staffed, late, gone>>,
         edits' \in 0..MaxStaffEdits,
         w.doing \in {"patch", "form"} => w.copy.slug \in Bases \cup {w.key},
         w.doing = "patch" => w.copy.owner = orgs[w.key].owner /\ Live(w.key) /\ w.key \in Orgs,
         w.doing \in {"update", "move"} =>
           /\ w.copy.slug \in Nat \cup {w.key} /\ Insider(w.copy.by, w.copy.org)
           /\ Shown(events, w.key),
         w.doing = "update" => w.copy.org = events[w.key].org
  PROVE  OrganizationsInv'
<1>1. req'[r] = w /\ UNCHANGED <<orgs, events>>
  BY ReqMoves DEF OrganizationsInv, rows
<1>2. KeyIsNew(r)'
  BY <1>1 DEF KeyIsNew, Inserting
<1>3. CopyFits(r)'
  BY <1>1 DEF CopyFits, Insider, Live, Shown
<1>4. StillTrue(r)'
  BY <1>1 DEF StillTrue, Live, Shown
<1>5. ASSUME NEW q \in Requests \ {r}, Inserting(q) PROVE req[q].key # w.key
  <2>1. /\ req[q].doing = "create" => req[q].key \in Orgs /\ orgs[req[q].key] = NoRow
        /\ req[q].doing # "create" => req[q].key \in Events /\ events[req[q].key] = NoRow
    BY <1>5, WorkOf DEF OrganizationsInv, TypeOK, KeyIsNew, Inserting
  <2> QED BY <2>1, OrganizationsAssumption
<1> QED BY <1>2, <1>3, <1>4, <1>5, LoadKeeps

LEMMA BeginPatchKeeps ==
  ASSUME OrganizationsInv, NEW r \in Requests, NEW u \in Users, BeginPatch(r, u)
  PROVE  OrganizationsInv'
<1>1. PICK o \in Orgs, active \in BOOLEAN :
        /\ MayManage(u, o)
        /\ Begin(r, [doing |-> "patch", key |-> o, copy |-> [orgs[o] EXCEPT !.active = active]])
  <2>1. PICK o \in Orgs, ask \in {"name", "activate", "deactivate"} :
          /\ MayManage(u, o)
          /\ Begin(r, [doing |-> "patch", key |-> o,
                       copy |-> [orgs[o] EXCEPT !.active =
                         IF ask = "name" THEN @ ELSE ask = "activate"]])
    BY DEF BeginPatch
  <2>2. orgs[o] \in OrgRows /\ orgs[o].active \in BOOLEAN
    BY <2>1 DEF MayManage, OrgOr404, Shown, OrganizationsInv, TypeOK, OrgRows
  <2>3. (IF ask = "name" THEN orgs[o].active ELSE ask = "activate") \in BOOLEAN
    BY <2>2
  <2> QED BY <2>1, <2>3
<1> DEFINE w == [doing |-> "patch", key |-> o, copy |-> [orgs[o] EXCEPT !.active = active]]
<1>2. /\ orgs[o] # NoRow /\ orgs[o] \in OrgRows /\ Live(o) /\ orgs[o].slug \in Bases \cup {o}
  BY <1>1 DEF MayManage, OrgOr404, Shown, Live, OrganizationsInv, TypeOK, SlugsNamed
<1>3. /\ w.copy \in OrgRows /\ w.copy.slug = orgs[o].slug /\ w.copy.owner = orgs[o].owner
      /\ w.doing = "patch" /\ w.key = o
  BY <1>2 DEF OrgRows
<1>4. w \in Works
  BY <1>3 DEF Works
<1>5. /\ req' = [req EXCEPT ![r] = w] /\ edits' \in 0..MaxStaffEdits
      /\ UNCHANGED <<rows, insiders, staffed, late, gone>>
  BY <1>1 DEF Begin, Load, OrganizationsInv, TypeOK
<1> HIDE DEF w
<1> QED BY <1>2, <1>3, <1>4, <1>5, LoadsKeep

LEMMA BeginInviteKeeps ==
  ASSUME OrganizationsInv, NEW r \in Requests, NEW u \in Users, BeginInvite(r, u)
  PROVE  OrganizationsInv'
<1>1. PICK o \in Orgs, v \in Users :
        MayManage(u, o) /\ Begin(r, [doing |-> "invite", key |-> o, invitee |-> v])
  BY DEF BeginInvite
<1> DEFINE w == [doing |-> "invite", key |-> o, invitee |-> v]
<1>2. orgs[o] # NoRow /\ w \in Works /\ w.doing = "invite" /\ w.key = o
  BY <1>1 DEF MayManage, OrgOr404, Shown, Works
<1>3. /\ req' = [req EXCEPT ![r] = w] /\ edits' \in 0..MaxStaffEdits
      /\ UNCHANGED <<rows, insiders, staffed, late, gone>>
  BY <1>1 DEF Begin, Load, OrganizationsInv, TypeOK
<1> HIDE DEF w
<1> QED BY <1>2, <1>3, LoadsKeep

LEMMA OpenFormKeeps ==
  ASSUME OrganizationsInv, NEW r \in Requests, OpenForm(r) PROVE OrganizationsInv'
<1>1. PICK o \in Orgs, u \in Users, active \in BOOLEAN, deleted \in BOOLEAN :
        /\ Shown(orgs, o) /\ edits < MaxStaffEdits /\ edits' = edits + 1
        /\ Load(r, [doing |-> "form", key |-> o,
                    copy |-> [slug |-> orgs[o].slug, owner |-> u,
                              active |-> active, deleted |-> deleted]])
  BY DEF OpenForm
<1> DEFINE w == [doing |-> "form", key |-> o,
                 copy |-> [slug |-> orgs[o].slug, owner |-> u,
                           active |-> active, deleted |-> deleted]]
<1>2. orgs[o] # NoRow /\ orgs[o] \in OrgRows /\ orgs[o].slug \in Bases \cup {o}
      /\ orgs[o].slug \in Bases \cup Orgs
  BY <1>1 DEF Shown, OrganizationsInv, TypeOK, SlugsNamed
<1>3. w.copy \in OrgRows /\ w.copy.slug = orgs[o].slug /\ w.doing = "form" /\ w.key = o
  BY <1>2 DEF OrgRows
<1>4. w \in Works
  BY <1>3 DEF Works
<1>5. /\ req' = [req EXCEPT ![r] = w] /\ edits' \in 0..MaxStaffEdits
      /\ UNCHANGED <<rows, insiders, staffed, late, gone>>
  BY <1>1, OrganizationsAssumption DEF Load, OrganizationsInv, TypeOK
<1> HIDE DEF w
<1> QED BY <1>2, <1>3, <1>4, <1>5, LoadsKeep

LEMMA OpenEventFormKeeps ==
  ASSUME OrganizationsInv, NEW r \in Requests, OpenEventForm(r) PROVE OrganizationsInv'
<1>1. PICK e \in Events, o \in Orgs, deleted \in BOOLEAN :
        /\ Shown(events, e) /\ edits < MaxStaffEdits /\ edits' = edits + 1
        /\ Load(r, [doing |-> "move", key |-> e,
                    copy |-> [events[e] EXCEPT !.org = o, !.deleted = deleted, !.by = "staff"]])
  BY DEF OpenEventForm
<1> DEFINE w == [doing |-> "move", key |-> e,
                 copy |-> [events[e] EXCEPT !.org = o, !.deleted = deleted, !.by = "staff"]]
<1>2. /\ events[e] # NoRow /\ events[e] \in EventRows /\ events[e].slug \in Nat \cup {e}
  BY <1>1 DEF Shown, OrganizationsInv, TypeOK, SlugsNamed
<1>3. /\ w.copy \in EventRows /\ w.copy.slug = events[e].slug /\ w.copy.by = "staff"
      /\ w.doing = "move" /\ w.key = e
  BY <1>2 DEF EventRows
<1>4. w \in Works
  BY <1>3 DEF Works
<1>5. Insider(w.copy.by, w.copy.org)
  BY <1>3 DEF Insider
<1>6. /\ req' = [req EXCEPT ![r] = w] /\ edits' \in 0..MaxStaffEdits
      /\ UNCHANGED <<rows, insiders, staffed, late, gone>>
  BY <1>1, OrganizationsAssumption DEF Load, OrganizationsInv, TypeOK
<1> HIDE DEF w
<1> QED BY <1>1, <1>2, <1>3, <1>4, <1>5, <1>6, LoadsKeep

LEMMA BeginUpdateKeeps ==
  ASSUME OrganizationsInv, NEW r \in Requests, NEW u \in Users, BeginUpdate(r, u)
  PROVE  OrganizationsInv'
<1>1. PICK e \in Events :
        /\ Shown(events, e) /\ InScope(u, events[e].org)
        /\ Begin(r, [doing |-> "update", key |-> e, copy |-> [events[e] EXCEPT !.by = u]])
  BY DEF BeginUpdate
<1> DEFINE w == [doing |-> "update", key |-> e, copy |-> [events[e] EXCEPT !.by = u]]
<1>2. /\ events[e] # NoRow /\ events[e] \in EventRows /\ events[e].slug \in Nat \cup {e}
      /\ events[e].org \in Orgs
  BY <1>1 DEF Shown, OrganizationsInv, TypeOK, SlugsNamed, EventRows
<1>3. /\ w.copy \in EventRows /\ w.copy.slug = events[e].slug /\ w.copy.by = u
      /\ w.copy.org = events[e].org /\ w.doing = "update" /\ w.key = e
  BY <1>2 DEF EventRows
<1>4. w \in Works
  BY <1>3 DEF Works
<1>5. Insider(u, events[e].org)
  BY <1>1, <1>2 DEF InScope, Insider, Insiders, OrganizationsInv, OnlyInsidersWrite
<1>6. /\ req' = [req EXCEPT ![r] = w] /\ edits' \in 0..MaxStaffEdits
      /\ UNCHANGED <<rows, insiders, staffed, late, gone>>
  BY <1>1 DEF Begin, Load, OrganizationsInv, TypeOK
<1> HIDE DEF w
<1> QED BY <1>1, <1>2, <1>3, <1>4, <1>5, <1>6, LoadsKeep

LEMMA BeginEventKeeps ==
  ASSUME OrganizationsInv, NEW r \in Requests, NEW u \in Users, BeginEvent(r, u)
  PROVE  OrganizationsInv'
<1>1. PICK e \in Events, o \in Orgs :
        /\ ActiveMember(u, o) /\ NewKey(events, e)
        /\ Begin(r, [doing |-> "slug", user |-> u, key |-> e, org |-> o, next |-> 0])
  BY DEF BeginEvent
<1> DEFINE w == [doing |-> "slug", user |-> u, key |-> e, org |-> o, next |-> 0]
<1>2. w \in Works /\ w.doing = "slug" /\ w.key = e /\ w.user = u /\ w.org = o
  BY OrganizationsAssumption DEF Works
<1>3. Insider(u, o)
  BY <1>1 DEF Insider, Insiders, OrganizationsInv, OnlyInsidersWrite
<1>4. /\ req' = [req EXCEPT ![r] = w] /\ edits' \in 0..MaxStaffEdits
      /\ UNCHANGED <<rows, insiders, staffed, late, gone>>
  BY <1>1 DEF Begin, Load, OrganizationsInv, TypeOK
<1> HIDE DEF w
<1>5. /\ req'[r] = w /\ \A q \in Requests \ {r} : req'[q] = req[q]
      /\ UNCHANGED <<orgs, events, gone, insiders>>
  BY <1>2, <1>4, ReqMoves DEF OrganizationsInv, rows
<1>6. events[e] = NoRow /\ e \notin gone /\ \A q \in Requests : req[q] # Idle => req[q].key # e
  BY <1>1 DEF NewKey
<1>7. KeyIsNew(r)'
  BY <1>2, <1>5, <1>6 DEF KeyIsNew, Inserting
<1>8. CopyFits(r)' /\ StillTrue(r)'
  BY <1>2, <1>3, <1>5 DEF CopyFits, StillTrue, Insider
<1>9. \A q \in Requests \ {r} : Inserting(q) => req[q].key # w.key
  BY <1>2, <1>6, IdleWorks DEF Inserting
<1> QED BY <1>2, <1>4, <1>7, <1>8, <1>9, LoadKeeps

LEMMA CheckMemberKeeps ==
  ASSUME OrganizationsInv, NEW r \in Requests, CheckMember(r) PROVE OrganizationsInv'
<1>1. /\ req[r].doing = "invite" /\ req[r] \in Works /\ req[r] # Idle
      /\ req[r].key \in Orgs /\ req[r].invitee \in Users /\ staffed \subseteq Orgs
  BY WorkOf DEF CheckMember, OrganizationsInv, TypeOK
<1>2. CASE role[<<req[r].invitee, req[r].key>>] # "none"
  BY <1>1, <1>2, FailKeeps DEF CheckMember
<1>3. CASE ~(role[<<req[r].invitee, req[r].key>>] # "none")
  <2> DEFINE w == [req[r] EXCEPT !.doing = "join"]
  <2>1. req[r] \in [doing : {"invite", "join"}, key : Orgs, invitee : Users]
    BY <1>1 DEF Works, Idle
  <2>2. w \in Works /\ w.doing = "join" /\ w.key = req[r].key
    BY <2>1 DEF Works
  <2>3. /\ req' = [req EXCEPT ![r] = w] /\ edits' \in 0..MaxStaffEdits
        /\ UNCHANGED <<rows, insiders, staffed, late, gone>>
    BY <1>3 DEF CheckMember, Go, OrganizationsInv, TypeOK
  <2> HIDE DEF w
  <2>4. req'[r] = w
    BY <2>2, <2>3, ReqMoves DEF OrganizationsInv
  <2>5. KeyIsNew(r)' /\ CopyFits(r)' /\ StillTrue(r)'
    BY <2>2, <2>4 DEF KeyIsNew, Inserting, CopyFits, StillTrue
  <2>6. \A q \in Requests \ {r} : Inserting(q) => req[q].key # w.key
    BY <1>1, <2>2 DEF OrganizationsInv, KeyIsNew
  <2> QED BY <2>2, <2>3, <2>5, <2>6, LoadKeeps
<1> QED BY <1>2, <1>3

LEMMA TrySlugKeeps ==
  ASSUME OrganizationsInv, NEW r \in Requests, TrySlug(r) PROVE OrganizationsInv'
<1> DEFINE v == req[r]
           take(slug) == [doing |-> "insert", user |-> v.user, key |-> v.key, org |-> v.org,
                          slug |-> slug]
<1>1. /\ v.doing = "slug" /\ v \in Works /\ v # Idle
      /\ v.user \in Users /\ v.key \in Events /\ v.org \in Orgs /\ v.next \in 0..MaxSlugRetries
  BY WorkOf DEF TrySlug, OrganizationsInv, TypeOK
<1>2. KeyIsNew(r) /\ Insider(v.user, v.org)
  BY <1>1 DEF OrganizationsInv, CopyFits
<1>3. v \in [doing : {"slug"}, user : Users, key : Events, org : Orgs, next : 0..MaxSlugRetries]
  BY <1>1 DEF Works, Idle
<1>4. PICK w \in Works :
        /\ w.key = v.key /\ w.user = v.user /\ w.org = v.org /\ w.doing \in {"slug", "insert"}
        /\ w.doing = "insert" => w.slug \in Nat \cup {w.key} /\ (w.slug = w.key \/ Free(events, w.slug))
        /\ Go(r, w)
  <2>1. CASE v.next = MaxSlugRetries
    <3>1. take(v.key) \in Works
      BY <1>1 DEF Works
    <3>2. Go(r, take(v.key))
      BY <2>1 DEF TrySlug
    <3> QED BY <3>1, <3>2
  <2>2. CASE v.next # MaxSlugRetries /\ Free(events, v.next)
    <3>1. take(v.next) \in Works /\ v.next \in Nat
      BY <1>1, OrganizationsAssumption DEF Works
    <3>2. Go(r, take(v.next))
      BY <2>2 DEF TrySlug
    <3> QED BY <2>2, <3>1, <3>2
  <2>3. CASE v.next # MaxSlugRetries /\ ~Free(events, v.next)
    <3> DEFINE w == [v EXCEPT !.next = v.next + 1]
    <3>1. v.next + 1 \in 0..MaxSlugRetries
      BY <1>1, <2>3, OrganizationsAssumption
    <3>2. w \in Works /\ w.key = v.key /\ w.user = v.user /\ w.org = v.org /\ w.doing = "slug"
      BY <1>3, <3>1 DEF Works
    <3>3. Go(r, w)
      BY <2>3 DEF TrySlug
    <3> QED BY <3>2, <3>3
  <2> QED BY <2>1, <2>2, <2>3
<1>5. /\ req' = [req EXCEPT ![r] = w] /\ edits' \in 0..MaxStaffEdits
      /\ UNCHANGED <<rows, insiders, staffed, late, gone>>
  BY <1>4 DEF Go, OrganizationsInv, TypeOK
<1>6. /\ req'[r] = w /\ \A q \in Requests \ {r} : req'[q] = req[q]
      /\ UNCHANGED <<orgs, events, gone, insiders, late>>
  BY <1>5, ReqMoves DEF OrganizationsInv, rows
<1>7. KeyIsNew(r)'
  BY <1>1, <1>2, <1>4, <1>6 DEF KeyIsNew, Inserting
<1>8. CopyFits(r)'
  BY <1>2, <1>4, <1>6 DEF CopyFits, Insider
<1>9. StillTrue(r)'
  BY <1>4, <1>6 DEF StillTrue, Free, Shown
<1>10. \A q \in Requests \ {r} : Inserting(q) => req[q].key # w.key
  BY <1>1, <1>4 DEF OrganizationsInv, KeyIsNew
<1> QED BY <1>5, <1>7, <1>8, <1>9, <1>10, LoadKeeps

-----------------------------------------------------------------------------
(* The inductive invariant.                                                *)

LEMMA InitKeeps == Init => OrganizationsInv
<1> SUFFICES ASSUME Init PROVE OrganizationsInv
  OBVIOUS
<1>1. TypeOK
  BY IdleWorks, OrganizationsAssumption DEF Init, TypeOK
<1>2. OwnerIsOWNER /\ SlugsUnique /\ NoOrphans /\ SlugsNamed
  BY DEF Init, OwnerIsOWNER, SlugsUnique, NoOrphans, SlugsNamed
<1>3. OnlyInsidersWrite
  BY DEF Init, OnlyInsidersWrite, Insiders, ActiveMember
<1>4. \A r \in Requests : KeyIsNew(r) /\ CopyFits(r) /\ StillTrue(r)
  BY IdleWorks DEF Init, KeyIsNew, Inserting, CopyFits, StillTrue
<1> QED BY <1>1, <1>2, <1>3, <1>4 DEF OrganizationsInv

LEMMA Step == OrganizationsInv /\ [Next]_vars => OrganizationsInv'
<1> SUFFICES ASSUME OrganizationsInv, [Next]_vars PROVE OrganizationsInv'
  OBVIOUS
<1>1. CASE UNCHANGED vars
  <2> USE <1>1 DEF vars, rows
  <2>1. TypeOK' /\ OwnerIsOWNER' /\ SlugsUnique' /\ NoOrphans' /\ SlugsNamed'
    BY SameRows DEF OrganizationsInv, TypeOK
  <2>2. OnlyInsidersWrite'
    BY DEF OrganizationsInv, OnlyInsidersWrite, Insiders, ActiveMember, Insider
  <2>3. ASSUME NEW q \in Requests PROVE CopyFits(q)' /\ StillTrue(q)'
    BY <2>1, OthersFit DEF Changed
  <2>4. ASSUME NEW q \in Requests PROVE KeyIsNew(q)'
    BY DEF OrganizationsInv, KeyIsNew, Inserting
  <2> QED BY <2>1, <2>2, <2>3, <2>4 DEF OrganizationsInv
<1>2. ASSUME NEW r \in Requests, NEW u \in Users,
             BeginCreate(r, u) \/ BeginPatch(r, u) \/ BeginInvite(r, u)
             \/ BeginEvent(r, u) \/ BeginUpdate(r, u)
      PROVE  OrganizationsInv'
  BY <1>2, BeginCreateKeeps, BeginPatchKeeps, BeginInviteKeeps, BeginEventKeeps, BeginUpdateKeeps
<1>3. ASSUME NEW r \in Requests,
             CreateOrg(r) \/ SavePatch(r) \/ CheckMember(r) \/ InsertMember(r) \/ TrySlug(r)
             \/ InsertEvent(r) \/ SaveUpdate(r) \/ OpenForm(r) \/ PostForm(r) \/ OpenEventForm(r)
      PROVE  OrganizationsInv'
  BY <1>3, CreateOrgKeeps, SavePatchKeeps, CheckMemberKeeps, InsertMemberKeeps, TrySlugKeeps,
     InsertEventKeeps, SaveUpdateKeeps, OpenFormKeeps, PostFormKeeps, OpenEventFormKeeps
<1> QED BY <1>1, <1>2, <1>3, RemoveMemberKeeps, DeleteOrgKeeps, SoftDeleteEventKeeps DEF Next

(* Whatever requests and staff do in between: an organization that staff   *)
(* left alone has its owner, and nobody else, as its OWNER; slugs tell     *)
(* rows apart; memberships and events have their organization; events are  *)
(* written by insiders only (OrganizationsInv).                            *)
THEOREM OrganizationsInvariant == Spec => []OrganizationsInv
BY InitKeeps, Step, PTL DEF Spec

-----------------------------------------------------------------------------
(* Who changes a row, and when a request ends.                             *)

(* An ended request is Idle. *)
LEMMA EndIsIdle ==
  ASSUME TypeOK, NEW r \in Requests, End(r)
  PROVE  req'[r] = Idle /\ \A q \in Requests \ {r} : req'[q] = req[q]
BY IdleWorks, ReqMoves DEF End

(* A step that begins or goes on leaves the tables alone, and its request  *)
(* is not Idle after it.                                                   *)
LEMMA LoadsOnly ==
  ASSUME OrganizationsInv, NEW r \in Requests,
         (\E u \in Users : BeginCreate(r, u) \/ BeginPatch(r, u) \/ BeginInvite(r, u)
                           \/ BeginEvent(r, u) \/ BeginUpdate(r, u))
         \/ OpenForm(r) \/ OpenEventForm(r) \/ TrySlug(r)
  PROVE  /\ UNCHANGED <<orgs, role, events>>
         /\ \A q \in Requests : req[q] # Idle /\ req'[q] = Idle => q = r /\ req[r].doing = "slug"
<1>1. CASE TrySlug(r)
  BY <1>1 DEF TrySlug, Go, rows, OrganizationsInv, TypeOK
<1>2. ASSUME NEW w, Load(r, w)
      PROVE  /\ UNCHANGED <<orgs, role, events>>
             /\ \A q \in Requests : ~(req[q] # Idle /\ req'[q] = Idle)
  BY <1>2 DEF Load, rows, OrganizationsInv, TypeOK
<1>3. CASE ~TrySlug(r)
  <2>1. CASE OpenForm(r) \/ OpenEventForm(r)
    BY <1>2, <2>1 DEF OpenForm, OpenEventForm
  <2>2. ASSUME NEW u \in Users, BeginCreate(r, u) \/ BeginPatch(r, u) \/ BeginInvite(r, u)
                                \/ BeginEvent(r, u) \/ BeginUpdate(r, u)
        PROVE  \E w : Load(r, w)
    <3>1. CASE BeginCreate(r, u) \/ BeginPatch(r, u) \/ BeginInvite(r, u)
      BY <3>1 DEF BeginCreate, BeginPatch, BeginInvite, Begin
    <3>2. CASE BeginEvent(r, u) \/ BeginUpdate(r, u)
      BY <3>2 DEF BeginEvent, BeginUpdate, Begin
    <3> QED BY <2>2, <3>1, <3>2
  <2> QED BY <1>2, <1>3, <2>1, <2>2
<1> QED BY <1>1, <1>3

(* An organization is written by a request about it; only deletion writes  *)
(* it otherwise.                                                           *)
LEMMA OrgWriter ==
  ASSUME OrganizationsInv, [Next]_vars, NEW o \in Orgs, ~Live(o), Live(o)'
  PROVE  \E r \in Requests : /\ req[r] # Idle /\ req[r].key = o /\ req'[r] = Idle
                             /\ req[r].doing \in {"create", "patch", "form"}
<1> USE DEF rows
<1>1. orgs' # orgs /\ orgs'[o] # orgs[o] /\ orgs'[o] # NoRow
  BY DEF Live, Shown
<1>2. ASSUME NEW r \in Requests, NEW row, req[r].doing \in {"patch", "form"}, SaveOrg(r, row)
      PROVE  req[r] # Idle /\ req[r].key = o /\ req'[r] = Idle
  <2>1. End(r) /\ (orgs' = orgs \/ \E new : orgs' = [orgs EXCEPT ![req[r].key] = new])
    BY <1>2 DEF SaveOrg, Fail
  <2> QED BY <1>1, <1>2, <2>1, EndIsIdle, IdleWorks DEF OrganizationsInv, TypeOK
<1>3. ASSUME NEW r \in Requests, CreateOrg(r)
      PROVE  req[r].doing = "create" /\ req[r] # Idle /\ req[r].key = o /\ req'[r] = Idle
  <2>1. req[r].doing = "create" /\ End(r)
        /\ (orgs' = orgs \/ \E new : orgs' = [orgs EXCEPT ![req[r].key] = new])
    BY <1>3 DEF CreateOrg, Fail
  <2> QED BY <1>1, <2>1, EndIsIdle, IdleWorks DEF OrganizationsInv, TypeOK
<1>4. ASSUME NEW r \in Requests, SavePatch(r) \/ PostForm(r)
      PROVE  /\ req[r] # Idle /\ req[r].key = o /\ req'[r] = Idle
             /\ req[r].doing \in {"patch", "form"}
  BY <1>1, <1>2, <1>4 DEF SavePatch, PostForm, Fail
<1>5. ASSUME NEW r \in Requests, CheckMember(r) \/ InsertMember(r) \/ InsertEvent(r) \/ SaveUpdate(r)
      PROVE  orgs' = orgs
  BY <1>5 DEF CheckMember, InsertMember, InsertEvent, SaveUpdate, Fail, Go
<1>6. ASSUME DeleteOrg PROVE FALSE
  <2>1. PICK x \in Orgs : orgs' = [orgs EXCEPT ![x] = NoRow]
    BY <1>6 DEF DeleteOrg
  <2> QED BY <1>1, <2>1 DEF OrganizationsInv, TypeOK
<1>7. RemoveMember \/ SoftDeleteEvent => orgs' = orgs
  BY DEF RemoveMember, SoftDeleteEvent
<1>8. UNCHANGED vars => orgs' = orgs
  BY DEF vars
<1>9. ASSUME NEW r \in Requests,
             (\E u \in Users : BeginCreate(r, u) \/ BeginPatch(r, u) \/ BeginInvite(r, u)
                               \/ BeginEvent(r, u) \/ BeginUpdate(r, u))
             \/ OpenForm(r) \/ OpenEventForm(r) \/ TrySlug(r)
      PROVE  FALSE
  BY <1>1, <1>9, LoadsOnly
<1> QED BY <1>1, <1>3, <1>4, <1>5, <1>6, <1>7, <1>8, <1>9 DEF Next

(* And so is an event. *)
LEMMA EventWriter ==
  ASSUME OrganizationsInv, [Next]_vars, NEW e \in Events, ~Shown(events, e), Shown(events, e)'
  PROVE  \E r \in Requests : /\ req[r] # Idle /\ req[r].key = e /\ req'[r] = Idle
                             /\ req[r].doing \in {"insert", "update", "move"}
<1> USE DEF rows
<1>1. events' # events /\ events'[e] # events[e] /\ events'[e] # NoRow /\ ~events'[e].deleted
  BY DEF Shown
<1>2. ASSUME NEW r \in Requests, InsertEvent(r) \/ SaveUpdate(r)
      PROVE  /\ req[r] # Idle /\ req[r].key = e /\ req'[r] = Idle
             /\ req[r].doing \in {"insert", "update", "move"}
  <2>1. req[r].doing \in {"insert", "update", "move"} /\ End(r)
        /\ (events' = events \/ \E new : events' = [events EXCEPT ![req[r].key] = new])
    BY <1>2 DEF InsertEvent, SaveUpdate, Fail
  <2> QED BY <1>1, <2>1, EndIsIdle, IdleWorks DEF OrganizationsInv, TypeOK
<1>3. ASSUME NEW r \in Requests,
             CreateOrg(r) \/ SavePatch(r) \/ PostForm(r) \/ CheckMember(r) \/ InsertMember(r)
      PROVE  events' = events
  BY <1>3 DEF CreateOrg, SavePatch, PostForm, SaveOrg, CheckMember, InsertMember, Fail, Go
<1>4. ASSUME DeleteOrg PROVE FALSE
  <2>1. PICK o \in Orgs :
          events' = [x \in Events |-> IF events[x] # NoRow /\ events[x].org = o THEN NoRow ELSE events[x]]
    BY <1>4 DEF DeleteOrg
  <2> QED BY <1>1, <2>1
<1>5. ASSUME SoftDeleteEvent PROVE FALSE
  <2>1. PICK x \in Events : Shown(events, x) /\ events' = [events EXCEPT ![x].deleted = TRUE]
    BY <1>5 DEF SoftDeleteEvent
  <2>2. x = e
    BY <1>1, <2>1 DEF OrganizationsInv, TypeOK
  <2> QED BY <2>1, <2>2
<1>6. RemoveMember => events' = events
  BY DEF RemoveMember
<1>7. UNCHANGED vars => events' = events
  BY DEF vars
<1>8. ASSUME NEW r \in Requests,
             (\E u \in Users : BeginCreate(r, u) \/ BeginPatch(r, u) \/ BeginInvite(r, u)
                               \/ BeginEvent(r, u) \/ BeginUpdate(r, u))
             \/ OpenForm(r) \/ OpenEventForm(r) \/ TrySlug(r)
      PROVE  FALSE
  BY <1>1, <1>8, LoadsOnly
<1> QED BY <1>1, <1>2, <1>3, <1>4, <1>5, <1>6, <1>7, <1>8 DEF Next

(* Only a save of a loaded event moves it to another organization.         *)
LEMMA EventMover ==
  ASSUME OrganizationsInv, [Next]_vars, NEW e \in Events, EventMoves(e)
  PROVE  \E r \in Requests : /\ SaveUpdate(r) /\ req[r] # Idle /\ req[r].key = e /\ req'[r] = Idle
                             /\ events'[e] = req[r].copy
<1> USE DEF rows
<1>1. /\ events' # events /\ events[e] # NoRow /\ events'[e] # NoRow
      /\ events'[e].org # events[e].org
  BY DEF EventMoves
<1>2. ASSUME NEW r \in Requests, SaveUpdate(r)
      PROVE  req[r] # Idle /\ req[r].key = e /\ req'[r] = Idle /\ events'[e] = req[r].copy
  <2>1. /\ req[r].doing \in {"update", "move"} /\ End(r)
        /\ events' = events \/ events' = [events EXCEPT ![req[r].key] = req[r].copy]
    BY <1>2 DEF SaveUpdate, Fail
  <2> QED BY <1>1, <2>1, EndIsIdle, IdleWorks DEF OrganizationsInv, TypeOK
<1>3. ASSUME NEW r \in Requests, InsertEvent(r) PROVE FALSE
  <2>1. req[r].doing = "insert" /\ events[req[r].key] = NoRow
    BY <1>3 DEF InsertEvent, OrganizationsInv, KeyIsNew, Inserting
  <2>2. events' = events \/ \E new : events' = [events EXCEPT ![req[r].key] = new]
    BY <1>3 DEF InsertEvent, Fail
  <2> QED BY <1>1, <2>1, <2>2 DEF OrganizationsInv, TypeOK
<1>4. ASSUME NEW r \in Requests,
             CreateOrg(r) \/ SavePatch(r) \/ PostForm(r) \/ CheckMember(r) \/ InsertMember(r)
      PROVE  events' = events
  BY <1>4 DEF CreateOrg, SavePatch, PostForm, SaveOrg, CheckMember, InsertMember, Fail, Go
<1>5. ASSUME DeleteOrg PROVE FALSE
  <2>1. PICK o \in Orgs :
          events' = [x \in Events |-> IF events[x] # NoRow /\ events[x].org = o THEN NoRow ELSE events[x]]
    BY <1>5 DEF DeleteOrg
  <2> QED BY <1>1, <2>1
<1>6. ASSUME SoftDeleteEvent PROVE FALSE
  <2>1. PICK x \in Events : Shown(events, x) /\ events' = [events EXCEPT ![x].deleted = TRUE]
    BY <1>6 DEF SoftDeleteEvent
  <2>2. x = e
    BY <1>1, <2>1 DEF OrganizationsInv, TypeOK
  <2>3. events[e] \in EventRows
    BY <1>1 DEF OrganizationsInv, TypeOK
  <2> QED BY <1>1, <2>1, <2>2, <2>3 DEF OrganizationsInv, TypeOK, EventRows
<1>7. RemoveMember => events' = events
  BY DEF RemoveMember
<1>8. UNCHANGED vars => events' = events
  BY DEF vars
<1>9. ASSUME NEW r \in Requests,
             (\E u \in Users : BeginCreate(r, u) \/ BeginPatch(r, u) \/ BeginInvite(r, u)
                               \/ BeginEvent(r, u) \/ BeginUpdate(r, u))
             \/ OpenForm(r) \/ OpenEventForm(r) \/ TrySlug(r)
      PROVE  FALSE
  BY <1>1, <1>9, LoadsOnly
<1> QED BY <1>1, <1>2, <1>3, <1>4, <1>5, <1>6, <1>7, <1>8, <1>9 DEF Next

-----------------------------------------------------------------------------
(* The action properties.                                                  *)

(* What was deactivated, soft-deleted or deleted comes back only by a form *)
(* of the admin site or by a save of what was loaded before, and so does   *)
(* an event to an organization that it has left.                           *)
THEOREM ReturnsByLateSaves == Spec => ReturnsOnlyByLateSaves
<1>1. ASSUME OrganizationsInv, [Next]_vars, NEW o \in Orgs, OrgReturns(o)
      PROVE  LateSaves(o) # {}
  <2>1. PICK r \in Requests : /\ req[r] # Idle /\ req[r].key = o /\ req'[r] = Idle
                              /\ req[r].doing \in {"create", "patch", "form"}
    BY <1>1, OrgWriter DEF OrgReturns
  <2>2. req[r].doing # "create"
    BY <1>1, <2>1 DEF OrganizationsInv, KeyIsNew, Inserting, OrgReturns
  <2>3. req[r].doing = "patch" => r \in late
    BY <1>1, <2>1 DEF OrganizationsInv, StillTrue, OrgReturns
  <2> QED BY <2>1, <2>2, <2>3 DEF LateSaves, Saves
<1>2. ASSUME OrganizationsInv, [Next]_vars, NEW e \in Events, EventReturns(e)
      PROVE  LateSaves(e) # {}
  <2>1. PICK r \in Requests : /\ req[r] # Idle /\ req[r].key = e /\ req'[r] = Idle
                              /\ req[r].doing \in {"insert", "update", "move"}
    BY <1>2, EventWriter DEF EventReturns
  <2>2. req[r].doing \in {"update", "move"}
    BY <1>2, <2>1 DEF OrganizationsInv, KeyIsNew, Inserting, EventReturns
  <2>3. r \in late
    BY <1>2, <2>1, <2>2 DEF OrganizationsInv, StillTrue, EventReturns
  <2> QED BY <2>1, <2>3 DEF LateSaves, Saves
<1>3. ASSUME OrganizationsInv, [Next]_vars, NEW e \in Events, EventMoves(e)
      PROVE  \E r \in Saves(e) : req[r].doing = "move" \/ r \in late
  <2>1. PICK r \in Requests : /\ SaveUpdate(r) /\ req[r] # Idle /\ req[r].key = e /\ req'[r] = Idle
                              /\ events'[e] = req[r].copy
    BY <1>3, EventMover
  <2>2. req[r].doing = "update" => r \in late
    BY <1>3, <2>1 DEF OrganizationsInv, StillTrue, EventMoves
  <2> QED BY <2>1, <2>2 DEF Saves, SaveUpdate
<1>4. OrganizationsInv /\ [Next]_vars => [ReturnsLate]_vars
  BY <1>1, <1>2, <1>3 DEF ReturnsLate
<1> QED BY <1>4, OrganizationsInvariant, PTL DEF Spec, ReturnsOnlyByLateSaves

(* A creation ends with its own insert. *)
LEMMA InsertEnds ==
  ASSUME OrganizationsInv, [Next]_vars, NEW r \in Requests,
         req[r].doing \in {"create", "insert"}, req'[r] = Idle
  PROVE  IF req[r].doing = "create" THEN CreateOrg(r) ELSE InsertEvent(r)
<1> USE DEF rows
<1>1. req[r] # Idle
  BY IdleWorks
<1>2. ASSUME NEW q \in Requests,
             (\E u \in Users : BeginCreate(q, u) \/ BeginPatch(q, u) \/ BeginInvite(q, u)
                               \/ BeginEvent(q, u) \/ BeginUpdate(q, u))
             \/ OpenForm(q) \/ OpenEventForm(q) \/ TrySlug(q)
      PROVE  FALSE
  BY <1>1, <1>2, LoadsOnly
<1>3. ASSUME NEW q \in Requests, End(q) \/ Go(q, [req[q] EXCEPT !.doing = "join"])
      PROVE  q = r
  <2>1. CASE End(q)
    BY <1>1, <2>1, EndIsIdle DEF OrganizationsInv
  <2>2. CASE Go(q, [req[q] EXCEPT !.doing = "join"])
    BY <1>1, <2>2 DEF Go, OrganizationsInv, TypeOK
  <2> QED BY <1>3, <2>1, <2>2
<1>4. ASSUME NEW q \in Requests,
             SavePatch(q) \/ CheckMember(q) \/ InsertMember(q) \/ SaveUpdate(q) \/ PostForm(q)
      PROVE  FALSE
  <2>1. q = r
    BY <1>3, <1>4 DEF SavePatch, CheckMember, InsertMember, SaveUpdate, PostForm, SaveOrg, Fail
  <2> QED BY <1>4, <2>1 DEF SavePatch, CheckMember, InsertMember, SaveUpdate, PostForm
<1>5. ASSUME NEW q \in Requests, CreateOrg(q) \/ InsertEvent(q)
      PROVE  q = r
  BY <1>3, <1>5 DEF CreateOrg, InsertEvent, Fail
<1>6. CreateOrg(r) => req[r].doing = "create"
  BY DEF CreateOrg
<1>7. InsertEvent(r) => req[r].doing = "insert"
  BY DEF InsertEvent
<1>8. ~RemoveMember /\ ~DeleteOrg /\ ~SoftDeleteEvent /\ ~UNCHANGED vars
  BY <1>1 DEF RemoveMember, DeleteOrg, SoftDeleteEvent, Staff, vars
<1> QED BY <1>2, <1>4, <1>5, <1>6, <1>7, <1>8 DEF Next

(* A creation whose checks passed fails only for a row it could not see:   *)
(* a soft-deleted one, or one written since it looked.                     *)
THEOREM CreationsHaveAReason == Spec => CreationsFailForAReason
<1>1. ASSUME OrganizationsInv, [Next]_vars, NEW r \in Requests,
             req[r].doing = "create", req'[r] = Idle, orgs'[req[r].key] = NoRow, r \notin late
      PROVE  HeldByDeleted(orgs, req[r].slug)
  <2> DEFINE w == req[r]
  <2> HIDE DEF w
  <2>0. DOMAIN orgs = Orgs
    BY <1>1 DEF OrganizationsInv, TypeOK
  <2>1. CreateOrg(r) /\ w \in Works /\ w.key \in Orgs
    BY <1>1, InsertEnds, WorkOf DEF OrganizationsInv, TypeOK, w
  <2>2. ASSUME ~Held(orgs, w.slug, w.key) PROVE FALSE
    <3>1. orgs'[w.key] = [slug |-> w.slug, owner |-> w.user, active |-> TRUE, deleted |-> FALSE]
      BY <1>1, <2>1, <2>2 DEF CreateOrg, OrganizationsInv, TypeOK, w
    <3>2. orgs'[w.key].owner = w.user /\ "owner" \in DOMAIN orgs'[w.key]
      BY <3>1
    <3> QED BY <1>1, <3>2 DEF NoRow, w
  <2>3. PICK y \in Orgs \ {w.key} : orgs[y] # NoRow /\ orgs[y].slug = w.slug
    BY <2>0, <2>2 DEF Held
  <2>4. w.slug # w.key
    BY <1>1, <2>1, <2>3, OrganizationsAssumption DEF OrganizationsInv, SlugsNamed
  <2>5. Free(orgs, w.slug)
    BY <1>1, <2>4 DEF OrganizationsInv, StillTrue, w
  <2>6. ~Shown(orgs, y)
    BY <2>0, <2>3, <2>5 DEF Free
  <2> QED BY <2>0, <2>3, <2>6 DEF HeldByDeleted, Shown, w
<1>2. ASSUME OrganizationsInv, [Next]_vars, NEW r \in Requests,
             req[r].doing = "insert", req'[r] = Idle, events'[req[r].key] = NoRow,
             r \notin late, orgs[req[r].org] # NoRow
      PROVE  HeldByDeleted(events, req[r].slug)
  <2> DEFINE w == req[r]
  <2> HIDE DEF w
  <2>0. DOMAIN events = Events
    BY <1>2 DEF OrganizationsInv, TypeOK
  <2>1. InsertEvent(r) /\ w \in Works /\ w.key \in Events
    BY <1>2, InsertEnds, WorkOf DEF OrganizationsInv, TypeOK, w
  <2>2. ASSUME ~Held(events, w.slug, w.key) PROVE FALSE
    <3>1. events'[w.key] = [slug |-> w.slug, org |-> w.org, deleted |-> FALSE, by |-> w.user]
      BY <1>2, <2>1, <2>2 DEF InsertEvent, OrganizationsInv, TypeOK, w
    <3>2. "org" \in DOMAIN events'[w.key]
      BY <3>1
    <3> QED BY <1>2, <3>2 DEF NoRow, w
  <2>3. PICK y \in Events \ {w.key} : events[y] # NoRow /\ events[y].slug = w.slug
    BY <2>0, <2>2 DEF Held
  <2>4. w.slug # w.key
    BY <1>2, <2>1, <2>3, OrganizationsAssumption DEF OrganizationsInv, SlugsNamed
  <2>5. Free(events, w.slug)
    BY <1>2, <2>4 DEF OrganizationsInv, StillTrue, w
  <2>6. ~Shown(events, y)
    BY <2>0, <2>3, <2>5 DEF Free
  <2> QED BY <2>0, <2>3, <2>6 DEF HeldByDeleted, Shown, w
<1>3. OrganizationsInv /\ [Next]_vars => [FailsForAReason]_vars
  BY <1>1, <1>2 DEF FailsForAReason
<1> QED BY <1>3, OrganizationsInvariant, PTL DEF Spec, CreationsFailForAReason

=============================================================================

----------------------------- MODULE Organizations -----------------------------
(***************************************************************************)
(* apps/organizations, and what apps/events does for the members of an     *)
(* organization: creating organizations and events under a free slug,      *)
(* inviting members, editing what was loaded earlier, and the soft and     *)
(* hard deletions of the admin site.  Every request reads without a lock   *)
(* and writes in a later step, so anything may happen in between.          *)
(*                                                                         *)
(* A refused request changes nothing and is left out, unless it is refused *)
(* after its first step.  All events have one title; users are verified.   *)
(***************************************************************************)
EXTENDS Naturals, FiniteSets

CONSTANTS
  Users, Admins, Organizers, \* platform roles are parts of Users
  Orgs, Events,              \* primary keys: UUIDs drawn before the insert
  Bases,                     \* slugified names of organizations
  Blank,                     \* the base of a name of which slugify leaves nothing
  MaxSlugRetries,            \* events/services.py: MAX_SLUG_RETRIES
  Requests,                  \* requests under way at the same time
  MaxStaffEdits              \* bound on what the admin site changes

ASSUME OrganizationsAssumption ==
  /\ Admins \subseteq Users /\ Organizers \subseteq Users
  /\ Bases \cap Orgs = {} /\ Orgs \cap Events = {}
  /\ Nat \cap Events = {}
  /\ MaxSlugRetries \in Nat \ {0}
  /\ MaxStaffEdits \in Nat

VARIABLES
  orgs,     \* the organizations table
  role,     \* the membership table: its role for each user and organization
  events,   \* the events table: slug, organization, soft-delete flag
  req,      \* each request, with the rows it has loaded
  insiders, \* history: who has ever been a member of an active organization
  staffed,  \* history: organizations whose owner or members staff has changed
  late,     \* history: requests since whose first step what they read was changed
  gone,     \* history: primary keys of deleted rows
  edits     \* the number of changes and forms of the admin site

rows == <<orgs, role, events>>
vars == <<rows, req, insiders, staffed, late, gone, edits>>

Roles == {"OWNER", "MEMBER"}
NoRow == [slug |-> "none"]
Idle == [doing |-> "nothing"]

(* A suffixed slug is unique, and named here after the row that got it. *)
OrgRows == [slug : Bases \cup Orgs, owner : Users, active : BOOLEAN, deleted : BOOLEAN]
EventRows == [slug : 0..MaxSlugRetries \cup Events, org : Orgs, deleted : BOOLEAN,
              by : Users \cup {"staff"}]

(* What the default manager shows. *)
Shown(table, x) == table[x] # NoRow /\ ~table[x].deleted
Held(table, slug, x) == \E y \in DOMAIN table \ {x} : table[y] # NoRow /\ table[y].slug = slug
Free(table, slug) == \A y \in DOMAIN table : Shown(table, y) => table[y].slug # slug

ActiveMember(u, o) == role[<<u, o>>] # "none" /\ orgs[o] # NoRow /\ orgs[o].active
Insiders == {p \in Users \X Orgs : ActiveMember(p[1], p[2])}

Init ==
  /\ orgs = [o \in Orgs |-> NoRow]
  /\ role = [p \in Users \X Orgs |-> "none"]
  /\ events = [e \in Events |-> NoRow]
  /\ req = [r \in Requests |-> Idle]
  /\ insiders = {}
  /\ staffed = {}
  /\ late = {}
  /\ gone = {}
  /\ edits = 0

(* What every change of the tables does to the histories; done is the set  *)
(* of the requests that end with it.                                       *)
Changed(w) ==
  \/ w.doing = "create" /\ orgs' # orgs
  \/ w.doing = "insert" /\ events' # events
  \/ w.key \in Orgs /\ orgs'[w.key] # orgs[w.key]
  \/ w.key \in Events /\ events'[w.key] # events[w.key]
Note(done) ==
  /\ insiders' = insiders \cup Insiders'
  /\ late' = {q \in Requests \ done :
               req[q] # Idle /\ (q \in late \/ Changed(req[q]))}

Load(r, work) ==
  /\ req[r] = Idle
  /\ req' = [req EXCEPT ![r] = work]
  /\ UNCHANGED <<rows, insiders, staffed, late, gone>>

Begin(r, work) == Load(r, work) /\ UNCHANGED edits

Go(r, work) ==
  /\ req' = [req EXCEPT ![r] = work]
  /\ UNCHANGED <<rows, insiders, staffed, late, gone, edits>>

End(r) ==
  /\ req' = [req EXCEPT ![r] = Idle]
  /\ Note({r})
  /\ UNCHANGED <<gone, edits>>

Fail(r) == UNCHANGED rows /\ End(r)

(* A key that no row and no request has. *)
NewKey(table, x) ==
  /\ table[x] = NoRow /\ x \notin gone
  /\ \A r \in Requests : req[r] # Idle => req[r].key # x

-----------------------------------------------------------------------------
(* POST /organizations/: save() looks for a free slug, then the row and    *)
(* its OWNER are inserted in one transaction.                              *)

(* Mutant: the base is taken unread. *)
GenerateBase(o, base) == base

GenerateOrgSlug(o, base) == IF Free(orgs, base) THEN base ELSE o

BeginCreate(r, u) == \E o \in Orgs, base \in Bases :
  /\ NewKey(orgs, o)
  /\ Begin(r, [doing |-> "create", user |-> u, key |-> o,
               slug |-> GenerateOrgSlug(o, base)])

(* Mutant: the second attempt has a transaction of its own, and the OWNER  *)
(* is not part of it. *)
CreateOrgApart(r) ==
  LET w == req[r] IN
  /\ w.doing = "create"
  /\ orgs' = [orgs EXCEPT ![w.key] =
       [slug |-> IF Held(orgs, w.slug, w.key) THEN w.key ELSE w.slug,
        owner |-> w.user, active |-> TRUE, deleted |-> FALSE]]
  /\ role' = IF Held(orgs, w.slug, w.key) THEN role
             ELSE [role EXCEPT ![<<w.user, w.key>>] = "OWNER"]
  /\ UNCHANGED <<events, staffed>>
  /\ End(r)

(* When the unique index refuses, the second attempt runs in the broken    *)
(* transaction and fails as well: nothing is saved.                        *)
CreateOrg(r) ==
  LET w == req[r] IN
  /\ w.doing = "create"
  /\ IF Held(orgs, w.slug, w.key)
     THEN Fail(r)
     ELSE /\ orgs' = [orgs EXCEPT ![w.key] = [slug |-> w.slug, owner |-> w.user,
                                              active |-> TRUE, deleted |-> FALSE]]
          /\ role' = [role EXCEPT ![<<w.user, w.key>>] = "OWNER"]
          /\ UNCHANGED events
          /\ End(r)
  /\ UNCHANGED staffed

-----------------------------------------------------------------------------
(* get_org_or_404 and the views' check of the owner.                       *)

(* Mutant: get_org_or_404 finds what is not active. *)
AnyOrgOr404(u, o) == Shown(orgs, o) /\ (u \in Admins \/ role[<<u, o>>] # "none")

OrgOr404(u, o) ==
  Shown(orgs, o) /\ orgs[o].active /\ (u \in Admins \/ role[<<u, o>>] # "none")

MayManage(u, o) == OrgOr404(u, o) /\ (u \in Admins \/ orgs[o].owner = u)

(* PATCH /organizations/<id>/: a new name, a new is_active, or both.  The  *)
(* name is left out: it does not change the slug.                          *)
BeginPatch(r, u) == \E o \in Orgs, ask \in {"name", "activate", "deactivate"} :
  /\ MayManage(u, o)
  /\ Begin(r, [doing |-> "patch", key |-> o,
               copy |-> [orgs[o] EXCEPT !.active =
                 IF ask = "name" THEN @ ELSE ask = "activate"]])

(* Organization.save(): a blank slug is generated anew; every column is    *)
(* written, and a row deleted meanwhile is inserted again.                 *)
SaveOrg(r, row) ==
  LET o == req[r].key
      slug == IF row.slug = Blank THEN GenerateOrgSlug(o, Blank) ELSE row.slug IN
  IF Held(orgs, slug, o)
  THEN Fail(r)
  ELSE /\ orgs' = [orgs EXCEPT ![o] = [row EXCEPT !.slug = slug]]
       /\ UNCHANGED <<role, events>>
       /\ End(r)

SavePatch(r) ==
  /\ req[r].doing = "patch"
  /\ SaveOrg(r, req[r].copy)
  /\ UNCHANGED staffed

-----------------------------------------------------------------------------
(* POST /organizations/<id>/invite/.                                       *)

BeginInvite(r, u) == \E o \in Orgs, v \in Users \ {u} :
  /\ MayManage(u, o)
  /\ Begin(r, [doing |-> "invite", key |-> o, invitee |-> v])

CheckMember(r) ==
  /\ req[r].doing = "invite"
  /\ IF role[<<req[r].invitee, req[r].key>>] # "none"
     THEN Fail(r) /\ UNCHANGED staffed
     ELSE Go(r, [req[r] EXCEPT !.doing = "join"])

(* unique_together and the foreign key refuse what changed since. *)
InsertMember(r) ==
  LET p == <<req[r].invitee, req[r].key>> IN
  /\ req[r].doing = "join"
  /\ IF role[p] # "none" \/ orgs[p[2]] = NoRow
     THEN Fail(r)
     ELSE /\ role' = [role EXCEPT ![p] = "MEMBER"]
          /\ UNCHANGED <<orgs, events>>
          /\ End(r)
  /\ UNCHANGED staffed

-----------------------------------------------------------------------------
(* POST /events/: the organization is one of the user's active ones, or    *)
(* the only one; then a slug is looked for, one query for each candidate.  *)

IsOrganizer(u) == u \in Organizers \cup Admins

BeginEvent(r, u) == \E e \in Events, o \in Orgs :
  /\ IsOrganizer(u)
  /\ ActiveMember(u, o)
  /\ Shown(orgs, o)
  /\ NewKey(events, e)
  /\ Begin(r, [doing |-> "slug", user |-> u, key |-> e, org |-> o, next |-> 0])

TrySlug(r) ==
  LET w == req[r]
      Take(slug) == [doing |-> "insert", user |-> w.user, key |-> w.key, org |-> w.org,
                     slug |-> slug] IN
  /\ w.doing = "slug"
  /\ Go(r, IF w.next = MaxSlugRetries THEN Take(w.key)
           ELSE IF Free(events, w.next) THEN Take(w.next)
           ELSE [w EXCEPT !.next = @ + 1])

InsertEvent(r) ==
  LET w == req[r] IN
  /\ w.doing = "insert"
  /\ IF Held(events, w.slug, w.key) \/ orgs[w.org] = NoRow
     THEN Fail(r)
     ELSE /\ events' = [events EXCEPT ![w.key] = [slug |-> w.slug, org |-> w.org,
                                                  deleted |-> FALSE, by |-> w.user]]
          /\ UNCHANGED <<orgs, role>>
          /\ End(r)
  /\ UNCHANGED staffed

-----------------------------------------------------------------------------
(* PATCH /events/<slug>/: IsEventOrganizer, and the rows that              *)
(* OrgScopedMixin leaves of the table.                                     *)

InScope(u, o) == u \in Admins \/ ActiveMember(u, o)

BeginUpdate(r, u) == \E e \in Events :
  /\ IsOrganizer(u)
  /\ Shown(events, e)
  /\ InScope(u, events[e].org)
  /\ Begin(r, [doing |-> "update", key |-> e,
               copy |-> [events[e] EXCEPT !.by = u]])

(* update_event saves every column of what it loaded, and so does the form *)
(* of an event in the admin site.                                          *)
SaveUpdate(r) ==
  LET w == req[r] IN
  /\ w.doing \in {"update", "move"}
  /\ IF Held(events, w.copy.slug, w.key) \/ orgs[w.copy.org] = NoRow
     THEN Fail(r)
     ELSE /\ events' = [events EXCEPT ![w.key] = w.copy]
          /\ UNCHANGED <<orgs, role>>
          /\ End(r)
  /\ UNCHANGED staffed

-----------------------------------------------------------------------------
(* The admin site.  A form posts every field of the page it was opened     *)
(* with, except the read-only slug, onto the row as it is then.            *)

OpenForm(r) == \E o \in Orgs :
  /\ Shown(orgs, o)
  /\ edits < MaxStaffEdits
  /\ edits' = edits + 1
  /\ \E u \in Users, active, deleted \in BOOLEAN :
       Load(r, [doing |-> "form", key |-> o,
                 copy |-> [slug |-> orgs[o].slug, owner |-> u,
                           active |-> active, deleted |-> deleted]])

PostForm(r) ==
  LET o == req[r].key IN
  /\ req[r].doing = "form"
  /\ IF Shown(orgs, o)
     THEN /\ SaveOrg(r, [req[r].copy EXCEPT !.slug = orgs[o].slug])
          /\ staffed' = staffed \cup {o}
     ELSE Fail(r) /\ UNCHANGED staffed

(* The form of an event sets its organization and its soft-delete flag;    *)
(* the other columns that it saves are as the post loaded them.            *)
OpenEventForm(r) == \E e \in Events, o \in Orgs, deleted \in BOOLEAN :
  /\ Shown(events, e)
  /\ Shown(orgs, o)
  /\ edits < MaxStaffEdits
  /\ edits' = edits + 1
  /\ Load(r, [doing |-> "move", key |-> e,
               copy |-> [events[e] EXCEPT !.org = o, !.deleted = deleted, !.by = "staff"]])

Staff ==
  /\ edits < MaxStaffEdits
  /\ edits' = edits + 1
  /\ Note({})
  /\ UNCHANGED req

(* A row of the membership inline is deleted. *)
RemoveMember == \E u \in Users, o \in Orgs :
  /\ role[<<u, o>>] # "none"
  /\ role' = [role EXCEPT ![<<u, o>>] = "none"]
  /\ staffed' = staffed \cup {o}
  /\ UNCHANGED <<orgs, events, gone>>
  /\ Staff

(* "Delete selected organizations": memberships and events go with it. *)
DeleteOrg == \E o \in Orgs :
  /\ Shown(orgs, o)
  /\ orgs' = [orgs EXCEPT ![o] = NoRow]
  /\ role' = [p \in Users \X Orgs |-> IF p[2] = o THEN "none" ELSE role[p]]
  /\ events' = [e \in Events |->
       IF events[e] # NoRow /\ events[e].org = o THEN NoRow ELSE events[e]]
  /\ staffed' = staffed \cup {o}
  /\ gone' = gone \cup {o} \cup {e \in Events : events[e] # NoRow /\ events[e].org = o}
  /\ Staff

SoftDeleteEvent == \E e \in Events :
  /\ Shown(events, e)
  /\ events' = [events EXCEPT ![e].deleted = TRUE]
  /\ UNCHANGED <<orgs, role, staffed, gone>>
  /\ Staff

-----------------------------------------------------------------------------

Next ==
  \/ \E r \in Requests :
       \/ \E u \in Users : BeginCreate(r, u) \/ BeginPatch(r, u) \/ BeginInvite(r, u)
                           \/ BeginEvent(r, u) \/ BeginUpdate(r, u)
       \/ CreateOrg(r)
       \/ SavePatch(r)
       \/ CheckMember(r)
       \/ InsertMember(r)
       \/ TrySlug(r)
       \/ InsertEvent(r)
       \/ SaveUpdate(r)
       \/ OpenForm(r)
       \/ PostForm(r)
       \/ OpenEventForm(r)
  \/ RemoveMember
  \/ DeleteOrg
  \/ SoftDeleteEvent

Spec == Init /\ [][Next]_vars

-----------------------------------------------------------------------------

(* What a request holds between its steps. *)
Works ==
  {Idle}
  \cup [doing : {"create"}, user : Users, key : Orgs, slug : Bases \cup Orgs]
  \cup [doing : {"patch", "form"}, key : Orgs, copy : OrgRows]
  \cup [doing : {"invite", "join"}, key : Orgs, invitee : Users]
  \cup [doing : {"slug"}, user : Users, key : Events, org : Orgs, next : 0..MaxSlugRetries]
  \cup [doing : {"insert"}, user : Users, key : Events, org : Orgs,
        slug : 0..MaxSlugRetries \cup Events]
  \cup [doing : {"update", "move"}, key : Events, copy : EventRows]

TypeOK ==
  /\ orgs \in [Orgs -> OrgRows \cup {NoRow}]
  /\ role \in [Users \X Orgs -> Roles \cup {"none"}]
  /\ events \in [Events -> EventRows \cup {NoRow}]
  /\ req \in [Requests -> Works]
  /\ insiders \subseteq Users \X Orgs
  /\ staffed \subseteq Orgs
  /\ late \subseteq Requests
  /\ gone \subseteq Orgs \cup Events
  /\ edits \in 0..MaxStaffEdits

(* An organization that staff has not touched has its owner as its OWNER,  *)
(* and nobody else (organizations/services.py:12-19).                      *)
OwnerIsOWNER ==
  \A o \in Orgs, u \in Users : orgs[o] # NoRow /\ o \notin staffed =>
    (role[<<u, o>>] = "OWNER" <=> orgs[o].owner = u)

(* Slugs tell rows apart, the deleted ones too.                            *)
SlugsUnique ==
  /\ \A o \in Orgs : orgs[o] # NoRow => ~Held(orgs, orgs[o].slug, o)
  /\ \A e \in Events : events[e] # NoRow => ~Held(events, events[e].slug, e)

(* Memberships and events have their organization's row.                   *)
NoOrphans ==
  /\ \A u \in Users, o \in Orgs : role[<<u, o>>] # "none" => orgs[o] # NoRow
  /\ \A e \in Events : events[e] # NoRow => orgs[events[e].org] # NoRow

(* An event was last written in the admin site, by an admin, or by a user  *)
(* who has been a member of its organization while it was active           *)
(* (core/mixins.py:50).                                                    *)
Insider(u, o) == u \in Admins \cup {"staff"} \/ <<u, o>> \in insiders
OnlyInsidersWrite ==
  /\ Insiders \subseteq insiders
  /\ \A e \in Events : events[e] # NoRow => Insider(events[e].by, events[e].org)

(* A slug with a suffix is the row's own.                                  *)
SlugsNamed ==
  /\ \A o \in Orgs : orgs[o] # NoRow => orgs[o].slug \in Bases \cup {o}
  /\ \A e \in Events : events[e] # NoRow => events[e].slug \in Nat \cup {e}

(* Nobody else has the key that a request is about to insert.              *)
Inserting(r) == req[r].doing \in {"create", "slug", "insert"}
KeyIsNew(r) == Inserting(r) =>
  /\ req[r].key \notin gone
  /\ IF req[r].doing = "create" THEN orgs[req[r].key] = NoRow
                               ELSE events[req[r].key] = NoRow
  /\ \A q \in Requests \ {r} : req[q] # Idle => req[q].key # req[r].key

(* What a request loaded or chose can be written whatever happened since:  *)
(* only staff changes an owner.                                            *)
Live(o) == Shown(orgs, o) /\ orgs[o].active
CopyFits(r) ==
  LET w == req[r] IN
  /\ w.doing = "create" => w.slug \in Bases \cup {w.key}
  /\ w.doing \in {"patch", "form"} => w.copy.slug \in Bases \cup {w.key}
  /\ w.doing = "patch" /\ w.key \notin staffed =>
       orgs[w.key] # NoRow /\ w.copy.owner = orgs[w.key].owner
  /\ w.doing \in {"slug", "insert"} => Insider(w.user, w.org)
  /\ w.doing = "insert" => w.slug \in Nat \cup {w.key}
  /\ w.doing \in {"update", "move"} =>
       w.copy.slug \in Nat \cup {w.key} /\ Insider(w.copy.by, w.copy.org)

(* What a request found still holds as long as it is not late.             *)
StillTrue(r) ==
  LET w == req[r] IN
  r \notin late =>
    /\ w.doing = "patch" => Live(w.key)
    /\ w.doing \in {"update", "move"} => Shown(events, w.key)
    /\ w.doing = "update" => w.copy.org = events[w.key].org
    /\ w.doing = "create" => w.slug = w.key \/ Free(orgs, w.slug)
    /\ w.doing = "insert" => w.slug = w.key \/ Free(events, w.slug)

(* The inductive invariant of the tables and of the requests on them.      *)
OrganizationsInv ==
  /\ TypeOK
  /\ OwnerIsOWNER /\ SlugsUnique /\ NoOrphans /\ OnlyInsidersWrite
  /\ SlugsNamed
  /\ \A r \in Requests : KeyIsNew(r) /\ CopyFits(r) /\ StillTrue(r)

(* A deactivated, soft-deleted or hard-deleted row comes back only by a    *)
(* form of the admin site, or by a request that loaded the row before the  *)
(* last change of it: the API gives an owner no way to reactivate an       *)
(* organization (organizations/views.py:49, events/services.py:51).  An    *)
(* event changes its organization likewise: by a form, or back by a late   *)
(* save.                                                                   *)
OrgReturns(o) == (o \in gone \/ orgs[o] # NoRow) /\ ~Live(o) /\ Live(o)'
EventReturns(e) ==
  (e \in gone \/ events[e] # NoRow) /\ ~Shown(events, e) /\ Shown(events, e)'
EventMoves(e) ==
  events[e] # NoRow /\ events'[e] # NoRow /\ events'[e].org # events[e].org
Saves(x) == {r \in Requests : req[r] # Idle /\ req[r].key = x /\ req'[r] = Idle}
LateSaves(x) == {r \in Saves(x) : req[r].doing = "form" \/ r \in late}
ReturnsLate ==
  /\ \A o \in Orgs : OrgReturns(o) => LateSaves(o) # {}
  /\ \A e \in Events : EventReturns(e) => LateSaves(e) # {}
  /\ \A e \in Events : EventMoves(e) =>
       \E r \in Saves(e) : req[r].doing = "move" \/ r \in late
ReturnsOnlyByLateSaves == [][ReturnsLate]_vars

(* Creating an organization or an event fails after its checks only when a *)
(* soft-deleted row has the slug, when a row was written since the slug    *)
(* was looked for, or when the event's organization is gone                *)
(* (organizations/models.py:34, events/services.py:22).                    *)
HeldByDeleted(table, slug) ==
  \E y \in DOMAIN table : table[y] # NoRow /\ table[y].deleted /\ table[y].slug = slug
FailsForAReason ==
  \A r \in Requests :
    LET w == req[r] IN
    /\ w.doing = "create" /\ req'[r] = Idle /\ orgs'[w.key] = NoRow =>
         r \in late \/ HeldByDeleted(orgs, w.slug)
    /\ w.doing = "insert" /\ req'[r] = Idle /\ events'[w.key] = NoRow =>
         r \in late \/ HeldByDeleted(events, w.slug) \/ orgs[w.org] = NoRow
CreationsFailForAReason == [][FailsForAReason]_vars
=============================================================================

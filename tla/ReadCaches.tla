------------------------------ MODULE ReadCaches ------------------------------
(***************************************************************************)
(* A response kept in Redis, and the rows it was made from: the detail     *)
(* page of an event, a list or search page, or the detail page of an       *)
(* order.  Keys are independent of one another, so the model has one page, *)
(* and Init says of which kind.                                            *)
(*                                                                         *)
(* A reader looks the key up, and on a miss reads the rows and then sets   *)
(* the key: two steps, with anything in between.  A writer commits and     *)
(* busts the key afterwards, or earlier, from the post_save signal, or not *)
(* at all; it may die on the way.  What the page shows is a version number *)
(* that every committed change increments.                                 *)
(***************************************************************************)
EXTENDS Integers

CONSTANTS
  Readers, Writers,  \* requests under way
  TTL,               \* lifetime of each kind of page, in clock ticks
  RequestTime,       \* bound: ticks from a reader's query to its cache.set
  MaxVersion         \* bound: committed changes

Pages == {"detail", "list", "order"}

ASSUME CacheAssumption ==
  /\ TTL \in [Pages -> Nat \ {0}]
  /\ RequestTime \in Nat /\ MaxVersion \in Nat

VARIABLES
  page,     \* the kind of page this is
  version,  \* the committed state of its rows
  status,   \* may it be shown? "draft", "shown" or "gone"
  entry,    \* what the cache holds under its key
  reader,   \* each reader's step, what it has read, and how long ago
  writer,   \* each writer's step, and the version it has committed
  quiet,    \* history: versions whose writer will not bust the key
  age       \* history: ticks since each version was superseded

rowVars == <<version, status, quiet>>
vars == <<page, rowVars, entry, reader, writer, age>>

Versions == 0..MaxVersion
MaxAge == TTL[page] + RequestTime + 1
None == [version |-> -1]
Entries == [version : Versions, left : 1..TTL[page], fresh : BOOLEAN]
ReaderSet == [step : {"idle", "load", "set"}, version : Versions, time : 0..RequestTime]
WriterSet == [step : {"idle", "open", "signalled", "saved", "committed"}, version : Versions]
IdleReader == [step |-> "idle", version |-> 0, time |-> 0]
IdleWriter == [step |-> "idle", version |-> 0]

TypeOK ==
  /\ page \in Pages /\ version \in Versions
  /\ status \in {"draft", "shown", "gone"}
  /\ entry \in {None} \cup Entries
  /\ reader \in [Readers -> ReaderSet]
  /\ writer \in [Writers -> WriterSet]
  /\ quiet \subseteq Versions
  /\ age \in [Versions -> 0..MaxAge]

Init ==
  /\ page \in Pages
  /\ version = 0
  /\ status \in IF page = "detail" THEN {"draft", "shown"} ELSE {"shown"}
  /\ entry = None
  /\ reader = [r \in Readers |-> IdleReader]
  /\ writer = [w \in Writers |-> IdleWriter]
  /\ quiet = {}
  /\ age = [v \in Versions |-> 0]

-----------------------------------------------------------------------------
(* Readers.                                                                *)

ReadOf(r, step) == reader[r].step = step

(* cache.get answers from the entry and leaves it alone. *)
(* Mutant: every hit gives the entry its full lifetime again. *)
HitRenewing(r) ==
  /\ ReadOf(r, "idle") /\ entry # None
  /\ entry' = [entry EXCEPT !.left = TTL[page]]
  /\ UNCHANGED <<page, rowVars, reader, writer, age>>
Hit(r) ==
  /\ ReadOf(r, "idle") /\ entry # None
  /\ UNCHANGED vars

Miss(r) ==
  /\ ReadOf(r, "idle") /\ entry = None
  /\ reader' = [reader EXCEPT ![r].step = "load"]
  /\ UNCHANGED <<page, rowVars, entry, writer, age>>

(* A list leaves out what may not be shown; a detail page is then a 404, *)
(* and nothing is cached. *)
Found == page = "list" \/ status = "shown"

Load(r) ==
  /\ ReadOf(r, "load")
  /\ reader' = [reader EXCEPT ![r] =
       IF Found THEN [step |-> "set", version |-> version, time |-> 0] ELSE IdleReader]
  /\ UNCHANGED <<page, rowVars, entry, writer, age>>

SetPage(r) ==
  /\ ReadOf(r, "set")
  /\ entry' = [version |-> reader[r].version, left |-> TTL[page],
               fresh |-> reader[r].version = version]
  /\ reader' = [reader EXCEPT ![r] = IdleReader]
  /\ UNCHANGED <<page, rowVars, writer, age>>

ReaderDies(r) ==
  /\ ~ReadOf(r, "idle")
  /\ reader' = [reader EXCEPT ![r] = IdleReader]
  /\ UNCHANGED <<page, rowVars, entry, writer, age>>

-----------------------------------------------------------------------------
(* Writers.                                                                *)

At(w, step) == writer[w].step = step
IsEventPage == page \in {"detail", "list"}

(* The configured backend has no delete_pattern, so lists only expire. *)
Busted == IF page = "list" THEN entry ELSE None

NewVersion == version < MaxVersion /\ version' = version + 1
Committed(w, step) == writer' = [writer EXCEPT ![w] = [step |-> step, version |-> version + 1]]

(* update_event, create_ticket_tier and update_ticket_tier save without a *)
(* transaction around them; the signal comes after the commit. *)
Edit(w) ==
  /\ IsEventPage /\ At(w, "idle")
  /\ NewVersion /\ Committed(w, "saved")
  /\ UNCHANGED <<page, status, quiet, entry, reader, age>>

(* publish_event and cancel_event, or a form of the admin site: the row is *)
(* saved in a transaction, which excludes a second one. *)
SaveStatus(w) ==
  /\ IsEventPage /\ At(w, "idle")
  /\ \A x \in Writers : ~At(x, "open") /\ ~At(x, "signalled")
  /\ writer' = [writer EXCEPT ![w].step = "open"]
  /\ UNCHANGED <<page, rowVars, entry, reader, age>>

(* The post_save receiver; an error of the cache is logged and ignored. *)
Signal(w) ==
  /\ \/ At(w, "open") /\ writer' = [writer EXCEPT ![w].step = "signalled"]
     \/ At(w, "saved") /\ writer' = [writer EXCEPT ![w].step = "committed"]
  /\ entry' \in {Busted, entry}
  /\ UNCHANGED <<page, rowVars, reader, age>>

(* The checks of the transition, on a copy read earlier, are in EventStaff. *)
CommitStatus(w) ==
  /\ At(w, "signalled")
  /\ NewVersion /\ Committed(w, "committed")
  /\ status' \in {"shown", "gone"}
  /\ UNCHANGED <<page, quiet, entry, reader, age>>

(* The admin form may choose any status, and no view follows it. *)
CommitForm(w) ==
  /\ At(w, "signalled")
  /\ NewVersion
  /\ writer' = [writer EXCEPT ![w] = IdleWriter]
  /\ quiet' = quiet \cup {version + 1}
  /\ status' \in {"draft", "shown", "gone"}
  /\ UNCHANGED <<page, entry, reader, age>>

(* create_order, cancel_order and refund_order change the counters an event *)
(* page shows, confirm_order too what the page of an order shows. *)
OrderCommit(w) ==
  /\ At(w, "idle")
  /\ NewVersion /\ Committed(w, "committed")
  /\ UNCHANGED <<page, status, quiet, entry, reader, age>>

(* The service or the view busts the key when the commit is behind it. *)
(* Mutant: the key is left to the signal. *)
TellNobody(w) ==
  /\ At(w, "committed")
  /\ writer' = [writer EXCEPT ![w] = IdleWriter]
  /\ UNCHANGED <<page, rowVars, entry, reader, age>>
Tell(w) ==
  /\ At(w, "committed")
  /\ entry' = Busted
  /\ writer' = [writer EXCEPT ![w] = IdleWriter]
  /\ UNCHANGED <<page, rowVars, reader, age>>

(* attach_payment_intent, a ticket's pdf_url, soft deletion in the admin *)
(* site: changes of the rows with no word to the cache. *)
QuietChange ==
  /\ NewVersion
  /\ quiet' = quiet \cup {version + 1}
  /\ status' \in {status, "gone"}
  /\ UNCHANGED <<page, entry, reader, writer, age>>

(* Before the commit the database rolls back; after it the version stays. *)
WriterDies(w) ==
  /\ ~At(w, "idle")
  /\ quiet' = IF At(w, "saved") \/ At(w, "committed") THEN quiet \cup {writer[w].version} ELSE quiet
  /\ writer' = [writer EXCEPT ![w] = IdleWriter]
  /\ UNCHANGED <<page, version, status, entry, reader, age>>

-----------------------------------------------------------------------------
(* Time.                                                                   *)

(* Mutants: an entry without a timeout; one that outlives its timeout. *)
AgedNever == entry
AgedToZero == IF entry = None THEN None
              ELSE [entry EXCEPT !.left = IF @ > 0 THEN @ - 1 ELSE 0]
Aged == IF entry = None \/ entry.left = 1 THEN None ELSE [entry EXCEPT !.left = @ - 1]

Tick ==
  /\ \A r \in Readers : ReadOf(r, "set") => reader[r].time < RequestTime
  /\ entry' = Aged
  /\ reader' = [r \in Readers |-> IF ReadOf(r, "set") THEN [reader[r] EXCEPT !.time = @ + 1] ELSE reader[r]]
  /\ age' = [v \in Versions |-> IF v < version /\ age[v] < MaxAge THEN age[v] + 1 ELSE age[v]]
  /\ UNCHANGED <<page, rowVars, writer>>

Next ==
  \/ \E r \in Readers : Hit(r) \/ Miss(r) \/ Load(r) \/ SetPage(r) \/ ReaderDies(r)
  \/ \E w \in Writers :
       \/ Edit(w) \/ SaveStatus(w) \/ Signal(w) \/ CommitStatus(w) \/ CommitForm(w)
       \/ OrderCommit(w) \/ Tell(w) \/ WriterDies(w)
  \/ QuietChange
  \/ Tick

Spec == Init /\ [][Next]_vars

(* A request that has begun goes on, and time passes. *)
Fairness == WF_vars(Tick) /\ \A r \in Readers : WF_vars(Load(r) \/ SetPage(r))
FairSpec == Spec /\ Fairness

-----------------------------------------------------------------------------
(* Properties.                                                             *)

(* What an entry has left of its lifetime and what its version has aged add *)
(* up, from the time a reader has had the version in its hands. *)
AgesBounded ==
  /\ \A v \in Versions : v >= version => age[v] = 0
  /\ \A r \in Readers : ReadOf(r, "set") =>
       reader[r].version <= version /\ age[reader[r].version] <= reader[r].time
  /\ entry # None =>
       entry.version <= version /\ age[entry.version] + entry.left <= TTL[page] + RequestTime

CacheInv == TypeOK /\ AgesBounded

(* A hit never shows what was superseded longer ago than the page's *)
(* lifetime and the time of the request that cached it: the cached copy of *)
(* a cancelled event or a refunded order is gone by then. *)
StaleWithinTtl == entry # None => age[entry.version] <= TTL[page] + RequestTime

(* The versions whose writer has yet to bust the key. *)
Pending == {writer[w].version : w \in {x \in Writers : At(x, "saved") \/ At(x, "committed")}}

(* The pages that are busted, of an event and of an order: an entry that was *)
(* current when it was set is overtaken only by changes that have not been *)
(* told to the cache yet or never will be.  Every other stale entry was set *)
(* by a reader that a commit overtook. *)
StaleOnlyIfUntold ==
  entry # None /\ page # "list" /\ entry.fresh
    => \A v \in Versions : entry.version < v /\ v <= version => v \in Pending \cup quiet

(* When the changes stop, every page becomes current, however often it is *)
(* read meanwhile. *)
EveryPageCatchesUp == <>[](entry = None \/ entry.version = version)
===============================================================================

# EventHive in TLA+

TLA+ models of the ticketing core of EventHive (the Django backend under
`src/backend/`), the TLC runs that check them on small instances, and TLAPS
proofs of the main results for every value of the constants. Paths below are
relative to `src/backend/`; `PROJECT.json` maps every definition to its lines.

    tlc -workers 2 -config settlement.cfg MCSettlement     # one run
    tlapm OrderStoreProofs.tla                             # one proof module

## 1. Inventory

| Component | State it keeps | Operations |
|---|---|---|
| Orders: tables (`apps/orders/models.py`, `services.py`) | `Order` (status, expiry, PaymentIntent, soft deletion), `OrderItem`, `Ticket`; the counters `TicketTier.quantity_sold` and `Event.tickets_sold` | `create_order`, `attach_payment_intent`, `confirm_order`, `cancel_order`, `refund_order`, `expire_pending_orders`, the admin's soft delete |
| Checkout endpoint (`apps/orders/views.py`, `serializers.py`, `core/cache.py`, `payment.py`) | Redis seat locks per (tier, user) with a lifetime; Stripe PaymentIntents | `POST /orders/`: validate, pending check, lock, commit, pay, attach or compensate |
| Settlement (`views.py`, `webhook_views.py`, `payment.py`, `tasks.py`) | `ProcessedStripeEvent` ledger; Stripe's charges, refunds and undelivered events | confirm, cancel, refund endpoints; webhook; expiry sweep |
| Events (`apps/events/`) and the admin site's forms of events, tiers, orders and tickets | `Event` (status, capacity), `TicketTier` (quantity, sale window, `is_active`) | create, edit, publish, cancel; tier create and edit; the forms, which save whole rows |
| Ticket assets and notifications (`tasks/`, `apps/notifications/`, `services/storage.py`) | broker queues, `Ticket.pdf_url`, the PDF bucket, `NotificationLog` | asset task, three email tasks, two dispatchers run by Beat |
| Seat updates (`websockets/consumers.py`, `services/realtime.py`) | channel groups | connect, broadcast, disconnect |
| Read caches (`core/cache.py`, `apps/events/signals.py`, the `retrieve`/`list`/`search` views) | cached responses with a lifetime | fill on miss, invalidate on save |
| Organizations (`apps/organizations/`) | organizations, memberships | create, edit details, list members, invite (which adds the membership at once); the admin site's forms, removals and deletions |
| Users (`apps/users/`) | accounts, verification tokens, refresh tokens | register, verify, log in and out, refresh, edit the profile, reset the password |
| Audit log (`apps/audit/`), search (`services/search.py`), `core/` middleware and permissions, configuration | append-only rows that no code writes; nothing; nothing; settings | none; read; filter |

How they interact. A checkout goes through the serializer (which reads the
event), the seat locks in Redis, one database transaction, Stripe, and one more
UPDATE; nothing is held between these steps. Stripe later calls the webhook,
which calls the same `confirm_order`/`cancel_order` as the staff's endpoints.
`confirm_order` publishes one asset task per ticket from `on_commit`; that task
publishes the email task. Organizers save `Event` and `TicketTier` rows whose
counters the order transactions move with `F()` updates. Every order
transaction is followed, after its commit, by a release of seat locks and a
broadcast of the seats left. Memberships decide who may write an organization's
events.

What is hard about it. (a) Every operation checks a copy read without a lock
before its transaction locks the row. (b) A refund calls Stripe before the local
transaction. (c) Webhooks are repeated, concurrent and out of order, and the
ledger row is committed before the event is handled. (d) Two counters, the items
and the ticket rows are written by separate statements and must agree.
(e) A seat lock lives as long as an order may be pending but is deleted
by key, not by owner. (f) Edits by organizers, and the admin site's forms, save whole rows as they loaded them. (g) Celery
acknowledges late, retries, and its workers may die, or be refused by the broker, between a commit and the
messages that should follow it; the webhook answers 200 to such errors, too. (h) Processes may die anywhere. (i) Transactions lock
rows in orders of their own. (j) A client's seat count is read before it joins the group that
gets the updates, and the updates are read after the commits they announce.

What makes each part correct:

* orders: nothing oversold; both counters equal the valid tickets; a closed order gives
  its seats back exactly once; a close never fails on a counter;
* checkout: the answer is true; a refusal leaves no lock; an attendee holds a tier twice
  only after a lock was lost in one of two ways; no request waits for another;
* settlement: statuses move forward; a refund happens once and agrees with Stripe; an
  event acts once and is not forgotten; paid orders settle, overdue ones close, every ticket of
  a confirmed one is dispatched, all unless the process on it died or failed;
* events: a cancelled event stays cancelled, and staff leave the counters and the orders alone,
  but for a save over what has changed since it was loaded, and for what an admin chooses in a form;
* delivery: emails go to confirmed orders, link a stored PDF, are sent once; retries end;
* caches: a stale page is at most one lifetime old, and only writes that do not tell the
  cache, or a reader they overtake, leave one behind;
* accounts: one registration per address, whose link works; a reset link works once;
* seat updates: what a client saw last is eventually what is true, or one of the known reasons
  holds why not;
* organizations: an owner is a member, slugs tell rows apart, only insiders write events, what
  was deactivated or deleted stays so, and events stay where they are, but for late saves and forms;
* row locks: the transactions act as if each took one step, and none waits for ever.

## 2. Modules

    TicketInventory          abstract: a stock of tickets, reserved, sold, given back
        ^ implemented by
    OrderStore               the order tables; one action per transaction
        ^ EXTENDS; implemented by, but for what staff save over newer rows
    RowLocks                 the same transactions, statement by statement
    Checkout    Settlement    EventStaff    TicketDelivery

    ReadCaches    Accounts    SeatBroadcast    Organizations      on their own

`OrderStore` is both the detailed specification of the inventory and the abstract specification of the modules below it in
the picture. Each of them EXTENDS it and uses its transactions inside its own actions. `Checkout` and `Settlement` have the
property `ImplementsStore == StoreSpec`: whatever interleaving of unlocked reads, crashes and repeats happens, the tables only
change as `OrderStore` allows, and every invariant of `OrderStore` carries over. For `TicketDelivery`, whose only writes of the
tables are `OrderStore`'s actions themselves, this is proved only. Where staff's whole-row saves are modelled it is not true of
the code, and the properties say up to where it is: `CommitsFollowStore` (`RowLocks`: every commit is a step of `OrderStore`
or such a save over a newer counter) and `TablesHoldUntilClobbered` (`EventStaff`). That a transaction may be one step is what
`RowLocks` shows.

**TicketInventory** has an order's phase, what it holds, and the free tickets.
Clock, counters, requests and rows are gone: an order takes all it asks for or
nothing, and what it took comes back at most once.

**OrderStore** has one variable per column that matters, the clock, and the set of tiers
on sale. `CreateTx`, `ConfirmTx`, `CancelTx`, `RefundTx` are the bodies of
the `transaction.atomic()` blocks, atomic because of the row locks they take;
`AttachTx`, `SoftDelete` are single UPDATEs. A transaction that would take a
counter below zero fails (`CanRestore`: the columns are `PositiveIntegerField`s).
An order is named by the request that may create it. `ToggleSale` stands for
the sale window's opening and closing.

**RowLocks** runs those transactions on database connections: a request waits for the lock of
the row its statement needs, works on the row as last committed, and shows what it wrote when
it commits. A checkout locks its tiers in whatever order the query returns them, reads and checks their
counters, and updates the event's last; a close locks the order, the tiers in item order, the
event. Staff load the rows they save, counters included, before they lock anything: the edit of a tier is one UPDATE, the
form of the admin site locks the event and then the tiers of its inline forms, and either writes the counters it has loaded.
`overwritten` records that such a save wrote over a newer counter. Any transaction may fail, and `FairSpec` has the database
fail one of those in a circle.

**Checkout** gives every request a program counter; each step is a read, a Redis call,
a transaction or a Stripe call of `OrderViewSet.create`. A seat lock is the
time until which it is held, and, as history, who took it. `Crash` ends a request
anywhere, and time passes between any two steps. Confirmations and cancellations by others, before the order's deadline or
after it, are a transaction followed by a release of the attendee's lock keys (whoever set them), or by a crash. When Stripe
refuses and the order was meanwhile confirmed or closed, the compensating `cancel_order` raises in the handler, and the answer
is that exception's 409 (`CompensationRefused`). `lapsed` and `robbed` record the two ways in which a request loses a
lock: it ran out, or another request freed it.

**Settlement** has workers that each run one request: a confirmation, cancellation,
refund or webhook delivery, whose unlocked check (`Begin...`, `HookLookup`) and
transaction (`Confirm`, `Cancel`, `Refund`, or `Refused` when the locked row has
changed) are separate steps. After a confirmation `Enqueue` publishes the asset tasks one ticket at a time and `Dispatched`
ends the request. A worker may die (`Crash`), or be refused by the database or the broker (`Fails`), at any step; the webhook
swallows that error and answers 200 (`webhook_views.py:85`), except in its lookup of the order, which is outside its `try` and
becomes a 500. `hooks_cut` and `tasks_cut` record what was lost with such a request. Stripe is external: an intent is paid or
declined, events exist until acknowledged and may be delivered again after that,
a Refund is created once per idempotency key, and the answer to it may be lost.
`SweepInTransaction` says whether the sweep's queryset is evaluated inside a transaction. FALSE is what its task does
(`settlement_sweep`); in `settlement` it is TRUE, as in the repository's tests, which call the sweep inside a test's
transaction (`tests/unit/test_orders_services.py:182`), so that a sweep that works is among the actors; nothing there
depends on its running.

**EventStaff** has the requests of organizers and admins that load a row and later save it: the PATCH of a tier or an event and
the admin site's forms of tiers, events, orders and tickets save every column of the copy, publish and cancel only the status.
The form of an event sets its status without the check of `EVENT_STATUS_TRANSITIONS`; the form of an order can only set
`is_deleted`, but saves the whole row. `clobbered` records that a save wrote back a column of the orders' that had changed
since it was loaded. `TicketTier.quantity` is not edited.

**TicketDelivery** has the broker's messages, workers that run the asset and email
tasks step by step, the bucket, `pdf_url` and `NotificationLog`. A confirmation puts its tickets into `outbox`, from which
`on_commit` publishes one task per ticket (`Dispatch`), until it is done, dies or is refused (`DispatchFails`, recorded in
`lost`). A task that raises is
published again until `MaxRetries`; a worker that dies gives its message back
(late acknowledgement; the repository starts its worker with `--pool=solo`, where
the worker's process is the task's). Two equal waiting messages count as one. `cut` and `doubled` record
the two ways in which a notice may be repeated or lost: a task ended between an email and its record, or between
saving `pdf_url` and publishing the confirmation; or two workers were past `NotificationLog.claim` at once.

**ReadCaches** has one cached page (an event's detail, a list or search page, an order's
detail; keys do not depend on one another) and the rows it shows, as a version number. A
reader misses, queries and sets in three steps. A writer commits and then busts the key
(order services, the views after an edit), or has the signal bust it before the commit
(publish, cancel, the admin's form), or says nothing (`attach_payment_intent`, a ticket's
`pdf_url`, soft deletion). Lists are never busted: the configured backend is Django's own
Redis cache, which has no `delete_pattern`, so `invalidate_event_cache` takes its
`AttributeError` branch. `orders/signals.py` is left out: `OrdersConfig` does not import
it. `fresh`, `quiet` and `age` are history.

**Accounts** has the row of one address and the requests that load and save it. Requests
have no transaction around them. Verification and login save single columns; a profile edit, a reset and the
admin's form save the whole row as loaded (`SaveWhole`), except for the fields filled in: the form of the admin site also sets
whether the account is verified and active, and its last login (`Forms`). `clobbered` records that
one of them overwrote something. Passwords are numbered, since a reset link is bound to the
hash of the password it was made for.

**SeatBroadcast** has the seat count of one event, named by the number of changes it includes. A request
that changed it reads the event again after its commit and sends what it read to the group; either step may
fail. An edit of the event changes the count and tells nobody. A client's consumer reads the count,
joins the group, accepts and sends what it read, and then hands on what its channel holds, which has a capacity
beyond which messages are dropped. `last`, `told`, `untold` and `missed` are history.

**Organizations** has the tables of organizations, memberships and events, and requests that read in one
step and write in a later one: creation (a free slug, then the row and its OWNER in one transaction),
PATCH, invitation, an event's slug, creation and update, and the admin site's forms: that of an organization sets its owner,
that of an event its organization, and either the soft-delete flag. Removal of a
membership, deletion of an organization and soft deletion of an event are single steps of the admin site. `insiders`,
`staffed`, `late` and `gone` are history: who ever was a member, which organizations staff changed,
which requests had their row written since they read it, which keys were deleted.

The `MC...` modules give the constants their values.

## 3. Runs

| Run | Shows | Distinct states |
|---|---|---|
| `order_store` | counters, tickets and orders agree, nothing is oversold, a close never fails, the tables implement `TicketInventory` | 206,680 |
| `row_locks` | two connections, one of them staff's at times: every commit is a step of the store or a save over a newer counter, the transactions wait in circles only over carts of several tiers or an admin form's event, and all end | 212,808 |
| `checkout` | two overlapping checkouts that may be slow or die, of orders closed at any time: answers are true, refusals leave no lock, a tier is held twice only after a lock was lost, `ImplementsStore`; every request ends, even when another died with the locks | 760,962 |
| `settlement` | two workers race over one order, may die or fail, events are repeated: refunds, ledger, statuses, `ImplementsStore`; no event is forgotten, paid orders settle and every ticket of a confirmed one is dispatched, unless the worker on it died or failed | 138,575 |
| `staff` | two organizers or admins, with commits between their loads and saves: the tables hold until one saves over a newer column; an event leaves its way only by the admin's form or a save over another's status | 1,095,864 |
| `delivery` | one worker, a refusal, a death, retries, a dispatch that may fail: emails only to confirmed orders, with a stored PDF, once, quiet when logged; every published ticket mailed, hopeless tasks given up | 120,184 |
| `read_caches` | how old a cached answer may be, which writes leave a stale page behind, and that it ends | 540,246 |
| `accounts` | one registration per address, whose link works; a reset link works once; only saves of whole overtaken rows, or staff's choice in a form, undo anything | 914,995 |
| `seats` | two requests, two clients: a client's screen is behind only for a known reason; whenever it is behind, connecting or watching since long, it catches up, leaves, or has such a reason | 218,184 |
| `organizations` | two requests at a time and the admin site: owners, slugs, memberships; what returns or moves, and why a creation fails | 1,298,994 |
| `settlement_sweep` | *violation* of `OverdueOrdersClose` | |
| `staff_oversell` | *violation* of `NoOversell` | |

**Bounds.** Two orders are enough for two of them to compete for a tier's last ticket and for one
attendee to overlap with himself; a second tier makes a cart that is partly refused, and
several locks per request; a second event (`order_store`) a tier of the wrong event.
Quantities of 1 to 3 with at most 2 per item make tiers run out. The clock has one tick per
lifetime: `HoldTime = LockTTL = 1` as both are ten minutes in the code, and `MaxTime = 2`
lets an order and a lock go past their end; at `now = expires_at` an order is neither pending nor
expired, which the code's strict comparisons on both sides allow. `checkout` has `MaxTime = 1` and items of one ticket:
a lock may run out before its request commits, an order may be closed past its deadline, and the other request may come
before or after; longer schedules are left to the proofs. Two workers (`settlement`) act on the same order of up to two
tickets, so that a dispatch may be cut in half, and either may die or fail at any step. In
`row_locks` the clock stands still, so that each transaction meets every other and not the sale
window; one of the connections may be staff's (`Staffers`), one of two tiers is saved by staff (`StaffTiers`), confirmations
bring their payment intent, and with `SaveAgain = FALSE` staff stop once they have saved over newer counters, after which
nothing but the end of transactions is claimed. In `staff` likewise `WorkOn = FALSE`: after a clobbering save nobody
loads another row. One tier of two tickets and one capacity are enough there, for what is written back is the counter; in
`staff_oversell` the tier has one ticket, so that the second order is one too many. In
`delivery`, one retry is enough for a retried task to meet a fresh one; the single worker can be refused
something once and die once, so that a redelivery meets a retry; what two workers at once
do to a notice, and a dispatch cut between two tickets, are proved for any number of them. `refunds`, `starts`
and `mailed` need no bound but a cap of 2 for `mailed`. `MaxDeaths` and `MaxFailures` bound worker deaths and refusals.

In `read_caches` a tick is a minute and `TTL` is the code's 5, 2 and 1; `RequestTime = 1` bounds what a
reader takes from its query to its `cache.set`, and two changes by two writers let one commit fall between any
two steps of another request. `accounts` has three passwords: that of the registration and
two resets, the least that uses a link twice; its `Forms` are a
suspension, a verification and the removal of a last login and a verification. In `seats` three changes let a stale count overtake a newer
one while a third is under way, and a channel that holds two messages (100 in the code) is full when one of them
is not read. `organizations` has one organization name, so that every two organizations compete for its slug, and
events of one title; with `MaxSlugRetries = 1` (100 in the code) the second event gets a suffix; and one
action of the admin site is enough to change what a request had read. `accounts`, `organizations` and `staff` use
the symmetry of their model values and check no liveness.

**Deadlock** is checked where the system cannot stop (`order_store`, `row_locks`, `staff`,
`delivery`, `read_caches`, `accounts`). Elsewhere it may: all orders are finished and the clock is at its
bound (`checkout`, `settlement`), all changes are made and the clients gone from a deleted event (`seats`), all
keys are used (`organizations`).

**Fairness.** `WF(Step(o))` (`Checkout`), `WF(Work(w))`, `WF(Work(r))`, `WF(Dispatch(t))`: a request or task that runs
keeps running, as a thread of gunicorn or Celery does. Nothing forces it to begin. `SF` of an unacknowledged event's
delivery: Stripe repeats it until it is answered, and meets a free worker. The sweep is fair in `SweptSpec` only, the
specification of `settlement_sweep`, which has the sweep run again and again as its docstring says and finds that even then
nothing closes. `WF(Tick)` and `WF(Load(r) \/ SetPage(r))` (`ReadCaches`): time passes, and a
reader's request ends; nobody is forced to read. `SF` of starting a message about one ticket or order
(`TicketDelivery`): a queue is first in, first out, so a
message is not overtaken for ever although workers become busy again and again. `SF(Move(x))`
(`RowLocks`): PostgreSQL's queue for a row is first come, first served; and `WF` of failing a transaction in a
circle: `deadlock_timeout` finds it. `WF(Announce(s))`, `WF(Serve(c))` (`SeatBroadcast`): a request goes on to its end and the
event loop serves every consumer. The dispatchers,
failures, deaths and the other clocks have no fairness.

**Violations** are disagreements between the code and what it says of itself.

* `settlement_sweep`: `expire_pending_orders` evaluates a `select_for_update`
  queryset with no transaction around it, which Django refuses; the sweep closes nothing. There is a second reason, outside
  the model: the task's `@shared_task` is commented out (`apps/orders/tasks.py:6-8`), so that the entry of Beat
  (`config/settings/base.py:168`) names a task that no worker knows.
* `staff_oversell`: an edit of a tier writes back the `quantity_sold` it loaded; sales
  committed in between are forgotten and their seats sold again. The admin's forms of tiers and events do the same to the
  counters, and those of orders and tickets to a status or a payment intent: `staff` and `row_locks` have them all, and
  `TablesHoldUntilClobbered` says that nothing else breaks the tables.

Other behaviours the models contain, and the constants or histories that show them:

* Checkout. Closing an order past its deadline deletes the lock of the attendee's newer checkout, and a lock may end before
  its slow request commits: an attendee may then hold a tier twice, which `OneHoldPerTier` allows by name (`robbed`,
  `lapsed`). The pending-order check takes no lock and the seat locks are per
  tier, so two overlapping checkouts for two tiers of one event both succeed. When Stripe refuses the payment of an order that
  somebody has already confirmed or closed, the answer is 409 where the docstring (`orders/views.py:105-106`) has 402, and
  409 does not mean that nothing was ordered. An order may be
  placed for an event cancelled after the serializer's check.
* Settlement. `hooks_cut` and `tasks_cut` name what a death or a swallowed error costs: the ledger row is committed before
  the event is handled, and errors are answered 200, so an event may be acknowledged that nobody handled, and a paid order stay
  PENDING; and an order confirmed by a process that dies or is refused while it publishes gets none or only some of its tickets.
  Cancelling does not cancel the
  PaymentIntent, so an order is cancelled while, or before, it is paid, and the succeeded event is then ignored.
  An order may be confirmed although its deadline passed after the unlocked check.
* Tasks. `cut` and `doubled` do the same for emails: a redelivered asset task whose `pdf_url` is saved skips the email, a
  worker that dies between an email and its record has it sent again, and
  `NotificationLog.claim` lets a second worker through until the first has marked the row sent.
* Events. Publish and cancel check a copy, so that of two organizers one may publish what the other has just cancelled; a
  PATCH writes the status back that it loaded; and the admin's form sets any status. `EventMovesForward` says that an event
  goes back in no other way.
* Row locks. Two transactions that lock the same tiers in different orders wait for each other until the
  database fails one (the request ends in an error), and so do a form of the admin site and a checkout.
* Accounts. The save of a whole overtaken row undoes a verification, a suspension or a new password, which makes a used reset
  link valid again, and staff may undo a verification or a last login in the form (`NothingUndone` and `LinkSpentByUse` say that
  nothing else does); a verification
  link works however old it is: `is_expired` has no caller. A registration whose mail fails leaves an address that
  is taken and that no link verifies.
* Seat updates. A screen stays behind after an edit of the event, which tells nobody, after a broadcast that failed or
  was overtaken by an older one, and when the newest one fell between the snapshot and `group_add` or met a full channel.
* Organizations. `get_org_or_404` finds active organizations only, so an owner who deactivated one cannot activate it
  again; a PATCH that loaded the row before undoes a deactivation or deletion, and the update of an event moves it back to the
  organization from which an admin has just moved it. When two creations choose the same
  slug, the loser's second attempt runs in the transaction its first has broken, and fails.

## 4. Proofs

Assumptions: those of the modules (`StoreAssumption`, `CheckoutAssumption`,
`SettlementAssumption`, `DeliveryAssumption`, `CacheAssumption`, `AccountsAssumption`,
`BroadcastAssumption`, `OrganizationsAssumption`, `RowLocksAssumption`, `StaffAssumption`), which say that orders and tiers are
finite sets, which sets the constants are functions on and that bounds are natural numbers, and nothing of
their sizes. TLC evaluates them in every run.

**OrderStoreProofs.** `StoreInv` is inductive. It needs all of its parts: that no
tier is oversold follows from the counters being exact; that they are exact after a close
needs the closed order's valid rows to be as many as its items say (`TicketsFollowOrder`);
and that the *event's* counter is exact needs all its items to be of that event
(`ItemsOfEvent`). Counting lemmas (`RowsOfCount`, `DisjointCount`,
`HeldRows`) relate quantities to cardinalities of sets of rows. `LiveCanRestore` derives from
`StoreInv` that a live order's items are part of what was counted, so that a close never
fails. Theorems: `StoreInvariant`, `TypeCorrect`, `NeverOversold`, `CountersAgree`,
`TicketsAgree`, `CloseAlwaysPossible`, and `Implements`: each transaction maps to one step of
`TicketInventory`, everything else to a stutter.

**CheckoutProofs.** `CheckoutStep` shows that each step of the endpoint is a step of
`StoreNext` or leaves the tables alone; so `StoreInv` holds there, too. `CheckoutInv`
relates each program counter to its order (`RequestMatchesOrder`) and each lock to the request that
took it (`LocksAreRemembered`: without it a refusal could miss a lock). An order is created only
by its own request (`OthersWait`), so what an answer says stays true. Theorems:
`CheckoutInvariant`, `CheckoutImplementsStore`, `CheckoutNeverOversells`, `AnswersAreTrue`, and
`RefusalFreesLocks`: a request answered 402, or 409 without having made an order, holds no lock. `SeatLocksWork` proves
`OneHoldPerTier` for any lifetimes, delays and late closes. `CheckoutInv` does not suffice, for it says nothing of locks that
expire or are deleted by others; `LocksProtect` does: a lock that has run out is noted (`LapsesNoted`), a request that may still
free a lock owns it unless it lost it in one of the two ways, and a request is robbed only by one of its attendee's that came after
some lock had run out (`Protected`). So of two orders that hold seats of a tier, one has lost its lock.
`CheckoutGoesForward`: `StepsLeft`, a number of locks and steps, gets smaller with every
step of a request and with its death, and nothing that others do to its locks, its order or the tables sends it back. That is
`CheckoutEnds` but for the fairness that makes its next step happen.

**SettlementProofs.** The same refinement, then `SettlementInv`: the ledger counts the
starts, a refund request saw its order CONFIRMED, one about to record a refund has
Stripe's, an event is of a paid or declined intent and its worker has that intent's order (`EventsFit`), and the tickets of an
order that was confirmed are in the broker, each of them, or a process still has to publish them, or it died or failed on them
(`TicketsHandedOn`). As CONFIRMED can only become REFUNDED (`ConfirmedStays`), an order refunded at
Stripe is never cancelled. Theorems: `SettlementInvariant`, `SettlementImplementsStore`,
`SettlementKeepsInventory`, `StatusForward`, `RefundOnce`, `RefundsAgree`, `EventsHandledOnce` (an event starts at most once).
`EventsAccountedFor` and `ConfirmationsAccountedFor` are `PaidOrdersSettle` and `ConfirmedOrdersGetTickets` without fairness:
at every moment somebody is still on what is to happen, or a death or failure that the history names made it impossible. The first
needs that a handler that ends by itself has settled its event (`EndedIsSettled`), and that it stays settled
(`SettledStays`, `MootStays`: status, deadline, deletion and clock only go forward).

**TicketDeliveryProofs.** `StoreInv` and `DeliveryInv` are inductive together: that a message presupposes what its sender
saw (`Sound`) stays true because an order that was once confirmed is CONFIRMED or REFUNDED for ever (`Paid`), and a dispatch
makes sound messages because only tickets of orders confirmed once are in the `outbox` (`DispatchesPaid`) and a reminder's ticket rows follow their order. That no step harms what another worker is about
to do is one lemma for all steps that leave the tables alone. `OneSender` is what `MailedOnce` needs:
outside `doubled` at most one worker is past its claim of a notice, and outside `cut` one that has
mailed is about to mark it. `MailInv`, which is all of this, then carries `NoTicketForgotten`: a ticket is in the `outbox` or its task pending until
`pdf_url` is saved, or it is in `lost`, then a worker is about to publish the confirmation, and then that is pending until it is mailed. A worker that
dies gives the message back; one that raises publishes it again unless it has no retry left, and then, by `RetriesCounted`, more
failures happened than a task has retries. Theorems: `DeliveryInvariant`, `NoSecondMail`, `SettledForGood`, `TicketsAccountedFor` (which is
`TicketsMailed` without fairness), `DeliveryImplementsStore`, for any numbers of workers, retries, refusals and deaths.

**StalenessProofs.** Of cached pages, `CacheInv` and `StaleOnlyIfUntold` are inductive together. The bound on staleness needs
`AgesBounded`: while a reader holds a version its age is at most the time since the query, so when it
is set, age and remaining life add up to at most `TTL + RequestTime`, and a tick moves one from the second to
the first. `StaleOnlyIfUntold` holds because a commit puts its version among the pending or the quiet ones, and only
busting the key takes it out (`UntoldKeeps`). Theorems: `CacheInvariant`, `StalenessBounded`, `StaleNeedsUntold`,
for any lifetimes and any number of requests. Of the live seat count, `SeatsInv` has `EveryChangeTold` (a change was sent, is untold, or its request is about to send it)
and `MembersFollow` (what a member's screen comes to is the group's last count, or newer than anything
sent). The induction needs `NothingAhead`, that nobody holds a count from the future: otherwise a screen could be ahead of
`told` and fall behind the next message. Theorems: `SeatsInvariant`, `StaleForAReason`, for any numbers of requests and clients and any
channel capacity.

**AccountsProofs.** `AccountsInv` carries what the unique index gives (`OneRegistration`: between the insert and
the mail no other registration is beyond its check) and that, as long as nothing was clobbered, every spent link
is older than the password (`LinksAge`). `NothingIsUndone` is about single steps: a save of a row that is still as loaded changes
only what its request means to change, so a password that goes back, or a verification or login that disappears and was not
unticked in the form, was saved from an overtaken copy. Theorems: `AccountsInvariant`, `OneAnswerOneLink`, `ResetLinkSpentByUse`,
`NothingIsUndone`, for any forms.

**OrganizationsProofs.** Beside what the tables promise (`OwnerIsOWNER`, `SlugsUnique`, `NoOrphans`, `OnlyInsidersWrite`),
`OrganizationsInv` needs that a suffixed slug is the row's own (`SlugsNamed`), that the key a request will
insert is nobody else's (`KeyIsNew`), that the copy it will save still fits (`CopyFits`: only staff changes an
owner, an insider remains one, and what the form of an event saves counts as staff's), and that what it read is still true while it is not `late` (`StillTrue`), from which both action properties
follow. Theorems: `OrganizationsInvariant`, `ReturnsByLateSaves`, `CreationsHaveAReason`, for any numbers of users, organizations,
events, requests and forms.

**StoreRefinementProofs**, about `RowLocks`. `RowLocksInv` is inductive; it contains `StoreInv` for as long as nothing was
`overwritten`. It says of each request what it may
rely on between two statements: the tiers it has gone through (`Done`) are locked by it, and its copies are the rows' counters, or
differ from them by its own items; the order it closes is the locked one, fits, and its items are the cart; the order it creates has no row and
no other creator. What one request does leaves all of that to the others, because it only writes rows whose locks it
holds (`RowsKept`, `OthersKept`, and `OthersKeepInv`, which is cited for every statement). So at COMMIT the copies of a checkout or a
close are what `OrderStore` computes from the tables of that moment, and the whole transaction is its one step there
(`CommitCreateIsTx`, `CommitCloseIsTx`, `CommitConfirmIsTx`), while every other statement changes no table. Staff's copies were loaded without
a lock: `CommitStaffSaves` shows that their commit is an `OrderStore` step, too, if the counters are still what they were, and sets
`overwritten` if not. For the deadlocks it takes two more facts: a request that
waits for its order's row has no lock (`FirstLock`), and tiers are locked only for a cart or by staff, where a single edit holds
nothing while it waits (`LocksFitCart`, inductive on top of `RowLocksInv`). In a circle without an admin form everybody then
holds one tier and waits for another: whoever holds an event's row waits for nothing. Theorems: `RowLocksInvariant`, `StatementsFollowStore`
(every commit is a step of `OrderStore` or overwrites a newer counter), `StatementsNeverOversell` (until one does),
`LocksFitCarts`, `OnlyTiersDeadlock`, for any numbers of connections, orders, tiers and forms.
`TransactionsGoForward`: every statement, and every failure, makes the `StepsLeft` of its transaction smaller, and no statement of
another changes them. So no transaction loops or is set back, and `TransactionsEnd` is left with fair scheduling and the end of deadlocks.

**StoreRefinementProofs**, about `EventStaff`, with any number of organizers and admins and any overlaps. Each save either finds
the orders' columns as in its copy, and then only changes what `OrderStore` lets change (a tier's sale, an order's deletion), or sets
`clobbered` (`SaveTierCopyKeeps`, `SaveEventRowKeeps`, `SaveOrderFormKeeps`, `SaveTicketFormKeeps`). Hence `TablesHold`, and
`StaffNeverOversell`: without such a save nothing is oversold, and `staff_oversell` shows that with one it can be.
`EventsMoveForward` rests on `CopyChecked`, that whoever publishes or cancels has seen a status that allows it: a save that finds that
status still there follows `EVENT_STATUS_TRANSITIONS`, and one that does not is named in the property, as is the admin's form.

Some theorems state a conjunct of an invariant that a run checks and no property of their own: `TicketsAgree`,
`CountersAgree`, `RefundOnce`, `RefundsAgree`, `RefusalFreesLocks`, `ConfirmationsAccountedFor`; `ConfirmationLinksPdf`,
`OnlyConfirmedGetMail` and `SentWasMailed` are conjuncts of `DeliveryInv`.
`LocksFitCarts`, `TransactionsGoForward`, `CheckoutGoesForward` and `DeliveryImplementsStore` are proved only.

**Only model-checked** are the properties of liveness, since tlapm does not prove liveness under fairness: `CheckoutEnds`,
`PaidOrdersSettle`, `ConfirmedOrdersGetTickets`, `TransactionsEnd`, `EveryPageCatchesUp`, `TicketsMailed`,
`GoneCartsForgotten`, `EveryWatcherCatchesUp`. Of five of them the part that needs no fairness is proved, as said above; of
`EveryPageCatchesUp` and `EveryWatcherCatchesUp` it is `StalenessBounded` and `StaleForAReason`. `OverdueOrdersClose` is checked
where it fails. Every invariant and every action property of a passing run is a theorem.

## 5. Not modelled

* The audit log: `write_audit_log` has no caller, so no row is ever written.
* The creation of tiers and edits of `TicketTier.quantity`: tiers and quantities are constants of `OrderStore`, on whose
  counting the proofs rest. `total_capacity` is in `EventStaff`, but no code compares it with the tiers.
* In the admin site: "add" forms, creation and deletion of users and tokens, the email in the form of a user; that the form of a
  ticket also writes `pdf_url` back; deletions of orders while transactions run (`RowLocks`; elsewhere they are modelled). A
  form's rows are loaded in one step in `RowLocks`, one after another in the code.
* Duplicate memberships: the table is a function of user and organization, as its unique constraint has it. The run of
  `Organizations` has no platform admins; that part is only proved.
* How long `channels_redis` keeps groups and messages.
* Ticket check-in (no code sets `USED`), prices, currency, order references, the texts and rendering of PDFs and emails,
  `NotificationLog.attempts`.
* JWTs, their rotation and the logout, which are the library's.
* Stateless code: search, request ids, throttles, pagination, error rendering, read-only endpoints. The permissions `IsOrgMember`,
  `IsOrgOwnerOrManager`, `IsOrgOwnerOrAdmin` and `IsOwnerOrReadOnly` have no user.
* The deployment. `CELERY_TASK_ROUTES` sends the tasks to the queues `assets` and `emails`, but the repository's README
  (`README.md:108`) starts the worker without `-Q`, so that it consumes `default` only; `TicketsMailed` is checked for workers
  that consume both.
* In `Organizations`, failures of the database during a creation, and requests refused in their first step, which change nothing.

Hazards with no property, since the code makes no promise about them: a deadline that passes during a confirmation
(`orders/services.py:229`), a capacity nobody compares (`events/serializers.py:89`), an event
cancelled during a checkout (`orders/serializers.py:131`), a registration whose mail fails (`users/serializers.py:56`), and the queues
(`config/settings/base.py:183`).

## 6. Plan

1. Done: all modules of section 2, their runs, and a proof of every invariant and action property that the passing runs check,
   staff's saves and forms and swallowed errors included.
2. Done for checkout, the transactions, settlement and the tickets: the steps of the liveness arguments that need no
   fairness. Left: that the email of a deleted cart comes nearer to its last retry (`GoneCartsForgotten`), which counts
   messages of several dispatches.
3. Tiers that are created and whose quantity is edited, as variables of `OrderStore`: which of its theorems need a
   quantity not below what was sold?
4. Refresh tokens and the logout, if the program comes to keep state of its own about them.

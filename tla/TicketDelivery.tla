---------------------------- MODULE TicketDelivery ----------------------------
(***************************************************************************)
(* The Celery tasks that follow an order: the PDF of each ticket, its      *)
(* confirmation email, the reminder before the event and the email about   *)
(* an abandoned cart.  Messages are acknowledged late, so the message of a *)
(* worker that dies comes back; a task that raises is published again with *)
(* one more retry.  Several workers run at once, and an order goes on      *)
(* changing while its messages wait.                                       *)
(*                                                                         *)
(* Two messages that are equal and both waiting count as one.              *)
(* NotificationLog.attempts and the texts are left out; reminders are due  *)
(* at any time.                                                            *)
(***************************************************************************)
EXTENDS OrderStore

CONSTANTS
  Runners,       \* Celery workers
  Queues,        \* the queues the workers consume
  MaxRetries,    \* max_retries of every task (5)
  AbandonAfter,  \* ABANDONED_CART_AFTER_MINUTES, in clock ticks
  Sweeps,        \* the dispatchers Beat runs: "reminder", "cart"
  MaxFailures,   \* bound: refusals of storage, database, broker, mail server
  MaxDeaths      \* bound: how often a worker dies in the middle of a task

ASSUME DeliveryAssumption ==
  /\ MaxRetries \in Nat /\ AbandonAfter \in Nat /\ MaxDeaths \in Nat
  /\ MaxFailures \in Nat
  /\ Sweeps \subseteq {"reminder", "cart"}

VARIABLES
  outbox,    \* tickets that a request which confirmed has still to publish
  lost,      \* history: tickets that it never published
  waiting,   \* messages in the broker
  runner,    \* the task each worker runs
  pdf_url,   \* tickets whose pdf_url is set
  stored,    \* tickets whose PDF is in the bucket
  log,       \* NotificationLog.status of each notice, "none" without a row
  deaths,    \* how often a worker has died
  failures,  \* how often a task has been refused something
  mailed,    \* history: emails sent for each notice, counted up to 2
  cut,       \* history: notices whose task ended between what it cannot
             \* repeat and its record: mailed and not marked, or the ticket's
             \* pdf_url saved and the confirmation not published
  doubled    \* history: notices that two workers were past the claim of

dispatchVars == <<outbox, lost>>
sourceVars == <<storeVars, dispatchVars>>
taskVars == <<waiting, runner>>
resultVars == <<pdf_url, stored, log>>
faultVars == <<deaths, failures>>
historyVars == <<mailed, cut, doubled>>
vars == <<sourceVars, taskVars, resultVars, faultVars, historyVars>>

Messages ==
  [task : {"assets", "confirmation", "reminder"}, target : Rows, retries : 0..MaxRetries]
    \cup [task : {"cart"}, target : Orders, retries : 0..MaxRetries]
Message(task, target) == [task |-> task, target |-> target, retries |-> 0]

(* What a message is about, and which of that is logged. *)
Topics == ({"assets", "confirmation", "reminder"} \X Rows) \cup ({"cart"} \X Orders)
Notices == ({"confirmation", "reminder"} \X Rows) \cup ({"cart"} \X Orders)
NoticeOf(m) == <<m.task, m.target>>
LogStatuses == {"none", "pending", "sent", "failed"}

Idle == [step |-> "idle"]
Running(m, step) == [message |-> m, step |-> step]
AssetSteps == {"upload", "save", "chain"}
MailSteps == {"claim", "send", "mark_sent", "mark_failed"}

Init ==
  /\ StoreInit
  /\ outbox = {} /\ lost = {}
  /\ waiting = {}
  /\ runner = [r \in Runners |-> Idle]
  /\ pdf_url = {} /\ stored = {}
  /\ log = [n \in Notices |-> "none"]
  /\ mailed = [n \in Notices |-> 0]
  /\ deaths = 0 /\ failures = 0
  /\ cut = {} /\ doubled = {}

-----------------------------------------------------------------------------
(* The broker.                                                             *)

At(r, step) == runner[r].step = step
Target(r) == runner[r].message.target
Proceed(r, step) == runner' = [runner EXCEPT ![r].step = step]
Done(r) == runner' = [runner EXCEPT ![r] = Idle]

(* Mutant: retried for ever. *)
AgainForEver(m) == {m}

(* autoretry_for: the message once more, unless it has been retried enough. *)
Again(m) == IF m.retries < MaxRetries THEN {[m EXCEPT !.retries = @ + 1]} ELSE {}

Raise(r) ==
  /\ Done(r)
  /\ waiting' = waiting \cup Again(runner[r].message)

Refused == failures < MaxFailures /\ failures' = failures + 1

(* The notice that a worker leaves in between when it ends here. *)
Cut(r) ==
  cut' = cut \cup (CASE At(r, "mark_sent") -> {NoticeOf(runner[r].message)}
                      [] At(r, "chain") -> {<<"confirmation", Target(r)>>}
                      [] OTHER -> {})

(* CELERY_TASK_ROUTES. *)
QueueOf == [ assets |-> "assets", confirmation |-> "emails", reminder |-> "emails",
             cart |-> "emails" ]
Deliverable(r, m) == m \in waiting /\ runner[r] = Idle /\ QueueOf[m.task] \in Queues

Taken(r, m) ==
  /\ Deliverable(r, m)
  /\ waiting' = waiting \ {m}

(* acks_late: the message of a dead worker is delivered again. *)
Die(r) ==
  /\ deaths < MaxDeaths
  /\ runner[r] # Idle
  /\ deaths' = deaths + 1
  /\ Done(r)
  /\ waiting' = waiting \cup {runner[r].message}
  /\ Cut(r)
  /\ UNCHANGED <<sourceVars, resultVars, failures, mailed, doubled>>

-----------------------------------------------------------------------------
(* generate_ticket_assets_task.                                            *)

StartAssets(r, m) ==
  /\ m.task = "assets"
  /\ Taken(r, m)
  /\ runner' = [runner EXCEPT ![r] = IF m.target \in pdf_url THEN Idle
                                     ELSE Running(m, "upload")]
  /\ UNCHANGED <<sourceVars, resultVars, faultVars, historyVars>>

Upload(r) ==
  /\ At(r, "upload")
  /\ stored' = stored \cup {Target(r)}
  /\ \/ Proceed(r, "save") /\ UNCHANGED <<waiting, failures>>
     \/ Refused /\ Raise(r)
  /\ UNCHANGED <<sourceVars, pdf_url, log, deaths, historyVars>>

SavePdfUrl(r) ==
  /\ At(r, "save")
  /\ pdf_url' = pdf_url \cup {Target(r)}
  /\ Proceed(r, "chain")
  /\ UNCHANGED <<sourceVars, waiting, stored, log, faultVars, historyVars>>

(* Mutant: the confirmation is not chained. *)
ChainNothing(r) ==
  /\ At(r, "chain")
  /\ Done(r)
  /\ UNCHANGED <<sourceVars, waiting, resultVars, faultVars, historyVars>>

(* send_ticket_confirmation_email_task.delay.                              *)
Chain(r) ==
  /\ At(r, "chain")
  /\ waiting' = waiting \cup {Message("confirmation", Target(r))}
  /\ Done(r)
  /\ UNCHANGED <<sourceVars, resultVars, faultVars, historyVars>>

AssetsFail(r) ==
  /\ Refused
  /\ runner[r].step \in AssetSteps
  /\ Raise(r)
  /\ Cut(r)
  /\ UNCHANGED <<sourceVars, resultVars, deaths, mailed, doubled>>

-----------------------------------------------------------------------------
(* The three email tasks.                                                  *)

(* A deleted order is not found by its manager, and the cart task raises.  *)
StartMail(r, m) ==
  /\ m.task # "assets"
  /\ m.task = "cart" => ~is_deleted[m.target]
  /\ Taken(r, m)
  /\ runner' = [runner EXCEPT ![r] = Running(m, "claim")]
  /\ UNCHANGED <<sourceVars, resultVars, faultVars, historyVars>>

CartGone(r, m) ==
  /\ m.task = "cart" /\ is_deleted[m.target]
  /\ Deliverable(r, m)
  /\ waiting' = (waiting \ {m}) \cup Again(m)
  /\ UNCHANGED <<sourceVars, runner, resultVars, faultVars, historyVars>>

Start(r, m) == StartAssets(r, m) \/ StartMail(r, m) \/ CartGone(r, m)

PastClaim(r, n) ==
  runner[r].step \in MailSteps \ {"claim"} /\ NoticeOf(runner[r].message) = n

(* Is another worker past the claim as well? *)
Beside(r, n) ==
  doubled' = doubled \cup (IF \E s \in Runners \ {r} : PastClaim(s, n) THEN {n} ELSE {})

(* Mutants: the claim is not looked at; or is marked sent at once.         *)
ClaimUnread(r) ==
  /\ At(r, "claim")
  /\ LET n == NoticeOf(runner[r].message) IN
       /\ log' = [log EXCEPT ![n] = IF @ = "none" THEN "pending" ELSE @]
       /\ Beside(r, n)
  /\ Proceed(r, "send")
  /\ UNCHANGED <<sourceVars, waiting, pdf_url, stored, faultVars, mailed, cut>>
ClaimAsSent(r) ==
  /\ At(r, "claim")
  /\ LET n == NoticeOf(runner[r].message) IN
       /\ log' = [log EXCEPT ![n] = "sent"]
       /\ IF log[n] = "sent" THEN Done(r) ELSE Proceed(r, "send")
  /\ UNCHANGED <<sourceVars, waiting, pdf_url, stored, faultVars, historyVars>>

(* NotificationLog.claim: get_or_create under a row lock, given up at the  *)
(* end of its own transaction; only a copy that says SENT ends the task.   *)
Claim(r) ==
  /\ At(r, "claim")
  /\ LET n == NoticeOf(runner[r].message) IN
       /\ log' = [log EXCEPT ![n] = IF @ = "none" THEN "pending" ELSE @]
       /\ IF log[n] = "sent" THEN Done(r) /\ UNCHANGED doubled
          ELSE Proceed(r, "send") /\ Beside(r, n)
  /\ UNCHANGED <<sourceVars, waiting, pdf_url, stored, faultVars, mailed, cut>>

Send(r) ==
  /\ At(r, "send")
  /\ LET n == NoticeOf(runner[r].message) IN
       mailed' = [mailed EXCEPT ![n] = IF @ < 2 THEN @ + 1 ELSE 2]
  /\ Proceed(r, "mark_sent")
  /\ UNCHANGED <<sourceVars, waiting, resultVars, faultVars, cut, doubled>>

SendFails(r) ==
  /\ Refused
  /\ At(r, "send")
  /\ Proceed(r, "mark_failed")
  /\ UNCHANGED <<sourceVars, waiting, resultVars, deaths, historyVars>>

Mark(r, new) ==
  /\ log' = [log EXCEPT ![NoticeOf(runner[r].message)] = new]
  /\ UNCHANGED <<sourceVars, pdf_url, stored, faultVars, historyVars>>

MarkSent(r) == At(r, "mark_sent") /\ Mark(r, "sent") /\ Done(r) /\ UNCHANGED waiting
MarkFailed(r) == At(r, "mark_failed") /\ Mark(r, "failed") /\ Raise(r)

(* The database refuses one of the writes of the log. *)
LogFails(r) ==
  /\ Refused
  /\ runner[r].step \in MailSteps \ {"send"}
  /\ Raise(r)
  /\ Cut(r)
  /\ UNCHANGED <<sourceVars, resultVars, deaths, mailed, doubled>>

Work(r) ==
  \/ Upload(r) \/ SavePdfUrl(r) \/ Chain(r) \/ AssetsFail(r)
  \/ Claim(r) \/ Send(r) \/ SendFails(r) \/ MarkSent(r) \/ MarkFailed(r) \/ LogFails(r)

-----------------------------------------------------------------------------
(* Who publishes.                                                          *)

(* confirm_order.                                                          *)
ConfirmOrder(o) ==
  /\ ConfirmTx(o, TRUE)
  /\ outbox' = outbox \cup OrderRows(o, items[o])
  /\ UNCHANGED <<lost, taskVars, resultVars, faultVars, historyVars>>

(* dispatch_tasks, run by on_commit: one delay() for each ticket, and what *)
(* has not been published when one is refused, or the process dies, never  *)
(* will be.                                                                *)
Dispatch(t) ==
  /\ t \in outbox
  /\ waiting' = waiting \cup {Message("assets", t)}
  /\ outbox' = outbox \ {t}
  /\ UNCHANGED <<storeVars, lost, runner, resultVars, faultVars, historyVars>>

DispatchFails(o) ==
  LET rest == {t \in outbox : t[1] = o} IN
    /\ rest # {}
    /\ outbox' = outbox \ rest
    /\ lost' = lost \cup rest
    /\ UNCHANGED <<storeVars, taskVars, resultVars, faultVars, historyVars>>

(* dispatch_event_reminders_task.                                          *)
RemindersDue == {r \in Rows : ticket[r] = "VALID" /\ status[r[1]] = "CONFIRMED"}

DispatchReminders ==
  /\ "reminder" \in Sweeps
  /\ waiting' = waiting \cup {Message("reminder", r) : r \in RemindersDue}
  /\ UNCHANGED <<sourceVars, runner, resultVars, faultVars, historyVars>>

(* dispatch_abandoned_cart_emails_task: created_at is HoldTime before      *)
(* expires_at.                                                             *)
AbandonedCarts ==
  {o \in Orders : /\ HoldsSeats(o)
                  /\ expires_at[o] - HoldTime + AbandonAfter <= now}

DispatchCarts ==
  /\ "cart" \in Sweeps
  /\ waiting' = waiting \cup {Message("cart", o) : o \in AbandonedCarts}
  /\ UNCHANGED <<sourceVars, runner, resultVars, faultVars, historyVars>>

-----------------------------------------------------------------------------
(* The order, meanwhile: its transactions only.                            *)

OrderMoves(o) ==
  /\ \/ \E q \in Carts : CreateTx(o, q)
     \/ CancelTx(o)
     \/ RefundTx(o)
     \/ SoftDelete(o)
  /\ UNCHANGED <<dispatchVars, taskVars, resultVars, faultVars, historyVars>>

PassTime == Tick /\ UNCHANGED <<dispatchVars, taskVars, resultVars, faultVars, historyVars>>

Next ==
  \/ \E r \in Runners :
       \/ \E m \in Messages : Start(r, m)
       \/ Work(r)
       \/ Die(r)
  \/ \E o \in Orders : ConfirmOrder(o) \/ DispatchFails(o) \/ OrderMoves(o)
  \/ \E t \in Rows : Dispatch(t)
  \/ DispatchReminders
  \/ DispatchCarts
  \/ PassTime

Spec == Init /\ [][Next]_vars

(* A request that has confirmed, or a task that runs, goes on; the queue   *)
(* is first in, first out, so the messages of a task about one ticket or   *)
(* order are not overtaken for ever.                                       *)
FairSpec ==
  /\ Spec
  /\ \A t \in Rows : WF_vars(Dispatch(t))
  /\ \A r \in Runners : WF_vars(Work(r))
  /\ \A n \in Topics : SF_vars(\E r \in Runners, m \in waiting : NoticeOf(m) = n /\ Start(r, m))

-----------------------------------------------------------------------------

TypeOK ==
  /\ StoreTypeOK
  /\ outbox \subseteq Rows /\ lost \subseteq Rows
  /\ waiting \subseteq Messages
  /\ runner \in [Runners -> {Idle} \cup [message : Messages, step : AssetSteps \cup MailSteps]]
  /\ pdf_url \subseteq Rows /\ stored \subseteq Rows
  /\ log \in [Notices -> LogStatuses]
  /\ mailed \in [Notices -> 0..2]
  /\ deaths \in 0..MaxDeaths /\ failures \in 0..MaxFailures
  /\ cut \subseteq Notices /\ doubled \subseteq Notices

(* A message, waiting or being worked on, presupposes what its sender saw. *)
Busy(r) == runner[r] # Idle
Sound(m) ==
  /\ m.task # "cart" => status[m.target[1]] \in {"CONFIRMED", "REFUNDED"}
  /\ m.task = "confirmation" => m.target \in pdf_url

DispatchesPaid == \A t \in outbox : status[t[1]] \in {"CONFIRMED", "REFUNDED"}

StepsFit ==
  \A r \in Runners : Busy(r) =>
    /\ runner[r].message.task = "assets" <=> runner[r].step \in AssetSteps
    /\ At(r, "save") => Target(r) \in stored
    /\ At(r, "chain") => Target(r) \in pdf_url

(* Whichever retry or redelivery sends it, a confirmation email links a    *)
(* PDF that is in the bucket (tasks/tickets.py:34-42,                      *)
(* tasks/notifications.py:49-63).                                          *)
ConfirmationLinksPdf ==
  \A t \in Rows : mailed[<<"confirmation", t>>] > 0 => t \in pdf_url /\ t \in stored

(* Tickets and reminders go only to orders that were confirmed once,       *)
(* however long their messages waited (tasks/notifications.py:78-85,       *)
(* orders/services.py:252-258).                                            *)
OnlyConfirmedGetMail ==
  \A t \in Rows :
    t \in stored \/ mailed[<<"confirmation", t>>] > 0 \/ mailed[<<"reminder", t>>] > 0
      => status[t[1]] \in {"CONFIRMED", "REFUNDED"}

(* The log says that a notice was sent only if an email went out, whatever *)
(* failed or died in between (notifications/models.py:47-67).              *)
SentWasMailed ==
  /\ \A n \in Notices : log[n] = "sent" => mailed[n] > 0
  /\ \A r \in Runners : At(r, "mark_sent") => mailed[NoticeOf(runner[r].message)] > 0

(* A notice on which no worker was cut off after it had mailed, and that   *)
(* no two workers were sending at once, is not open to a second email: one *)
(* worker at most is past its claim, and after the email only to mark it.  *)
OneSender ==
  \A n \in Notices \ doubled :
    /\ \A r, s \in Runners : PastClaim(r, n) /\ PastClaim(s, n) => r = s
    /\ n \notin cut /\ mailed[n] > 0 /\ log[n] # "sent" =>
         \E r \in Runners : At(r, "mark_sent") /\ PastClaim(r, n)
    /\ n \notin cut /\ (log[n] = "sent" \/ \E r \in Runners : At(r, "mark_sent") /\ PastClaim(r, n))
         => mailed[n] = 1
    /\ log[n] = "sent" => \A r \in Runners : ~PastClaim(r, n)

(* The inductive invariant of what is mailed. *)
MailInv ==
  /\ TypeOK
  /\ DispatchesPaid
  /\ \A m \in waiting : Sound(m)
  /\ \A r \in Runners : Busy(r) => Sound(runner[r].message)
  /\ pdf_url \subseteq stored
  /\ StepsFit
  /\ ConfirmationLinksPdf
  /\ OnlyConfirmedGetMail
  /\ SentWasMailed
  /\ OneSender

(* Messages about a topic, in the broker or with a worker. *)
InHand == waiting \cup {runner[r].message : r \in {s \in Runners : Busy(s)}}
Pending(n) == \E m \in InHand : NoticeOf(m) = n

(* Every retry of a message about a ticket was a failure of its own: a     *)
(* worker whose email was refused has one more behind it.                  *)
RetriesCounted ==
  /\ \A m \in waiting : m.task # "cart" => m.retries <= failures
  /\ \A r \in Runners : Busy(r) /\ runner[r].message.task # "cart" =>
       /\ runner[r].message.retries <= failures
       /\ At(r, "mark_failed") => runner[r].message.retries < failures

(* The confirmation of a ticket is on its way, mailed, or lost for one of  *)
(* the three reasons that lose it: the request that confirmed the order    *)
(* did not publish the ticket's task, the task was cut off before it       *)
(* published the confirmation, or there were more failures than retries.   *)
Pursued(t) ==
  LET n == <<"confirmation", t>>
  IN  Pending(n) \/ mailed[n] > 0 \/ t \in lost \/ n \in cut \/ failures > MaxRetries

(* No ticket of a confirmed order is forgotten, whatever is refused, dies  *)
(* or is repeated: while its pdf_url is not saved its task is pending or   *)
(* about to be published, and then a worker is about to publish its        *)
(* confirmation or that is pursued                                         *)
(* (tasks/tickets.py:27-50, orders/services.py:252-258).                   *)
NoTicketForgotten ==
  \A t \in Rows :
    \/ Pursued(t)
    \/ t \in pdf_url /\ \E r \in Runners : At(r, "chain") /\ Target(r) = t
    \/ t \notin pdf_url /\ (t \in outbox \/ Pending(<<"assets", t>>)
                            \/ status[t[1]] # "CONFIRMED" \/ ticket[t] # "VALID")

(* The inductive invariant of the tasks. *)
DeliveryInv == MailInv /\ RetriesCounted /\ NoTicketForgotten

(* A notice is mailed once, although every scan of its window dispatches   *)
(* it again (tests/integration/test_phase4_tasks.py:197-198) and failed or *)
(* lost tasks are repeated - unless a worker ended between the email and   *)
(* its record, or two held its message at once: the claim's lock is given  *)
(* up before the email (notifications/models.py:47-55).                    *)
MailedOnce == \A n \in Notices \ (cut \cup doubled) : mailed[n] <= 1

(* Once the log says sent and no worker is past its claim of the notice,   *)
(* no retry, redelivery or further dispatch gets past it again, so that    *)
(* nothing more is mailed (tasks/notifications.py:40-47).                  *)
Settled(n) == log[n] = "sent" /\ \A r \in Runners : ~PastClaim(r, n)

StaysSettled == \A n \in Notices : Settled(n) => Settled(n)'
SentStaysQuiet == [][StaysSettled]_vars

(* Every valid ticket of a confirmed order gets its confirmation email, if *)
(* it meets no more failures than a task has retries.  Two things lose it: *)
(* a request that confirmed the order and ended before it had published    *)
(* the ticket's task (orders/services.py:252-258), and a task that ended   *)
(* between saving pdf_url and publishing the confirmation, for its         *)
(* repetition finds pdf_url and returns (tasks/tickets.py:27-42).          *)
TicketsMailed ==
  \A t \in Rows :
    ticket[t] = "VALID" /\ status[t[1]] = "CONFIRMED"
      ~> \/ mailed[<<"confirmation", t>>] > 0
         \/ t \in lost
         \/ <<"confirmation", t>> \in cut
         \/ failures > MaxRetries

(* A task that can never succeed is given up: the cart email of a deleted  *)
(* order is retried, however often it had been dispatched, but not for     *)
(* ever (tasks/notifications.py:12-18, 140).                               *)
GoneCartsForgotten == \A o \in Orders : is_deleted[o] ~> ~Pending(<<"cart", o>>)
=============================================================================

----------------------------- MODULE SeatBroadcast -----------------------------
(***************************************************************************)
(* The live seat count of one event.  A request that changed the event's   *)
(* counters reads the row again after its commit and sends the count to    *)
(* the event's group; a client that connects is given a count read before  *)
(* it joined the group, and then what the group gets.  Sends fail, workers *)
(* die, clients come and go, an inbox has a limit, and two requests may    *)
(* send in the other order than they committed.                            *)
(*                                                                         *)
(* A count is named by the number of changes it includes: what matters is  *)
(* which change a client's screen has reached, not how many seats that is. *)
(***************************************************************************)
EXTENDS Integers, Sequences

CONSTANTS
  Sellers,     \* requests that place, cancel or refund orders of the event
  Clients,     \* WebSocket connections
  InboxLimit,  \* capacity of a channel (100), beyond which messages are dropped
  MaxChanges   \* bound on the changes

ASSUME BroadcastAssumption == InboxLimit \in Nat \ {0} /\ MaxChanges \in Nat

VARIABLES
  changes,  \* how often the event's counters were changed
  deleted,  \* Event.is_deleted
  seller,   \* what each request still does after its commit
  stage,    \* where each connection is
  number,   \* the count its consumer holds, and then its client's screen
  inbox,    \* messages its channel holds
  last,     \* history: the count in the group's last message
  told,     \* history: the newest count the group was ever sent
  untold,   \* history: changes that nobody announced, or nobody could
  missed    \* history: connections that joined too late for a newer count,
            \* or whose newest message met a full inbox

groupVars == <<last, told>>
clientVars == <<stage, number, inbox, missed>>
seatVars == <<changes, deleted, seller, groupVars, untold, clientVars>>

Idle == [step |-> "idle"]
Stages == {"closed", "loaded", "joined", "open"}
Members == {c \in Clients : stage[c] \in {"joined", "open"}}

SeatsInit ==
  /\ changes = 0
  /\ deleted = FALSE
  /\ seller = [s \in Sellers |-> Idle]
  /\ stage = [c \in Clients |-> "closed"]
  /\ number = [c \in Clients |-> 0]
  /\ inbox = [c \in Clients |-> <<>>]
  /\ last = 0 /\ told = 0
  /\ untold = {} /\ missed = {}

-----------------------------------------------------------------------------
(* Who changes the counters.                                               *)

(* create_order, cancel_order or refund_order commits.                     *)
Change(s) ==
  /\ changes < MaxChanges
  /\ seller[s] = Idle
  /\ changes' = changes + 1
  /\ seller' = [seller EXCEPT ![s] = [step |-> "read", change |-> changes + 1, seen |-> 0]]
  /\ UNCHANGED <<deleted, groupVars, untold, clientVars>>

(* update_event and the forms of the admin site save total_capacity, and a *)
(* stale tickets_sold with it, and tell nobody.                            *)
ChangeSilently ==
  /\ changes < MaxChanges
  /\ changes' = changes + 1
  /\ untold' = untold \cup {changes + 1}
  /\ UNCHANGED <<deleted, seller, groupVars, clientVars>>

DeleteEvent ==
  /\ ~deleted
  /\ deleted' = TRUE
  /\ UNCHANGED <<changes, seller, groupVars, untold, clientVars>>

-----------------------------------------------------------------------------
(* _broadcast_seat_update.                                                 *)

SellerAt(s, step) == seller[s].step = step

GiveUp(s) ==
  /\ seller' = [seller EXCEPT ![s] = Idle]
  /\ untold' = untold \cup {seller[s].change}
  /\ UNCHANGED <<changes, deleted, groupVars, clientVars>>

(* Mutant: the count of the order's own copy of the event, from before.    *)
ReadOldCount(s) ==
  /\ SellerAt(s, "read")
  /\ ~deleted
  /\ seller' = [seller EXCEPT ![s] = [@ EXCEPT !.step = "send", !.seen = seller[s].change - 1]]
  /\ UNCHANGED <<changes, deleted, groupVars, untold, clientVars>>

ReadCount(s) ==
  /\ SellerAt(s, "read")
  /\ ~deleted
  /\ seller' = [seller EXCEPT ![s] = [@ EXCEPT !.step = "send", !.seen = changes]]
  /\ UNCHANGED <<changes, deleted, groupVars, untold, clientVars>>

(* The manager does not find a deleted event. *)
EventGone(s) == SellerAt(s, "read") /\ deleted /\ GiveUp(s)

(* group_send: a copy for the channel of every member that has room.       *)
Full(c) == Len(inbox[c]) >= InboxLimit

Send(s) ==
  /\ SellerAt(s, "send")
  /\ LET n == seller[s].seen IN
       /\ inbox' = [c \in Clients |-> IF c \in Members /\ ~Full(c)
                                      THEN Append(inbox[c], n) ELSE inbox[c]]
       /\ missed' = {c \in Members : Full(c)}
       /\ last' = n
       /\ told' = IF n > told THEN n ELSE told
  /\ seller' = [seller EXCEPT ![s] = Idle]
  /\ UNCHANGED <<changes, deleted, untold, stage, number>>

(* Redis refuses, which broadcast_seat_update logs, or the process dies.   *)
Fail(s) == seller[s] # Idle /\ GiveUp(s)

-----------------------------------------------------------------------------
(* SeatConsumer.                                                           *)

Goto(c, from, to) ==
  /\ stage[c] = from
  /\ stage' = [stage EXCEPT ![c] = to]

(* connect reads the event, and closes when there is none; *)
Snapshot(c) ==
  /\ ~deleted
  /\ Goto(c, "closed", "loaded")
  /\ number' = [number EXCEPT ![c] = changes]
  /\ UNCHANGED <<changes, deleted, seller, groupVars, untold, inbox, missed>>

(* then joins the group: from here on its channel gets the messages; *)
Join(c) ==
  /\ Goto(c, "loaded", "joined")
  /\ missed' = IF number[c] < told THEN missed \cup {c} ELSE missed \ {c}
  /\ UNCHANGED <<changes, deleted, seller, groupVars, untold, number, inbox>>

(* then accepts and sends the count it read.  Messages wait until connect  *)
(* has returned.                                                           *)
Greet(c) ==
  /\ Goto(c, "joined", "open")
  /\ UNCHANGED <<changes, deleted, seller, groupVars, untold, number, inbox, missed>>

(* Mutant: the handler is not the one that the message's type names.       *)
SwallowUpdate(c) ==
  /\ stage[c] = "open" /\ inbox[c] # <<>>
  /\ inbox' = [inbox EXCEPT ![c] = Tail(@)]
  /\ UNCHANGED <<changes, deleted, seller, groupVars, untold, stage, number, missed>>

(* seat_update. *)
Update(c) ==
  /\ stage[c] = "open" /\ inbox[c] # <<>>
  /\ number' = [number EXCEPT ![c] = Head(inbox[c])]
  /\ inbox' = [inbox EXCEPT ![c] = Tail(@)]
  /\ UNCHANGED <<changes, deleted, seller, groupVars, untold, stage, missed>>

(* disconnect, at any time, with group_discard. *)
Leave(c) ==
  /\ stage[c] # "closed"
  /\ stage' = [stage EXCEPT ![c] = "closed"]
  /\ number' = [number EXCEPT ![c] = 0]
  /\ inbox' = [inbox EXCEPT ![c] = <<>>]
  /\ missed' = missed \ {c}
  /\ UNCHANGED <<changes, deleted, seller, groupVars, untold>>

-----------------------------------------------------------------------------

Announce(s) == ReadCount(s) \/ EventGone(s) \/ Send(s)
Serve(c) == Join(c) \/ Greet(c) \/ Update(c)

SeatsNext ==
  \/ \E s \in Sellers : Change(s) \/ Announce(s) \/ Fail(s)
  \/ ChangeSilently
  \/ DeleteEvent
  \/ \E c \in Clients : Snapshot(c) \/ Serve(c) \/ Leave(c)

SeatsSpec == SeatsInit /\ [][SeatsNext]_seatVars

(* A request goes on to its end, and the event loop serves every consumer. *)
SeatsFairSpec ==
  /\ SeatsSpec
  /\ \A s \in Sellers : WF_seatVars(Announce(s))
  /\ \A c \in Clients : WF_seatVars(Serve(c))

-----------------------------------------------------------------------------

SeatsTypeOK ==
  /\ changes \in 0..MaxChanges
  /\ deleted \in BOOLEAN
  /\ seller \in [Sellers -> {Idle} \cup
       [step : {"read", "send"}, change : 1..MaxChanges, seen : 0..MaxChanges]]
  /\ stage \in [Clients -> Stages]
  /\ number \in [Clients -> 0..MaxChanges]
  /\ inbox \in [Clients -> Seq(0..MaxChanges)]
  /\ last \in 0..MaxChanges /\ told \in 0..MaxChanges
  /\ untold \subseteq 1..MaxChanges
  /\ missed \subseteq Clients

(* No change is forgotten on the way: it has been sent, in its own count   *)
(* or a later one, or is untold, or its request is about to send it        *)
(* (orders/services.py:166, 323, 391, 415-422).                            *)
EveryChangeTold ==
  \A v \in 1..changes :
    \/ v \in untold \/ told >= v
    \/ \E s \in Sellers :
         /\ seller[s] # Idle
         /\ seller[s].change = v
         /\ SellerAt(s, "send") => seller[s].seen >= v

(* What a member's screen comes to once its inbox is read. *)
Final(c) == IF inbox[c] = <<>> THEN number[c] ELSE inbox[c][Len(inbox[c])]

(* A member that missed nothing comes to the group's last count, or to one *)
(* that is at least as new as anything the group was sent.                 *)
MembersFollow ==
  \A c \in Members \ missed : Final(c) = last \/ Final(c) >= told

(* Nobody holds a count from the future. *)
NothingAhead ==
  /\ \A s \in Sellers : seller[s] # Idle =>
       seller[s].change \in 1..changes /\ seller[s].seen \in 0..changes
  /\ last \in 0..changes /\ told \in 0..changes
  /\ \A c \in Clients : number[c] \in 0..changes /\ inbox[c] \in Seq(0..changes)

SeatsInv ==
  /\ SeatsTypeOK
  /\ NothingAhead
  /\ \A c \in Clients \ Members : inbox[c] = <<>>
  /\ EveryChangeTold
  /\ MembersFollow

(* A screen is stale, with nothing under way to it, only for one of three  *)
(* reasons: nobody announced the last change; an older count overtook a    *)
(* newer one, for each request reads its count after its own commit        *)
(* (orders/services.py:415-422); or a newer count was sent between the     *)
(* client's snapshot and its group_add, or to its full channel             *)
(* (consumers.py:39-50).                                                   *)
Quiet(c) == stage[c] = "open" /\ inbox[c] = <<>> /\ \A s \in Sellers : seller[s] = Idle
Excused(c) == changes \in untold \/ last < told \/ c \in missed

StaleOnlyForAReason ==
  \A c \in Clients : Quiet(c) => number[c] = changes \/ Excused(c)

(* Whenever a connected client's screen is behind, be it still connecting  *)
(* or watching since long, it gets to the last change, unless the client   *)
(* leaves or one of these reasons holds.                                   *)
Behind(c) == stage[c] # "closed" /\ number[c] # changes
EveryWatcherCatchesUp == \A c \in Clients : Behind(c) ~> ~Behind(c) \/ Excused(c)
================================================================================

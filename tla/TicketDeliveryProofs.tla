------------------------- MODULE TicketDeliveryProofs -------------------------
(***************************************************************************)
(* Proofs about the Celery tasks for any number of workers, orders, tiers, *)
(* refusals and deaths: a confirmation links a stored PDF, only orders     *)
(* that were confirmed get mail, the log says "sent" only of what was      *)
(* mailed, a notice is mailed once unless a task was cut off or two        *)
(* workers held its message, and no ticket of a confirmed order is         *)
(* forgotten.                                                              *)
(***************************************************************************)
EXTENDS TicketDelivery, OrderStoreProofs

USE DEF sourceVars, dispatchVars

Steps == AssetSteps \cup MailSteps
Paid(o) == status[o] \in {"CONFIRMED", "REFUNDED"}
Marking(r, n) == At(r, "mark_sent") /\ PastClaim(r, n)

-----------------------------------------------------------------------------
(* What messages and workers look like.                                    *)

LEMMA MessageOf ==
  ASSUME NEW m \in Messages
  PROVE  /\ m.task \in {"assets", "confirmation", "reminder", "cart"}
         /\ m.retries \in 0..MaxRetries
         /\ m.task # "cart" => m.target \in Rows /\ m.target[1] \in Orders
         /\ m.task = "cart" => m.target \in Orders
         /\ m.task # "assets" => NoticeOf(m) \in Notices
<1>1. CASE m \in [task : {"assets", "confirmation", "reminder"}, target : Rows,
                  retries : 0..MaxRetries]
  BY <1>1 DEF Rows, NoticeOf, Notices
<1>2. CASE m \in [task : {"cart"}, target : Orders, retries : 0..MaxRetries]
  BY <1>2 DEF NoticeOf, Notices
<1> QED BY <1>1, <1>2 DEF Messages

LEMMA NewMessage ==
  ASSUME NEW m, NEW task, NEW target,
         \/ task \in {"assets", "confirmation", "reminder"} /\ target \in Rows
         \/ task = "cart" /\ target \in Orders,
         m = Message(task, target)
  PROVE  m \in Messages /\ m.task = task /\ m.target = target
BY DeliveryAssumption DEF Message, Messages

(* A message is repeated about the same thing. *)
LEMMA AgainSame ==
  ASSUME NEW m \in Messages, NEW k \in Again(m)
  PROVE  k \in Messages /\ k.task = m.task /\ k.target = m.target
<1>1. m.retries + 1 \in 0..MaxRetries /\ k = [m EXCEPT !.retries = @ + 1]
  BY MessageOf, DeliveryAssumption DEF Again
<1> QED BY <1>1 DEF Messages

LEMMA IdleStep == Idle.step = "idle" /\ "idle" \notin Steps
BY DEF Idle, Steps, AssetSteps, MailSteps

LEMMA RunnerOf ==
  ASSUME TypeOK, NEW r \in Runners
  PROVE  /\ Busy(r) => runner[r].message \in Messages /\ runner[r].step \in Steps
         /\ Busy(r) <=> runner[r].step \in Steps
         /\ ~Busy(r) => ~\E n : PastClaim(r, n)
<1>1. runner[r] \in {Idle} \cup [message : Messages, step : Steps]
  BY DEF TypeOK, Steps
<1> QED BY <1>1, IdleStep DEF Busy, PastClaim, Steps

LEMMA Proceeds ==
  ASSUME TypeOK, NEW r \in Runners, Busy(r), NEW step \in Steps, Proceed(r, step)
  PROVE  /\ runner' \in [Runners -> {Idle} \cup [message : Messages, step : Steps]]
         /\ runner'[r].message = runner[r].message /\ runner'[r].step = step
         /\ Busy(r)'
         /\ \A q \in Runners \ {r} : runner'[q] = runner[q]
<1>1. runner[r] \in [message : Messages, step : Steps]
  BY DEF TypeOK, Steps, Busy
<1>2. runner' = [runner EXCEPT ![r] = [runner[r] EXCEPT !.step = step]]
  BY DEF Proceed, TypeOK
<1>3. runner'[r] = [runner[r] EXCEPT !.step = step]
      /\ \A q \in Runners \ {r} : runner'[q] = runner[q]
  BY <1>2 DEF TypeOK
<1>4. /\ [runner[r] EXCEPT !.step = step] \in [message : Messages, step : Steps]
      /\ [runner[r] EXCEPT !.step = step].message = runner[r].message
      /\ [runner[r] EXCEPT !.step = step].step = step
  BY <1>1
<1>5. runner' \in [Runners -> {Idle} \cup [message : Messages, step : Steps]]
  BY <1>2, <1>4 DEF TypeOK, Steps
<1>6. runner'[r] # Idle
  BY <1>3, <1>4, IdleStep
<1> QED BY <1>3, <1>4, <1>5, <1>6 DEF Busy

LEMMA Ends ==
  ASSUME TypeOK, NEW r \in Runners, Done(r)
  PROVE  /\ runner' \in [Runners -> {Idle} \cup [message : Messages, step : Steps]]
         /\ runner'[r] = Idle
         /\ \A q \in Runners \ {r} : runner'[q] = runner[q]
BY DEF Done, TypeOK, Steps

-----------------------------------------------------------------------------
(* Steps that neither claim nor send nor mark a notice.                    *)

LEMMA QuietKeeps ==
  ASSUME MailInv, TypeOK',
         \A o \in Orders : Paid(o) => Paid(o)', DispatchesPaid',
         \A m \in waiting' : Sound(m)',
         \A r \in Runners : Busy(r)' => Sound(runner[r].message)',
         pdf_url \subseteq pdf_url', pdf_url' \subseteq stored', StepsFit',
         \A t \in stored' \ stored : Paid(t[1])',
         log' = log, mailed' = mailed, cut \subseteq cut', doubled' = doubled,
         \A r \in Runners : \A n : PastClaim(r, n)' => PastClaim(r, n),
         \A r \in Runners : At(r, "mark_sent")' => runner'[r] = runner[r],
         \A r \in Runners : \A n \in Notices \ cut' : Marking(r, n) => Marking(r, n)'
  PROVE  MailInv'
<1>1. ConfirmationLinksPdf'
  BY DEF ConfirmationLinksPdf, MailInv
<1>2. OnlyConfirmedGetMail'
  <2>1. \A t \in Rows : t[1] \in Orders
    BY DEF Rows
  <2> QED BY <2>1 DEF OnlyConfirmedGetMail, MailInv, Paid
<1>3. SentWasMailed'
  BY DEF SentWasMailed, MailInv, At
<1>4. OneSender'
  <2> SUFFICES ASSUME NEW n \in Notices \ doubled
               PROVE  /\ \A r, s \in Runners : PastClaim(r, n)' /\ PastClaim(s, n)' => r = s
                      /\ n \notin cut' /\ mailed[n] > 0 /\ log[n] # "sent" =>
                           \E r \in Runners : At(r, "mark_sent")' /\ PastClaim(r, n)'
                      /\ n \notin cut' /\ (log[n] = "sent"
                                           \/ \E r \in Runners : At(r, "mark_sent")' /\ PastClaim(r, n)')
                           => mailed[n] = 1
                      /\ log[n] = "sent" => \A r \in Runners : ~PastClaim(r, n)'
    BY DEF OneSender
  <2> QED BY DEF OneSender, MailInv, Marking, At
<1> QED BY <1>1, <1>2, <1>3, <1>4 DEF MailInv

(* Publishing, and what happens to the orders. *)
LEMMA OutsideKeeps ==
  ASSUME MailInv, StoreTypeOK', \A o \in Orders : Paid(o) => Paid(o)',
         UNCHANGED <<runner, resultVars, faultVars, historyVars>>,
         outbox' \subseteq Rows, lost' \subseteq Rows,
         \A t \in outbox' \ outbox : Paid(t[1])',
         \A m \in waiting' \ waiting : m \in Messages /\ Sound(m)'
  PROVE  MailInv'
<1> USE DEF resultVars, faultVars, historyVars
<1>1. TypeOK'
  BY DEF MailInv, TypeOK
<1>2. ASSUME NEW m \in Messages, Sound(m) PROVE Sound(m)'
  BY <1>2, MessageOf DEF Sound, Paid
<1>3. \A m \in waiting' : Sound(m)'
  BY <1>2 DEF MailInv, TypeOK
<1>4. \A r \in Runners : Busy(r)' => Sound(runner[r].message)'
  BY <1>2, RunnerOf DEF MailInv, Busy
<1>5. StepsFit'
  BY DEF StepsFit, MailInv, Busy, At, Target
<1>6. \A r \in Runners : \A n : PastClaim(r, n)' <=> PastClaim(r, n)
  BY DEF PastClaim
<1>7. \A r \in Runners : \A n : Marking(r, n) => Marking(r, n)'
  BY <1>6 DEF Marking, At
<1>8. DispatchesPaid'
  <2>1. \A t \in Rows : t[1] \in Orders
    BY DEF Rows
  <2> QED BY <2>1 DEF MailInv, TypeOK, DispatchesPaid, Paid
<1> QED BY <1>1, <1>3, <1>4, <1>5, <1>6, <1>7, <1>8, QuietKeeps DEF MailInv

(* A worker takes a message, goes on with its assets, or ends its task.    *)
LEMMA TaskKeeps ==
  ASSUME MailInv, NEW r \in Runners, UNCHANGED sourceVars,
         runner' \in [Runners -> {Idle} \cup [message : Messages, step : Steps]],
         \A q \in Runners \ {r} : runner'[q] = runner[q],
         \/ runner'[r] = Idle
         \/ /\ runner'[r].message \in Messages /\ Sound(runner'[r].message)
            /\ runner'[r].step \in AssetSteps \cup {"claim"}
            /\ runner'[r].message.task = "assets" <=> runner'[r].step \in AssetSteps
            /\ runner'[r].step = "save" => runner'[r].message.target \in stored'
            /\ runner'[r].step = "chain" => runner'[r].message.target \in pdf_url',
         \A m \in waiting' \ waiting : m \in Messages /\ Sound(m),
         UNCHANGED <<log, mailed, doubled>>,
         cut \subseteq cut', cut' \subseteq Notices,
         At(r, "mark_sent") => NoticeOf(runner[r].message) \in cut',
         pdf_url \subseteq pdf_url', pdf_url' \subseteq stored',
         stored \subseteq stored', stored' \subseteq Rows,
         \A t \in stored' \ stored : Paid(t[1]),
         deaths' \in 0..MaxDeaths, failures' \in 0..MaxFailures
  PROVE  MailInv'
<1>1. TypeOK'
  BY DEF MailInv, TypeOK, StoreTypeOK, storeVars, orderVars, saleVars, Steps
<1>2. \A o \in Orders : Paid(o) <=> Paid(o)'
  BY DEF Paid, storeVars, orderVars
<1>3. ASSUME NEW m, Sound(m) PROVE Sound(m)'
  BY <1>3 DEF Sound, storeVars, orderVars
<1>4. \A m \in waiting' : Sound(m)'
  BY <1>3 DEF MailInv
<1>5. \A q \in Runners : Busy(q)' => Sound(runner[q].message)'
  BY <1>3 DEF MailInv, Busy
<1>6. StepsFit'
  <2>1. ASSUME NEW q \in Runners, q # r, Busy(q)'
        PROVE  /\ runner'[q].message.task = "assets" <=> runner'[q].step \in AssetSteps
               /\ runner'[q].step = "save" => runner'[q].message.target \in stored'
               /\ runner'[q].step = "chain" => runner'[q].message.target \in pdf_url'
    BY <2>1 DEF StepsFit, MailInv, Busy, At, Target
  <2> QED BY <2>1 DEF StepsFit, Busy, At, Target
<1>7. ~\E n : PastClaim(r, n)'
  BY IdleStep DEF PastClaim, MailSteps, AssetSteps, Steps
<1>8. ASSUME NEW q \in Runners \ {r}, NEW n
      PROVE  /\ PastClaim(q, n)' <=> PastClaim(q, n)
             /\ At(q, "mark_sent")' <=> At(q, "mark_sent")
  <2>1. runner'[q] = runner[q]
    OBVIOUS
  <2> QED BY <2>1 DEF PastClaim, At
<1>9. ~At(r, "mark_sent")'
  BY IdleStep DEF At, Steps, AssetSteps, MailSteps
<1>10. \A q \in Runners : \A n \in Notices \ cut' : Marking(q, n) => Marking(q, n)'
  BY <1>8 DEF Marking, PastClaim
<1>11. \A t \in stored' \ stored : Paid(t[1])'
  BY DEF Paid, storeVars, orderVars
<1>12. \A q \in Runners : \A n : PastClaim(q, n)' => PastClaim(q, n)
  BY <1>7, <1>8
<1>13. \A q \in Runners : At(q, "mark_sent")' => runner'[q] = runner[q]
  BY <1>9
<1>14. log' = log /\ mailed' = mailed /\ doubled' = doubled
  OBVIOUS
<1>15. DispatchesPaid'
  BY DEF MailInv, DispatchesPaid, storeVars, orderVars
<1> QED BY <1>15, <1>1, <1>2, <1>4, <1>5, <1>6, <1>10, <1>11, <1>12, <1>13, <1>14, QuietKeeps

(* What a worker's end leaves behind. *)
LEMMA CutGrows ==
  ASSUME MailInv, NEW r \in Runners, Busy(r), Cut(r)
  PROVE  /\ cut \subseteq cut' /\ cut' \subseteq Notices
         /\ At(r, "mark_sent") => NoticeOf(runner[r].message) \in cut'
<1>1. runner[r].message \in Messages
  BY RunnerOf DEF MailInv
<1>2. At(r, "chain") => runner[r].message.task = "assets"
  BY DEF MailInv, StepsFit, At, AssetSteps
<1>3. At(r, "mark_sent") => runner[r].message.task # "assets"
  BY DEF MailInv, StepsFit, At, AssetSteps
<1>4. At(r, "chain") => <<"confirmation", Target(r)>> \in Notices
  BY <1>1, <1>2, MessageOf DEF Target, Notices
<1>5. At(r, "mark_sent") => NoticeOf(runner[r].message) \in Notices
  BY <1>1, <1>3, MessageOf
<1>6. cut \subseteq Notices
  BY DEF MailInv, TypeOK
<1>7. CASE At(r, "mark_sent")
  BY <1>5, <1>6, <1>7 DEF Cut, At
<1>8. CASE At(r, "chain")
  BY <1>4, <1>6, <1>8 DEF Cut, At
<1>9. CASE ~At(r, "mark_sent") /\ ~At(r, "chain")
  BY <1>6, <1>9 DEF Cut
<1> QED BY <1>7, <1>8, <1>9

(* A task that raises publishes its message again. *)
LEMMA RaiseSound ==
  ASSUME MailInv, NEW r \in Runners, Busy(r), Raise(r)
  PROVE  \A m \in waiting' \ waiting : m \in Messages /\ Sound(m)
<1>1. runner[r].message \in Messages /\ Sound(runner[r].message)
  BY RunnerOf DEF MailInv
<1>2. ASSUME NEW m \in Again(runner[r].message) PROVE m \in Messages /\ Sound(m)
  BY <1>1, AgainSame DEF Sound
<1> QED BY <1>2 DEF Raise

LEMMA DieKeeps ==
  ASSUME MailInv, NEW r \in Runners, Die(r)
  PROVE  MailInv'
<1> USE DEF Die, resultVars
<1>1. Busy(r)
  BY DEF Busy
<1>2. runner[r].message \in Messages /\ Sound(runner[r].message)
  BY <1>1, RunnerOf DEF MailInv
<1>3. deaths' \in 0..MaxDeaths /\ failures' \in 0..MaxFailures
  BY DeliveryAssumption DEF MailInv, TypeOK
<1>4. \A m \in waiting' \ waiting : m \in Messages /\ Sound(m)
  BY <1>2
<1> HIDE DEF Die
<1>5. Done(r) /\ Cut(r) /\ UNCHANGED <<sourceVars, resultVars, mailed, doubled>>
  BY DEF Die
<1>6. /\ pdf_url' \subseteq stored' /\ stored' = stored /\ stored \subseteq Rows
      /\ pdf_url' = pdf_url /\ log' = log
  BY <1>5 DEF MailInv, TypeOK
<1> QED BY <1>1, <1>3, <1>4, <1>5, <1>6, CutGrows, Ends, TaskKeeps DEF MailInv

LEMMA StartKeeps ==
  ASSUME MailInv, NEW r \in Runners, NEW m \in Messages, Start(r, m)
  PROVE  MailInv'
<1>1. /\ Deliverable(r, m) /\ m \in waiting /\ ~Busy(r) /\ ~At(r, "mark_sent")
      /\ UNCHANGED <<sourceVars, resultVars, faultVars, historyVars>>
  BY IdleStep DEF Start, StartAssets, StartMail, CartGone, Taken, Deliverable, Busy, At, Idle
<1>2. Sound(m)
  BY <1>1 DEF MailInv
<1>3. \A k \in Again(m) : k \in Messages /\ Sound(k)
  BY <1>2, AgainSame DEF Sound
<1>4. \A k \in waiting' \ waiting : k \in Messages /\ Sound(k)
  BY <1>3 DEF Start, StartAssets, StartMail, CartGone, Taken
<1>5. /\ UNCHANGED sourceVars /\ UNCHANGED <<log, mailed, doubled>> /\ cut' = cut
      /\ cut \subseteq Notices /\ pdf_url' = pdf_url /\ stored' = stored
      /\ pdf_url \subseteq stored /\ stored \subseteq Rows
      /\ deaths' \in 0..MaxDeaths /\ failures' \in 0..MaxFailures
  BY <1>1 DEF resultVars, faultVars, historyVars, MailInv, TypeOK
<1>6. runner \in [Runners -> {Idle} \cup [message : Messages, step : Steps]]
  BY DEF MailInv, TypeOK, Steps
<1>7. CASE m.task = "assets" /\ runner' = [runner EXCEPT ![r] = Running(m, "upload")]
  <2>1. Running(m, "upload") \in [message : Messages, step : Steps]
        /\ Running(m, "upload").message = m /\ Running(m, "upload").step = "upload"
    BY DEF Running, Steps, AssetSteps
  <2>2. runner' \in [Runners -> {Idle} \cup [message : Messages, step : Steps]]
        /\ runner'[r] = Running(m, "upload")
        /\ \A q \in Runners \ {r} : runner'[q] = runner[q]
    BY <1>6, <1>7, <2>1
  <2>3. "upload" \in AssetSteps
    BY DEF AssetSteps
  <2> QED BY <1>1, <1>2, <1>4, <1>5, <1>7, <2>1, <2>2, <2>3, TaskKeeps
<1>8. CASE m.task # "assets" /\ runner' = [runner EXCEPT ![r] = Running(m, "claim")]
  <2>1. Running(m, "claim") \in [message : Messages, step : Steps]
        /\ Running(m, "claim").message = m /\ Running(m, "claim").step = "claim"
    BY DEF Running, Steps, MailSteps
  <2>2. runner' \in [Runners -> {Idle} \cup [message : Messages, step : Steps]]
        /\ runner'[r] = Running(m, "claim")
        /\ \A q \in Runners \ {r} : runner'[q] = runner[q]
    BY <1>6, <1>8, <2>1
  <2>3. "claim" \notin AssetSteps
    BY DEF AssetSteps
  <2> QED BY <1>1, <1>2, <1>4, <1>5, <1>8, <2>1, <2>2, <2>3, TaskKeeps
<1>9. CASE runner' = [runner EXCEPT ![r] = Idle] \/ runner' = runner
  <2>1. runner[r] = Idle
    BY <1>1 DEF Busy
  <2>2. runner' \in [Runners -> {Idle} \cup [message : Messages, step : Steps]]
        /\ runner'[r] = Idle
        /\ \A q \in Runners \ {r} : runner'[q] = runner[q]
    BY <1>6, <1>9, <2>1
  <2> QED BY <1>1, <1>4, <1>5, <2>2, TaskKeeps
<1> QED BY <1>7, <1>8, <1>9 DEF Start, StartAssets, StartMail, CartGone

-----------------------------------------------------------------------------
(* generate_ticket_assets_task.                                            *)

(* What a worker that is at some step works on. *)
LEMMA WorksOn ==
  ASSUME MailInv, NEW r \in Runners, NEW step \in Steps, At(r, step)
  PROVE  /\ Busy(r) /\ runner[r].message \in Messages /\ Sound(runner[r].message)
         /\ runner[r].message.task = "assets" <=> step \in AssetSteps
BY RunnerOf DEF MailInv, StepsFit, At

(* What every step finds. *)
LEMMA Known ==
  ASSUME MailInv
  PROVE  /\ pdf_url \subseteq stored /\ stored \subseteq Rows
         /\ cut \subseteq Notices
         /\ deaths \in 0..MaxDeaths /\ failures \in 0..MaxFailures
         /\ Refused => failures' \in 0..MaxFailures
BY DeliveryAssumption DEF MailInv, TypeOK, Refused

LEMMA UploadKeeps ==
  ASSUME MailInv, NEW r \in Runners, Upload(r)
  PROVE  MailInv'
<1>1. "upload" \in AssetSteps /\ "save" \in AssetSteps /\ "save" # "chain"
      /\ "upload" \in Steps /\ "save" \in Steps /\ "upload" # "mark_sent"
  BY DEF AssetSteps, Steps
<1>2. At(r, "upload") /\ ~At(r, "mark_sent") /\ stored' = stored \cup {Target(r)}
      /\ UNCHANGED <<sourceVars, pdf_url, log, deaths, historyVars>>
  BY <1>1 DEF Upload, At
<1>3. Busy(r) /\ runner[r].message \in Messages /\ Sound(runner[r].message)
      /\ runner[r].message.task = "assets"
  BY <1>1, <1>2, WorksOn
<1>4. Target(r) \in Rows /\ Target(r)[1] \in Orders /\ Paid(Target(r)[1])
  BY <1>3, MessageOf DEF Target, Sound, Paid
<1>5. /\ UNCHANGED sourceVars /\ UNCHANGED <<log, mailed, doubled>> /\ cut' = cut
      /\ pdf_url' = pdf_url /\ pdf_url' \subseteq stored' /\ stored \subseteq stored'
      /\ stored' \subseteq Rows /\ \A t \in stored' \ stored : Paid(t[1])
      /\ deaths' \in 0..MaxDeaths /\ cut \subseteq Notices
  BY <1>2, <1>4, Known DEF historyVars
<1>6. CASE Proceed(r, "save") /\ UNCHANGED <<waiting, failures>>
  <2>1. /\ runner' \in [Runners -> {Idle} \cup [message : Messages, step : Steps]]
        /\ runner'[r].message = runner[r].message /\ runner'[r].step = "save"
        /\ \A q \in Runners \ {r} : runner'[q] = runner[q]
    BY <1>1, <1>3, <1>6, Proceeds DEF MailInv
  <2>2. runner'[r].message.target \in stored'
    BY <1>2, <2>1 DEF Target
  <2> QED BY <1>1, <1>2, <1>3, <1>5, <1>6, <2>1, <2>2, Known, TaskKeeps
<1>7. CASE Refused /\ Raise(r)
  BY <1>2, <1>3, <1>5, <1>7, Known, RaiseSound, Ends, TaskKeeps DEF Raise, MailInv
<1> QED BY <1>6, <1>7 DEF Upload

LEMMA SavePdfUrlKeeps ==
  ASSUME MailInv, NEW r \in Runners, SavePdfUrl(r)
  PROVE  MailInv'
<1>1. "save" \in AssetSteps /\ "chain" \in AssetSteps /\ "save" # "chain"
      /\ "chain" \in Steps /\ "save" \in Steps /\ "save" # "mark_sent"
  BY DEF AssetSteps, Steps
<1>2. At(r, "save") /\ ~At(r, "mark_sent") /\ pdf_url' = pdf_url \cup {Target(r)}
      /\ Proceed(r, "chain")
      /\ UNCHANGED <<sourceVars, waiting, stored, log, faultVars, historyVars>>
  BY <1>1 DEF SavePdfUrl, At
<1>3. Busy(r) /\ runner[r].message \in Messages /\ Sound(runner[r].message)
      /\ runner[r].message.task = "assets"
  BY <1>1, <1>2, WorksOn
<1>4. Target(r) \in stored
  BY <1>2, <1>3 DEF MailInv, StepsFit
<1>5. /\ UNCHANGED sourceVars /\ UNCHANGED <<log, mailed, doubled>> /\ cut' = cut
      /\ pdf_url \subseteq pdf_url' /\ pdf_url' \subseteq stored' /\ stored' = stored
      /\ deaths' \in 0..MaxDeaths /\ failures' \in 0..MaxFailures
  BY <1>2, <1>4, Known DEF historyVars, faultVars
<1>6. /\ runner' \in [Runners -> {Idle} \cup [message : Messages, step : Steps]]
      /\ runner'[r].message = runner[r].message /\ runner'[r].step = "chain"
      /\ \A q \in Runners \ {r} : runner'[q] = runner[q]
  BY <1>1, <1>2, <1>3, Proceeds DEF MailInv
<1>7. runner'[r].message.target \in pdf_url'
  BY <1>2, <1>6 DEF Target
<1> QED BY <1>1, <1>2, <1>3, <1>5, <1>6, <1>7, Known, TaskKeeps

LEMMA ChainKeeps ==
  ASSUME MailInv, NEW r \in Runners, Chain(r)
  PROVE  MailInv'
<1>1. "chain" \in AssetSteps /\ "chain" \in Steps /\ "chain" # "mark_sent"
  BY DEF AssetSteps, Steps
<1>2. At(r, "chain") /\ ~At(r, "mark_sent") /\ Done(r)
      /\ waiting' = waiting \cup {Message("confirmation", Target(r))}
      /\ UNCHANGED <<sourceVars, resultVars, faultVars, historyVars>>
  BY <1>1 DEF Chain, At
<1>3. Busy(r) /\ runner[r].message \in Messages /\ Sound(runner[r].message)
      /\ runner[r].message.task = "assets"
  BY <1>1, <1>2, WorksOn
<1>4. Target(r) \in pdf_url /\ Target(r) \in Rows
  BY <1>2, <1>3, MessageOf DEF MailInv, StepsFit, Target
<1>5. Message("confirmation", Target(r)) \in Messages
      /\ Sound(Message("confirmation", Target(r)))
  BY <1>3, <1>4, NewMessage DEF Sound, Target
<1>6. /\ UNCHANGED sourceVars /\ UNCHANGED <<log, mailed, doubled>> /\ cut' = cut
      /\ pdf_url' = pdf_url /\ stored' = stored
      /\ deaths' \in 0..MaxDeaths /\ failures' \in 0..MaxFailures
  BY <1>2, Known DEF historyVars, faultVars, resultVars
<1>7. \A m \in waiting' \ waiting : m \in Messages /\ Sound(m)
  BY <1>2, <1>5
<1> QED BY <1>2, <1>6, <1>7, Known, Ends, TaskKeeps DEF MailInv

(* A refusal ends an assets task, or one that writes the log.              *)
LEMMA FailKeeps ==
  ASSUME MailInv, NEW r \in Runners, AssetsFail(r) \/ LogFails(r)
  PROVE  MailInv'
<1>1. /\ Refused /\ Raise(r) /\ Cut(r) /\ runner[r].step \in Steps
      /\ UNCHANGED <<sourceVars, resultVars, deaths, mailed, doubled>>
  BY DEF AssetsFail, LogFails, Steps
<1>2. Busy(r)
  BY <1>1, RunnerOf DEF MailInv
<1>3. /\ UNCHANGED sourceVars /\ UNCHANGED <<log, mailed, doubled>>
      /\ pdf_url' = pdf_url /\ stored' = stored
      /\ deaths' \in 0..MaxDeaths /\ failures' \in 0..MaxFailures
  BY <1>1, Known DEF resultVars
<1>4. Done(r)
  BY <1>1 DEF Raise
<1> QED BY <1>1, <1>2, <1>3, <1>4, Known, CutGrows, RaiseSound, Ends, TaskKeeps DEF MailInv

-----------------------------------------------------------------------------
(* The email tasks.                                                        *)

(* What all steps after the claim keep: they are the worker's own, and     *)
(* move nothing but its notice.                                            *)
LEMMA MailKeeps ==
  ASSUME MailInv, NEW r \in Runners, UNCHANGED <<sourceVars, pdf_url, stored, deaths, cut>>,
         runner' \in [Runners -> {Idle} \cup [message : Messages, step : Steps]],
         \A q \in Runners \ {r} : runner'[q] = runner[q],
         \/ runner'[r] = Idle
         \/ /\ runner'[r].message = runner[r].message
            /\ runner'[r].step \in MailSteps,
         Busy(r), runner[r].step \in MailSteps,
         \A m \in waiting' \ waiting : m \in Messages /\ Sound(m),
         log' \in [Notices -> LogStatuses], mailed' \in [Notices -> 0..2],
         doubled \subseteq doubled', doubled' \subseteq Notices,
         failures' \in 0..MaxFailures,
         SentWasMailed', OneSender',
         \A n \in Notices : mailed'[n] > 0 => mailed[n] > 0 \/ n = NoticeOf(runner[r].message)
  PROVE  MailInv'
<1>1. TypeOK'
  BY DEF MailInv, TypeOK, StoreTypeOK, storeVars, orderVars, saleVars, Steps
<1>2. ASSUME NEW m, Sound(m) PROVE Sound(m)'
  BY <1>2 DEF Sound, storeVars, orderVars
<1>3. \A m \in waiting' : Sound(m)'
  BY <1>2 DEF MailInv
<1>4. \A q \in Runners : Busy(q)' => Sound(runner[q].message)'
  BY <1>2 DEF MailInv, Busy
<1>5. runner[r].message.task # "assets" /\ runner[r].message \in Messages
      /\ Sound(runner[r].message)
  BY RunnerOf DEF MailInv, StepsFit, MailSteps, AssetSteps
<1>6. StepsFit'
  <2>1. ASSUME NEW q \in Runners, q # r, Busy(q)'
        PROVE  /\ runner'[q].message.task = "assets" <=> runner'[q].step \in AssetSteps
               /\ runner'[q].step = "save" => runner'[q].message.target \in stored'
               /\ runner'[q].step = "chain" => runner'[q].message.target \in pdf_url'
    BY <2>1 DEF StepsFit, MailInv, Busy, At, Target
  <2>2. "save" \notin MailSteps /\ "chain" \notin MailSteps /\ AssetSteps \cap MailSteps = {}
    BY DEF MailSteps, AssetSteps
  <2> QED BY <1>5, <2>1, <2>2 DEF StepsFit, Busy, At, Target
<1>7. ASSUME NEW t \in Rows, NEW task \in {"confirmation", "reminder"},
             mailed'[<<task, t>>] > 0
      PROVE  /\ status[t[1]] \in {"CONFIRMED", "REFUNDED"}
             /\ task = "confirmation" => t \in pdf_url /\ t \in stored
  <2>1. <<task, t>> \in Notices
    BY DEF Notices
  <2>2. CASE mailed[<<task, t>>] > 0
    BY <2>2 DEF MailInv, ConfirmationLinksPdf, OnlyConfirmedGetMail
  <2>3. CASE <<task, t>> = NoticeOf(runner[r].message)
    <3>1. runner[r].message.task = task /\ runner[r].message.target = t
      BY <2>3 DEF NoticeOf
    <3> QED BY <1>5, <3>1 DEF Sound, MailInv
  <2> QED BY <1>7, <2>1, <2>2, <2>3
<1>8. ConfirmationLinksPdf'
  BY <1>7 DEF ConfirmationLinksPdf
<1>9. OnlyConfirmedGetMail'
  <2>1. \A t \in stored : t \in Rows => status[t[1]] \in {"CONFIRMED", "REFUNDED"}
    BY DEF MailInv, OnlyConfirmedGetMail
  <2> QED BY <1>7, <2>1 DEF OnlyConfirmedGetMail, storeVars, orderVars
<1>10. DispatchesPaid'
  BY DEF MailInv, DispatchesPaid, storeVars, orderVars
<1> QED BY <1>1, <1>3, <1>4, <1>6, <1>8, <1>9, <1>10 DEF MailInv

(* Who is past the claim after a step of r, whose notice is n. *)
LEMMA NoticeMoves ==
  ASSUME MailInv, NEW r \in Runners, Busy(r), runner[r].step \in MailSteps,
         NEW step \in MailSteps, Proceed(r, step) \/ Done(r)
  PROVE  LET n == NoticeOf(runner[r].message) IN
         /\ n \in Notices
         /\ runner' \in [Runners -> {Idle} \cup [message : Messages, step : Steps]]
         /\ \A q \in Runners \ {r} : runner'[q] = runner[q]
         /\ \/ runner'[r] = Idle
            \/ runner'[r].message = runner[r].message /\ runner'[r].step \in MailSteps
         /\ \A q \in Runners \ {r}, k \in Notices :
              (PastClaim(q, k)' <=> PastClaim(q, k)) /\ (Marking(q, k)' <=> Marking(q, k))
         /\ \A k \in Notices : PastClaim(r, k) <=> k = n /\ runner[r].step # "claim"
         /\ Proceed(r, step) => \A k \in Notices :
              /\ PastClaim(r, k)' <=> k = n /\ step # "claim"
              /\ Marking(r, k)' <=> k = n /\ step = "mark_sent"
         /\ Done(r) => \A k \in Notices : ~PastClaim(r, k)' /\ ~Marking(r, k)'
<1> DEFINE n == NoticeOf(runner[r].message)
<1>1. MailSteps \subseteq Steps /\ MailSteps \cap AssetSteps = {} /\ "mark_sent" # "claim"
  BY DEF Steps, MailSteps, AssetSteps
<1>2. runner[r].message \in Messages /\ runner[r].message.task # "assets"
  BY <1>1, RunnerOf DEF MailInv, StepsFit
<1>3. n \in Notices
  BY <1>2, MessageOf
<1>4. /\ runner' \in [Runners -> {Idle} \cup [message : Messages, step : Steps]]
      /\ \A q \in Runners \ {r} : runner'[q] = runner[q]
      /\ Proceed(r, step) => runner'[r].message = runner[r].message /\ runner'[r].step = step
      /\ Done(r) => runner'[r] = Idle
  BY <1>1, Proceeds, Ends DEF MailInv
<1>5. ASSUME NEW q \in Runners \ {r}, NEW k \in Notices
      PROVE  (PastClaim(q, k)' <=> PastClaim(q, k)) /\ (Marking(q, k)' <=> Marking(q, k))
  <2>1. runner'[q] = runner[q]
    BY <1>4
  <2> QED BY <2>1 DEF PastClaim, Marking, At
<1>6. \A k \in Notices : PastClaim(r, k) <=> k = n /\ runner[r].step # "claim"
  BY DEF PastClaim
<1>7. ASSUME Proceed(r, step), NEW k \in Notices
      PROVE  /\ PastClaim(r, k)' <=> k = n /\ step # "claim"
             /\ Marking(r, k)' <=> k = n /\ step = "mark_sent"
  BY <1>1, <1>4, <1>7 DEF PastClaim, Marking, At
<1>8. ASSUME Done(r), NEW k \in Notices
      PROVE  ~PastClaim(r, k)' /\ ~Marking(r, k)'
  BY <1>1, <1>4, <1>8, IdleStep DEF PastClaim, Marking, Steps
<1> QED BY <1>3, <1>4, <1>5, <1>6, <1>7, <1>8

(* Restated with Marking. *)
LEMMA SenderOf ==
  ASSUME OneSender, NEW n \in Notices \ doubled
  PROVE  /\ \A r, s \in Runners : PastClaim(r, n) /\ PastClaim(s, n) => r = s
         /\ n \notin cut /\ mailed[n] > 0 /\ log[n] # "sent" => \E r \in Runners : Marking(r, n)
         /\ n \notin cut /\ (log[n] = "sent" \/ \E r \in Runners : Marking(r, n))
              => mailed[n] = 1
         /\ log[n] = "sent" => \A r \in Runners : ~PastClaim(r, n)
BY DEF OneSender, Marking

(* And to be shown in that form. *)
LEMMA SenderShown ==
  ASSUME \A n \in Notices \ doubled' :
         /\ \A r, s \in Runners : PastClaim(r, n)' /\ PastClaim(s, n)' => r = s
         /\ n \notin cut' /\ mailed'[n] > 0 /\ log'[n] # "sent" =>
              \E r \in Runners : Marking(r, n)'
         /\ n \notin cut' /\ (log'[n] = "sent" \/ \E r \in Runners : Marking(r, n)')
              => mailed'[n] = 1
         /\ log'[n] = "sent" => \A r \in Runners : ~PastClaim(r, n)'
  PROVE  OneSender'
BY DEF OneSender, Marking

LEMMA ClaimKeeps ==
  ASSUME MailInv, NEW r \in Runners, Claim(r)
  PROVE  MailInv'
<1> DEFINE n == NoticeOf(runner[r].message)
<1>1. /\ "claim" \in MailSteps /\ "send" \in MailSteps /\ "claim" \in Steps
      /\ "claim" # "mark_sent" /\ "send" # "mark_sent" /\ "send" # "claim"
  BY DEF MailSteps, Steps
<1>2. At(r, "claim") /\ runner[r].step = "claim"
      /\ log' = [log EXCEPT ![n] = IF @ = "none" THEN "pending" ELSE @]
      /\ UNCHANGED <<sourceVars, waiting, pdf_url, stored, faultVars, mailed, cut>>
  BY DEF Claim, At
<1>3. Busy(r)
  BY <1>1, <1>2, WorksOn
<1>4. /\ log \in [Notices -> LogStatuses] /\ mailed \in [Notices -> 0..2]
      /\ doubled \subseteq Notices
  BY DEF MailInv, TypeOK
<1>5. /\ UNCHANGED <<sourceVars, pdf_url, stored, deaths, cut>> /\ mailed' = mailed
      /\ deaths' \in 0..MaxDeaths /\ failures' \in 0..MaxFailures
  BY <1>2, Known DEF faultVars
<1>6. CASE log[n] = "sent"
  <2>1. Done(r) /\ doubled' = doubled
    BY <1>6 DEF Claim
  <2>2. log' = log
    BY <1>2, <1>4, <1>6
  <2> QED BY <1>2, <1>5, <2>1, <2>2, Known, Ends, TaskKeeps DEF At, MailInv
<1>7. CASE log[n] # "sent"
  <2>1. Proceed(r, "send") /\ Beside(r, n)
    BY <1>7 DEF Claim
  <2>2. /\ n \in Notices
        /\ runner' \in [Runners -> {Idle} \cup [message : Messages, step : Steps]]
        /\ \A q \in Runners \ {r} : runner'[q] = runner[q]
        /\ runner'[r] = Idle
           \/ (runner'[r].message = runner[r].message /\ runner'[r].step \in MailSteps)
        /\ \A q \in Runners \ {r}, k \in Notices :
             (PastClaim(q, k)' <=> PastClaim(q, k)) /\ (Marking(q, k)' <=> Marking(q, k))
        /\ \A k \in Notices : ~PastClaim(r, k)
        /\ \A k \in Notices : (PastClaim(r, k)' <=> k = n) /\ ~Marking(r, k)'
    BY <1>1, <1>2, <1>3, <2>1, NoticeMoves
  <2>3. /\ log' \in [Notices -> LogStatuses] /\ log'[n] # "sent"
        /\ \A k \in Notices : log'[k] = "sent" <=> log[k] = "sent"
    BY <1>2, <1>4, <1>7, <2>2 DEF LogStatuses
  <2>4. /\ doubled \subseteq doubled' /\ doubled' \subseteq Notices
        /\ n \notin doubled' => \A s \in Runners \ {r} : ~PastClaim(s, n)
    BY <1>4, <2>1, <2>2 DEF Beside
  <2>5. SentWasMailed'
    <3>1. ~At(r, "mark_sent")'
      BY <1>1, <1>3, <2>1, Proceeds DEF At, MailInv, Steps
    <3>2. \A q \in Runners \ {r} : At(q, "mark_sent")' => At(q, "mark_sent")
      BY <2>2 DEF At
    <3> QED BY <1>5, <2>2, <2>3, <3>1, <3>2 DEF SentWasMailed, MailInv
  <2>6. OneSender'
    <3>1. ~\E k \in Notices : Marking(r, k)
      BY <1>1, <1>2 DEF Marking, At
    <3>2. ASSUME NEW k \in Notices \ doubled'
          PROVE  /\ \A q, s \in Runners : PastClaim(q, k)' /\ PastClaim(s, k)' => q = s
                 /\ k \notin cut' /\ mailed'[k] > 0 /\ log'[k] # "sent" =>
                      \E q \in Runners : Marking(q, k)'
                 /\ k \notin cut' /\ (log'[k] = "sent" \/ \E q \in Runners : Marking(q, k)')
                      => mailed'[k] = 1
                 /\ log'[k] = "sent" => \A q \in Runners : ~PastClaim(q, k)'
      <4>1. k \in Notices \ doubled
        BY <2>4
      <4>2. CASE k = n
        <5>1. ~\E q \in Runners : Marking(q, n)
          BY <3>1, <3>2, <4>2, <2>2, <2>4 DEF Marking
        <5> QED BY <1>5, <2>2, <2>3, <2>4, <3>2, <4>1, <4>2, <5>1, SenderOf DEF MailInv
      <4>3. CASE k # n
        BY <1>5, <2>2, <2>3, <3>1, <4>1, <4>3, SenderOf DEF MailInv
      <4> QED BY <4>2, <4>3
    <3> QED BY <3>2, SenderShown
  <2>7. \A m \in waiting' \ waiting : m \in Messages /\ Sound(m)
    BY <1>2
  <2> QED BY <1>1, <1>2, <1>3, <1>4, <1>5, <2>2, <2>3, <2>4, <2>5, <2>6, <2>7, MailKeeps
<1> QED BY <1>6, <1>7

(* What a worker past the claim can rely on, and what follows if it keeps  *)
(* the other notices as they are.                                          *)
LEMMA AfterClaimKeeps ==
  ASSUME MailInv, NEW r \in Runners, NEW at \in MailSteps \ {"claim"}, At(r, at),
         NEW step \in MailSteps \ {"claim"}, Proceed(r, step) \/ Done(r),
         UNCHANGED <<sourceVars, pdf_url, stored, deaths, cut, doubled>>,
         \A m \in waiting' \ waiting : m \in Messages /\ Sound(m),
         log' \in [Notices -> LogStatuses], mailed' \in [Notices -> 0..2],
         failures' \in 0..MaxFailures,
         \A k \in Notices \ {NoticeOf(runner[r].message)} :
           log'[k] = log[k] /\ mailed'[k] = mailed[k],
         LET n == NoticeOf(runner[r].message) IN
           /\ log'[n] = "sent" => mailed'[n] > 0
           /\ mailed[n] > 0 => mailed'[n] > 0
           /\ Proceed(r, step) /\ step = "mark_sent" => mailed'[n] > 0
           /\ n \notin doubled =>
                /\ log'[n] = "sent" => Done(r)
                /\ mailed'[n] > 0 /\ log'[n] # "sent" /\ n \notin cut =>
                     Proceed(r, step) /\ step = "mark_sent"
                /\ n \notin cut /\ (log'[n] = "sent" \/ (Proceed(r, step) /\ step = "mark_sent"))
                     => mailed'[n] = 1
  PROVE  MailInv'
<1> DEFINE n == NoticeOf(runner[r].message)
<1>1. at \in MailSteps /\ at \in Steps /\ runner[r].step = at /\ step \in Steps
      /\ at # "claim" /\ step # "claim"
  BY DEF At, Steps
<1>2. Busy(r)
  BY <1>1, RunnerOf DEF MailInv
<1>3. /\ n \in Notices
      /\ runner' \in [Runners -> {Idle} \cup [message : Messages, step : Steps]]
      /\ \A q \in Runners \ {r} : runner'[q] = runner[q]
      /\ runner'[r] = Idle
         \/ (runner'[r].message = runner[r].message /\ runner'[r].step \in MailSteps)
      /\ \A q \in Runners \ {r}, k \in Notices :
           (PastClaim(q, k)' <=> PastClaim(q, k)) /\ (Marking(q, k)' <=> Marking(q, k))
      /\ \A k \in Notices : PastClaim(r, k) <=> k = n
      /\ Proceed(r, step) => \A k \in Notices :
           (PastClaim(r, k)' <=> k = n) /\ (Marking(r, k)' <=> k = n /\ step = "mark_sent")
      /\ Done(r) => \A k \in Notices : ~PastClaim(r, k)' /\ ~Marking(r, k)'
  BY <1>1, <1>2, NoticeMoves
<1>4. \A k \in Notices \ {n} : ~PastClaim(r, k)' /\ ~Marking(r, k)' /\ ~Marking(r, k)
  BY <1>3 DEF Marking
<1>5. SentWasMailed'
  <2>1. ASSUME NEW q \in Runners, At(q, "mark_sent")'
        PROVE  mailed'[NoticeOf(runner'[q].message)] > 0
    <3>1. CASE q = r
      <4>1. CASE Proceed(r, step)
        <5>1. runner'[r].message = runner[r].message /\ runner'[r].step = step
          BY <1>1, <1>2, <4>1, Proceeds DEF MailInv
        <5> QED BY <2>1, <3>1, <4>1, <5>1 DEF At
      <4>2. CASE Done(r)
        <5>1. runner'[r] = Idle
          BY <4>2, Ends DEF MailInv
        <5> QED BY <2>1, <3>1, <5>1, IdleStep DEF At
      <4> QED BY <4>1, <4>2
    <3>2. CASE q # r
      <4>1. At(q, "mark_sent") /\ runner'[q] = runner[q]
        BY <1>3, <2>1, <3>2 DEF At
      <4>2. mailed[NoticeOf(runner[q].message)] > 0
        BY <4>1 DEF MailInv, SentWasMailed
      <4>3. NoticeOf(runner[q].message) \in Notices
        <5>1. "mark_sent" \in Steps /\ "mark_sent" \notin AssetSteps
          BY DEF Steps, MailSteps, AssetSteps
        <5> QED BY <4>1, <5>1, WorksOn, MessageOf
      <4> QED BY <4>1, <4>2, <4>3
    <3> QED BY <3>1, <3>2
  <2>2. \A k \in Notices : log'[k] = "sent" => mailed'[k] > 0
    BY DEF MailInv, SentWasMailed
  <2> QED BY <2>1, <2>2 DEF SentWasMailed
<1>6. OneSender'
  <2>1. ASSUME NEW k \in Notices \ doubled'
        PROVE  /\ \A q, s \in Runners : PastClaim(q, k)' /\ PastClaim(s, k)' => q = s
               /\ k \notin cut' /\ mailed'[k] > 0 /\ log'[k] # "sent" =>
                    \E q \in Runners : Marking(q, k)'
               /\ k \notin cut' /\ (log'[k] = "sent" \/ \E q \in Runners : Marking(q, k)')
                    => mailed'[k] = 1
               /\ log'[k] = "sent" => \A q \in Runners : ~PastClaim(q, k)'
    <3>1. k \in Notices \ doubled
      OBVIOUS
    <3>2. CASE k # n
      BY <1>3, <1>4, <3>1, <3>2, SenderOf DEF MailInv
    <3>3. CASE k = n
      <4>0. k \in Notices \ doubled /\ cut' = cut /\ k = n
        BY <3>1, <3>3
      <4>1. ASSUME NEW q \in Runners \ {r} PROVE ~PastClaim(q, k)' /\ ~Marking(q, k)'
        <5>1. PastClaim(r, k)
          BY <1>3, <4>0
        <5>2. ~PastClaim(q, k)
          BY <4>0, <5>1, SenderOf DEF MailInv
        <5>3. ~Marking(q, k)
          BY <5>2 DEF Marking
        <5> QED BY <1>3, <4>0, <5>2, <5>3
      <4>2. /\ PastClaim(r, k)' => ~Done(r)
            /\ Marking(r, k)' <=> ~Done(r) /\ Proceed(r, step) /\ step = "mark_sent"
        <5>1. Done(r) => ~PastClaim(r, k)' /\ ~Marking(r, k)'
          BY <1>3, <4>0
        <5>2. ~Done(r) => Proceed(r, step) /\ (Marking(r, k)' <=> step = "mark_sent")
          BY <1>3, <4>0
        <5> QED BY <5>1, <5>2
      <4>3. Proceed(r, step) /\ step = "mark_sent" => Marking(r, k)'
        BY <1>3, <4>0
      <4>4. \A q, s \in Runners : PastClaim(q, k)' /\ PastClaim(s, k)' => q = s
        BY <4>1
      <4>5. k \notin cut' /\ mailed'[k] > 0 /\ log'[k] # "sent" =>
              \E q \in Runners : Marking(q, k)'
        BY <4>0, <4>3
      <4>6. k \notin cut' /\ (log'[k] = "sent" \/ \E q \in Runners : Marking(q, k)')
              => mailed'[k] = 1
        BY <4>0, <4>1, <4>2
      <4>7. log'[k] = "sent" => \A q \in Runners : ~PastClaim(q, k)'
        BY <4>0, <4>1, <4>2
      <4> QED BY <4>4, <4>5, <4>6, <4>7
    <3> QED BY <3>2, <3>3
  <2> QED BY <2>1, SenderShown
<1>7. \A k \in Notices : mailed'[k] > 0 => mailed[k] > 0 \/ k = n
  OBVIOUS
<1> QED BY <1>1, <1>2, <1>3, <1>5, <1>6, <1>7, MailKeeps DEF MailInv, TypeOK

(* A worker that sends without a second one beside it is the first to.     *)
LEMMA FirstToSend ==
  ASSUME MailInv, NEW r \in Runners, NEW at \in MailSteps \ {"claim"}, At(r, at),
         NoticeOf(runner[r].message) \notin doubled
  PROVE  LET n == NoticeOf(runner[r].message) IN
         /\ n \in Notices /\ log[n] # "sent"
         /\ n \notin cut => mailed[n] = IF at = "mark_sent" THEN 1 ELSE 0
<1> DEFINE n == NoticeOf(runner[r].message)
<1>1. at \in Steps /\ at \notin AssetSteps
  BY DEF Steps, MailSteps, AssetSteps
<1>2. n \in Notices
  BY <1>1, WorksOn, MessageOf
<1>3. PastClaim(r, n) /\ (Marking(r, n) <=> at = "mark_sent")
  BY DEF PastClaim, Marking, At
<1>4. log[n] # "sent"
  BY <1>2, <1>3, SenderOf DEF MailInv
<1>5. n \notin cut /\ at # "mark_sent" => ~(mailed[n] > 0)
  BY <1>2, <1>3, <1>4, SenderOf DEF MailInv, Marking
<1>6. mailed[n] \in 0..2
  BY <1>2 DEF MailInv, TypeOK
<1>7. n \notin cut /\ at = "mark_sent" => mailed[n] = 1
  BY <1>2, <1>3, SenderOf DEF MailInv
<1> QED BY <1>2, <1>4, <1>5, <1>6, <1>7

LEMMA SendKeeps ==
  ASSUME MailInv, NEW r \in Runners, Send(r)
  PROVE  MailInv'
<1> DEFINE n == NoticeOf(runner[r].message)
<1>1. /\ "send" \in MailSteps \ {"claim"} /\ "mark_sent" \in MailSteps \ {"claim"}
      /\ "send" # "mark_sent" /\ "send" \in Steps /\ "send" \notin AssetSteps
  BY DEF MailSteps, Steps, AssetSteps
<1>2. /\ At(r, "send") /\ Proceed(r, "mark_sent")
      /\ mailed' = [mailed EXCEPT ![n] = IF @ < 2 THEN @ + 1 ELSE 2]
      /\ UNCHANGED <<sourceVars, waiting, resultVars, faultVars, cut, doubled>>
  BY DEF Send
<1>3. n \in Notices
  BY <1>1, <1>2, WorksOn, MessageOf
<1>4. log \in [Notices -> LogStatuses] /\ mailed \in [Notices -> 0..2]
  BY DEF MailInv, TypeOK
<1>5. /\ mailed' \in [Notices -> 0..2] /\ mailed'[n] > 0 /\ (mailed[n] = 0 => mailed'[n] = 1)
      /\ \A k \in Notices \ {n} : mailed'[k] = mailed[k]
  BY <1>2, <1>3, <1>4
<1>6. /\ UNCHANGED <<sourceVars, pdf_url, stored, deaths, cut, doubled>> /\ log' = log
      /\ waiting' = waiting /\ failures' \in 0..MaxFailures
  BY <1>2, Known DEF resultVars, faultVars
<1>7. n \notin doubled => log[n] # "sent" /\ (n \notin cut => mailed[n] = 0)
  BY <1>1, <1>2, FirstToSend
<1> QED BY <1>1, <1>2, <1>4, <1>5, <1>6, <1>7, AfterClaimKeeps

LEMMA SendFailsKeeps ==
  ASSUME MailInv, NEW r \in Runners, SendFails(r)
  PROVE  MailInv'
<1> DEFINE n == NoticeOf(runner[r].message)
<1>1. /\ "send" \in MailSteps \ {"claim"} /\ "mark_failed" \in MailSteps \ {"claim"}
      /\ "send" # "mark_sent" /\ "mark_failed" # "mark_sent"
      /\ "send" \in Steps /\ "send" \notin AssetSteps
  BY DEF MailSteps, Steps, AssetSteps
<1>2. /\ At(r, "send") /\ Proceed(r, "mark_failed") /\ Refused
      /\ UNCHANGED <<sourceVars, waiting, resultVars, deaths, historyVars>>
  BY DEF SendFails
<1>3. n \in Notices
  BY <1>1, <1>2, WorksOn, MessageOf
<1>4. log \in [Notices -> LogStatuses] /\ mailed \in [Notices -> 0..2]
  BY DEF MailInv, TypeOK
<1>5. /\ UNCHANGED <<sourceVars, pdf_url, stored, deaths, cut, doubled>> /\ log' = log
      /\ mailed' = mailed /\ waiting' = waiting /\ failures' \in 0..MaxFailures
  BY <1>2, Known DEF resultVars, historyVars
<1>6. log[n] = "sent" => mailed[n] > 0
  BY <1>3 DEF MailInv, SentWasMailed
<1>7. n \notin doubled => log[n] # "sent" /\ (n \notin cut => mailed[n] = 0)
  BY <1>1, <1>2, FirstToSend
<1> QED BY <1>1, <1>2, <1>3, <1>4, <1>5, <1>6, <1>7, AfterClaimKeeps

(* The last step of an email task. *)
LEMMA MarkKeeps ==
  ASSUME MailInv, NEW r \in Runners, MarkSent(r) \/ MarkFailed(r)
  PROVE  MailInv'
<1> DEFINE n == NoticeOf(runner[r].message)
<1>1. /\ "send" \in MailSteps \ {"claim"} /\ "mark_sent" \in MailSteps \ {"claim"}
      /\ "mark_failed" \in MailSteps \ {"claim"}
      /\ "mark_failed" # "mark_sent" /\ "send" # "mark_sent"
      /\ {"mark_sent", "mark_failed"} \subseteq Steps /\ {"mark_sent", "mark_failed"} \cap AssetSteps = {}
  BY DEF MailSteps, Steps, AssetSteps
<1>2. log \in [Notices -> LogStatuses] /\ mailed \in [Notices -> 0..2]
      /\ "sent" \in LogStatuses /\ "failed" \in LogStatuses
  BY DEF MailInv, TypeOK, LogStatuses
<1>3. ASSUME NEW new, Mark(r, new)
      PROVE  /\ UNCHANGED <<sourceVars, pdf_url, stored, deaths, cut, doubled>> /\ mailed' = mailed
             /\ log' = [log EXCEPT ![n] = new] /\ failures' \in 0..MaxFailures
  BY <1>3, Known DEF Mark, faultVars, historyVars
<1>4. CASE MarkSent(r)
  <2>1. At(r, "mark_sent") /\ Mark(r, "sent") /\ Done(r) /\ waiting' = waiting
    BY <1>4 DEF MarkSent
  <2>2. n \in Notices /\ mailed[n] > 0
    BY <1>1, <2>1, WorksOn, MessageOf DEF MailInv, SentWasMailed
  <2>3. /\ log' \in [Notices -> LogStatuses] /\ log'[n] = "sent"
        /\ \A k \in Notices \ {n} : log'[k] = log[k]
    BY <1>2, <1>3, <2>1, <2>2
  <2>4. n \notin doubled => (n \notin cut => mailed[n] = 1)
    BY <1>1, <2>1, FirstToSend
  <2> QED BY <1>1, <1>2, <1>3, <2>1, <2>2, <2>3, <2>4, AfterClaimKeeps
<1>5. CASE MarkFailed(r)
  <2>1. At(r, "mark_failed") /\ Mark(r, "failed") /\ Raise(r) /\ Done(r)
    BY <1>5 DEF MarkFailed, Raise
  <2>2. n \in Notices /\ Busy(r)
    BY <1>1, <2>1, WorksOn, MessageOf
  <2>3. /\ log' \in [Notices -> LogStatuses] /\ log'[n] = "failed"
        /\ \A k \in Notices \ {n} : log'[k] = log[k]
    BY <1>2, <1>3, <2>1, <2>2
  <2>4. n \notin doubled => (n \notin cut => mailed[n] = 0)
    BY <1>1, <2>1, FirstToSend
  <2>5. \A m \in waiting' \ waiting : m \in Messages /\ Sound(m)
    BY <2>1, <2>2, RaiseSound
  <2> QED BY <1>1, <1>2, <1>3, <2>1, <2>2, <2>3, <2>4, <2>5, AfterClaimKeeps
<1> QED BY <1>4, <1>5

-----------------------------------------------------------------------------
(* The orders, and the dispatchers.                                        *)

(* An order that was confirmed is refunded at most. *)
LEMMA PaidStays ==
  ASSUME StoreTypeOK, [StoreNext]_storeVars, NEW o \in Orders, Paid(o)
  PROVE  Paid(o)'
<1> USE DEF Paid, StoreTypeOK
<1>1. ASSUME NEW p \in Orders, NEW q \in Carts, CreateTx(p, q) PROVE Paid(o)'
  BY <1>1 DEF CreateTx
<1>2. ASSUME NEW p \in Orders, AttachTx(p) \/ SoftDelete(p) PROVE Paid(o)'
  BY <1>2 DEF AttachTx, SoftDelete
<1>3. ASSUME NEW p \in Orders, NEW b \in BOOLEAN, ConfirmTx(p, b) PROVE Paid(o)'
  BY <1>3 DEF ConfirmTx
<1>4. ASSUME NEW p \in Orders, CancelTx(p) \/ RefundTx(p) PROVE Paid(o)'
  BY <1>4 DEF CancelTx, RefundTx, Locked
<1>5. (\E t \in Tiers : ToggleSale(t)) \/ Tick \/ UNCHANGED storeVars => Paid(o)'
  BY DEF ToggleSale, Tick, orderVars, storeVars
<1> QED BY <1>1, <1>2, <1>3, <1>4, <1>5 DEF StoreNext

(* Only ConfirmOrder, OrderMoves and PassTime write the order tables.      *)
LEMMA DeliveryStoreStep ==
  ASSUME [Next]_vars
  PROVE  [StoreNext]_storeVars
<1>1. ASSUME NEW o \in Orders, ConfirmOrder(o) \/ OrderMoves(o) PROVE StoreNext
  BY <1>1 DEF ConfirmOrder, OrderMoves, StoreNext
<1>2. PassTime => StoreNext
  BY DEF PassTime, StoreNext
<1>3. DispatchReminders \/ DispatchCarts \/ UNCHANGED vars => UNCHANGED storeVars
  BY DEF DispatchReminders, DispatchCarts, vars
<1>6. /\ \A o \in Orders : DispatchFails(o) => UNCHANGED storeVars
      /\ \A t \in Rows : Dispatch(t) => UNCHANGED storeVars
  BY DEF DispatchFails, Dispatch
<1>4. ASSUME NEW r \in Runners, Work(r) \/ Die(r) PROVE UNCHANGED sourceVars
  BY <1>4 DEF Work, Die, Upload, SavePdfUrl, Chain, AssetsFail, Claim, Send, SendFails,
     MarkSent, MarkFailed, Mark, LogFails
<1>5. ASSUME NEW r \in Runners, NEW m \in Messages, Start(r, m) PROVE UNCHANGED sourceVars
  BY <1>5 DEF Start, StartAssets, StartMail, CartGone
<1> QED BY <1>1, <1>2, <1>3, <1>4, <1>5, <1>6 DEF Next

LEMMA PublishKeeps ==
  ASSUME StoreInv, StoreInv', MailInv, [StoreNext]_storeVars,
         \/ \E o \in Orders : ConfirmOrder(o) \/ DispatchFails(o) \/ OrderMoves(o)
         \/ \E t \in Rows : Dispatch(t)
         \/ DispatchReminders \/ DispatchCarts \/ PassTime \/ UNCHANGED vars
  PROVE  MailInv'
<1>1. StoreTypeOK' /\ \A o \in Orders : Paid(o) => Paid(o)'
  BY PaidStays DEF StoreInv
<1>2. CASE \E o \in Orders : ConfirmOrder(o)
  <2>1. PICK o \in Orders : ConfirmOrder(o)
    BY <1>2
  <2>2. /\ ConfirmTx(o, TRUE) /\ outbox' = outbox \cup OrderRows(o, items[o])
        /\ lost' = lost /\ waiting' = waiting
        /\ UNCHANGED <<runner, resultVars, faultVars, historyVars>>
    BY <2>1 DEF ConfirmOrder, taskVars
  <2>3. status'[o] = "CONFIRMED"
    BY <2>2 DEF ConfirmTx, StoreInv, StoreTypeOK
  <2>4. \A t \in OrderRows(o, items[o]) : t \in Rows /\ t[1] = o
    BY DEF OrderRows
  <2>5. \A t \in outbox' \ outbox : Paid(t[1])'
    BY <2>2, <2>3, <2>4 DEF Paid
  <2>6. outbox' \subseteq Rows /\ lost' \subseteq Rows
    BY <2>2, <2>4 DEF MailInv, TypeOK
  <2> QED BY <1>1, <2>2, <2>5, <2>6, OutsideKeeps
<1>6. CASE \E t \in Rows : Dispatch(t)
  <2>1. PICK t \in Rows : Dispatch(t)
    BY <1>6
  <2>2. /\ t \in outbox /\ outbox' = outbox \ {t} /\ lost' = lost
        /\ waiting' = waiting \cup {Message("assets", t)} /\ UNCHANGED storeVars
        /\ UNCHANGED <<runner, resultVars, faultVars, historyVars>>
    BY <2>1 DEF Dispatch
  <2>3. status'[t[1]] \in {"CONFIRMED", "REFUNDED"}
    BY <2>2 DEF MailInv, DispatchesPaid, storeVars, orderVars
  <2>4. /\ Message("assets", t) \in Messages /\ Message("assets", t).task = "assets"
        /\ Message("assets", t).target = t
    BY NewMessage
  <2>5. Sound(Message("assets", t))'
    BY <2>3, <2>4 DEF Sound
  <2>6. outbox' \subseteq Rows /\ lost' \subseteq Rows
    BY <2>2 DEF MailInv, TypeOK
  <2> QED BY <1>1, <2>2, <2>4, <2>5, <2>6, OutsideKeeps
<1>7. CASE \E o \in Orders : DispatchFails(o)
  <2>1. /\ outbox' \subseteq outbox /\ lost' \subseteq lost \cup outbox
        /\ UNCHANGED <<storeVars, taskVars, resultVars, faultVars, historyVars>>
    BY <1>7 DEF DispatchFails
  <2>2. waiting' = waiting /\ UNCHANGED <<runner, resultVars, faultVars, historyVars>>
    BY <2>1 DEF taskVars
  <2>3. outbox' \subseteq Rows /\ lost' \subseteq Rows
    BY <2>1 DEF MailInv, TypeOK
  <2> QED BY <1>1, <2>1, <2>2, <2>3, OutsideKeeps
<1>3. CASE DispatchReminders
  <2>1. /\ UNCHANGED <<sourceVars, runner, resultVars, faultVars, historyVars>>
        /\ waiting' = waiting \cup {Message("reminder", t) : t \in RemindersDue}
    BY <1>3 DEF DispatchReminders
  <2>2. ASSUME NEW t \in RemindersDue
        PROVE  Message("reminder", t) \in Messages /\ Sound(Message("reminder", t))'
    <3>1. t \in Rows /\ status'[t[1]] = "CONFIRMED"
      BY <2>1 DEF RemindersDue, storeVars, orderVars
    <3>2. /\ Message("reminder", t) \in Messages /\ Message("reminder", t).task = "reminder"
          /\ Message("reminder", t).target = t
      BY <3>1, NewMessage
    <3> QED BY <3>1, <3>2 DEF Sound
  <2>3. outbox' = outbox /\ lost' = lost /\ outbox \subseteq Rows /\ lost \subseteq Rows
    BY <2>1 DEF MailInv, TypeOK
  <2> QED BY <1>1, <2>1, <2>2, <2>3, OutsideKeeps
<1>4. CASE DispatchCarts
  <2>1. /\ UNCHANGED <<sourceVars, runner, resultVars, faultVars, historyVars>>
        /\ waiting' = waiting \cup {Message("cart", o) : o \in AbandonedCarts}
    BY <1>4 DEF DispatchCarts
  <2>2. ASSUME NEW o \in AbandonedCarts
        PROVE  Message("cart", o) \in Messages /\ Sound(Message("cart", o))'
    <3>1. o \in Orders
      BY DEF AbandonedCarts
    <3>2. Message("cart", o) \in Messages /\ Message("cart", o).task = "cart"
      BY <3>1, NewMessage
    <3> QED BY <3>2 DEF Sound
  <2>3. outbox' = outbox /\ lost' = lost /\ outbox \subseteq Rows /\ lost \subseteq Rows
    BY <2>1 DEF MailInv, TypeOK
  <2> QED BY <1>1, <2>1, <2>2, <2>3, OutsideKeeps
<1>5. CASE (\E o \in Orders : OrderMoves(o)) \/ PassTime \/ UNCHANGED vars
  <2>1. UNCHANGED <<dispatchVars, taskVars, resultVars, faultVars, historyVars>>
    BY <1>5 DEF OrderMoves, PassTime, vars
  <2>2. /\ waiting' = waiting /\ outbox' = outbox /\ lost' = lost
        /\ UNCHANGED <<runner, resultVars, faultVars, historyVars>>
    BY <2>1 DEF taskVars
  <2>3. outbox \subseteq Rows /\ lost \subseteq Rows
    BY DEF MailInv, TypeOK
  <2> QED BY <1>1, <2>2, <2>3, OutsideKeeps
<1> QED BY <1>2, <1>3, <1>4, <1>5, <1>6, <1>7

-----------------------------------------------------------------------------
(* The theorems.                                                           *)

LEMMA MailInit == Init => StoreInv /\ MailInv
<1> SUFFICES ASSUME Init PROVE StoreInv /\ MailInv
  OBVIOUS
<1>1. StoreInv /\ StoreTypeOK
  BY InitInv DEF Init, StoreInv
<1>2. \A r \in Runners : ~Busy(r) /\ runner[r].step = "idle" /\ \A n : ~PastClaim(r, n)
  BY IdleStep DEF Init, Busy, PastClaim, Steps
<1>3. TypeOK
  BY <1>1, DeliveryAssumption DEF Init, TypeOK, LogStatuses
<1>4. StepsFit /\ ConfirmationLinksPdf /\ OnlyConfirmedGetMail
  <2>1. StepsFit
    BY <1>2 DEF StepsFit
  <2>2. ASSUME NEW t \in Rows
        PROVE  ~(mailed[<<"confirmation", t>>] > 0) /\ ~(mailed[<<"reminder", t>>] > 0)
    <3>1. <<"confirmation", t>> \in Notices /\ <<"reminder", t>> \in Notices
      BY DEF Notices
    <3> QED BY <3>1 DEF Init
  <2>3. stored = {}
    BY DEF Init
  <2>4. ConfirmationLinksPdf
    BY <2>2 DEF ConfirmationLinksPdf
  <2>5. OnlyConfirmedGetMail
    BY <2>2, <2>3 DEF OnlyConfirmedGetMail
  <2> QED BY <2>1, <2>4, <2>5
<1>5. SentWasMailed
  BY <1>2 DEF Init, SentWasMailed, At
<1>6. OneSender
  BY <1>2 DEF Init, OneSender, At
<1>7. DispatchesPaid
  BY DEF Init, DispatchesPaid
<1> QED BY <1>1, <1>2, <1>3, <1>4, <1>5, <1>6, <1>7 DEF MailInv, Init

LEMMA MailStep ==
  StoreInv /\ MailInv /\ [Next]_vars => StoreInv' /\ MailInv'
<1> SUFFICES ASSUME StoreInv, MailInv, [Next]_vars PROVE StoreInv' /\ MailInv'
  OBVIOUS
<1>1. [StoreNext]_storeVars
  BY DeliveryStoreStep
<1>2. StoreInv'
  BY <1>1, StepPreserves
<1>3. ASSUME NEW r \in Runners, Work(r) PROVE MailInv'
  BY <1>3, UploadKeeps, SavePdfUrlKeeps, ChainKeeps, FailKeeps, ClaimKeeps, SendKeeps,
     SendFailsKeeps, MarkKeeps DEF Work
<1> QED BY <1>1, <1>2, <1>3, StartKeeps, DieKeeps, PublishKeeps DEF Next

(* The orders' invariant, and that of what is mailed.                      *)
LEMMA MailInvariant == Spec => [](StoreInv /\ MailInv)
BY MailInit, MailStep, PTL DEF Spec

(* No notice is mailed twice, except after a worker was cut off between    *)
(* the email and its record, or while two were past the claim.             *)
THEOREM NoSecondMail == Spec => []MailedOnce
<1>1. MailInv => MailedOnce
  <2> SUFFICES ASSUME MailInv, NEW n \in Notices \ (cut \cup doubled) PROVE mailed[n] <= 1
    BY DEF MailedOnce
  <2>1. mailed[n] \in 0..2
    BY DEF MailInv, TypeOK
  <2>2. mailed[n] > 0 => mailed[n] = 1
    BY SenderOf DEF MailInv
  <2> QED BY <2>1, <2>2
<1> QED BY <1>1, MailInvariant, PTL

(* Once the log says sent and nobody is past the claim, every further      *)
(* message about the notice ends at its claim.                             *)
THEOREM SettledForGood == Spec => SentStaysQuiet
<1>1. ASSUME MailInv, [Next]_vars, NEW n \in Notices, Settled(n) PROVE Settled(n)'
  <2>1. log[n] = "sent" /\ \A r \in Runners : ~PastClaim(r, n)
    BY <1>1 DEF Settled
  <2>2. ASSUME UNCHANGED <<runner, log>> PROVE Settled(n)'
    BY <2>1, <2>2 DEF Settled, PastClaim
  <2>3. ASSUME NEW r \in Runners, log'[n] = "sent",
               \A q \in Runners \ {r} : runner'[q] = runner[q], ~PastClaim(r, n)'
        PROVE  Settled(n)'
    BY <2>1, <2>3 DEF Settled, PastClaim
  <2>4. ASSUME NEW r \in Runners, Done(r), log'[n] = "sent" PROVE Settled(n)'
    <3>1. runner'[r] = Idle /\ \A q \in Runners \ {r} : runner'[q] = runner[q]
      BY <1>1, <2>4, Ends DEF MailInv
    <3>2. ~PastClaim(r, n)'
      BY <3>1, IdleStep DEF PastClaim, Steps
    <3> QED BY <2>3, <2>4, <3>1, <3>2
  <2>5. ASSUME NEW r \in Runners, NEW step \in AssetSteps, Busy(r), Proceed(r, step), log' = log
        PROVE  Settled(n)'
    <3>1. step \in Steps /\ step \notin MailSteps
      BY DEF Steps, AssetSteps, MailSteps
    <3>2. runner'[r].step = step /\ \A q \in Runners \ {r} : runner'[q] = runner[q]
      BY <1>1, <2>5, <3>1, Proceeds DEF MailInv
    <3> QED BY <2>1, <2>3, <2>5, <3>1, <3>2 DEF PastClaim
  <2>6. ASSUME NEW r \in Runners, runner[r].step \in MailSteps \ {"claim"}
        PROVE  Busy(r) /\ NoticeOf(runner[r].message) # n
    <3>1. Busy(r)
      BY <1>1, <2>6, RunnerOf DEF MailInv, Steps
    <3> QED BY <2>1, <2>6, <3>1 DEF PastClaim
  <2>7. ASSUME NEW r \in Runners, Upload(r) \/ SavePdfUrl(r) \/ Chain(r) PROVE Settled(n)'
    <3>1. /\ {"upload", "save", "chain"} \subseteq AssetSteps
          /\ {"upload", "save", "chain"} \subseteq Steps
      BY DEF AssetSteps, Steps
    <3>2. Busy(r) /\ log' = log
      BY <1>1, <2>7, <3>1, WorksOn DEF Upload, SavePdfUrl, Chain, resultVars
    <3>3. Done(r) \/ Proceed(r, "save") \/ Proceed(r, "chain")
      BY <2>7 DEF Upload, SavePdfUrl, Chain, Raise
    <3> QED BY <2>1, <2>4, <2>5, <3>1, <3>2, <3>3
  <2>8. ASSUME NEW r \in Runners, AssetsFail(r) \/ LogFails(r) \/ Die(r) PROVE Settled(n)'
    BY <2>1, <2>4, <2>8 DEF AssetsFail, LogFails, Die, Raise, resultVars
  <2>9. ASSUME NEW r \in Runners, Claim(r) PROVE Settled(n)'
    <3>1. /\ "claim" \in Steps /\ "claim" \notin AssetSteps /\ "send" \in Steps
          /\ log \in [Notices -> LogStatuses]
      BY <1>1 DEF Steps, MailSteps, AssetSteps, MailInv, TypeOK
    <3>2. Busy(r) /\ At(r, "claim") /\ NoticeOf(runner[r].message) \in Notices
          /\ log' = [log EXCEPT ![NoticeOf(runner[r].message)] =
                       IF @ = "none" THEN "pending" ELSE @]
      BY <1>1, <2>9, <3>1, WorksOn, MessageOf DEF Claim
    <3>3. log'[n] = "sent"
      BY <2>1, <3>1, <3>2
    <3>4. CASE NoticeOf(runner[r].message) = n
      BY <2>1, <2>4, <2>9, <3>3, <3>4 DEF Claim
    <3>5. CASE NoticeOf(runner[r].message) # n /\ Proceed(r, "send")
      <4>1. runner'[r].message = runner[r].message /\ \A q \in Runners \ {r} : runner'[q] = runner[q]
        BY <1>1, <3>1, <3>2, <3>5, Proceeds DEF MailInv
      <4> QED BY <2>3, <3>3, <3>5, <4>1 DEF PastClaim
    <3> QED BY <2>4, <2>9, <3>3, <3>4, <3>5 DEF Claim
  <2>10. ASSUME NEW r \in Runners, Send(r) \/ SendFails(r) PROVE Settled(n)'
    <3>1. {"mark_sent", "mark_failed"} \subseteq Steps /\ runner[r].step \in MailSteps \ {"claim"}
      BY <2>10 DEF Steps, MailSteps, Send, SendFails, At
    <3>2. log' = log /\ (Proceed(r, "mark_sent") \/ Proceed(r, "mark_failed"))
      BY <2>10 DEF Send, SendFails, resultVars
    <3>3. runner'[r].message = runner[r].message /\ \A q \in Runners \ {r} : runner'[q] = runner[q]
      BY <1>1, <2>6, <3>1, <3>2, Proceeds DEF MailInv
    <3> QED BY <2>1, <2>3, <2>6, <3>1, <3>2, <3>3 DEF PastClaim
  <2>11. ASSUME NEW r \in Runners, MarkSent(r) \/ MarkFailed(r) PROVE Settled(n)'
    <3>1. runner[r].step \in MailSteps \ {"claim"} /\ Done(r)
      BY <2>11 DEF MailSteps, MarkSent, MarkFailed, At, Raise
    <3>2. NoticeOf(runner[r].message) # n
      BY <2>6, <3>1
    <3>3. \E new : log' = [log EXCEPT ![NoticeOf(runner[r].message)] = new]
      BY <2>11 DEF MarkSent, MarkFailed, Mark
    <3>4. log'[n] = "sent"
      BY <1>1, <2>1, <3>2, <3>3 DEF MailInv, TypeOK
    <3> QED BY <2>4, <3>1, <3>4
  <2>12. ASSUME NEW r \in Runners, NEW m \in Messages, Start(r, m) PROVE Settled(n)'
    <3>1. log' = log /\ runner[r] = Idle
      BY <2>12 DEF Start, StartAssets, StartMail, CartGone, Taken, Deliverable, resultVars
    <3>2. \/ runner' = runner
          \/ \E step \in {"upload", "claim"} : runner' = [runner EXCEPT ![r] = Running(m, step)]
          \/ Done(r)
      BY <2>12 DEF Start, StartAssets, StartMail, CartGone, Done
    <3>3. ASSUME NEW step \in {"upload", "claim"}, runner' = [runner EXCEPT ![r] = Running(m, step)]
          PROVE  Settled(n)'
      <4>1. runner'[r].step = step /\ \A q \in Runners \ {r} : runner'[q] = runner[q]
        BY <1>1, <3>3 DEF MailInv, TypeOK, Running
      <4>2. step \notin MailSteps \ {"claim"}
        BY DEF MailSteps
      <4> QED BY <2>1, <2>3, <3>1, <4>1, <4>2 DEF PastClaim
    <3> QED BY <2>1, <2>2, <2>4, <3>1, <3>2, <3>3
  <2>13. ASSUME \/ \E o \in Orders : ConfirmOrder(o) \/ DispatchFails(o) \/ OrderMoves(o)
                \/ \E t \in Rows : Dispatch(t)
                \/ DispatchReminders \/ DispatchCarts \/ PassTime \/ UNCHANGED vars
         PROVE  Settled(n)'
    BY <2>2, <2>13 DEF ConfirmOrder, DispatchFails, Dispatch, OrderMoves, DispatchReminders, DispatchCarts, PassTime,
       taskVars, resultVars, vars
  <2> QED BY <1>1, <2>7, <2>8, <2>9, <2>10, <2>11, <2>12, <2>13 DEF Next, Work
<1>2. MailInv /\ [Next]_vars => [StaysSettled]_vars
  BY <1>1 DEF StaysSettled
<1> QED BY <1>2, MailInvariant, PTL DEF Spec, SentStaysQuiet

-----------------------------------------------------------------------------
(* No ticket is forgotten.                                                 *)

Fine(t) ==
  \/ Pursued(t)
  \/ t \in pdf_url /\ \E r \in Runners : At(r, "chain") /\ Target(r) = t
  \/ t \notin pdf_url /\ (t \in outbox \/ Pending(<<"assets", t>>)
                          \/ status[t[1]] # "CONFIRMED" \/ ticket[t] # "VALID")

LEMMA FineIsNotForgotten == NoTicketForgotten <=> \A t \in Rows : Fine(t)
BY DEF NoTicketForgotten, Fine

(* Numbers, and the confirmation's place among the notices. *)
LEMMA Numbers ==
  ASSUME MailInv
  PROVE  /\ failures \in Nat /\ MaxRetries \in Nat
         /\ \A m \in Messages : m.retries \in Nat
         /\ \A n \in Notices : mailed[n] \in Nat
         /\ \A t \in Rows : <<"confirmation", t>> \in Notices
<1>1. \A m \in Messages : m.retries \in Nat
  BY MessageOf, DeliveryAssumption
<1> QED BY <1>1, DeliveryAssumption DEF MailInv, TypeOK, Notices

(* What is never taken back. *)
Onward ==
  /\ failures \in Nat /\ failures' \in Nat /\ failures <= failures' /\ MaxRetries \in Nat
  /\ cut \subseteq cut' /\ lost \subseteq lost'
  /\ \A t \in Rows : mailed[<<"confirmation", t>>] > 0 => mailed'[<<"confirmation", t>>] > 0

LEMMA PursuedStays ==
  ASSUME Onward, NEW t \in Rows, Pursued(t),
         Pending(<<"confirmation", t>>) => Pursued(t)'
  PROVE  Pursued(t)'
BY DEF Onward, Pursued

(* The messages of everybody but one worker stay. *)
LEMMA OthersPending ==
  ASSUME NEW r \in Runners, \A q \in Runners \ {r} : runner'[q] = runner[q],
         waiting \subseteq waiting', NEW n, Pending(n),
         Busy(r) => NoticeOf(runner[r].message) # n
  PROVE  Pending(n)'
<1>1. PICK m \in InHand : NoticeOf(m) = n
  BY DEF Pending
<1>2. CASE m \in waiting
  BY <1>1, <1>2 DEF Pending, InHand
<1>3. CASE \E q \in Runners : Busy(q) /\ m = runner[q].message
  <2>1. PICK q \in Runners : Busy(q) /\ m = runner[q].message
    BY <1>3
  <2>2. runner'[q] = runner[q]
    BY <1>1, <2>1
  <2>3. m \in InHand'
    BY <2>1, <2>2 DEF InHand, Busy
  <2> QED BY <1>1, <2>3 DEF Pending
<1> QED BY <1>1, <1>2, <1>3 DEF InHand

(* A worker that goes on keeps its message. *)
LEMMA ProceedPending ==
  ASSUME NEW r \in Runners, \A q \in Runners \ {r} : runner'[q] = runner[q],
         runner'[r].message = runner[r].message, Busy(r), Busy(r)',
         waiting \subseteq waiting', NEW n, Pending(n)
  PROVE  Pending(n)'
<1>1. CASE NoticeOf(runner[r].message) = n
  <2>1. runner[r].message \in InHand'
    BY DEF InHand
  <2> QED BY <1>1, <2>1 DEF Pending
<1> QED BY <1>1, OthersPending

(* A task that is repeated is pending again, unless it failed too often.   *)
LEMMA RepeatedPending ==
  ASSUME MailInv, RetriesCounted, NEW r \in Runners, Busy(r), Raise(r),
         runner[r].message.task # "cart", Onward,
         Refused \/ At(r, "mark_failed"),
         NEW n, NoticeOf(runner[r].message) = n
  PROVE  Pending(n)' \/ failures' > MaxRetries
<1> DEFINE m == runner[r].message
<1>1. m \in Messages /\ m.retries \in Nat /\ m.retries <= MaxRetries
  BY RunnerOf, MessageOf, DeliveryAssumption DEF MailInv
<1>2. m.retries < failures'
  BY <1>1 DEF RetriesCounted, Refused, Onward
<1>3. CASE m.retries < MaxRetries
  <2>1. PICK k \in Again(m) : TRUE
    BY <1>3 DEF Again
  <2>2. NoticeOf(k) = NoticeOf(m)
    BY <1>1, AgainSame DEF NoticeOf
  <2>3. k \in InHand'
    BY DEF Raise, InHand
  <2>4. NoticeOf(k) = n
    BY <2>2
  <2> QED BY <2>3, <2>4 DEF Pending
<1>4. CASE ~(m.retries < MaxRetries)
  BY <1>1, <1>2, <1>4 DEF Onward
<1> QED BY <1>3, <1>4

(* A worker goes on with its task. *)
LEMMA GoingOn ==
  ASSUME MailInv, NoTicketForgotten, Onward, UNCHANGED sourceVars,
         NEW r \in Runners, Busy(r), ~At(r, "chain"),
         NEW step \in Steps, Proceed(r, step), waiting' = waiting,
         \/ pdf_url' = pdf_url
         \/ step = "chain" /\ pdf_url' = pdf_url \cup {Target(r)}
  PROVE  NoTicketForgotten'
<1>1. /\ runner'[r].message = runner[r].message /\ runner'[r].step = step
      /\ Busy(r)' /\ \A q \in Runners \ {r} : runner'[q] = runner[q]
  BY Proceeds DEF MailInv
<1>2. ASSUME NEW n, Pending(n) PROVE Pending(n)'
  BY <1>1, <1>2, ProceedPending
<1>3. ASSUME NEW t \in Rows PROVE Fine(t)'
  <2>1. Fine(t)
    BY FineIsNotForgotten
  <2>2. CASE Pursued(t)
    <3>1. Pursued(t)'
      BY <1>2, <2>2, PursuedStays DEF Pursued
    <3> QED BY <3>1 DEF Fine
  <2>3. CASE t \in pdf_url /\ \E q \in Runners : At(q, "chain") /\ Target(q) = t
    <3>1. PICK q \in Runners : At(q, "chain") /\ Target(q) = t
      BY <2>3
    <3>2. runner'[q] = runner[q]
      BY <1>1, <3>1
    <3>3. At(q, "chain")' /\ Target(q)' = t
      BY <3>1, <3>2 DEF At, Target
    <3> QED BY <2>3, <3>3 DEF Fine
  <2>4. CASE t \notin pdf_url /\ t \notin pdf_url' /\ ~Pursued(t)
    <3>1. \/ t \in outbox \/ Pending(<<"assets", t>>)
          \/ status[t[1]] # "CONFIRMED" \/ ticket[t] # "VALID"
      BY <2>1, <2>4 DEF Fine
    <3>2. status' = status /\ ticket' = ticket /\ outbox' = outbox
      BY DEF storeVars, orderVars, saleVars
    <3>3. \/ t \in outbox' \/ Pending(<<"assets", t>>)'
          \/ status'[t[1]] # "CONFIRMED" \/ ticket'[t] # "VALID"
      BY <1>2, <3>1, <3>2
    <3> QED BY <2>4, <3>3 DEF Fine
  <2>5. CASE t \notin pdf_url /\ t \in pdf_url'
    <3>1. step = "chain" /\ Target(r) = t
      BY <2>5
    <3>2. At(r, "chain")' /\ Target(r)' = t
      BY <1>1, <3>1 DEF At, Target
    <3> QED BY <2>5, <3>2 DEF Fine
  <2> QED BY <2>1, <2>2, <2>3, <2>4, <2>5 DEF Fine
<1> QED BY <1>3 DEF NoTicketForgotten, Fine

(* A worker's task ends: done, refused, or with its worker.                *)
LEMMA Ending ==
  ASSUME MailInv, NoTicketForgotten, Onward, UNCHANGED sourceVars,
         NEW r \in Runners, Busy(r), Done(r), waiting \subseteq waiting', pdf_url' = pdf_url,
         \A t \in Rows : NoticeOf(runner[r].message) = <<"confirmation", t>> => Pursued(t)',
         \A t \in Rows : NoticeOf(runner[r].message) = <<"assets", t>> =>
           \/ Pursued(t)'
           \/ ~At(r, "chain") /\ Pending(<<"assets", t>>)'
  PROVE  NoTicketForgotten'
<1>1. /\ runner'[r] = Idle /\ \A q \in Runners \ {r} : runner'[q] = runner[q]
  BY Ends DEF MailInv
<1>2. ASSUME NEW n, Pending(n), NoticeOf(runner[r].message) # n PROVE Pending(n)'
  BY <1>1, <1>2, OthersPending
<1>3. ASSUME NEW t \in Rows PROVE Fine(t)'
  <2>1. Fine(t)
    BY FineIsNotForgotten
  <2>2. CASE Pursued(t)
    <3>1. Pursued(t)'
      BY <1>2, <2>2, PursuedStays DEF Pursued
    <3> QED BY <3>1 DEF Fine
  <2>3. CASE t \in pdf_url /\ \E q \in Runners : At(q, "chain") /\ Target(q) = t
    <3>1. PICK q \in Runners : At(q, "chain") /\ Target(q) = t
      BY <2>3
    <3>2. CASE q = r
      <4>1. runner[r].message.task = "assets"
        BY <3>1, <3>2 DEF MailInv, StepsFit, At, AssetSteps
      <4>2. NoticeOf(runner[r].message) = <<"assets", t>>
        BY <3>1, <3>2, <4>1 DEF NoticeOf, Target
      <4> QED BY <3>1, <3>2, <4>2 DEF Fine
    <3>3. CASE q # r
      <4>1. runner'[q] = runner[q]
        BY <1>1, <3>1, <3>3
      <4>2. At(q, "chain")' /\ Target(q)' = t
        BY <3>1, <4>1 DEF At, Target
      <4> QED BY <2>3, <4>2 DEF Fine
    <3> QED BY <3>2, <3>3
  <2>4. CASE t \notin pdf_url /\ ~Pursued(t)
    <3>1. \/ t \in outbox \/ Pending(<<"assets", t>>)
          \/ status[t[1]] # "CONFIRMED" \/ ticket[t] # "VALID"
      BY <2>1, <2>4 DEF Fine
    <3>2. status' = status /\ ticket' = ticket /\ outbox' = outbox
      BY DEF storeVars, orderVars, saleVars
    <3>3. \/ t \in outbox' \/ Pending(<<"assets", t>>)' \/ Pursued(t)'
          \/ status'[t[1]] # "CONFIRMED" \/ ticket'[t] # "VALID"
      BY <1>2, <3>1, <3>2
    <3> QED BY <2>4, <3>3 DEF Fine
  <2> QED BY <2>1, <2>2, <2>3, <2>4 DEF Fine
<1> QED BY <1>3 DEF NoTicketForgotten, Fine

(* Whoever publishes: nothing leaves the broker or a worker, a ticket that *)
(* becomes one of a confirmed order has its task to be published, and one  *)
(* that had is published or lost.                                          *)
LEMMA Publishing ==
  ASSUME NoTicketForgotten, UNCHANGED <<runner, resultVars, faultVars, historyVars>>,
         waiting \subseteq waiting',
         \A t \in Rows : status'[t[1]] = "CONFIRMED" /\ ticket'[t] = "VALID" =>
           (status[t[1]] = "CONFIRMED" /\ ticket[t] = "VALID") \/ t \in outbox',
         \A t \in outbox : t \in outbox' \/ Pending(<<"assets", t>>)' \/ t \in lost',
         lost \subseteq lost'
  PROVE  NoTicketForgotten'
<1>1. InHand \subseteq InHand'
  BY DEF InHand, Busy
<1>2. ASSUME NEW n, Pending(n) PROVE Pending(n)'
  BY <1>1, <1>2 DEF Pending
<1>3. ASSUME NEW t \in Rows PROVE Fine(t)'
  <2>1. Fine(t)
    BY FineIsNotForgotten
  <2>2. /\ mailed' = mailed /\ cut' = cut /\ failures' = failures /\ pdf_url' = pdf_url
        /\ runner' = runner
    BY DEF resultVars, faultVars, historyVars
  <2>3. Pursued(t) \/ t \in lost' => Pursued(t)'
    BY <1>2, <2>2 DEF Pursued
  <2>4. \A q \in Runners : At(q, "chain") /\ Target(q) = t => At(q, "chain")' /\ Target(q)' = t
    BY <2>2 DEF At, Target
  <2> QED BY <1>2, <2>1, <2>2, <2>3, <2>4 DEF Fine
<1> QED BY <1>3 DEF NoTicketForgotten, Fine

-----------------------------------------------------------------------------
(* The steps.                                                              *)

LEMMA WorkOnward ==
  ASSUME MailInv, NEW r \in Runners, Work(r) \/ Die(r)
  PROVE  Onward /\ UNCHANGED sourceVars
<1>1. failures \in Nat /\ MaxRetries \in Nat
      /\ \A t \in Rows : <<"confirmation", t>> \in Notices
  BY Numbers
<1>2. UNCHANGED sourceVars
  BY DEF Work, Die, Upload, SavePdfUrl, Chain, AssetsFail, Claim, Send, SendFails,
     MarkSent, MarkFailed, Mark, LogFails
<1>3. failures' \in {failures, failures + 1}
  BY DEF Work, Die, Upload, SavePdfUrl, Chain, AssetsFail, Claim, Send, SendFails,
     MarkSent, MarkFailed, Mark, LogFails, Refused, faultVars
<1>4. cut \subseteq cut'
  BY DEF Work, Die, Upload, SavePdfUrl, Chain, AssetsFail, Claim, Send, SendFails,
     MarkSent, MarkFailed, Mark, LogFails, Cut, historyVars
<1>5. \A t \in Rows : mailed[<<"confirmation", t>>] > 0 => mailed'[<<"confirmation", t>>] > 0
  <2>1. CASE Send(r)
    <3>1. mailed' = [mailed EXCEPT ![NoticeOf(runner[r].message)] = IF @ < 2 THEN @ + 1 ELSE 2]
          /\ mailed \in [Notices -> 0..2]
      BY <2>1 DEF Send, MailInv, TypeOK
    <3>2. \A n \in Notices : mailed[n] \in 0..2 /\ (mailed'[n] = mailed[n] \/ mailed'[n] > 0)
      BY <3>1
    <3> QED BY <1>1, <3>2
  <2>2. CASE ~Send(r)
    <3>1. mailed' = mailed
      BY <2>2 DEF Work, Die, Upload, SavePdfUrl, Chain, AssetsFail, Claim, SendFails,
         MarkSent, MarkFailed, Mark, LogFails, historyVars
    <3> QED BY <3>1
  <2> QED BY <2>1, <2>2
<1> QED BY <1>1, <1>2, <1>3, <1>4, <1>5 DEF Onward

(* A worker whose task raises: repeated, or it failed once too often.      *)
LEMMA RaisingForgetsNone ==
  ASSUME MailInv, RetriesCounted, NoTicketForgotten, NEW r \in Runners,
         Busy(r), Onward, UNCHANGED sourceVars, Raise(r), pdf_url' = pdf_url,
         Refused \/ At(r, "mark_failed"), At(r, "chain") => Cut(r)
  PROVE  NoTicketForgotten'
<1>1. Done(r) /\ waiting \subseteq waiting'
  BY DEF Raise
<1>2. ASSUME NEW t \in Rows, NEW task \in {"confirmation", "assets"},
             NoticeOf(runner[r].message) = <<task, t>>
      PROVE  Pending(<<task, t>>)' \/ failures' > MaxRetries
  <2>1. runner[r].message.task # "cart"
    BY <1>2 DEF NoticeOf
  <2> QED BY <1>2, <2>1, RepeatedPending
<1>3. ASSUME NEW t \in Rows, NoticeOf(runner[r].message) = <<"confirmation", t>>
      PROVE  Pursued(t)'
  BY <1>2, <1>3 DEF Pursued
<1>4. ASSUME NEW t \in Rows, NoticeOf(runner[r].message) = <<"assets", t>>
      PROVE  Pursued(t)' \/ (~At(r, "chain") /\ Pending(<<"assets", t>>)')
  <2>1. CASE At(r, "chain")
    <3>1. <<"confirmation", t>> \in cut'
      BY <1>4, <2>1 DEF Cut, NoticeOf, Target, At
    <3> QED BY <3>1 DEF Pursued
  <2>2. CASE ~At(r, "chain")
    BY <1>2, <1>4, <2>2 DEF Pursued
  <2> QED BY <2>1, <2>2
<1> QED BY <1>1, <1>3, <1>4, Ending

LEMMA DieForgetsNone ==
  ASSUME MailInv, NoTicketForgotten, NEW r \in Runners, Die(r)
  PROVE  NoTicketForgotten'
<1>1. /\ Busy(r) /\ Done(r) /\ Cut(r) /\ pdf_url' = pdf_url
      /\ waiting' = waiting \cup {runner[r].message}
  BY DEF Die, Busy, resultVars
<1>2. Onward /\ UNCHANGED sourceVars
  BY WorkOnward
<1>3. ASSUME NEW n, NoticeOf(runner[r].message) = n PROVE Pending(n)'
  <2>1. runner[r].message \in InHand'
    BY <1>1 DEF InHand
  <2> QED BY <1>3, <2>1 DEF Pending
<1>4. ASSUME NEW t \in Rows, NoticeOf(runner[r].message) = <<"assets", t>>
      PROVE  Pursued(t)' \/ (~At(r, "chain") /\ Pending(<<"assets", t>>)')
  <2>1. CASE At(r, "chain")
    <3>1. <<"confirmation", t>> \in cut'
      BY <1>1, <1>4, <2>1 DEF Cut, NoticeOf, Target, At
    <3> QED BY <3>1 DEF Pursued
  <2> QED BY <1>3, <1>4, <2>1
<1>5. \A t \in Rows : NoticeOf(runner[r].message) = <<"confirmation", t>> => Pursued(t)'
  BY <1>3 DEF Pursued
<1> QED BY <1>1, <1>2, <1>4, <1>5, Ending

LEMMA WorkForgetsNone ==
  ASSUME MailInv, RetriesCounted, NoTicketForgotten, NEW r \in Runners, Work(r)
  PROVE  NoTicketForgotten'
<1>1. Onward /\ UNCHANGED sourceVars
  BY WorkOnward
<1>2. {"upload", "save", "chain", "claim", "send", "mark_sent", "mark_failed"} \subseteq Steps
  BY DEF Steps, AssetSteps, MailSteps
<1>3. Busy(r)
  BY <1>2, RunnerOf DEF Work, Upload, SavePdfUrl, Chain, AssetsFail, Claim, Send, SendFails,
     MarkSent, MarkFailed, LogFails, At, AssetSteps, MailSteps, MailInv
<1>4. CASE Upload(r) /\ Proceed(r, "save") /\ waiting' = waiting
  <2>1. pdf_url' = pdf_url /\ ~At(r, "chain")
    BY <1>4 DEF Upload, At
  <2> QED BY <1>1, <1>2, <1>3, <1>4, <2>1, GoingOn
<1>5. CASE Upload(r) /\ Refused /\ Raise(r)
  <2>1. pdf_url' = pdf_url /\ ~At(r, "chain")
    BY <1>5 DEF Upload, At
  <2> QED BY <1>1, <1>3, <1>5, <2>1, RaisingForgetsNone
<1>6. CASE SavePdfUrl(r)
  BY <1>1, <1>2, <1>3, <1>6, GoingOn DEF SavePdfUrl, At
<1>7. CASE Chain(r)
  <2>1. /\ At(r, "chain") /\ Done(r) /\ pdf_url' = pdf_url
        /\ waiting' = waiting \cup {Message("confirmation", Target(r))}
    BY <1>7 DEF Chain, resultVars
  <2>2. runner[r].message.task = "assets" /\ "chain" \in AssetSteps
    BY <1>3, <2>1 DEF MailInv, StepsFit, At, AssetSteps
  <2>3. ASSUME NEW t \in Rows, NoticeOf(runner[r].message) = <<"assets", t>> PROVE Pursued(t)'
    <3>1. Message("confirmation", t) \in InHand'
      BY <2>1, <2>3 DEF InHand, NoticeOf, Target
    <3>2. NoticeOf(Message("confirmation", t)) = <<"confirmation", t>>
      BY DEF NoticeOf, Message
    <3> QED BY <3>1, <3>2 DEF Pursued, Pending
  <2>4. \A t \in Rows : NoticeOf(runner[r].message) # <<"confirmation", t>>
    BY <2>2 DEF NoticeOf
  <2> QED BY <1>1, <1>3, <2>1, <2>3, <2>4, Ending
<1>8. CASE AssetsFail(r) \/ LogFails(r)
  <2>1. Refused /\ Raise(r) /\ Cut(r) /\ pdf_url' = pdf_url
    BY <1>8 DEF AssetsFail, LogFails, resultVars
  <2> QED BY <1>1, <1>3, <2>1, RaisingForgetsNone
<1>9. CASE Claim(r) \/ MarkSent(r)
  <2>1. /\ waiting' = waiting /\ pdf_url' = pdf_url /\ mailed' = mailed
        /\ At(r, "claim") \/ At(r, "mark_sent")
    BY <1>9 DEF Claim, MarkSent, Mark, historyVars
  <2>2. ~At(r, "chain") /\ runner[r].message.task # "assets"
    BY <1>3, <2>1 DEF MailInv, StepsFit, At, AssetSteps
  <2>3. CASE Proceed(r, "send")
    BY <1>1, <1>2, <1>3, <2>1, <2>2, <2>3, GoingOn
  <2>4. CASE ~Proceed(r, "send")
    <3>1. Done(r)
      BY <1>9, <2>4 DEF Claim, MarkSent
    <3>2. At(r, "claim") => log[NoticeOf(runner[r].message)] = "sent"
      BY <1>9, <2>4 DEF Claim, MarkSent, At
    <3>3. NoticeOf(runner[r].message) \in Notices
      BY <1>3, <2>2, RunnerOf, MessageOf DEF MailInv
    <3>4. mailed[NoticeOf(runner[r].message)] > 0
      BY <2>1, <3>2, <3>3 DEF MailInv, SentWasMailed
    <3>5. \A t \in Rows : NoticeOf(runner[r].message) = <<"confirmation", t>> => Pursued(t)'
      BY <2>1, <3>4 DEF Pursued
    <3>6. \A t \in Rows : NoticeOf(runner[r].message) # <<"assets", t>>
      BY <2>2 DEF NoticeOf
    <3> QED BY <1>1, <1>3, <2>1, <3>1, <3>5, <3>6, Ending
  <2> QED BY <2>3, <2>4
<1>10. CASE Send(r) \/ SendFails(r)
  <2>1. /\ waiting' = waiting /\ pdf_url' = pdf_url /\ ~At(r, "chain")
        /\ Proceed(r, "mark_sent") \/ Proceed(r, "mark_failed")
    BY <1>10 DEF Send, SendFails, resultVars, At
  <2> QED BY <1>1, <1>2, <1>3, <2>1, GoingOn
<1>11. CASE MarkFailed(r)
  <2>1. At(r, "mark_failed") /\ ~At(r, "chain") /\ Raise(r) /\ pdf_url' = pdf_url
    BY <1>11 DEF MarkFailed, Mark, At
  <2> QED BY <1>1, <1>3, <2>1, RaisingForgetsNone
<1> QED BY <1>4, <1>5, <1>6, <1>7, <1>8, <1>9, <1>10, <1>11 DEF Work, Upload

(* A message that is taken is in the worker's hand, or its ticket has its  *)
(* pdf_url, or it is about a cart.                                         *)
LEMMA StartForgetsNone ==
  ASSUME MailInv, NoTicketForgotten, NEW r \in Runners, NEW m \in Messages, Start(r, m)
  PROVE  NoTicketForgotten'
<1>1. /\ m \in waiting /\ ~Busy(r) /\ waiting \ {m} \subseteq waiting'
      /\ UNCHANGED <<sourceVars, resultVars, faultVars, historyVars>>
  BY DEF Start, StartAssets, StartMail, CartGone, Taken, Deliverable, Busy
<1>2. /\ pdf_url' = pdf_url /\ mailed' = mailed /\ cut' = cut /\ failures' = failures
      /\ status' = status /\ ticket' = ticket /\ outbox' = outbox /\ lost' = lost
  BY <1>1 DEF storeVars, orderVars, saleVars, resultVars, faultVars, historyVars
<1>3. \A q \in Runners \ {r} : runner'[q] = runner[q]
  BY DEF Start, StartAssets, StartMail, CartGone, MailInv, TypeOK
<1>4. \/ runner'[r].message = m /\ Busy(r)'
      \/ m.task = "assets" /\ m.target \in pdf_url
      \/ m.task = "cart"
  <2>1. ASSUME NEW step \in {"upload", "claim"}, runner' = [runner EXCEPT ![r] = Running(m, step)]
        PROVE  runner'[r].message = m /\ Busy(r)'
    <3>1. runner'[r] = Running(m, step)
      BY <2>1 DEF MailInv, TypeOK
    <3>2. step # "idle"
      BY <2>1
    <3> QED BY <3>1, <3>2 DEF Running, Busy, Idle
  <2> QED BY <2>1 DEF Start, StartAssets, StartMail, CartGone
<1>5. ASSUME NEW n, Pending(n), NoticeOf(m) # n \/ (runner'[r].message = m /\ Busy(r)')
      PROVE  Pending(n)'
  <2>1. PICK k \in InHand : NoticeOf(k) = n
    BY <1>5 DEF Pending
  <2>2. CASE k \in waiting \ {m}
    BY <1>1, <2>1, <2>2 DEF Pending, InHand
  <2>3. CASE k = m /\ runner'[r].message = m /\ Busy(r)'
    <3>1. m \in InHand'
      BY <2>3 DEF InHand
    <3> QED BY <2>1, <2>3, <3>1 DEF Pending
  <2>4. CASE \E q \in Runners : Busy(q) /\ k = runner[q].message
    <3>1. PICK q \in Runners : Busy(q) /\ k = runner[q].message
      BY <2>4
    <3>2. runner'[q] = runner[q]
      BY <1>1, <1>3, <3>1
    <3>3. k \in InHand'
      BY <3>1, <3>2 DEF InHand, Busy
    <3> QED BY <2>1, <3>3 DEF Pending
  <2> QED BY <1>5, <2>1, <2>2, <2>3, <2>4 DEF InHand
<1>6. ASSUME NEW t \in Rows PROVE Fine(t)'
  <2>1. Fine(t)
    BY FineIsNotForgotten
  <2>2. Pending(<<"confirmation", t>>) => Pending(<<"confirmation", t>>)'
    <3>1. NoticeOf(m) # <<"confirmation", t>> \/ (runner'[r].message = m /\ Busy(r)')
      BY <1>4 DEF NoticeOf
    <3> QED BY <1>5, <3>1
  <2>3. Pursued(t) => Pursued(t)'
    BY <1>2, <2>2 DEF Pursued
  <2>4. ASSUME t \notin pdf_url, Pending(<<"assets", t>>) PROVE Pending(<<"assets", t>>)'
    <3>1. NoticeOf(m) # <<"assets", t>> \/ (runner'[r].message = m /\ Busy(r)')
      BY <1>4, <2>4 DEF NoticeOf
    <3> QED BY <1>5, <2>4, <3>1
  <2>5. ASSUME NEW q \in Runners, At(q, "chain"), Target(q) = t
        PROVE  At(q, "chain")' /\ Target(q)' = t
    <3>1. q # r
      BY <1>1, <2>5, IdleStep DEF Busy, At, Idle
    <3>2. runner'[q] = runner[q]
      BY <1>3, <3>1
    <3> QED BY <2>5, <3>2 DEF At, Target
  <2> QED BY <1>2, <2>1, <2>3, <2>4, <2>5 DEF Fine
<1> QED BY <1>6 DEF NoTicketForgotten, Fine

(* A ticket of an order that is confirmed has its task to be published; no *)
(* other transaction makes one.                                            *)
LEMMA PublishForgetsNone ==
  ASSUME StoreInv, MailInv, NoTicketForgotten,
         \/ \E o \in Orders : ConfirmOrder(o) \/ DispatchFails(o) \/ OrderMoves(o)
         \/ \E t \in Rows : Dispatch(t)
         \/ DispatchReminders \/ DispatchCarts \/ PassTime \/ UNCHANGED vars
  PROVE  NoTicketForgotten'
<1>1. /\ waiting \subseteq waiting' /\ lost \subseteq lost'
      /\ UNCHANGED <<runner, resultVars, faultVars, historyVars>>
  BY DEF ConfirmOrder, DispatchFails, Dispatch, OrderMoves, DispatchReminders, DispatchCarts,
     PassTime, vars, taskVars
<1>2. ASSUME NEW t \in Rows, status'[t[1]] = "CONFIRMED", ticket'[t] = "VALID"
      PROVE  (status[t[1]] = "CONFIRMED" /\ ticket[t] = "VALID") \/ t \in outbox'
  <2> USE DEF StoreInv, StoreTypeOK
  <2>1. t[1] \in Orders
    BY DEF Rows
  <2>2. ASSUME NEW o \in Orders, ConfirmOrder(o)
        PROVE  (status[t[1]] = "CONFIRMED" /\ ticket[t] = "VALID") \/ t \in outbox'
    <3>1. /\ status' = [status EXCEPT ![o] = "CONFIRMED"] /\ ticket' = ticket
          /\ outbox' = outbox \cup OrderRows(o, items[o])
      BY <2>2 DEF ConfirmOrder, ConfirmTx, saleVars
    <3>2. CASE t[1] = o
      <4>1. t[3] <= items[o][t[2]]
        <5>1. ~(t[3] > items[o][t[2]])
          BY <1>2, <3>1, <3>2 DEF TicketsFollowOrder
        <5>2. t[3] \in 1..MaxPerItem /\ t[2] \in Tiers
          BY DEF Rows
        <5> QED BY <5>1, <5>2, StoreAssumption
      <4>2. t \in OrderRows(o, items[o])
        BY <3>2, <4>1 DEF OrderRows
      <4> QED BY <3>1, <4>2
    <3>3. CASE t[1] # o
      BY <1>2, <2>1, <3>1, <3>3
    <3> QED BY <3>2, <3>3
  <2>3. ASSUME NEW o \in Orders, NEW q \in Carts, CreateTx(o, q)
        PROVE  status[t[1]] = "CONFIRMED" /\ ticket[t] = "VALID"
    <3>1. t[1] # o /\ status[t[1]] = "CONFIRMED"
      BY <1>2, <2>1, <2>3 DEF CreateTx
    <3>2. t \notin OrderRows(o, q)
      BY <3>1 DEF OrderRows
    <3> QED BY <1>2, <2>3, <3>1, <3>2 DEF CreateTx
  <2>4. ASSUME NEW o \in Orders, CancelTx(o) \/ RefundTx(o)
        PROVE  status[t[1]] = "CONFIRMED" /\ ticket[t] = "VALID"
    <3>1. t[1] # o /\ status[t[1]] = "CONFIRMED"
      BY <1>2, <2>1, <2>4 DEF CancelTx, RefundTx
    <3> QED BY <1>2, <2>4, <3>1 DEF CancelTx, RefundTx, RestoreInventory
  <2>5. ASSUME NEW o \in Orders, SoftDelete(o)
        PROVE  status[t[1]] = "CONFIRMED" /\ ticket[t] = "VALID"
    BY <1>2, <2>5 DEF SoftDelete, saleVars
  <2>6. ASSUME UNCHANGED <<orderVars, saleVars>>
        PROVE  status[t[1]] = "CONFIRMED" /\ ticket[t] = "VALID"
    BY <1>2, <2>6 DEF orderVars, saleVars
  <2> QED BY <2>2, <2>3, <2>4, <2>5, <2>6 DEF OrderMoves, DispatchFails, Dispatch,
          DispatchReminders, DispatchCarts, PassTime, Tick, vars, storeVars
<1>3. ASSUME NEW t \in outbox
      PROVE  t \in outbox' \/ Pending(<<"assets", t>>)' \/ t \in lost'
  <2>1. ASSUME NEW k \in Rows, Dispatch(k)
        PROVE  t \in outbox' \/ Pending(<<"assets", t>>)'
    <3>1. CASE t = k
      <4>1. Message("assets", t) \in InHand'
        BY <2>1, <3>1 DEF Dispatch, InHand
      <4>2. NoticeOf(Message("assets", t)) = <<"assets", t>>
        BY DEF NoticeOf, Message
      <4> QED BY <4>1, <4>2 DEF Pending
    <3>2. CASE t # k
      BY <2>1, <3>2 DEF Dispatch
    <3> QED BY <3>1, <3>2
  <2>2. ASSUME NEW o \in Orders, DispatchFails(o) PROVE t \in outbox' \/ t \in lost'
    BY <2>2 DEF DispatchFails
  <2>3. ASSUME NEW o \in Orders, ConfirmOrder(o) \/ OrderMoves(o) PROVE t \in outbox'
    BY <2>3 DEF ConfirmOrder, OrderMoves
  <2>4. DispatchReminders \/ DispatchCarts \/ PassTime \/ UNCHANGED vars => t \in outbox'
    BY DEF DispatchReminders, DispatchCarts, PassTime, vars
  <2> QED BY <2>1, <2>2, <2>3, <2>4
<1> QED BY <1>1, <1>2, <1>3, Publishing

-----------------------------------------------------------------------------
(* The retries.                                                            *)

(* One worker at most changes what it works on, and what is published has  *)
(* failed often enough.                                                    *)
LEMMA RetriesStay ==
  ASSUME MailInv, RetriesCounted, NEW r \in Runners,
         \A q \in Runners \ {r} : runner'[q] = runner[q],
         failures' \in Nat, failures <= failures',
         \A m \in waiting' \ waiting : m.task # "cart" => m.retries <= failures',
         Busy(r)' /\ runner'[r].message.task # "cart" =>
           /\ runner'[r].message.retries <= failures'
           /\ runner'[r].step = "mark_failed" => runner'[r].message.retries < failures'
  PROVE  RetriesCounted'
<1>1. failures \in Nat /\ \A m \in Messages : m.retries \in Nat
  BY Numbers
<1>2. \A m \in waiting' : m.task # "cart" => m.retries <= failures'
  BY <1>1 DEF RetriesCounted, MailInv, TypeOK
<1>3. ASSUME NEW q \in Runners, Busy(q)', runner'[q].message.task # "cart"
      PROVE  /\ runner'[q].message.retries <= failures'
             /\ runner'[q].step = "mark_failed" => runner'[q].message.retries < failures'
  <2>1. CASE q = r
    BY <1>3, <2>1
  <2>2. CASE q # r
    <3>1. runner'[q] = runner[q] /\ Busy(q)
      BY <1>3, <2>2 DEF Busy
    <3>2. runner[q].message.retries \in Nat
      BY <1>1, <3>1, RunnerOf DEF MailInv
    <3>3. /\ runner[q].message.retries <= failures
          /\ runner[q].step = "mark_failed" => runner[q].message.retries < failures
      BY <1>3, <3>1 DEF RetriesCounted, At
    <3> QED BY <1>1, <3>1, <3>2, <3>3
  <2> QED BY <2>1, <2>2
<1> QED BY <1>2, <1>3 DEF RetriesCounted, At

LEMMA RaiseCounts ==
  ASSUME MailInv, RetriesCounted, NEW r \in Runners, Busy(r), Raise(r),
         Refused \/ (At(r, "mark_failed") /\ failures' = failures)
  PROVE  RetriesCounted'
<1> DEFINE m == runner[r].message
<1>1. /\ failures \in Nat /\ m \in Messages /\ m.retries \in Nat
  BY Numbers, RunnerOf DEF MailInv
<1>2. failures' \in Nat /\ failures <= failures'
  BY <1>1 DEF Refused
<1>3. m.task # "cart" => m.retries < failures'
  BY <1>1 DEF RetriesCounted, Refused
<1>4. ASSUME NEW k \in Again(m), k.task # "cart" PROVE k.retries <= failures'
  <2>1. k = [m EXCEPT !.retries = @ + 1] /\ k.task = m.task
    BY <1>1, AgainSame DEF Again
  <2>2. k.retries = m.retries + 1
    BY <1>1, <2>1 DEF Messages
  <2> QED BY <1>1, <1>2, <1>3, <1>4, <2>1, <2>2
<1>5. runner'[r] = Idle /\ \A q \in Runners \ {r} : runner'[q] = runner[q]
  BY Ends DEF Raise, MailInv
<1>6. \A k \in waiting' \ waiting : k.task # "cart" => k.retries <= failures'
  BY <1>4 DEF Raise
<1>7. ~Busy(r)'
  BY <1>5 DEF Busy
<1> QED BY <1>2, <1>5, <1>6, <1>7, RetriesStay

(* A task that goes on or is done leaves the count alone; an email that is *)
(* refused adds one to it.                                                 *)
LEMMA GoOnCounts ==
  ASSUME MailInv, RetriesCounted, NEW r \in Runners, Busy(r), waiting' = waiting,
         NEW step \in Steps, Proceed(r, step) \/ Done(r),
         Refused \/ (failures' = failures /\ step # "mark_failed")
  PROVE  RetriesCounted'
<1>1. /\ failures \in Nat /\ runner[r].message.retries \in Nat
  BY Numbers, RunnerOf DEF MailInv
<1>2. failures' \in Nat /\ failures <= failures'
  BY <1>1 DEF Refused
<1>3. /\ \A q \in Runners \ {r} : runner'[q] = runner[q]
      /\ \/ runner'[r] = Idle
         \/ runner'[r].message = runner[r].message /\ runner'[r].step = step
  BY Proceeds, Ends DEF MailInv
<1>4. Busy(r)' /\ runner'[r].message.task # "cart" =>
        /\ runner'[r].message.retries <= failures'
        /\ runner'[r].step = "mark_failed" => runner'[r].message.retries < failures'
  BY <1>1, <1>2, <1>3 DEF RetriesCounted, Refused, Busy
<1> QED BY <1>2, <1>3, <1>4, RetriesStay

LEMMA WorkCounts ==
  ASSUME MailInv, RetriesCounted, NEW r \in Runners, Work(r) \/ Die(r)
  PROVE  RetriesCounted'
<1> USE DEF faultVars
<1>1. {"upload", "save", "chain", "claim", "send", "mark_sent", "mark_failed"} \subseteq Steps
  BY DEF Steps, AssetSteps, MailSteps
<1>2. Busy(r)
  BY <1>1, RunnerOf DEF Work, Die, Upload, SavePdfUrl, Chain, AssetsFail, Claim, Send, SendFails,
     MarkSent, MarkFailed, LogFails, At, AssetSteps, MailSteps, MailInv, Busy
<1>3. CASE (Upload(r) /\ Raise(r) /\ Refused) \/ AssetsFail(r) \/ LogFails(r) \/ MarkFailed(r)
  BY <1>2, <1>3, RaiseCounts DEF Upload, AssetsFail, LogFails, MarkFailed, Mark
<1>4. CASE \/ Upload(r) /\ Proceed(r, "save") /\ UNCHANGED <<waiting, failures>>
           \/ SavePdfUrl(r) \/ Claim(r) \/ Send(r) \/ SendFails(r) \/ MarkSent(r)
  <2>1. CASE SendFails(r)
    BY <1>1, <1>2, <2>1, GoOnCounts DEF SendFails
  <2>2. CASE ~SendFails(r)
    <3>1. /\ waiting' = waiting /\ failures' = failures
          /\ \E step \in {"save", "chain", "send", "mark_sent"} : Proceed(r, step) \/ Done(r)
      BY <1>4, <2>2 DEF Upload, SavePdfUrl, Claim, Send, MarkSent, Mark
    <3> QED BY <1>1, <1>2, <3>1, GoOnCounts
  <2> QED BY <2>1, <2>2
<1>5. CASE Chain(r) \/ Die(r)
  <2>1. Done(r) /\ failures' = failures
    BY <1>5 DEF Chain, Die
  <2>2. runner'[r] = Idle /\ \A q \in Runners \ {r} : runner'[q] = runner[q]
    BY <2>1, Ends DEF MailInv
  <2>3. failures \in Nat /\ ~Busy(r)'
    BY <2>2, Numbers DEF Busy
  <2>4. \A m \in waiting' \ waiting : m.task # "cart" => m.retries <= failures'
    BY <1>2, <1>5, <2>1, <2>3 DEF Chain, Die, Message, RetriesCounted
  <2> QED BY <2>1, <2>2, <2>3, <2>4, RetriesStay
<1> QED BY <1>3, <1>4, <1>5 DEF Work, Upload

LEMMA StartCounts ==
  ASSUME MailInv, RetriesCounted, NEW r \in Runners, NEW m \in Messages, Start(r, m)
  PROVE  RetriesCounted'
<1>1. m \in waiting /\ failures' = failures /\ failures \in Nat
  BY Numbers DEF Start, StartAssets, StartMail, CartGone, Taken, Deliverable, faultVars
<1>2. \A q \in Runners \ {r} : runner'[q] = runner[q]
  BY DEF Start, StartAssets, StartMail, CartGone, MailInv, TypeOK
<1>3. runner[r] = Idle /\ runner'[r] \in {Idle, Running(m, "upload"), Running(m, "claim")}
  BY DEF Start, StartAssets, StartMail, CartGone, Taken, Deliverable, MailInv, TypeOK
<1>4. Busy(r)' => runner'[r].message = m /\ runner'[r].step # "mark_failed"
  BY <1>3 DEF Busy, Running
<1>5. \A k \in waiting' \ waiting : k.task = "cart"
  BY AgainSame DEF Start, StartAssets, StartMail, CartGone, Taken
<1>6. m.task # "cart" => m.retries <= failures
  BY <1>1 DEF RetriesCounted
<1> QED BY <1>1, <1>2, <1>4, <1>5, <1>6, RetriesStay

LEMMA PublishCounts ==
  ASSUME MailInv, RetriesCounted,
         \/ \E o \in Orders : ConfirmOrder(o) \/ DispatchFails(o) \/ OrderMoves(o)
         \/ \E t \in Rows : Dispatch(t)
         \/ DispatchReminders \/ DispatchCarts \/ PassTime \/ UNCHANGED vars
  PROVE  RetriesCounted'
<1>1. runner' = runner /\ failures' = failures /\ failures \in Nat
  BY Numbers DEF ConfirmOrder, DispatchFails, Dispatch, OrderMoves, DispatchReminders, DispatchCarts, PassTime, vars,
     taskVars, faultVars
<1>2. \A m \in waiting' \ waiting : m.retries = 0
  <2>1. \A task, target : Message(task, target).retries = 0
    BY DEF Message
  <2>2. CASE \E t \in Rows : Dispatch(t)
    BY <2>1, <2>2 DEF Dispatch
  <2>3. CASE DispatchReminders \/ DispatchCarts
    BY <2>1, <2>3 DEF DispatchReminders, DispatchCarts
  <2>4. CASE \/ \E o \in Orders : ConfirmOrder(o) \/ DispatchFails(o) \/ OrderMoves(o)
             \/ PassTime \/ UNCHANGED vars
    BY <2>4 DEF ConfirmOrder, DispatchFails, OrderMoves, PassTime, vars, taskVars
  <2> QED BY <2>2, <2>3, <2>4
<1> QED BY <1>1, <1>2 DEF RetriesCounted, Busy, At

-----------------------------------------------------------------------------

LEMMA DeliveryInit == Init => DeliveryInv
<1> SUFFICES ASSUME Init PROVE DeliveryInv
  OBVIOUS
<1>1. MailInv
  BY MailInit
<1>2. \A r \in Runners : ~Busy(r)
  BY DEF Init, Busy
<1>3. RetriesCounted
  BY <1>2 DEF Init, RetriesCounted
<1>4. ASSUME NEW t \in Rows PROVE Fine(t)
  <2>1. t[1] \in Orders
    BY DEF Rows
  <2> QED BY <2>1 DEF Fine, Init, StoreInit
<1> QED BY <1>1, <1>3, <1>4 DEF DeliveryInv, NoTicketForgotten, Fine

LEMMA DeliveryStep ==
  StoreInv /\ DeliveryInv /\ [Next]_vars => StoreInv' /\ DeliveryInv'
<1> SUFFICES ASSUME StoreInv, DeliveryInv, [Next]_vars PROVE StoreInv' /\ DeliveryInv'
  OBVIOUS
<1>1. StoreInv' /\ MailInv'
  BY MailStep DEF DeliveryInv
<1>2. ASSUME NEW r \in Runners, Work(r) \/ Die(r) PROVE RetriesCounted' /\ NoTicketForgotten'
  BY <1>2, WorkCounts, WorkForgetsNone, DieForgetsNone DEF DeliveryInv
<1>3. ASSUME NEW r \in Runners, NEW m \in Messages, Start(r, m)
      PROVE  RetriesCounted' /\ NoTicketForgotten'
  BY <1>3, StartCounts, StartForgetsNone DEF DeliveryInv
<1>4. ASSUME \/ \E o \in Orders : ConfirmOrder(o) \/ DispatchFails(o) \/ OrderMoves(o)
             \/ \E t \in Rows : Dispatch(t)
             \/ DispatchReminders \/ DispatchCarts \/ PassTime \/ UNCHANGED vars
      PROVE  RetriesCounted' /\ NoTicketForgotten'
  BY <1>4, PublishCounts, PublishForgetsNone DEF DeliveryInv
<1> QED BY <1>1, <1>2, <1>3, <1>4 DEF DeliveryInv, Next

(* Whatever is refused, repeated, redelivered or dispatched again: a       *)
(* confirmation email links a stored PDF, tickets and reminders go only to *)
(* orders that were confirmed, the log says "sent" only of what was        *)
(* mailed, one worker at most is sending a notice that none has been cut   *)
(* off or doubled on, and no ticket of a confirmed order is forgotten      *)
(* (DeliveryInv).                                                          *)
THEOREM DeliveryInvariant == Spec => []DeliveryInv
<1>1. Init => StoreInv /\ DeliveryInv
  BY MailInit, DeliveryInit
<1> QED BY <1>1, DeliveryStep, PTL DEF Spec

(* At any time, for any number of workers, deaths and refusals: a valid    *)
(* ticket of a confirmed order has been mailed, or a request, a message or *)
(* a worker is on it, or one of the three things happened that lose it     *)
(* (TicketsMailed without the fairness that drives the workers on).        *)
THEOREM TicketsAccountedFor ==
  Spec => [](\A t \in Rows :
               ticket[t] = "VALID" /\ status[t[1]] = "CONFIRMED" =>
                 \/ mailed[<<"confirmation", t>>] > 0
                 \/ t \in outbox \/ Pending(<<"assets", t>>) \/ Pending(<<"confirmation", t>>)
                 \/ t \in lost
                 \/ <<"confirmation", t>> \in cut
                 \/ failures > MaxRetries)
<1>1. ASSUME DeliveryInv, NEW t \in Rows, ticket[t] = "VALID", status[t[1]] = "CONFIRMED"
      PROVE  Pursued(t) \/ t \in outbox \/ Pending(<<"assets", t>>)
  <2>1. ASSUME NEW r \in Runners, At(r, "chain"), Target(r) = t PROVE Pending(<<"assets", t>>)
    <3>1. "chain" \in AssetSteps /\ "chain" \in Steps
      BY DEF AssetSteps, Steps
    <3>2. Busy(r) /\ runner[r].message.task = "assets"
      BY <1>1, <2>1, <3>1, WorksOn DEF DeliveryInv
    <3>3. runner[r].message \in InHand /\ NoticeOf(runner[r].message) = <<"assets", t>>
      BY <2>1, <3>2 DEF InHand, NoticeOf, Target
    <3> QED BY <3>3 DEF Pending
  <2> QED BY <1>1, <2>1 DEF DeliveryInv, NoTicketForgotten
<1>2. DeliveryInv => \A t \in Rows :
               ticket[t] = "VALID" /\ status[t[1]] = "CONFIRMED" =>
                 \/ mailed[<<"confirmation", t>>] > 0
                 \/ t \in outbox \/ Pending(<<"assets", t>>) \/ Pending(<<"confirmation", t>>)
                 \/ t \in lost
                 \/ <<"confirmation", t>> \in cut
                 \/ failures > MaxRetries
  BY <1>1 DEF Pursued
<1> QED BY <1>2, DeliveryInvariant, PTL

(* Tasks, deaths and retries never write the order tables: what they send  *)
(* mail about changes only by the transactions of OrderStore.              *)
THEOREM DeliveryImplementsStore == Spec => StoreSpec
<1>1. Init => StoreInit
  BY DEF Init
<1> QED BY <1>1, DeliveryStoreStep, PTL DEF Spec, StoreSpec
===============================================================================

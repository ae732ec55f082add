------------------------ MODULE WebhookDeliveryProofs ------------------------
(***************************************************************************)
(* Proofs of the safety properties of the webhook outbox, for any sets of  *)
(* events, subscriptions, dispatchers and administrators and any limits.   *)
(*                                                                         *)
(* The dispatcher has no fencing token: a slow dispatcher whose lease ran  *)
(* out may still record its result.  What saves the attempt history is the *)
(* UNIQUE attempt number, and the invariant says why: a dispatcher whose   *)
(* attempt number is still free has read a row that nobody has recorded on *)
(* since, so that the row is PROCESSING with the counts it read, or was    *)
(* cancelled meanwhile.                                                    *)
(***************************************************************************)
EXTENDS WebhookDelivery, TLAPS

-----------------------------------------------------------------------------
(* The inductive invariant                                                 *)

Sending == {"cancel", "send", "read", "write"}

\* The row and the attempt history of one delivery.
Matches(row, lg) ==
    \/ Len(lg) = row.attempt_count
    \/ row.status = "CANCELLED" /\ Len(lg) = row.attempt_count + 1

Cycle(row, lg) ==
    /\ row.failure_count <= row.attempt_count
    /\ \A k \in (row.attempt_count - row.failure_count + 1)..row.attempt_count :
         lg[k] = "FAILURE"
    /\ row.status = "DEAD_LETTER" => row.failure_count = MaxAttempts
    /\ row.status \in Queued \cup {"PROCESSING"} => row.failure_count < MaxAttempts
    /\ row.status = "RETRY_SCHEDULED" => row.failure_count > 0
    /\ row.status = "NONE" => row.attempt_count = 0

Evidence(row, lg) ==
    /\ row.status = "DELIVERED" => Len(lg) > 0 /\ lg[Len(lg)] = "SUCCESS"
    /\ (\E k \in 1..Len(lg) : lg[k] = "SUCCESS") =>
         row.status \in {"DELIVERED", "CANCELLED"}

History(row, lg) == Matches(row, lg) /\ Cycle(row, lg) /\ Evidence(row, lg)

RowsOK ==
    \A d \in Deliveries :
        /\ History(delivery[d], log[d])
        /\ delivery[d].status = "DELIVERED" => d \in accepted

\* If no attempt has been recorded since the dispatcher read the row, the row
\* still has the counts it read and is PROCESSING or CANCELLED.
Unrecorded(attempts, failures, row, lg) ==
    /\ attempts <= Len(lg)
    /\ attempts = Len(lg) =>
         /\ row.status \in {"PROCESSING", "CANCELLED"}
         /\ row.attempt_count = attempts
         /\ row.failure_count = failures

\* What a dispatcher knows at its place.
Knows(wk) ==
    /\ wk.pc \in Sending => wk.cur \in Deliveries
    /\ wk.pc \in {"read", "write"} /\ wk.outcome = "SUCCESS" => wk.cur \in accepted
    /\ wk.pc = "write" =>
         Unrecorded(wk.attempts, wk.failures, delivery[wk.cur], log[wk.cur])

WorkersOK == \A w \in Workers : Knows(worker[w])

\* What an administrator request refers to.
AdminOK(a) ==
    LET r == admin[a] IN
    /\ r.pc = "redeliver" => r.of \in Deliveries
    /\ r.pc \in {"disable", "rotate"} =>
         r.of \in Subscriptions /\ sub[r.of].status # "NONE"
    /\ r.pc = "done" /\ r.version > 0 =>
         r.of \in Subscriptions /\ r.version <= sub[r.of].secret_version

AdminsOK == \A a \in Admins : AdminOK(a)

\* A subscription has a secret from its creation on.
SubsOK == \A s \in Subscriptions : sub[s].status = "NONE" => sub[s].secret_version = 0

Inv == TypeOK /\ RowsOK /\ WorkersOK /\ SubsOK /\ AdminsOK /\ RotationsDistinct

-----------------------------------------------------------------------------
(* Facts about rows                                                        *)

\* A fresh delivery row.
Fresh == [NoDelivery EXCEPT !.status = "PENDING"]

\* An event changes only rows that were absent, and makes them fresh.
LEMMA EnqueueRows ==
    ASSUME NEW type, NEW subs, NEW del \in [Deliveries -> Delivery],
           Enqueue(type, subs, del)
    PROVE  /\ delivery' \in [Deliveries -> Delivery]
           /\ \A d \in Deliveries :
                \/ delivery'[d] = del[d]
                \/ del[d].status = "NONE" /\ delivery'[d] = Fresh
<1> DEFINE matching == {s \in Subscriptions :
                          subs[s].status = "ACTIVE" /\ type \in Wants[s]}
           fresh == {e \in Events :
                       \A s \in Subscriptions : del[<<e, s>>].status = "NONE"}
<1>1. Fresh \in Delivery
    BY DEF Fresh, NoDelivery, Delivery, DeliveryStatus, Queued
<1>2. CASE delivery' = del
    BY <1>2
<1>3. CASE \E e \in fresh :
             delivery' = [d \in Deliveries |->
               IF d[1] = e /\ d[2] \in matching THEN Fresh ELSE del[d]]
  <2>1. PICK e \in fresh :
             delivery' = [d \in Deliveries |->
               IF d[1] = e /\ d[2] \in matching THEN Fresh ELSE del[d]]
    BY <1>3
  <2>2. delivery' \in [Deliveries -> Delivery]
    BY <1>1, <2>1
  <2>3. ASSUME NEW d \in Deliveries, delivery'[d] # del[d]
        PROVE  del[d].status = "NONE" /\ delivery'[d] = Fresh
    <3>1. d[1] = e /\ delivery'[d] = Fresh /\ d[2] \in Subscriptions /\ d = <<d[1], d[2]>>
      BY <2>1, <2>3 DEF Deliveries
    <3> QED
      BY <3>1
  <2> QED
    BY <2>2, <2>3
<1> QED
    BY <1>2, <1>3 DEF Enqueue, Fresh

\* A row that only moved in time keeps its history.
LEMMA MovedHistory ==
    ASSUME NEW row \in Delivery, NEW new \in Delivery, NEW lg \in Seq(Outcomes),
           History(row, lg),
           new.attempt_count = row.attempt_count,
           new.failure_count = row.failure_count,
           new.status = row.status
    PROVE  History(new, lg)
BY DEF History, Matches, Cycle, Evidence

\* Claiming a due or abandoned delivery keeps its history.
LEMMA ClaimedHistory ==
    ASSUME NEW row \in Delivery, NEW new \in Delivery, NEW lg \in Seq(Outcomes),
           History(row, lg),
           new.attempt_count = row.attempt_count,
           new.failure_count = row.failure_count,
           row.status \in Queued \cup {"PROCESSING"},
           new.status \in {"PROCESSING", "CANCELLED"}
    PROVE  History(new, lg)
BY DEF History, Matches, Cycle, Evidence, Queued, Delivery

\* A delivery is inserted with no attempts.
LEMMA FreshHistory ==
    ASSUME NEW row \in Delivery, NEW lg \in Seq(Outcomes),
           History(row, lg), row.status = "NONE"
    PROVE  History(Fresh, lg)
<1>1. Len(lg) = 0
    BY DEF History, Matches, Cycle
<1>2. /\ Fresh.status = "PENDING" /\ Fresh.attempt_count = 0
      /\ Fresh.failure_count = 0
    BY DEF Fresh, NoDelivery
<1> QED
    BY <1>1, <1>2, WebhookAssumption
    DEF History, Matches, Cycle, Evidence, Queued

\* A dead letter that is queued again starts a new failure cycle.
LEMMA RedeliveredHistory ==
    ASSUME NEW row \in Delivery, NEW new \in Delivery, NEW lg \in Seq(Outcomes),
           History(row, lg),
           row.status = "DEAD_LETTER", new.status = "PENDING",
           new.attempt_count = row.attempt_count, new.failure_count = 0
    PROVE  History(new, lg)
<1>1. row.attempt_count \in Nat
    BY DEF Delivery
<1> QED
    BY <1>1, WebhookAssumption DEF History, Matches, Cycle, Evidence, Queued

\* The row after Closed.
LEMMA ClosedRow ==
    ASSUME NEW row \in Delivery, NEW status \in DeliveryStatus
    PROVE  /\ Closed(row, status) \in Delivery
           /\ Closed(row, status).status = status
           /\ Closed(row, status).attempt_count = row.attempt_count
           /\ Closed(row, status).failure_count = row.failure_count
           /\ Closed(row, status).redelivery_count = row.redelivery_count
           /\ Closed(row, status).next_attempt_at = 0
           /\ Closed(row, status).lease_expires_at = 0
<1> DEFINE r1 == [row EXCEPT !.status = status]
           r2 == [r1 EXCEPT !.next_attempt_at = 0]
           r3 == [r2 EXCEPT !.lease_expires_at = 0]
<1>1. /\ r1 \in Delivery /\ r1.status = status
      /\ r1.attempt_count = row.attempt_count
      /\ r1.failure_count = row.failure_count
      /\ r1.redelivery_count = row.redelivery_count
    BY DEF Delivery
<1> HIDE DEF r1
<1>2. /\ r2 \in Delivery /\ r2.status = status /\ r2.next_attempt_at = 0
      /\ r2.attempt_count = row.attempt_count
      /\ r2.failure_count = row.failure_count
      /\ r2.redelivery_count = row.redelivery_count
    BY <1>1 DEF Delivery
<1> HIDE DEF r2
<1>3. /\ r3 \in Delivery /\ r3.status = status /\ r3.next_attempt_at = 0
      /\ r3.attempt_count = row.attempt_count
      /\ r3.failure_count = row.failure_count
      /\ r3.redelivery_count = row.redelivery_count
      /\ r3.lease_expires_at = 0
    BY <1>2 DEF Delivery
<1>4. Closed(row, status) = r3
    BY DEF Closed, r1, r2
<1> QED
    BY <1>3, <1>4

-----------------------------------------------------------------------------
(* What every step preserves about the knowledge of others                 *)

\* A step leaves a delivered or cancelled row alone; it appends an attempt to
\* the history of delivery d, or leaves the history alone and takes a claimed
\* row nowhere but to a claimed or cancelled one with the same counts.
Kept(d) ==
    /\ delivery[d].status \in {"DELIVERED", "CANCELLED"} => delivery'[d] = delivery[d]
    /\ \/ /\ Len(log[d]) < Len(log'[d])
          /\ SubSeq(log'[d], 1, Len(log[d])) = log[d]
       \/ /\ log'[d] = log[d]
          /\ delivery[d].status = "PROCESSING" =>
               /\ delivery'[d].status \in {"PROCESSING", "CANCELLED"}
               /\ delivery'[d].attempt_count = delivery[d].attempt_count
               /\ delivery'[d].failure_count = delivery[d].failure_count

Steady == \A d \in Deliveries : Kept(d)

\* A subscription is never taken back, its secrets only advance, and a
\* disabled one stays disabled.
Forward(s) ==
    /\ sub[s].status # "NONE" => sub'[s].status # "NONE"
    /\ sub[s].status = "DISABLED" => sub'[s].status = "DISABLED"
    /\ sub[s].secret_version <= sub'[s].secret_version

\* wk2 is at the same place as wk and knows the same.
SamePlace(wk, wk2) ==
    /\ wk2.pc = wk.pc /\ wk2.cur = wk.cur /\ wk2.outcome = wk.outcome
    /\ wk2.attempts = wk.attempts /\ wk2.failures = wk.failures

\* The dispatchers other than the one that moves keep what they know.
LEMMA WorkersCarry ==
    ASSUME TypeOK, TypeOK', WorkersOK,
           accepted \subseteq accepted', Steady,
           \A w \in Workers : SamePlace(worker[w], worker'[w]) \/ Knows(worker[w])'
    PROVE  WorkersOK'
<1> SUFFICES ASSUME NEW w \in Workers, SamePlace(worker[w], worker'[w])
             PROVE  Knows(worker[w])'
    BY DEF WorkersOK
<1> DEFINE wk == worker[w]
           wk2 == worker'[w]
<1>0. wk \in Worker /\ wk2 \in Worker /\ Knows(wk)
    BY DEF TypeOK, WorkersOK
<1>1. wk2.pc \in Sending => wk2.cur \in Deliveries
    BY <1>0 DEF Knows, SamePlace
<1>2. wk2.pc \in {"read", "write"} /\ wk2.outcome = "SUCCESS" => wk2.cur \in accepted'
    BY <1>0 DEF Knows, SamePlace
<1>3. ASSUME wk2.pc = "write"
      PROVE  Unrecorded(wk2.attempts, wk2.failures, delivery'[wk2.cur], log'[wk2.cur])
  <2>1. wk2.cur \in Deliveries /\ Kept(wk2.cur)
    BY <1>1, <1>3 DEF Sending, Steady
  <2>2. Unrecorded(wk2.attempts, wk2.failures, delivery[wk2.cur], log[wk2.cur])
    BY <1>0, <1>3 DEF Knows, SamePlace
  <2>3. Len(log[wk2.cur]) \in Nat /\ Len(log'[wk2.cur]) \in Nat /\ wk2.attempts \in Nat
    BY <1>0, <2>1 DEF TypeOK, Worker
  <2> QED
    BY <2>1, <2>2, <2>3 DEF Unrecorded, Kept
<1> QED
    BY <1>1, <1>2, <1>3 DEF Knows

\* Administrator requests that do not end with a new secret keep their facts.
LEMMA AdminsCarry ==
    ASSUME TypeOK, TypeOK', AdminsOK, RotationsDistinct,
           \A s \in Subscriptions : Forward(s),
           \A a \in Admins :
             \/ admin'[a] = admin[a]
             \/ AdminOK(a)' /\ (admin'[a].pc = "done" => admin'[a].version = 0)
    PROVE  AdminsOK' /\ RotationsDistinct'
<1>0. \A s \in Subscriptions : sub[s].secret_version \in Nat /\ sub'[s].secret_version \in Nat
    BY DEF TypeOK, Subscription
<1>00. \A a \in Admins : admin[a].version \in Nat /\ admin'[a].version \in Nat
    BY DEF TypeOK, Admin
<1>1. ASSUME NEW a \in Admins, admin'[a] = admin[a] PROVE AdminOK(a)'
  <2>1. AdminOK(a)
    BY DEF AdminsOK
  <2> QED
    BY <1>0, <1>00, <1>1, <2>1 DEF AdminOK, Forward
<1>2. AdminsOK'
    BY <1>1 DEF AdminsOK
<1>3. RotationsDistinct'
  <2> SUFFICES ASSUME NEW a \in Admins, NEW b \in Admins,
                      admin'[a].pc = "done" /\ admin'[a].version > 0,
                      admin'[b].pc = "done" /\ admin'[b].version > 0,
                      a # b, admin'[a].of = admin'[b].of,
                      admin'[a].version = admin'[b].version
               PROVE  sub'[admin'[a].of].status = "DISABLED"
    BY DEF RotationsDistinct
  <2>1. admin'[a] = admin[a] /\ admin'[b] = admin[b]
    BY <1>00
  <2>2. sub[admin[a].of].status = "DISABLED"
    BY <2>1 DEF RotationsDistinct
  <2>3. admin[a].of \in Subscriptions
    BY <2>1 DEF AdminsOK, AdminOK
  <2> QED
    BY <2>1, <2>2, <2>3 DEF Forward
<1> QED
    BY <1>2, <1>3

-----------------------------------------------------------------------------
(* Steps of a dispatcher                                                   *)

\* An idle dispatcher, or one between two deliveries, is well formed and has
\* nothing to know.
LEMMA IdleWorker ==
    /\ Idle \in Worker /\ Idle.pc = "idle"
    /\ \A wk \in Worker :
         LET new == [Idle EXCEPT !.pc = "next", !.age = wk.age, !.batch = wk.batch]
         IN new \in Worker /\ new.pc = "next"
<1>1. Idle \in Worker /\ Idle.pc = "idle"
    BY WebhookAssumption DEF Idle, Worker, SendResults, Outcomes
<1>2. ASSUME NEW wk \in Worker
      PROVE  LET new == [Idle EXCEPT !.pc = "next", !.age = wk.age, !.batch = wk.batch]
             IN new \in Worker /\ new.pc = "next"
  <2>1. wk.age \in 0..MaxAge /\ wk.batch \in SUBSET Deliveries
    BY DEF Worker
  <2> QED
    BY <1>1, <2>1 DEF Worker
<1> QED
    BY <1>1, <1>2

\* A step of dispatcher w that leaves rows with a correct history and w with
\* what it must know preserves the invariant.
LEMMA DispatcherStep ==
    ASSUME Inv, NEW w \in Workers,
           worker' \in [Workers -> Worker],
           \A v \in Workers \ {w} : worker'[v] = worker[v],
           Knows(worker[w])',
           delivery' \in [Deliveries -> Delivery], log' \in [Deliveries -> Seq(Outcomes)],
           accepted \subseteq accepted', accepted' \subseteq Deliveries,
           crashes' \in 0..MaxCrashes,
           RowsOK', Steady,
           UNCHANGED <<sub, admin>>
    PROVE  Inv' /\ Steady
<1>1. TypeOK'
    BY DEF Inv, TypeOK
<1>2. \A v \in Workers : SamePlace(worker[v], worker'[v]) \/ Knows(worker[v])'
    BY DEF SamePlace
<1>3. WorkersOK'
    BY <1>1, <1>2, WorkersCarry DEF Inv
<1>4. \A s \in Subscriptions : Forward(s)
  <2> SUFFICES ASSUME NEW s \in Subscriptions PROVE Forward(s)
    OBVIOUS
  <2>1. sub[s].secret_version \in Nat
    BY DEF Inv, TypeOK, Subscription
  <2> QED
    BY <2>1 DEF Forward
<1>5. AdminsOK' /\ RotationsDistinct'
    BY <1>1, <1>4, AdminsCarry DEF Inv
<1>6. SubsOK'
    BY DEF Inv, SubsOK
<1> QED
    BY <1>1, <1>3, <1>5, <1>6 DEF Inv

\* A step that only moves dispatcher w.
LEMMA QuietStep ==
    ASSUME Inv, NEW w \in Workers, NEW new \in Worker,
           worker' = [worker EXCEPT ![w] = new], Knows(new),
           crashes' \in 0..MaxCrashes,
           UNCHANGED <<rows, accepted, admin>>
    PROVE  Inv' /\ Steady
<1>1. UNCHANGED <<sub, delivery, log>>
    BY DEF rows
<1>2. /\ worker' \in [Workers -> Worker] /\ worker'[w] = new
      /\ \A v \in Workers \ {w} : worker'[v] = worker[v]
    BY DEF Inv, TypeOK
<1>3. Knows(worker[w])'
    BY <1>1, <1>2 DEF Knows
<1>4. RowsOK'
    BY <1>1 DEF Inv, RowsOK
<1>5. Steady
    BY <1>1 DEF Steady, Kept
<1>6. /\ delivery' \in [Deliveries -> Delivery] /\ log' \in [Deliveries -> Seq(Outcomes)]
      /\ accepted \subseteq accepted' /\ accepted' \subseteq Deliveries
    BY <1>1 DEF Inv, TypeOK
<1> QED
    BY <1>1, <1>2, <1>3, <1>4, <1>5, <1>6, DispatcherStep

\* The dispatch time is sampled.
LEMMA DispatchStartStep ==
    ASSUME Inv, NEW w \in Workers, DispatchStart(w)
    PROVE  Inv' /\ Steady
<1> DEFINE new == [worker[w] EXCEPT !.pc = "claim"]
<1>1. worker[w] \in Worker
    BY DEF Inv, TypeOK
<1>2. new \in Worker /\ new.pc = "claim"
    BY <1>1 DEF Worker
<1>3. Knows(new)
    BY <1>2 DEF Knows, Sending
<1>4. crashes' \in 0..MaxCrashes
    BY DEF DispatchStart, Inv, TypeOK
<1> QED
    BY <1>2, <1>3, <1>4, QuietStep DEF DispatchStart

\* A dispatcher dies.
LEMMA CrashStep ==
    ASSUME Inv, NEW w \in Workers, Crash(w)
    PROVE  Inv' /\ Steady
<1>1. Knows(Idle)
    BY IdleWorker DEF Knows, Sending
<1>2. crashes' \in 0..MaxCrashes
    BY WebhookAssumption DEF Crash, Inv, TypeOK
<1> QED
    BY <1>1, <1>2, IdleWorker, QuietStep DEF Crash

\* The attempt cannot be inserted: the batch ends.
LEMMA RecordFailsStep ==
    ASSUME Inv, NEW w \in Workers, RecordFails(w)
    PROVE  Inv' /\ Steady
<1>1. Knows(Idle)
    BY IdleWorker DEF Knows, Sending
<1>2. crashes' \in 0..MaxCrashes
    BY DEF RecordFails, Inv, TypeOK
<1> QED
    BY <1>1, <1>2, IdleWorker, QuietStep DEF RecordFails

\* The request cannot be written: the batch ends.
LEMMA SendRaisesStep ==
    ASSUME Inv, NEW w \in Workers, SendRaises(w)
    PROVE  Inv' /\ Steady
<1>1. Knows(Idle)
    BY IdleWorker DEF Knows, Sending
<1>2. crashes' \in 0..MaxCrashes
    BY DEF SendRaises, Inv, TypeOK
<1> QED
    BY <1>1, <1>2, IdleWorker, QuietStep DEF SendRaises

\* The subscription of the next claimed delivery is read.
LEMMA GetDispatchItemStep ==
    ASSUME Inv, NEW w \in Workers, NEW d \in Deliveries, GetDispatchItem(w, d)
    PROVE  Inv' /\ Steady
<1>0. PICK l \in {"send", "cancel"} :
        worker' = [worker EXCEPT ![w] =
          [worker[w] EXCEPT !.batch = worker[w].batch \ {d}, !.cur = d, !.pc = l]]
    BY DEF GetDispatchItem
<1> DEFINE new == [worker[w] EXCEPT !.batch = worker[w].batch \ {d}, !.cur = d, !.pc = l]
<1>1. worker[w] \in Worker
    BY DEF Inv, TypeOK
<1>2. worker' = [worker EXCEPT ![w] = new]
    BY <1>0
<1>3. new \in Worker /\ new.pc = l /\ new.cur = d
    BY <1>1 DEF Worker
<1>4. Knows(new)
  <2> HIDE DEF new
  <2> QED
    BY <1>1, <1>3 DEF Knows
<1>5. crashes' \in 0..MaxCrashes /\ UNCHANGED <<rows, accepted, admin>>
    BY DEF GetDispatchItem, Inv, TypeOK
<1> HIDE DEF new
<1> QED
    BY <1>2, <1>3, <1>4, <1>5, QuietStep

\* record_delivery_result reads the row: the counts it read are those of a
\* claimed row whose attempts all are in the history.
LEMMA RecordReadStep ==
    ASSUME Inv, NEW w \in Workers, RecordRead(w)
    PROVE  Inv' /\ Steady
<1> DEFINE d == worker[w].cur
           row == delivery[d]
           read == [worker[w] EXCEPT !.pc = "write", !.attempts = row.attempt_count,
                                     !.failures = row.failure_count]
           new == IF row.status = "PROCESSING" THEN read ELSE Idle
<1>1. worker[w] \in Worker /\ Knows(worker[w]) /\ worker[w].pc = "read"
    BY DEF Inv, TypeOK, WorkersOK, RecordRead
<1>2. d \in Deliveries /\ (worker[w].outcome = "SUCCESS" => d \in accepted)
    BY <1>1 DEF Knows, Sending
<1>3. row \in Delivery /\ log[d] \in Seq(Outcomes) /\ History(row, log[d])
    BY <1>2 DEF Inv, TypeOK, RowsOK
<1>4. row.attempt_count \in Nat /\ row.failure_count \in Nat
    BY <1>3 DEF Delivery
<1> HIDE DEF row
<1>5. /\ read \in Worker /\ read.pc = "write" /\ read.cur = d
      /\ read.outcome = worker[w].outcome
      /\ read.attempts = row.attempt_count /\ read.failures = row.failure_count
    BY <1>1, <1>4 DEF Worker
<1> HIDE DEF read
<1>6. CASE row.status = "PROCESSING"
  <2>1. Unrecorded(read.attempts, read.failures, delivery[read.cur], log[read.cur])
    BY <1>3, <1>4, <1>5, <1>6 DEF Unrecorded, History, Matches, row
  <2>2. Knows(read)
    BY <1>2, <1>5, <2>1 DEF Knows
  <2>3. worker' = [worker EXCEPT ![w] = read]
    BY <1>6 DEF RecordRead, read, row
  <2>4. crashes' \in 0..MaxCrashes /\ UNCHANGED <<rows, accepted, admin>>
    BY DEF RecordRead, Inv, TypeOK
  <2> QED
    BY <1>5, <2>2, <2>3, <2>4, QuietStep
<1>7. CASE row.status # "PROCESSING"
  <2>1. worker' = [worker EXCEPT ![w] = Idle]
    BY <1>7 DEF RecordRead, row
  <2>2. Knows(Idle)
    BY IdleWorker DEF Knows, Sending
  <2>3. crashes' \in 0..MaxCrashes /\ UNCHANGED <<rows, accepted, admin>>
    BY DEF RecordRead, Inv, TypeOK
  <2> QED
    BY <2>1, <2>2, <2>3, IdleWorker, QuietStep
<1> QED
    BY <1>6, <1>7

\* A request is sent: a success is recorded only for an accepted delivery.
LEMMA SendStep ==
    ASSUME Inv, NEW w \in Workers, NEW received \in BOOLEAN, NEW outcome \in SendResults,
           Send(w, received, outcome)
    PROVE  Inv' /\ Steady
<1> DEFINE new == [worker[w] EXCEPT !.pc = "read", !.outcome = outcome]
<1>1. /\ worker[w] \in Worker /\ worker[w].cur \in Deliveries
    BY DEF Inv, TypeOK, WorkersOK, Knows, Send, Sending
<1>2. /\ new \in Worker /\ new.pc = "read" /\ new.cur = worker[w].cur
      /\ new.outcome = outcome
    BY <1>1 DEF Worker
<1>3. worker' = [worker EXCEPT ![w] = new]
    BY DEF Send
<1>4. /\ UNCHANGED <<sub, delivery, log, admin, crashes>>
      /\ accepted' = IF received THEN accepted \cup {worker[w].cur} ELSE accepted
      /\ outcome = "SUCCESS" => received
    BY DEF Send, rows
<1> HIDE DEF new
<1>5. /\ worker' \in [Workers -> Worker] /\ worker'[w] = new
      /\ \A v \in Workers \ {w} : worker'[v] = worker[v]
    BY <1>2, <1>3 DEF Inv, TypeOK
<1>6. accepted \subseteq accepted' /\ accepted' \subseteq Deliveries
    BY <1>1, <1>4 DEF Inv, TypeOK
<1>7. Knows(worker[w])'
    BY <1>1, <1>2, <1>4, <1>5 DEF Knows
<1>8. RowsOK'
    BY <1>4, <1>6 DEF Inv, RowsOK
<1>9. Steady
    BY <1>4 DEF Steady, Kept
<1>10. /\ delivery' \in [Deliveries -> Delivery] /\ log' \in [Deliveries -> Seq(Outcomes)]
       /\ crashes' \in 0..MaxCrashes /\ UNCHANGED <<sub, admin>>
    BY <1>4 DEF Inv, TypeOK
<1> QED
    BY <1>5, <1>6, <1>7, <1>8, <1>9, <1>10, DispatcherStep

\* The claim: what is claimed was due or abandoned, what is cancelled was
\* abandoned.
LEMMA ClaimDueStep ==
    ASSUME Inv, NEW w \in Workers, ClaimDue(w)
    PROVE  Inv' /\ Steady
<1>1. PICK batch \in FirstOf(Claimable(w)) :
        /\ delivery' = [d \in Deliveries |->
              IF LeaseExpired(d, w) /\ Subscriber(d).status = "DISABLED"
              THEN Closed(delivery[d], "CANCELLED")
              ELSE IF d \in batch
              THEN [delivery[d] EXCEPT !.status = "PROCESSING",
                      !.lease_expires_at = LeaseSeconds - worker[w].age]
              ELSE delivery[d]]
        /\ worker' = [worker EXCEPT ![w] =
              IF batch = {} THEN Idle
              ELSE [worker[w] EXCEPT !.pc = "next", !.batch = batch]]
    BY DEF ClaimDue
<1>2. UNCHANGED <<sub, log, accepted, admin, crashes>>
    BY DEF ClaimDue
<1>3. batch \subseteq Claimable(w)
    BY DEF FirstOf
<1>4. worker[w] \in Worker /\ batch \in SUBSET Deliveries /\ worker[w].age \in Int
    BY <1>3 DEF Inv, TypeOK, Claimable, Worker
<1> DEFINE new == IF batch = {} THEN Idle
                  ELSE [worker[w] EXCEPT !.pc = "next", !.batch = batch]
<1>5. new \in Worker /\ new.pc \in {"idle", "next"}
    BY <1>4, IdleWorker DEF Worker
<1> HIDE DEF new
<1>6. /\ worker' \in [Workers -> Worker] /\ worker'[w] = new
      /\ \A v \in Workers \ {w} : worker'[v] = worker[v]
    BY <1>1, <1>5 DEF Inv, TypeOK, new
<1>7. Knows(worker[w])'
    BY <1>5, <1>6 DEF Knows, Sending
<1>8. ASSUME NEW d \in Deliveries
      PROVE  /\ delivery'[d] \in Delivery
             /\ History(delivery'[d], log[d])
             /\ delivery'[d].status = "DELIVERED" => d \in accepted
             /\ Kept(d)
  <2>1. /\ delivery[d] \in Delivery /\ log[d] \in Seq(Outcomes)
        /\ History(delivery[d], log[d])
        /\ delivery[d].status = "DELIVERED" => d \in accepted
    BY DEF Inv, TypeOK, RowsOK
  <2>2. CASE LeaseExpired(d, w) /\ Subscriber(d).status = "DISABLED"
    <3>1. delivery'[d] = Closed(delivery[d], "CANCELLED") /\ delivery[d].status = "PROCESSING"
      BY <1>1, <2>2 DEF LeaseExpired
    <3>2. "CANCELLED" \in DeliveryStatus
      BY DEF DeliveryStatus, Settled
    <3>3. /\ delivery'[d] \in Delivery /\ delivery'[d].status = "CANCELLED"
          /\ delivery'[d].attempt_count = delivery[d].attempt_count
          /\ delivery'[d].failure_count = delivery[d].failure_count
      BY <2>1, <3>1, <3>2, ClosedRow
    <3>4. Kept(d)
      BY <1>2, <3>1, <3>3 DEF Kept
    <3> QED
      BY <2>1, <3>1, <3>3, <3>4, ClaimedHistory
  <2>3. CASE ~(LeaseExpired(d, w) /\ Subscriber(d).status = "DISABLED") /\ d \in batch
    <3>1. delivery'[d] = [delivery[d] EXCEPT !.status = "PROCESSING",
                            !.lease_expires_at = LeaseSeconds - worker[w].age]
      BY <1>1, <2>3
    <3>2. delivery[d].status \in Queued \cup {"PROCESSING"}
      BY <1>3, <2>3 DEF Claimable, LeaseExpired
    <3>3. LeaseSeconds - worker[w].age \in Int
      BY <1>4, WebhookAssumption
    <3>4. /\ delivery'[d] \in Delivery /\ delivery'[d].status = "PROCESSING"
          /\ delivery'[d].attempt_count = delivery[d].attempt_count
          /\ delivery'[d].failure_count = delivery[d].failure_count
      BY <2>1, <3>1, <3>3 DEF Delivery, DeliveryStatus
    <3>5. Kept(d)
      BY <1>2, <3>2, <3>4 DEF Kept, Queued
    <3> QED
      BY <2>1, <3>2, <3>4, <3>5, ClaimedHistory
  <2>4. CASE ~(LeaseExpired(d, w) /\ Subscriber(d).status = "DISABLED") /\ d \notin batch
    <3>1. delivery'[d] = delivery[d]
      BY <1>1, <2>4
    <3> QED
      BY <1>2, <2>1, <3>1 DEF Kept
  <2> QED
    BY <2>2, <2>3, <2>4
<1>9. delivery' \in [Deliveries -> Delivery]
    BY <1>1, <1>8
<1>10. RowsOK'
    BY <1>2, <1>8 DEF RowsOK
<1>11. /\ log' \in [Deliveries -> Seq(Outcomes)] /\ crashes' \in 0..MaxCrashes
       /\ accepted \subseteq accepted' /\ accepted' \subseteq Deliveries
    BY <1>2 DEF Inv, TypeOK
<1> QED
  <2>1. Steady
    BY <1>8 DEF Steady
  <2> QED
    BY <1>2, <1>6, <1>7, <1>9, <1>10, <1>11, <2>1, DispatcherStep

\* On to the next delivery: the dispatcher has nothing to know.
LEMMA NextDeliveryWorker ==
    ASSUME Inv, NEW w \in Workers, NextDelivery(w)
    PROVE  /\ worker' \in [Workers -> Worker]
           /\ \A v \in Workers \ {w} : worker'[v] = worker[v]
           /\ Knows(worker[w])'
<1> DEFINE new == IF worker[w].batch = {} THEN Idle
                  ELSE [Idle EXCEPT !.pc = "next", !.age = worker[w].age,
                                    !.batch = worker[w].batch]
<1>1. worker[w] \in Worker /\ worker' = [worker EXCEPT ![w] = new]
    BY DEF Inv, TypeOK, NextDelivery
<1>2. new \in Worker /\ new.pc \in {"idle", "next"}
    BY <1>1, IdleWorker
<1> HIDE DEF new
<1>3. /\ worker' \in [Workers -> Worker] /\ worker'[w] = new
      /\ \A v \in Workers \ {w} : worker'[v] = worker[v]
    BY <1>1, <1>2 DEF Inv, TypeOK
<1> QED
    BY <1>2, <1>3 DEF Knows, Sending

\* A claimed delivery of a disabled subscription is cancelled.
LEMMA CancelProcessingStep ==
    ASSUME Inv, NEW w \in Workers, CancelProcessing(w)
    PROVE  Inv' /\ Steady
<1> DEFINE c == worker[w].cur
<1>1. c \in Deliveries
    BY DEF Inv, WorkersOK, Knows, CancelProcessing, Sending
<1>2. /\ delivery' = [delivery EXCEPT ![c] =
           IF @.status = "PROCESSING" THEN Closed(@, "CANCELLED") ELSE @]
      /\ NextDelivery(w)
      /\ UNCHANGED <<sub, log, accepted, admin, crashes>>
    BY DEF CancelProcessing
<1> HIDE DEF c
<1>3. ASSUME NEW d \in Deliveries
      PROVE  /\ delivery'[d] \in Delivery
             /\ History(delivery'[d], log[d])
             /\ delivery'[d].status = "DELIVERED" => d \in accepted
             /\ Kept(d)
  <2>1. /\ delivery[d] \in Delivery /\ log[d] \in Seq(Outcomes)
        /\ History(delivery[d], log[d])
        /\ delivery[d].status = "DELIVERED" => d \in accepted
    BY DEF Inv, TypeOK, RowsOK
  <2>2. CASE d = c /\ delivery[d].status = "PROCESSING"
    <3>1. delivery'[d] = Closed(delivery[d], "CANCELLED")
      BY <1>2, <2>2 DEF Inv, TypeOK
    <3>2. "CANCELLED" \in DeliveryStatus
      BY DEF DeliveryStatus, Settled
    <3>3. /\ delivery'[d] \in Delivery /\ delivery'[d].status = "CANCELLED"
          /\ delivery'[d].attempt_count = delivery[d].attempt_count
          /\ delivery'[d].failure_count = delivery[d].failure_count
      BY <2>1, <3>1, <3>2, ClosedRow
    <3>4. Kept(d)
      BY <1>2, <2>2, <3>3 DEF Kept
    <3> QED
      BY <2>1, <2>2, <3>3, <3>4, ClaimedHistory
  <2>3. CASE ~(d = c /\ delivery[d].status = "PROCESSING")
    <3>1. delivery'[d] = delivery[d]
      BY <1>2, <2>3 DEF Inv, TypeOK
    <3> QED
      BY <1>2, <2>1, <3>1 DEF Kept
  <2> QED
    BY <2>2, <2>3
<1>4. delivery' \in [Deliveries -> Delivery]
  <2>1. DOMAIN delivery' = Deliveries /\ delivery' = [d \in Deliveries |-> delivery'[d]]
    BY <1>2 DEF Inv, TypeOK
  <2> QED
    BY <1>3, <2>1
<1>5. RowsOK'
    BY <1>2, <1>3 DEF RowsOK
<1>6. /\ log' \in [Deliveries -> Seq(Outcomes)] /\ crashes' \in 0..MaxCrashes
      /\ accepted \subseteq accepted' /\ accepted' \subseteq Deliveries
      /\ UNCHANGED <<sub, admin>>
    BY <1>2 DEF Inv, TypeOK
<1>7. /\ worker' \in [Workers -> Worker]
      /\ \A v \in Workers \ {w} : worker'[v] = worker[v]
      /\ Knows(worker[w])'
    BY <1>2, NextDeliveryWorker
<1> QED
  <2>1. Steady
    BY <1>3 DEF Steady
  <2> QED
    BY <1>4, <1>5, <1>6, <1>7, <2>1, DispatcherStep

\* What an appended attempt leaves of the history before it.
LEMMA AppendedAttempt ==
    ASSUME NEW lg \in Seq(Outcomes), NEW o \in Outcomes
    PROVE  /\ Append(lg, o) \in Seq(Outcomes)
           /\ Len(Append(lg, o)) = Len(lg) + 1
           /\ \A k \in 1..Len(lg) : Append(lg, o)[k] = lg[k]
           /\ Append(lg, o)[Len(lg) + 1] = o
           /\ Len(lg) \in Nat
           /\ SubSeq(Append(lg, o), 1, Len(lg)) = lg
<1>1. /\ Append(lg, o) \in Seq(Outcomes)
      /\ Len(Append(lg, o)) = Len(lg) + 1
      /\ \A k \in 1..Len(lg) : Append(lg, o)[k] = lg[k]
      /\ Append(lg, o)[Len(lg) + 1] = o
      /\ Len(lg) \in Nat
    OBVIOUS
<1>2. SubSeq(Append(lg, o), 1, Len(lg)) = lg
    OBVIOUS
<1> QED
    BY <1>1, <1>2

\* The row a recorded outcome leaves has a correct history.
LEMMA RecordedHistory ==
    ASSUME Inv, NEW w \in Workers, NEW row \in Delivery, NEW lg \in Seq(Outcomes),
           NEW status, History(row, lg), row.status = "PROCESSING",
           worker[w].attempts = Len(lg), worker[w].failures = row.failure_count,
           row.attempt_count = Len(lg), worker[w].outcome \in Outcomes
    PROVE  LET new == Recorded(row, w, status)
               lg2 == Append(lg, worker[w].outcome)
           IN /\ new \in Delivery
              /\ History(new, lg2)
              /\ new.status = "DELIVERED" => worker[w].outcome = "SUCCESS"
<1> DEFINE o == worker[w].outcome
           n == Len(lg)
           f == row.failure_count
           new == Recorded(row, w, status)
           lg2 == Append(lg, o)
           attempted == [row EXCEPT !.attempt_count = worker[w].attempts + 1]
           failed == [attempted EXCEPT !.failure_count = worker[w].failures + 1]
           succeeded == [attempted EXCEPT !.failure_count = 0]
<1>1. /\ o \in Outcomes /\ n \in Nat /\ f \in Nat /\ worker[w].age \in Int
      /\ MaxAttempts \in Nat \ {0}
    BY WebhookAssumption DEF Inv, TypeOK, Worker, Delivery
<1>2. /\ lg2 \in Seq(Outcomes) /\ Len(lg2) = n + 1
      /\ \A k \in 1..n : lg2[k] = lg[k]
      /\ lg2[n + 1] = o
    BY <1>1, AppendedAttempt
<1>3. /\ attempted \in Delivery /\ attempted.attempt_count = n + 1
      /\ attempted.failure_count = f
    BY <1>1 DEF Delivery
<1>4. /\ f <= n /\ f < MaxAttempts
      /\ \A k \in (n - f + 1)..n : lg[k] = "FAILURE"
      /\ \A k \in 1..n : lg[k] # "SUCCESS"
    BY DEF History, Cycle, Evidence
<1> HIDE DEF attempted, lg2
<1>5. /\ failed \in Delivery /\ failed.attempt_count = n + 1
      /\ failed.failure_count = f + 1
    BY <1>1, <1>3 DEF Delivery
<1>6. /\ succeeded \in Delivery /\ succeeded.attempt_count = n + 1
      /\ succeeded.failure_count = 0
    BY <1>3 DEF Delivery
<1> HIDE DEF failed, succeeded
<1>7. CASE o = "SUCCESS"
  <2>1. new = Closed(succeeded, "DELIVERED")
    BY <1>7 DEF Recorded, succeeded, attempted
  <2>2. "DELIVERED" \in DeliveryStatus
    BY DEF DeliveryStatus, Settled
  <2> HIDE DEF new
  <2>3. /\ new \in Delivery /\ new.status = "DELIVERED"
        /\ new.attempt_count = n + 1 /\ new.failure_count = 0
    BY <1>6, <2>1, <2>2, ClosedRow
  <2>4. History(new, lg2)
    BY <1>1, <1>2, <1>7, <2>3 DEF History, Matches, Cycle, Evidence, Queued
  <2> QED
    BY <1>7, <2>3, <2>4 DEF new, lg2
<1>8. CASE o # "SUCCESS"
  <2>1. o = "FAILURE"
    BY <1>1, <1>8 DEF Outcomes
  <2>2. \A k \in (n - f + 1)..(n + 1) : lg2[k] = "FAILURE"
    BY <1>1, <1>2, <1>4, <2>1
  <2>3. \A k \in 1..Len(lg2) : lg2[k] # "SUCCESS"
    BY <1>1, <1>2, <1>4, <2>1
  <2>4. ASSUME NEW r \in Delivery, r.attempt_count = n + 1, r.failure_count = f + 1,
               \/ r.status = "CANCELLED"
               \/ r.status = "DEAD_LETTER" /\ f + 1 >= MaxAttempts
               \/ r.status = "RETRY_SCHEDULED" /\ ~(f + 1 >= MaxAttempts)
        PROVE  History(r, lg2) /\ r.status # "DELIVERED"
    BY <1>1, <1>2, <1>4, <2>2, <2>3, <2>4
    DEF History, Matches, Cycle, Evidence, Queued
  <2>5. CASE status = "DISABLED"
    <3>1. new = Closed(failed, "CANCELLED")
      BY <1>8, <2>5 DEF Recorded, failed, attempted
    <3>2. "CANCELLED" \in DeliveryStatus
      BY DEF DeliveryStatus, Settled
    <3> HIDE DEF new
    <3>3. /\ new \in Delivery /\ new.status = "CANCELLED"
          /\ new.attempt_count = n + 1 /\ new.failure_count = f + 1
      BY <1>5, <3>1, <3>2, ClosedRow
    <3> QED
      BY <2>4, <3>3 DEF new, lg2
  <2>6. CASE status # "DISABLED" /\ f + 1 >= MaxAttempts
    <3>1. new = Closed(failed, "DEAD_LETTER")
      BY <1>8, <2>6 DEF Recorded, failed, attempted
    <3>2. "DEAD_LETTER" \in DeliveryStatus
      BY DEF DeliveryStatus, Settled
    <3> HIDE DEF new
    <3>3. /\ new \in Delivery /\ new.status = "DEAD_LETTER"
          /\ new.attempt_count = n + 1 /\ new.failure_count = f + 1
      BY <1>5, <3>1, <3>2, ClosedRow
    <3> QED
      BY <2>4, <2>6, <3>3 DEF new, lg2
  <2>7. CASE status # "DISABLED" /\ ~(f + 1 >= MaxAttempts)
    <3> DEFINE closed == Closed(failed, "RETRY_SCHEDULED")
               next == RetryDelay(f + 1) - worker[w].age
    <3>1. new = [closed EXCEPT !.next_attempt_at = next]
      BY <1>8, <2>7 DEF Recorded, failed, attempted
    <3>2. next \in Int
      BY <1>1, WebhookAssumption DEF RetryDelay
    <3>3. "RETRY_SCHEDULED" \in DeliveryStatus
      BY DEF DeliveryStatus, Queued
    <3>4. /\ closed \in Delivery /\ closed.status = "RETRY_SCHEDULED"
          /\ closed.attempt_count = n + 1 /\ closed.failure_count = f + 1
      BY <1>5, <3>3, ClosedRow
    <3> HIDE DEF new, closed, next
    <3>5. /\ new \in Delivery /\ new.status = "RETRY_SCHEDULED"
          /\ new.attempt_count = n + 1 /\ new.failure_count = f + 1
      BY <3>1, <3>2, <3>4 DEF Delivery
    <3> QED
      BY <2>4, <2>7, <3>5 DEF new, lg2
  <2> QED
    BY <2>5, <2>6, <2>7
<1> QED
    BY <1>7, <1>8

\* The result is recorded: with a free attempt number the row is as it was
\* read, or cancelled, so that the history grows by exactly this attempt.
LEMMA RecordWriteStep ==
    ASSUME Inv, NEW w \in Workers, RecordWrite(w)
    PROVE  Inv' /\ Steady
<1> DEFINE c == worker[w].cur
           o == worker[w].outcome
<1>1. /\ c \in Deliveries /\ o \in Outcomes
      /\ o = "SUCCESS" => c \in accepted
      /\ Unrecorded(worker[w].attempts, worker[w].failures, delivery[c], log[c])
    BY DEF Inv, TypeOK, Worker, WorkersOK, Knows, RecordWrite, Sending,
           AttemptInsertable, StatusStorable, SendResults
<1>2. /\ log' = [log EXCEPT ![c] = Append(@, o)]
      /\ delivery' = [delivery EXCEPT ![c] =
           IF @.status = "PROCESSING"
           THEN Recorded(@, w, Subscriber(c).status) ELSE @]
      /\ NextDelivery(w)
      /\ UNCHANGED <<sub, accepted, admin, crashes>>
      /\ Len(log[c]) = worker[w].attempts
    BY DEF RecordWrite, AttemptInsertable
<1>3. /\ delivery[c] \in Delivery /\ log[c] \in Seq(Outcomes)
      /\ History(delivery[c], log[c])
    BY <1>1 DEF Inv, TypeOK, RowsOK
<1>4. /\ delivery[c].status \in {"PROCESSING", "CANCELLED"}
      /\ delivery[c].attempt_count = Len(log[c])
      /\ delivery[c].failure_count = worker[w].failures
    BY <1>1, <1>2 DEF Unrecorded
<1>5. log'[c] = Append(log[c], o) /\ \A d \in Deliveries \ {c} : log'[d] = log[d]
    BY <1>1, <1>2 DEF Inv, TypeOK
<1>6. /\ log' \in [Deliveries -> Seq(Outcomes)] /\ Len(log[c]) < Len(log'[c])
      /\ SubSeq(log'[c], 1, Len(log[c])) = log[c]
  <2>1. /\ Append(log[c], o) \in Seq(Outcomes) /\ Len(log[c]) < Len(Append(log[c], o))
        /\ SubSeq(Append(log[c], o), 1, Len(log[c])) = log[c]
    BY <1>1, <1>3, AppendedAttempt
  <2> QED
    BY <1>2, <1>5, <2>1 DEF Inv, TypeOK
<1>7. /\ delivery'[c] \in Delivery /\ History(delivery'[c], log'[c])
      /\ delivery'[c].status = "DELIVERED" => c \in accepted
  <2>1. CASE delivery[c].status = "PROCESSING"
    <3>1. delivery'[c] = Recorded(delivery[c], w, Subscriber(c).status)
      BY <1>1, <1>2, <2>1 DEF Inv, TypeOK
    <3> HIDE DEF c, o
    <3>2. LET new == Recorded(delivery[c], w, Subscriber(c).status)
              lg2 == Append(log[c], worker[w].outcome)
          IN /\ new \in Delivery
             /\ History(new, lg2)
             /\ new.status = "DELIVERED" => worker[w].outcome = "SUCCESS"
      BY <1>1, <1>2, <1>3, <1>4, <2>1, RecordedHistory DEF o
    <3> QED
      BY <1>1, <1>5, <3>1, <3>2 DEF o
  <2>2. CASE delivery[c].status = "CANCELLED"
    <3>1. delivery'[c] = delivery[c]
      BY <1>1, <1>2, <2>2 DEF Inv, TypeOK
    <3> DEFINE n == Len(log[c])
    <3>2. /\ n \in Nat /\ Len(log'[c]) = n + 1
          /\ \A k \in 1..n : log'[c][k] = log[c][k]
      BY <1>1, <1>3, <1>5, AppendedAttempt
    <3>3. delivery[c].failure_count \in Nat /\ delivery[c].failure_count <= n
      BY <1>3, <1>4 DEF Delivery, History, Cycle
    <3>4. Cycle(delivery[c], log'[c])
      BY <1>3, <1>4, <2>2, <3>2, <3>3 DEF History, Cycle
    <3>5. History(delivery[c], log'[c])
      BY <1>4, <2>2, <3>2, <3>4 DEF History, Matches, Evidence
    <3> QED
      BY <1>3, <2>2, <3>1, <3>5
  <2> QED
    BY <1>4, <2>1, <2>2
<1>8. \A d \in Deliveries \ {c} : delivery'[d] = delivery[d]
    BY <1>1, <1>2 DEF Inv, TypeOK
<1>9. delivery' \in [Deliveries -> Delivery]
  <2>1. delivery' = [d \in Deliveries |-> delivery'[d]]
    BY <1>2 DEF Inv, TypeOK
  <2>2. \A d \in Deliveries : delivery'[d] \in Delivery
    BY <1>7, <1>8 DEF Inv, TypeOK
  <2> QED
    BY <2>1, <2>2
<1>10. RowsOK'
  <2> SUFFICES ASSUME NEW d \in Deliveries
               PROVE  /\ History(delivery'[d], log'[d])
                      /\ delivery'[d].status = "DELIVERED" => d \in accepted
    BY <1>2 DEF RowsOK
  <2>1. CASE d = c
    BY <1>7, <2>1
  <2>2. CASE d # c
    BY <1>5, <1>8, <2>2 DEF Inv, RowsOK
  <2> QED
    BY <2>1, <2>2
<1>11. Steady
  <2>1. delivery[c].status \in {"DELIVERED", "CANCELLED"} => delivery'[c] = delivery[c]
    BY <1>1, <1>2, <1>4 DEF Inv, TypeOK
  <2> QED
    BY <1>5, <1>6, <1>8, <2>1 DEF Steady, Kept
<1>12. /\ crashes' \in 0..MaxCrashes
       /\ accepted \subseteq accepted' /\ accepted' \subseteq Deliveries
       /\ UNCHANGED <<sub, admin>>
    BY <1>2 DEF Inv, TypeOK
<1>13. /\ worker' \in [Workers -> Worker]
       /\ \A v \in Workers \ {w} : worker'[v] = worker[v]
       /\ Knows(worker[w])'
    BY <1>2, NextDeliveryWorker
<1> QED
    BY <1>6, <1>9, <1>10, <1>11, <1>12, <1>13, DispatcherStep

-----------------------------------------------------------------------------
(* Time, events and administrators                                         *)

\* A step that leaves dispatchers, history and acceptances alone and takes
\* every delivery row along one of the ways the code has.
RowMove(d) ==
    \/ delivery'[d] = delivery[d]
    \/ delivery[d].status = "NONE" /\ delivery'[d] = Fresh
    \/ /\ delivery[d].status \in Queued
       /\ delivery'[d] = Closed(delivery[d], "CANCELLED")
    \/ /\ delivery[d].status = "DEAD_LETTER"
       /\ delivery'[d].status = "PENDING"
       /\ delivery'[d].attempt_count = delivery[d].attempt_count
       /\ delivery'[d].failure_count = 0

LEMMA RowMoves ==
    ASSUME Inv, delivery' \in [Deliveries -> Delivery],
           UNCHANGED <<log, accepted>>,
           \A d \in Deliveries : RowMove(d)
    PROVE  RowsOK' /\ Steady
<1> SUFFICES ASSUME NEW d \in Deliveries
             PROVE  /\ History(delivery'[d], log[d])
                    /\ delivery'[d].status = "DELIVERED" => d \in accepted
                    /\ Kept(d)
    BY DEF RowsOK, Steady
<1>1. /\ delivery[d] \in Delivery /\ delivery'[d] \in Delivery
      /\ log[d] \in Seq(Outcomes) /\ History(delivery[d], log[d])
      /\ delivery[d].status = "DELIVERED" => d \in accepted
      /\ log'[d] = log[d]
    BY DEF Inv, TypeOK, RowsOK
<1>2. CASE delivery'[d] = delivery[d]
    BY <1>1, <1>2 DEF Kept
<1>3. CASE delivery[d].status = "NONE" /\ delivery'[d] = Fresh
  <2>1. Fresh.status = "PENDING"
    BY DEF Fresh, NoDelivery
  <2> QED
    BY <1>1, <1>3, <2>1, FreshHistory DEF Kept
<1>4. CASE delivery[d].status \in Queued /\ delivery'[d] = Closed(delivery[d], "CANCELLED")
  <2>1. "CANCELLED" \in DeliveryStatus
    BY DEF DeliveryStatus, Settled
  <2>2. /\ delivery'[d].status = "CANCELLED"
        /\ delivery'[d].attempt_count = delivery[d].attempt_count
        /\ delivery'[d].failure_count = delivery[d].failure_count
    BY <1>1, <1>4, <2>1, ClosedRow
  <2>3. History(delivery'[d], log[d])
    BY <1>1, <1>4, <2>2, ClaimedHistory
  <2> QED
    BY <1>1, <1>4, <2>2, <2>3 DEF Kept, Queued
<1>5. CASE /\ delivery[d].status = "DEAD_LETTER" /\ delivery'[d].status = "PENDING"
           /\ delivery'[d].attempt_count = delivery[d].attempt_count
           /\ delivery'[d].failure_count = 0
    BY <1>1, <1>5, RedeliveredHistory DEF Kept
<1> QED
    BY <1>2, <1>3, <1>4, <1>5 DEF RowMove

\* A step of the subscription operations: rows move, subscriptions go forward.
LEMMA OutboxStep ==
    ASSUME Inv, sub' \in [Subscriptions -> Subscription],
           delivery' \in [Deliveries -> Delivery], admin' \in [Admins -> Admin],
           UNCHANGED <<log, accepted, worker, crashes>>,
           \A d \in Deliveries : RowMove(d)
    PROVE  TypeOK' /\ RowsOK' /\ WorkersOK' /\ Steady
<1>1. TypeOK'
    BY DEF Inv, TypeOK
<1>2. RowsOK' /\ Steady
    BY RowMoves
<1>3. \A w \in Workers : SamePlace(worker[w], worker'[w])
    BY DEF SamePlace
<1> QED
    BY <1>1, <1>2, <1>3, WorkersCarry DEF Inv

\* Time goes on.
LEMMA TickStep ==
    ASSUME Inv, Tick
    PROVE  Inv' /\ Steady
<1>1. /\ UNCHANGED <<sub, log, accepted, admin, crashes>>
      /\ \A w \in Workers : worker[w].pc # "idle" => worker[w].age < MaxAge
      /\ worker' = [w \in Workers |->
           IF worker[w].pc = "idle" THEN worker[w]
           ELSE [worker[w] EXCEPT !.age = @ + 1]]
    BY DEF Tick
<1>2. ASSUME NEW d \in Deliveries
      PROVE  /\ delivery'[d] \in Delivery
             /\ delivery'[d].status = delivery[d].status
             /\ delivery'[d].attempt_count = delivery[d].attempt_count
             /\ delivery'[d].failure_count = delivery[d].failure_count
             /\ delivery[d].status \in {"DELIVERED", "CANCELLED"} =>
                  delivery'[d] = delivery[d]
  <2> DEFINE row == delivery[d]
             nx == IF row.status \in Queued \cup {"PROCESSING"}
                   THEN Earlier(row.next_attempt_at) ELSE row.next_attempt_at
             le == IF row.status = "PROCESSING"
                   THEN Earlier(row.lease_expires_at) ELSE row.lease_expires_at
  <2>1. delivery'[d] = [row EXCEPT !.next_attempt_at = nx, !.lease_expires_at = le]
    BY DEF Tick
  <2>2. row \in Delivery
    BY DEF Inv, TypeOK
  <2>3. nx \in Int /\ le \in Int
    BY <2>2, WebhookAssumption DEF Earlier, Delivery
  <2>4. row.status \in {"DELIVERED", "CANCELLED"} =>
          nx = row.next_attempt_at /\ le = row.lease_expires_at
    BY DEF Queued
  <2> HIDE DEF row, nx, le
  <2>5. [row EXCEPT !.next_attempt_at = row.next_attempt_at,
                    !.lease_expires_at = row.lease_expires_at] = row
    BY <2>2 DEF Delivery
  <2>6. /\ [row EXCEPT !.next_attempt_at = nx, !.lease_expires_at = le] \in Delivery
        /\ [row EXCEPT !.next_attempt_at = nx, !.lease_expires_at = le].status = row.status
        /\ [row EXCEPT !.next_attempt_at = nx, !.lease_expires_at = le].attempt_count
             = row.attempt_count
        /\ [row EXCEPT !.next_attempt_at = nx, !.lease_expires_at = le].failure_count
             = row.failure_count
    BY <2>2, <2>3 DEF Delivery
  <2> QED
    BY <2>1, <2>4, <2>5, <2>6 DEF row
<1>3. delivery' \in [Deliveries -> Delivery]
    BY <1>2 DEF Tick
<1>4. RowsOK'
  <2> SUFFICES ASSUME NEW d \in Deliveries
               PROVE  /\ History(delivery'[d], log[d])
                      /\ delivery'[d].status = "DELIVERED" => d \in accepted
    BY <1>1 DEF RowsOK
  <2>1. /\ delivery[d] \in Delivery /\ log[d] \in Seq(Outcomes)
        /\ History(delivery[d], log[d])
        /\ delivery[d].status = "DELIVERED" => d \in accepted
    BY DEF Inv, TypeOK, RowsOK
  <2> QED
    BY <1>2, <2>1, MovedHistory
<1>5. Steady
    BY <1>1, <1>2 DEF Steady, Kept
<1>6. ASSUME NEW w \in Workers
      PROVE  worker'[w] \in Worker /\ SamePlace(worker[w], worker'[w])
  <2>1. worker[w] \in Worker
    BY DEF Inv, TypeOK
  <2>2. CASE worker[w].pc = "idle"
    BY <1>1, <2>1, <2>2 DEF SamePlace
  <2>3. CASE worker[w].pc # "idle"
    <3>1. worker'[w] = [worker[w] EXCEPT !.age = worker[w].age + 1]
      BY <1>1, <2>3
    <3>2. worker[w].age + 1 \in 0..MaxAge
      BY <1>1, <2>1, <2>3, WebhookAssumption DEF Worker
    <3> QED
      BY <2>1, <3>1, <3>2 DEF Worker, SamePlace
  <2> QED
    BY <2>2, <2>3
<1>7. TypeOK'
  <2>1. worker' \in [Workers -> Worker]
    BY <1>1, <1>6
  <2> QED
    BY <1>1, <1>3, <2>1 DEF Inv, TypeOK
<1>8. WorkersOK'
    BY <1>1, <1>5, <1>6, <1>7, WorkersCarry DEF Inv
<1>9. SubsOK' /\ AdminsOK' /\ RotationsDistinct'
    BY <1>1 DEF Inv, SubsOK, AdminsOK, AdminOK, RotationsDistinct
<1> QED
    BY <1>4, <1>5, <1>7, <1>8, <1>9 DEF Inv

\* A subscription without changes goes forward.
LEMMA SameForward ==
    ASSUME TypeOK, NEW s \in Subscriptions, sub'[s] = sub[s]
    PROVE  Forward(s)
<1>1. sub[s].secret_version \in Nat
    BY DEF TypeOK, Subscription
<1> QED
    BY <1>1 DEF Forward

\* A mutation of the project appends its event.
LEMMA BusinessMutationStep ==
    ASSUME Inv, BusinessMutation
    PROVE  Inv' /\ Steady
<1>1. UNCHANGED <<sub, log, accepted, worker, admin, crashes>>
    BY DEF BusinessMutation
<1>2. /\ delivery' \in [Deliveries -> Delivery]
      /\ \A d \in Deliveries :
           \/ delivery'[d] = delivery[d]
           \/ delivery[d].status = "NONE" /\ delivery'[d] = Fresh
    BY EnqueueRows DEF BusinessMutation, Inv, TypeOK
<1>3. \A d \in Deliveries : RowMove(d)
    BY <1>2 DEF RowMove
<1>4. TypeOK' /\ RowsOK' /\ WorkersOK' /\ Steady
    BY <1>1, <1>2, <1>3, OutboxStep DEF Inv, TypeOK
<1>5. SubsOK' /\ AdminsOK' /\ RotationsDistinct'
    BY <1>1 DEF Inv, SubsOK, AdminsOK, AdminOK, RotationsDistinct
<1> QED
    BY <1>4, <1>5 DEF Inv

\* A subscription is created.
LEMMA CreateSubscriptionStep ==
    ASSUME Inv, NEW s \in Subscriptions, CreateSubscription(s)
    PROVE  Inv' /\ Steady
<1>1. /\ UNCHANGED <<log, accepted, worker, admin, crashes>>
      /\ sub[s].status = "NONE"
      /\ sub' = [sub EXCEPT ![s] = [status |-> "ACTIVE", secret_version |-> 1]]
    BY DEF CreateSubscription
<1>2. /\ delivery' \in [Deliveries -> Delivery]
      /\ \A d \in Deliveries :
           \/ delivery'[d] = delivery[d]
           \/ delivery[d].status = "NONE" /\ delivery'[d] = Fresh
    BY EnqueueRows DEF CreateSubscription, Inv, TypeOK
<1>3. \A d \in Deliveries : RowMove(d)
    BY <1>2 DEF RowMove
<1>4. sub' \in [Subscriptions -> Subscription]
    BY <1>1 DEF Inv, TypeOK, Subscription
<1>5. TypeOK' /\ RowsOK' /\ WorkersOK' /\ Steady
    BY <1>1, <1>2, <1>3, <1>4, OutboxStep DEF Inv, TypeOK
<1>6. SubsOK' /\ AdminsOK' /\ RotationsDistinct'
  <2>1. sub'[s].status = "ACTIVE" /\ sub'[s].secret_version = 1
    BY <1>1 DEF Inv, TypeOK
  <2>2. \A t \in Subscriptions \ {s} : sub'[t] = sub[t]
    BY <1>1 DEF Inv, TypeOK
  <2>3. Forward(s)
    BY <1>1, <2>1 DEF Inv, SubsOK, Forward
  <2>4. \A t \in Subscriptions : Forward(t)
    BY <2>2, <2>3, SameForward DEF Inv
  <2>5. SubsOK'
    BY <2>1, <2>2 DEF Inv, SubsOK
  <2> QED
    BY <1>1, <1>5, <2>4, <2>5, AdminsCarry DEF Inv
<1> QED
    BY <1>5, <1>6 DEF Inv

\* A read of an administrator request: what it read exists.
LEMMA AdminReadStep ==
    ASSUME Inv, NEW a \in Admins, NEW l \in {"redeliver", "disable", "rotate"},
           NEW of \in Deliveries \cup Subscriptions, NEW version \in Nat,
           AdminGoto(a, l, of, version),
           l = "redeliver" => of \in Deliveries,
           l # "redeliver" => of \in Subscriptions /\ sub[of].status # "NONE"
    PROVE  Inv' /\ Steady
<1>1. /\ admin' = [admin EXCEPT ![a] = [pc |-> l, of |-> of, version |-> version]]
      /\ UNCHANGED <<sub, delivery, log, accepted, worker, crashes>>
    BY DEF AdminGoto, rows
<1>2. admin' \in [Admins -> Admin]
    BY <1>1 DEF Inv, TypeOK, Admin
<1>3. \A d \in Deliveries : RowMove(d)
    BY <1>1 DEF RowMove
<1>4. TypeOK' /\ RowsOK' /\ WorkersOK' /\ Steady /\ SubsOK'
    BY <1>1, <1>2, <1>3, OutboxStep DEF Inv, TypeOK, SubsOK
<1>5. \A s \in Subscriptions : Forward(s)
    BY <1>1, SameForward DEF Inv
<1>6. /\ admin'[a].pc = l /\ admin'[a].of = of
      /\ \A b \in Admins \ {a} : admin'[b] = admin[b]
    BY <1>1 DEF Inv, TypeOK
<1>7. AdminOK(a)'
    BY <1>1, <1>6 DEF AdminOK
<1> QED
    BY <1>4, <1>5, <1>6, <1>7, AdminsCarry DEF Inv

\* A request that ends without a new secret has its facts.
LEMMA DoneAdmin ==
    ASSUME Inv, NEW a \in Admins, AdminDone(a, 0)
    PROVE  /\ admin' \in [Admins -> Admin]
           /\ \A b \in Admins :
                \/ admin'[b] = admin[b]
                \/ AdminOK(b)' /\ (admin'[b].pc = "done" => admin'[b].version = 0)
           /\ UNCHANGED <<log, accepted, worker, crashes>>
<1> DEFINE new == [admin[a] EXCEPT !.pc = "done", !.version = 0]
<1>1. admin[a] \in Admin /\ admin' = [admin EXCEPT ![a] = new]
    BY DEF Inv, TypeOK, AdminDone
<1>2. new \in Admin /\ new.pc = "done" /\ new.version = 0
    BY <1>1 DEF Admin
<1> HIDE DEF new
<1>3. /\ admin' \in [Admins -> Admin] /\ admin'[a] = new
      /\ \A b \in Admins \ {a} : admin'[b] = admin[b]
    BY <1>1, <1>2 DEF Inv, TypeOK
<1>4. AdminOK(a)'
    BY <1>2, <1>3 DEF AdminOK
<1> QED
    BY <1>2, <1>3, <1>4 DEF AdminDone

\* A refused request changes nothing.
LEMMA AdminRefusedStep ==
    ASSUME Inv, NEW a \in Admins, AdminRefused(a)
    PROVE  Inv' /\ Steady
<1>1. AdminDone(a, 0) /\ UNCHANGED <<sub, delivery>>
    BY DEF AdminRefused
<1>2. /\ admin' \in [Admins -> Admin]
      /\ \A b \in Admins :
           \/ admin'[b] = admin[b]
           \/ AdminOK(b)' /\ (admin'[b].pc = "done" => admin'[b].version = 0)
      /\ UNCHANGED <<log, accepted, worker, crashes>>
    BY <1>1, DoneAdmin
<1>3. \A d \in Deliveries : RowMove(d)
    BY <1>1 DEF RowMove
<1>4. TypeOK' /\ RowsOK' /\ WorkersOK' /\ Steady /\ SubsOK'
    BY <1>1, <1>2, <1>3, OutboxStep DEF Inv, TypeOK, SubsOK
<1>5. \A s \in Subscriptions : Forward(s)
    BY <1>1, SameForward DEF Inv
<1> QED
    BY <1>2, <1>4, <1>5, AdminsCarry DEF Inv

\* A redelivery queues a dead letter, and nothing else.
LEMMA RedeliverCommitStep ==
    ASSUME Inv, NEW a \in Admins, RedeliverCommit(a)
    PROVE  Inv' /\ Steady
<1> DEFINE c == admin[a].of
           row == [delivery[c] EXCEPT !.status = "PENDING", !.failure_count = 0,
                     !.redelivery_count = delivery[c].redelivery_count + 1,
                     !.next_attempt_at = 0, !.lease_expires_at = 0]
           del == IF delivery[c].status = "DEAD_LETTER"
                  THEN [delivery EXCEPT ![c] = row] ELSE delivery
<1>1. /\ Enqueue("admin", sub, del) /\ AdminDone(a, 0) /\ UNCHANGED sub
    BY DEF RedeliverCommit
<1>2. c \in Deliveries
    BY DEF Inv, AdminsOK, AdminOK, RedeliverCommit
<1>3. delivery[c] \in Delivery
    BY <1>2 DEF Inv, TypeOK
<1>4. /\ row \in Delivery /\ row.status = "PENDING" /\ row.failure_count = 0
      /\ row.attempt_count = delivery[c].attempt_count
  <2> DEFINE r0 == [delivery[c] EXCEPT !.status = "PENDING"]
             r1 == [r0 EXCEPT !.failure_count = 0]
             r2 == [r1 EXCEPT !.redelivery_count = delivery[c].redelivery_count + 1]
             r3 == [r2 EXCEPT !.next_attempt_at = 0]
             r4 == [r3 EXCEPT !.lease_expires_at = 0]
  <2>0. delivery[c].redelivery_count + 1 \in Nat
    BY <1>3 DEF Delivery
  <2>1. r0 \in Delivery /\ r0.status = "PENDING" /\ r0.attempt_count = delivery[c].attempt_count
    BY <1>3 DEF Delivery, DeliveryStatus, Queued
  <2> HIDE DEF r0
  <2>2. /\ r1 \in Delivery /\ r1.status = "PENDING" /\ r1.failure_count = 0
        /\ r1.attempt_count = delivery[c].attempt_count
    BY <2>1 DEF Delivery
  <2> HIDE DEF r1
  <2>3. /\ r2 \in Delivery /\ r2.status = "PENDING" /\ r2.failure_count = 0
        /\ r2.attempt_count = delivery[c].attempt_count
    BY <2>0, <2>2 DEF Delivery
  <2> HIDE DEF r2
  <2>4. /\ r3 \in Delivery /\ r3.status = "PENDING" /\ r3.failure_count = 0
        /\ r3.attempt_count = delivery[c].attempt_count
    BY <2>3 DEF Delivery
  <2> HIDE DEF r3
  <2>5. /\ r4 \in Delivery /\ r4.status = "PENDING" /\ r4.failure_count = 0
        /\ r4.attempt_count = delivery[c].attempt_count
    BY <2>4 DEF Delivery
  <2>6. row = r4
    BY DEF r0, r1, r2, r3
  <2> QED
    BY <2>5, <2>6
<1> HIDE DEF row, c
<1>5. del \in [Deliveries -> Delivery]
    BY <1>2, <1>4 DEF Inv, TypeOK
<1>6. \A d \in Deliveries :
        \/ del[d] = delivery[d]
        \/ d = c /\ del[d] = row /\ delivery[d].status = "DEAD_LETTER"
    BY <1>2 DEF Inv, TypeOK
<1> HIDE DEF del
<1>7. /\ delivery' \in [Deliveries -> Delivery]
      /\ \A d \in Deliveries :
           delivery'[d] = del[d] \/ (del[d].status = "NONE" /\ delivery'[d] = Fresh)
    BY <1>1, <1>5, EnqueueRows
<1>8. \A d \in Deliveries : RowMove(d)
    BY <1>4, <1>6, <1>7 DEF RowMove
<1>9. /\ admin' \in [Admins -> Admin]
      /\ \A b \in Admins :
           \/ admin'[b] = admin[b]
           \/ AdminOK(b)' /\ (admin'[b].pc = "done" => admin'[b].version = 0)
      /\ UNCHANGED <<log, accepted, worker, crashes>>
    BY <1>1, DoneAdmin
<1>10. TypeOK' /\ RowsOK' /\ WorkersOK' /\ Steady /\ SubsOK'
    BY <1>1, <1>7, <1>8, <1>9, OutboxStep DEF Inv, TypeOK, SubsOK
<1>11. \A s \in Subscriptions : Forward(s)
    BY <1>1, SameForward DEF Inv
<1> QED
    BY <1>9, <1>10, <1>11, AdminsCarry DEF Inv

\* A disable cancels what is queued.
LEMMA DisableCommitStep ==
    ASSUME Inv, NEW a \in Admins, DisableCommit(a)
    PROVE  Inv' /\ Steady
<1> DEFINE s == admin[a].of
           del == [d \in Deliveries |->
                     IF d[2] = s /\ delivery[d].status \in Queued
                     THEN Closed(delivery[d], "CANCELLED") ELSE delivery[d]]
<1>1. /\ sub' = [sub EXCEPT ![s] = [@ EXCEPT !.status = "DISABLED"]]
      /\ Enqueue("admin", sub', del) /\ AdminDone(a, 0)
    BY DEF DisableCommit
<1>2. s \in Subscriptions /\ sub[s] \in Subscription
    BY DEF Inv, TypeOK, AdminsOK, AdminOK, DisableCommit
<1> HIDE DEF s
<1>3. ASSUME NEW d \in Deliveries
      PROVE  /\ del[d] \in Delivery
             /\ \/ del[d] = delivery[d]
                \/ /\ delivery[d].status \in Queued
                   /\ del[d] = Closed(delivery[d], "CANCELLED")
                   /\ del[d].status # "NONE"
  <2>1. delivery[d] \in Delivery /\ "CANCELLED" \in DeliveryStatus
    BY DEF Inv, TypeOK, DeliveryStatus, Settled
  <2> QED
    BY <2>1, ClosedRow
<1>4. del \in [Deliveries -> Delivery]
    BY <1>3
<1> HIDE DEF del
<1>5. /\ delivery' \in [Deliveries -> Delivery]
      /\ \A d \in Deliveries :
           delivery'[d] = del[d] \/ (del[d].status = "NONE" /\ delivery'[d] = Fresh)
    BY <1>1, <1>4, EnqueueRows
<1>6. \A d \in Deliveries : RowMove(d)
    BY <1>3, <1>5 DEF RowMove
<1>7. /\ admin' \in [Admins -> Admin]
      /\ \A b \in Admins :
           \/ admin'[b] = admin[b]
           \/ AdminOK(b)' /\ (admin'[b].pc = "done" => admin'[b].version = 0)
      /\ UNCHANGED <<log, accepted, worker, crashes>>
    BY <1>1, DoneAdmin
<1>8. /\ sub'[s].status = "DISABLED" /\ sub'[s].secret_version = sub[s].secret_version
      /\ \A t \in Subscriptions \ {s} : sub'[t] = sub[t]
      /\ sub' \in [Subscriptions -> Subscription]
    BY <1>1, <1>2 DEF Inv, TypeOK, Subscription
<1>9. SubsOK'
    BY <1>8 DEF Inv, SubsOK
<1>10. TypeOK' /\ RowsOK' /\ WorkersOK' /\ Steady
    BY <1>5, <1>6, <1>7, <1>8, OutboxStep
<1>11. \A t \in Subscriptions : Forward(t)
  <2>1. sub[s].secret_version \in Nat
    BY <1>2 DEF Subscription
  <2>2. Forward(s)
    BY <1>8, <2>1 DEF Forward
  <2> QED
    BY <1>8, <2>2, SameForward DEF Inv
<1> QED
    BY <1>7, <1>9, <1>10, <1>11, AdminsCarry DEF Inv

\* A rotation: the version it hands out is above every version handed out
\* before, or the subscription is disabled.
LEMMA RotateCommitStep ==
    ASSUME Inv, NEW a \in Admins, RotateCommit(a)
    PROVE  Inv' /\ Steady
<1> DEFINE s == admin[a].of
           row == IF sub[s].status = "ACTIVE"
                  THEN [sub[s] EXCEPT !.secret_version = sub[s].secret_version + 1]
                  ELSE sub[s]
           new == [admin[a] EXCEPT !.pc = "done", !.version = sub'[s].secret_version]
<1>1. /\ sub' = [sub EXCEPT ![s] = row]
      /\ Enqueue("admin", sub', delivery)
      /\ admin' = [admin EXCEPT ![a] = new]
      /\ UNCHANGED <<log, accepted, worker, crashes>>
    BY DEF RotateCommit, AdminDone
<1>2. /\ s \in Subscriptions /\ sub[s] \in Subscription /\ sub[s].status # "NONE"
      /\ admin[a] \in Admin
    BY DEF Inv, TypeOK, AdminsOK, AdminOK, RotateCommit
<1>3. sub[s].secret_version \in Nat
    BY <1>2 DEF Subscription
<1>4. /\ row \in Subscription /\ row.status = sub[s].status
      /\ row.secret_version = IF sub[s].status = "ACTIVE"
                              THEN sub[s].secret_version + 1 ELSE sub[s].secret_version
    BY <1>2, <1>3 DEF Subscription
<1> HIDE DEF row
<1>5. /\ sub' \in [Subscriptions -> Subscription] /\ sub'[s] = row
      /\ \A t \in Subscriptions \ {s} : sub'[t] = sub[t]
    BY <1>1, <1>2, <1>4 DEF Inv, TypeOK
<1>6. new \in Admin /\ new.pc = "done" /\ new.of = s /\ new.version = row.secret_version
  <2>1. sub'[s].secret_version = row.secret_version /\ row.secret_version \in Nat
    BY <1>3, <1>4, <1>5
  <2> DEFINE v == sub'[s].secret_version
  <2> HIDE DEF v
  <2>2. v \in Nat /\ v = row.secret_version
    BY <2>1 DEF v
  <2>3. new = [admin[a] EXCEPT !.pc = "done", !.version = v]
    BY DEF v
  <2> HIDE DEF new
  <2> QED
    BY <1>2, <2>2, <2>3 DEF Admin
<1> HIDE DEF new, s
<1>7. /\ admin' \in [Admins -> Admin] /\ admin'[a] = new
      /\ \A b \in Admins \ {a} : admin'[b] = admin[b]
    BY <1>1, <1>6 DEF Inv, TypeOK
<1>8. /\ delivery' \in [Deliveries -> Delivery]
      /\ \A d \in Deliveries :
           delivery'[d] = delivery[d] \/ (delivery[d].status = "NONE" /\ delivery'[d] = Fresh)
    BY <1>1, EnqueueRows DEF Inv, TypeOK
<1>9. \A d \in Deliveries : RowMove(d)
    BY <1>8 DEF RowMove
<1>10. TypeOK' /\ RowsOK' /\ WorkersOK' /\ Steady
    BY <1>1, <1>5, <1>7, <1>8, <1>9, OutboxStep
<1>11. SubsOK'
    BY <1>2, <1>4, <1>5 DEF Inv, SubsOK
<1>12. \A t \in Subscriptions : Forward(t)
  <2>1. Forward(s)
    BY <1>3, <1>4, <1>5 DEF Forward
  <2> QED
    BY <1>5, <2>1, SameForward DEF Inv
<1>13. AdminsOK'
  <2> SUFFICES ASSUME NEW b \in Admins PROVE AdminOK(b)'
    BY DEF AdminsOK
  <2>1. CASE b = a
    BY <1>2, <1>3, <1>4, <1>5, <1>6, <1>7, <2>1 DEF AdminOK
  <2>2. CASE b # a
    <3>1. admin'[b] = admin[b] /\ AdminOK(b) /\ admin[b].version \in Nat
      BY <1>7, <2>2 DEF Inv, AdminsOK, TypeOK, Admin
    <3>2. \A t \in Subscriptions : sub[t].secret_version \in Nat /\ sub'[t].secret_version \in Nat
      BY <1>5 DEF Inv, TypeOK, Subscription
    <3> QED
      BY <1>12, <3>1, <3>2 DEF AdminOK, Forward
  <2> QED
    BY <2>1, <2>2
<1>14. ASSUME NEW b \in Admins \ {a}, admin[b].pc = "done", admin[b].version > 0,
              admin[b].of = s, admin[b].version = new.version
       PROVE  sub'[s].status = "DISABLED"
  <2>1. AdminOK(b) /\ admin[b].version \in Nat
    BY DEF Inv, AdminsOK, TypeOK, Admin
  <2>2. admin[b].version <= sub[s].secret_version
    BY <1>14, <2>1 DEF AdminOK
  <2>3. sub[s].status # "ACTIVE"
    BY <1>3, <1>4, <1>6, <1>14, <2>1, <2>2
  <2> QED
    BY <1>2, <1>4, <1>5, <2>3 DEF Subscription
<1>15. RotationsDistinct'
  <2> SUFFICES ASSUME NEW b \in Admins, NEW c \in Admins,
                      admin'[b].pc = "done" /\ admin'[b].version > 0,
                      admin'[c].pc = "done" /\ admin'[c].version > 0,
                      b # c, admin'[b].of = admin'[c].of,
                      admin'[b].version = admin'[c].version
               PROVE  sub'[admin'[b].of].status = "DISABLED"
    BY DEF RotationsDistinct
  <2>1. CASE b = a
    BY <1>6, <1>7, <1>14, <2>1
  <2>2. CASE c = a
    BY <1>6, <1>7, <1>14, <2>2
  <2>3. CASE b # a /\ c # a
    <3>1. admin'[b] = admin[b] /\ admin'[c] = admin[c]
      BY <1>7, <2>3
    <3>2. sub[admin[b].of].status = "DISABLED"
      BY <3>1 DEF Inv, RotationsDistinct
    <3>3. admin[b].of \in Subscriptions
      BY <3>1 DEF Inv, AdminsOK, AdminOK
    <3> QED
      BY <1>12, <3>1, <3>2, <3>3 DEF Forward
  <2> QED
    BY <2>1, <2>2, <2>3
<1> QED
    BY <1>10, <1>11, <1>13, <1>15 DEF Inv

-----------------------------------------------------------------------------
(* The invariant                                                           *)

\* Nothing has been subscribed, delivered or asked for.
LEMMA InitInv == Init => Inv
<1> SUFFICES ASSUME Init PROVE Inv
    OBVIOUS
<1>1. TypeOK
  <2>1. sub \in [Subscriptions -> Subscription]
    BY DEF Init, Subscription
  <2>2. delivery \in [Deliveries -> Delivery]
    BY DEF Init, NoDelivery, Delivery, DeliveryStatus
  <2>3. log \in [Deliveries -> Seq(Outcomes)]
    BY DEF Init
  <2>4. worker \in [Workers -> Worker]
    BY IdleWorker DEF Init
  <2>5. admin \in [Admins -> Admin]
    BY DEF Init, Admin
  <2> QED
    BY <2>1, <2>2, <2>3, <2>4, <2>5, WebhookAssumption DEF Init, TypeOK
<1>2. RowsOK
    BY WebhookAssumption
    DEF Init, RowsOK, NoDelivery, History, Matches, Cycle, Evidence, Queued
<1>3. WorkersOK
    BY IdleWorker DEF Init, WorkersOK, Knows, Sending
<1>4. SubsOK /\ AdminsOK /\ RotationsDistinct
    BY DEF Init, SubsOK, AdminsOK, AdminOK, RotationsDistinct
<1> QED
    BY <1>1, <1>2, <1>3, <1>4 DEF Inv

\* Every step preserves the invariant.
LEMMA NextInv == Inv /\ [Next]_vars => Inv' /\ Steady
<1> SUFFICES ASSUME Inv, [Next]_vars PROVE Inv' /\ Steady
    OBVIOUS
<1>1. CASE Tick
    BY <1>1, TickStep
<1>2. CASE BusinessMutation
    BY <1>2, BusinessMutationStep
<1>3. ASSUME NEW s \in Subscriptions, CreateSubscription(s) PROVE Inv' /\ Steady
    BY <1>3, CreateSubscriptionStep
<1>4. ASSUME NEW a \in Admins, AdminStep(a) PROVE Inv' /\ Steady
  <2>1. ASSUME NEW d \in Deliveries, RedeliverRead(a, d) PROVE Inv' /\ Steady
    BY <2>1, AdminReadStep DEF RedeliverRead
  <2>2. ASSUME NEW s \in Subscriptions, DisableRead(a, s) PROVE Inv' /\ Steady
    BY <2>2, AdminReadStep DEF DisableRead
  <2>3. ASSUME NEW s \in Subscriptions, RotateRead(a, s) PROVE Inv' /\ Steady
    <3>1. sub[s].secret_version \in Nat
      BY DEF Inv, TypeOK, Subscription
    <3> QED
      BY <2>3, <3>1, AdminReadStep DEF RotateRead
  <2>4. CASE RedeliverCommit(a)
    BY <2>4, RedeliverCommitStep
  <2>5. CASE DisableCommit(a)
    BY <2>5, DisableCommitStep
  <2>6. CASE RotateCommit(a)
    BY <2>6, RotateCommitStep
  <2>7. CASE AdminRefused(a)
    BY <2>7, AdminRefusedStep
  <2> QED
    BY <1>4, <2>1, <2>2, <2>3, <2>4, <2>5, <2>6, <2>7 DEF AdminStep
<1>5. ASSUME NEW w \in Workers, DispatchStep(w) PROVE Inv' /\ Steady
  <2>1. CASE DispatchStart(w)
    BY <2>1, DispatchStartStep
  <2>2. CASE ClaimDue(w)
    BY <2>2, ClaimDueStep
  <2>3. CASE CancelProcessing(w)
    BY <2>3, CancelProcessingStep
  <2>4. ASSUME NEW d \in Deliveries, GetDispatchItem(w, d) PROVE Inv' /\ Steady
    BY <2>4, GetDispatchItemStep
  <2>5. ASSUME NEW received \in BOOLEAN, NEW outcome \in SendResults,
               Send(w, received, outcome)
        PROVE  Inv' /\ Steady
    BY <2>5, SendStep
  <2>6. CASE RecordRead(w)
    BY <2>6, RecordReadStep
  <2>7. CASE RecordWrite(w)
    BY <2>7, RecordWriteStep
  <2>8. CASE RecordFails(w)
    BY <2>8, RecordFailsStep
  <2>9. CASE SendRaises(w)
    BY <2>9, SendRaisesStep
  <2> QED
    BY <1>5, <2>1, <2>2, <2>3, <2>4, <2>5, <2>6, <2>7, <2>8, <2>9 DEF DispatchStep
<1>6. ASSUME NEW w \in Workers, Crash(w) PROVE Inv' /\ Steady
    BY <1>6, CrashStep
<1>7. CASE UNCHANGED vars
    BY <1>7 DEF vars, Inv, TypeOK, RowsOK, WorkersOK, Knows, SubsOK, AdminsOK,
                AdminOK, RotationsDistinct, Steady, Kept
<1> QED
    BY <1>1, <1>2, <1>3, <1>4, <1>5, <1>6, <1>7 DEF Next

\* The invariant holds in every reachable state.
THEOREM OutboxInvariant == Spec => []Inv
<1> QED
    BY InitInv, NextInv, PTL DEF Spec

\* The tables, dispatchers and requests keep their types.
THEOREM TypeCorrect == Spec => []TypeOK
<1>1. Inv => TypeOK
    BY DEF Inv
<1> QED
    BY <1>1, OutboxInvariant, PTL

\* attempt_count is the number of recorded attempts however leases overlap and
\* dispatchers crash; only a delivery cancelled between the read and the write
\* of record_delivery_result may have one more.
THEOREM AttemptsCounted == Spec => []AttemptsMatchLog
<1>1. Inv => AttemptsMatchLog
    BY DEF Inv, RowsOK, History, Matches, AttemptsMatchLog
<1> QED
    BY <1>1, OutboxInvariant, PTL

\* failure_count counts the failures at the end of the history since the last
\* redelivery, and a delivery is dead-lettered after exactly max_attempts.
THEOREM FailuresCounted == Spec => []FailureCycle
<1>1. Inv => FailureCycle
    BY DEF Inv, RowsOK, History, Cycle, FailureCycle
<1> QED
    BY <1>1, OutboxInvariant, PTL

\* A delivery marked DELIVERED was accepted by a receiver, and a delivery with
\* a recorded success is never sent again.
THEOREM DeliveredIsAccepted == Spec => []DeliveredOnEvidence
<1>1. Inv => DeliveredOnEvidence
  <2> SUFFICES ASSUME Inv, NEW d \in Deliveries
               PROVE  LET n == Len(log[d]) IN
                      /\ delivery[d].status = "DELIVERED" =>
                           d \in accepted /\ n > 0 /\ log[d][n] = "SUCCESS"
                      /\ (\E k \in 1..n : log[d][k] = "SUCCESS") =>
                           delivery[d].status \in {"DELIVERED", "CANCELLED"}
    BY DEF DeliveredOnEvidence
  <2> QED
    BY DEF Inv, RowsOK, History, Evidence
<1> QED
    BY <1>1, OutboxInvariant, PTL

\* Two rotations of an active subscription never return the same secret.
THEOREM RotationsHandOutDistinctSecrets == Spec => []RotationsDistinct
<1>1. Inv => RotationsDistinct
    BY DEF Inv
<1> QED
    BY <1>1, OutboxInvariant, PTL

\* Late dispatchers, redeliveries and disables leave a delivered or cancelled
\* delivery alone, and no recorded attempt is ever rewritten.
THEOREM SettledFinal == Spec => SettledIsFinal
<1>1. ASSUME Inv, [Next]_vars
      PROVE  [\A d \in Deliveries :
                /\ delivery[d].status \in {"DELIVERED", "CANCELLED"} =>
                     delivery'[d] = delivery[d]
                /\ Len(log'[d]) >= Len(log[d])
                /\ SubSeq(log'[d], 1, Len(log[d])) = log[d]]_vars
  <2> SUFFICES ASSUME NEW d \in Deliveries
               PROVE  /\ delivery[d].status \in {"DELIVERED", "CANCELLED"} =>
                           delivery'[d] = delivery[d]
                      /\ Len(log'[d]) >= Len(log[d])
                      /\ SubSeq(log'[d], 1, Len(log[d])) = log[d]
    OBVIOUS
  <2>1. Kept(d)
    BY <1>1, NextInv DEF Steady
  <2>2. log[d] \in Seq(Outcomes) /\ log'[d] \in Seq(Outcomes)
    BY <1>1, NextInv DEF Inv, TypeOK
  <2>3. /\ Len(log[d]) \in Nat /\ Len(log'[d]) \in Nat
        /\ SubSeq(log[d], 1, Len(log[d])) = log[d]
    BY <2>2
  <2> QED
    BY <2>1, <2>3 DEF Kept
<1> QED
    BY <1>1, OutboxInvariant, PTL DEF Spec, SettledIsFinal

=============================================================================

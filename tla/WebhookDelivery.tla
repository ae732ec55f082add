--------------------------- MODULE WebhookDelivery ---------------------------
(***************************************************************************)
(* The transactional webhook outbox: subscriptions, deliveries and their   *)
(* attempt history, the dispatchers that claim, send and record            *)
(* deliveries, and the administrator requests that race with them.         *)
(*                                                                         *)
(* Several dispatchers (worker processes, or the dispatch endpoint) share  *)
(* one SQLite file.  Claiming is one BEGIN IMMEDIATE transaction; sending  *)
(* and every other SELECT happen outside the write lock.                   *)
(*                                                                         *)
(* Time is relative: a stored timestamp is its distance from now, and the  *)
(* dispatch time of a batch is the batch's age.  Distances stop at -MaxAge *)
(* and no batch grows older than MaxAge, so all comparisons the code makes *)
(* have their true outcome and the state space is finite without a last    *)
(* instant.  Timestamps sampled by a request are taken at its commit.      *)
(***************************************************************************)
EXTENDS Integers, Sequences, FiniteSets

CONSTANTS
    Events,         \* event ids (the first events, a bound of the model)
    Subscriptions,  \* subscription ids
    Wants,          \* Wants[s]: event types subscription s matches
    Unencodable,    \* subscriptions whose URL has a path or query outside ASCII
    Workers,        \* dispatchers
    Admins,         \* administrator requests; each runs once
    None,           \* no delivery, no subscription
    MaxAttempts,    \* max_attempts
    BaseRetry,      \* base_retry_seconds
    MaxRetry,       \* max_retry_seconds
    LeaseSeconds,   \* lease_seconds
    Limit,          \* batch size
    MaxAge,         \* longest a batch takes (a bound of the model)
    MaxCrashes      \* dispatcher crashes (a bound of the model)

Deliveries == Events \X Subscriptions

EventTypes == {"business", "admin"}

ASSUME WebhookAssumption ==
    /\ Wants \in [Subscriptions -> SUBSET EventTypes]
    /\ Unencodable \subseteq Subscriptions
    /\ {MaxAttempts, BaseRetry, MaxRetry, LeaseSeconds, Limit} \subseteq Nat \ {0}
    /\ MaxAge \in Nat /\ MaxCrashes \in Nat
    /\ None \notin Deliveries \cup Subscriptions

VARIABLES
    sub,        \* webhook_subscriptions
    delivery,   \* webhook_deliveries, one row per event and subscription
    log,        \* webhook_delivery_attempts: the outcomes by attempt_number
    accepted,   \* deliveries some receiver answered with 2xx
    worker,     \* the dispatch_pending_webhooks call of each dispatcher
    admin,      \* the administrator requests
    crashes     \* dispatcher crashes so far

vars == <<sub, delivery, log, accepted, worker, admin, crashes>>
rows == <<sub, delivery, log>>

-----------------------------------------------------------------------------
(* Types                                                                   *)

Queued == {"PENDING", "RETRY_SCHEDULED"}
Settled == {"DELIVERED", "DEAD_LETTER", "CANCELLED"}
DeliveryStatus == {"NONE", "PROCESSING"} \cup Queued \cup Settled

Subscription == [status: {"NONE", "ACTIVE", "DISABLED"}, secret_version: Nat]

Delivery ==
    [status: DeliveryStatus, attempt_count: Nat, failure_count: Nat,
     redelivery_count: Nat, next_attempt_at: Int, lease_expires_at: Int]

Outcomes == {"SUCCESS", "FAILURE"}   \* HTTP_ERROR and NETWORK_ERROR act alike

\* What a send ends with: an outcome, or an HTTP_ERROR with a status above 599,
\* which http.client accepts (to 999) and the tables do not.
SendResults == Outcomes \cup {"STATUS_ABOVE_599"}

Worker ==
    [pc: {"idle", "claim", "next", "cancel", "send", "read", "write"},
     age: 0..MaxAge, batch: SUBSET Deliveries, cur: Deliveries \cup {None},
     outcome: SendResults, attempts: Nat, failures: Nat]

Admin ==
    [pc: {"idle", "redeliver", "disable", "rotate", "done"},
     of: Deliveries \cup Subscriptions \cup {None}, version: Nat]

TypeOK ==
    /\ sub \in [Subscriptions -> Subscription]
    /\ delivery \in [Deliveries -> Delivery]
    /\ log \in [Deliveries -> Seq(Outcomes)]
    /\ accepted \subseteq Deliveries
    /\ worker \in [Workers -> Worker]
    /\ admin \in [Admins -> Admin]
    /\ crashes \in 0..MaxCrashes

-----------------------------------------------------------------------------
(* Subscriptions and the outbox                                            *)

Subscriber(d) == sub[d[2]]

NoDelivery ==
    [status |-> "NONE", attempt_count |-> 0, failure_count |-> 0,
     redelivery_count |-> 0, next_attempt_at |-> 0, lease_expires_at |-> 0]

\* Mutant: an unknown status reaches the row.
ClosedMisspelt(row, status) ==
    [row EXCEPT !.status = "CANCELED", !.next_attempt_at = 0, !.lease_expires_at = 0]

\* The row with a status that has neither a next attempt nor a lease.
Closed(row, status) ==
    [row EXCEPT !.status = status, !.next_attempt_at = 0, !.lease_expires_at = 0]

\* insert_event_with_deliveries: the event of a committing transaction gets one
\* PENDING delivery for every matching subscription that is ACTIVE in it.
\* del and subs are the rows as that transaction has left them.  Events is a
\* bound of the model: deliveries of later events are not followed.
Enqueue(type, subs, del) ==
    LET matching == {s \in Subscriptions :
                       subs[s].status = "ACTIVE" /\ type \in Wants[s]}
        fresh == {e \in Events :
                    \A s \in Subscriptions : del[<<e, s>>].status = "NONE"}
    IN \/ (matching = {} \/ fresh = {}) /\ delivery' = del
       \/ \E e \in fresh :
            /\ matching # {}
            /\ delivery' = [d \in Deliveries |->
                 IF d[1] = e /\ d[2] \in matching
                 THEN [NoDelivery EXCEPT !.status = "PENDING"] ELSE del[d]]

CreateSubscription(s) ==
    /\ sub[s].status = "NONE"
    /\ sub' = [sub EXCEPT ![s] = [status |-> "ACTIVE", secret_version |-> 1]]
    /\ Enqueue("admin", sub', delivery)
    /\ UNCHANGED <<log, accepted, worker, admin, crashes>>

\* Any other mutation of the project appends its event in its transaction.
BusinessMutation ==
    /\ \E s \in Subscriptions : sub[s].status = "ACTIVE"
    /\ Enqueue("business", sub, delivery)
    /\ delivery' # delivery
    /\ UNCHANGED <<sub, log, accepted, worker, admin, crashes>>

-----------------------------------------------------------------------------
(* Administrator requests: they read, decide, and then write               *)

\* version is the secret_version the request has read, or returns.
AdminGoto(a, l, of, version) ==
    /\ admin[a].pc = "idle"
    /\ admin' = [admin EXCEPT ![a] = [pc |-> l, of |-> of, version |-> version]]
    /\ UNCHANGED <<rows, accepted, worker, crashes>>

AdminDone(a, version) ==
    /\ admin' = [admin EXCEPT ![a] = [@ EXCEPT !.pc = "done", !.version = version]]
    /\ UNCHANGED <<log, accepted, worker, crashes>>

\* request_redelivery: the delivery and its subscription are read first.
RedeliverRead(a, d) ==
    /\ delivery[d].status = "DEAD_LETTER"
    /\ Subscriber(d).status = "ACTIVE"
    /\ AdminGoto(a, "redeliver", d, 0)

\* UPDATE ... WHERE status = 'DEAD_LETTER'; its event is appended either way.
RedeliverCommit(a) ==
    LET d == admin[a].of
        redelivered == [delivery EXCEPT ![d] =
          [@ EXCEPT !.status = "PENDING", !.failure_count = 0,
                    !.redelivery_count = delivery[d].redelivery_count + 1,
                    !.next_attempt_at = 0, !.lease_expires_at = 0]]
    IN /\ admin[a].pc = "redeliver"
       /\ Enqueue("admin", sub, IF delivery[d].status = "DEAD_LETTER"
                                THEN redelivered ELSE delivery)
       /\ AdminDone(a, 0)
       /\ UNCHANGED sub

DisableRead(a, s) ==
    /\ sub[s].status = "ACTIVE"
    /\ AdminGoto(a, "disable", s, 0)

\* Disables the subscription and cancels what is queued for it; a delivery in
\* PROCESSING is left to its dispatcher.
DisableCommit(a) ==
    LET s == admin[a].of IN
    /\ admin[a].pc = "disable"
    /\ sub' = [sub EXCEPT ![s] = [@ EXCEPT !.status = "DISABLED"]]
    /\ Enqueue("admin", sub', [d \in Deliveries |->
         IF d[2] = s /\ delivery[d].status \in Queued
         THEN Closed(delivery[d], "CANCELLED") ELSE delivery[d]])
    /\ AdminDone(a, 0)

RotateRead(a, s) ==
    /\ sub[s].status = "ACTIVE"
    /\ AdminGoto(a, "rotate", s, sub[s].secret_version)

\* Mutant: the new version is computed from the row read before.
RotateCommitStale(a) ==
    LET s == admin[a].of IN
    /\ admin[a].pc = "rotate"
    /\ sub' = [sub EXCEPT ![s] =
         IF @.status = "ACTIVE"
         THEN [@ EXCEPT !.secret_version = admin[a].version + 1] ELSE @]
    /\ Enqueue("admin", sub', delivery)
    /\ AdminDone(a, sub'[s].secret_version)

\* secret_version = secret_version + 1 WHERE status = 'ACTIVE'; the answer
\* carries the secret of the version the row has afterwards.
RotateCommit(a) ==
    LET s == admin[a].of IN
    /\ admin[a].pc = "rotate"
    /\ sub' = [sub EXCEPT ![s] =
         IF @.status = "ACTIVE"
         THEN [@ EXCEPT !.secret_version = sub[s].secret_version + 1] ELSE @]
    /\ Enqueue("admin", sub', delivery)
    /\ AdminDone(a, sub'[s].secret_version)

\* A request that finds the delivery, or the subscription, in another status
\* is refused (a repeated disable is answered with the row) and changes nothing.
AdminRefused(a) ==
    /\ admin[a].pc = "idle"
    /\ \/ \E d \in Deliveries : /\ delivery[d].status # "NONE"
                                /\ \/ delivery[d].status # "DEAD_LETTER"
                                   \/ Subscriber(d).status # "ACTIVE"
       \/ \E s \in Subscriptions : sub[s].status = "DISABLED"
    /\ AdminDone(a, 0)
    /\ UNCHANGED <<sub, delivery>>

-----------------------------------------------------------------------------
(* dispatch_pending_webhooks                                               *)

Idle ==
    [pc |-> "idle", age |-> 0, batch |-> {}, cur |-> None,
     outcome |-> "FAILURE", attempts |-> 0, failures |-> 0]

\* On to the next claimed delivery, or the end of the batch.
NextDelivery(w) ==
    worker' = [worker EXCEPT ![w] =
      IF @.batch = {} THEN Idle
      ELSE [Idle EXCEPT !.pc = "next", !.age = worker[w].age,
                        !.batch = worker[w].batch]]

\* dispatch_time is sampled before the claim waits for the write lock.
DispatchStart(w) ==
    /\ worker[w].pc = "idle"
    /\ worker' = [worker EXCEPT ![w] = [@ EXCEPT !.pc = "claim"]]
    /\ UNCHANGED <<rows, accepted, admin, crashes>>

\* lease_expires_at <= dispatch_time of w
LeaseExpired(d, w) ==
    /\ delivery[d].status = "PROCESSING"
    /\ delivery[d].lease_expires_at <= -worker[w].age

\* Mutant: an abandoned delivery is never claimed again.
ClaimableQueuedOnly(w) ==
    {d \in Deliveries :
       /\ Subscriber(d).status = "ACTIVE"
       /\ delivery[d].status \in Queued
       /\ delivery[d].next_attempt_at <= -worker[w].age}

\* Deliveries w may claim: due, or abandoned by a dispatcher.
Claimable(w) ==
    {d \in Deliveries :
       /\ Subscriber(d).status = "ACTIVE"
       /\ \/ /\ delivery[d].status \in Queued
             /\ delivery[d].next_attempt_at <= -worker[w].age
          \/ LeaseExpired(d, w)}

\* ORDER BY next_attempt_at LIMIT n (ties by random id).
FirstOf(due) ==
    {C \in SUBSET due :
       /\ Cardinality(C) <= Limit
       /\ C # due => Cardinality(C) = Limit
       /\ \A c \in C, d \in due \ C :
            delivery[c].next_attempt_at <= delivery[d].next_attempt_at}

\* Mutant: the claim does not look after disabled subscriptions.
ClaimDueActiveOnly(w) ==
    /\ worker[w].pc = "claim"
    /\ \E batch \in FirstOf(Claimable(w)) :
         /\ delivery' = [d \in Deliveries |->
              IF d \in batch
              THEN [delivery[d] EXCEPT !.status = "PROCESSING",
                      !.lease_expires_at = LeaseSeconds - worker[w].age]
              ELSE delivery[d]]
         /\ worker' = [worker EXCEPT ![w] =
              IF batch = {} THEN Idle
              ELSE [@ EXCEPT !.pc = "next", !.batch = batch]]
    /\ UNCHANGED <<sub, log, accepted, admin, crashes>>

\* One transaction: abandoned deliveries of disabled subscriptions are
\* cancelled, then a batch gets the lease of this dispatcher.
ClaimDue(w) ==
    /\ worker[w].pc = "claim"
    /\ \E batch \in FirstOf(Claimable(w)) :
         /\ delivery' = [d \in Deliveries |->
              IF LeaseExpired(d, w) /\ Subscriber(d).status = "DISABLED"
              THEN Closed(delivery[d], "CANCELLED")
              ELSE IF d \in batch
              THEN [delivery[d] EXCEPT !.status = "PROCESSING",
                      !.lease_expires_at = LeaseSeconds - worker[w].age]
              ELSE delivery[d]]
         /\ worker' = [worker EXCEPT ![w] =
              IF batch = {} THEN Idle
              ELSE [@ EXCEPT !.pc = "next", !.batch = batch]]
    /\ UNCHANGED <<sub, log, accepted, admin, crashes>>

\* get_dispatch_item reads the subscription again, outside any lock.
GetDispatchItem(w, d) ==
    /\ worker[w].pc = "next"
    /\ d \in worker[w].batch
    /\ worker' = [worker EXCEPT ![w] =
         [@ EXCEPT !.batch = worker[w].batch \ {d}, !.cur = d,
                   !.pc = IF Subscriber(d).status = "ACTIVE"
                          THEN "send" ELSE "cancel"]]
    /\ UNCHANGED <<rows, accepted, admin, crashes>>

\* Mutant: the UPDATE forgets status = 'PROCESSING'.
CancelAnyStatus(w) ==
    LET d == worker[w].cur IN
    /\ worker[w].pc = "cancel"
    /\ delivery' = [delivery EXCEPT ![d] = Closed(@, "CANCELLED")]
    /\ NextDelivery(w)
    /\ UNCHANGED <<sub, log, accepted, admin, crashes>>

CancelProcessing(w) ==
    LET d == worker[w].cur IN
    /\ worker[w].pc = "cancel"
    /\ delivery' = [delivery EXCEPT ![d] =
         IF @.status = "PROCESSING" THEN Closed(@, "CANCELLED") ELSE @]
    /\ NextDelivery(w)
    /\ UNCHANGED <<sub, log, accepted, admin, crashes>>

\* Mutant: any answer counts as a success.
SendAnyAnswer(w, received, outcome) ==
    /\ worker[w].pc = "send"
    /\ accepted' = IF received THEN accepted \cup {worker[w].cur} ELSE accepted
    /\ worker' = [worker EXCEPT ![w] = [@ EXCEPT !.pc = "read", !.outcome = outcome]]
    /\ UNCHANGED <<rows, admin, crashes>>

\* The receiver answers 2xx or not; an accepted request may look failed when
\* its answer is lost.  A URL outside ASCII never gets as far as a request.
Send(w, received, outcome) ==
    /\ worker[w].pc = "send"
    /\ outcome = "SUCCESS" => received
    /\ outcome = "STATUS_ABOVE_599" => ~received
    /\ worker[w].cur[2] \in Unencodable => ~received /\ outcome = "FAILURE"
    /\ accepted' = IF received THEN accepted \cup {worker[w].cur} ELSE accepted
    /\ worker' = [worker EXCEPT ![w] = [@ EXCEPT !.pc = "read", !.outcome = outcome]]
    /\ UNCHANGED <<rows, admin, crashes>>

\* Once connected, http.client raises UnicodeEncodeError for a URL outside
\* ASCII; it is caught by nobody and ends the batch.
SendRaises(w) ==
    /\ worker[w].pc = "send"
    /\ worker[w].cur[2] \in Unencodable
    /\ worker' = [worker EXCEPT ![w] = Idle]
    /\ UNCHANGED <<rows, accepted, admin, crashes>>

\* record_delivery_result first reads the row; WebhookDeliveryStateError is
\* caught by nobody and ends the batch.
RecordRead(w) ==
    LET row == delivery[worker[w].cur] IN
    /\ worker[w].pc = "read"
    /\ worker' = [worker EXCEPT ![w] =
         IF row.status = "PROCESSING"
         THEN [@ EXCEPT !.pc = "write", !.attempts = row.attempt_count,
                        !.failures = row.failure_count]
         ELSE Idle]
    /\ UNCHANGED <<rows, accepted, admin, crashes>>

RetryDelay(failures) ==
    IF BaseRetry * 2 ^ (failures - 1) < MaxRetry
    THEN BaseRetry * 2 ^ (failures - 1) ELSE MaxRetry

\* Mutant: one failure too many before the dead letter.
RecordedOffByOne(row, w, status) ==
    LET attempted == [row EXCEPT !.attempt_count = worker[w].attempts + 1]
        failures == worker[w].failures + 1
        failed == [attempted EXCEPT !.failure_count = failures]
    IN IF worker[w].outcome = "SUCCESS"
       THEN Closed([attempted EXCEPT !.failure_count = 0], "DELIVERED")
       ELSE IF status = "DISABLED" THEN Closed(failed, "CANCELLED")
       ELSE IF failures > MaxAttempts THEN Closed(failed, "DEAD_LETTER")
       ELSE [Closed(failed, "RETRY_SCHEDULED") EXCEPT
               !.next_attempt_at = RetryDelay(failures) - worker[w].age]

\* The row a recorded outcome leaves, from the counts read before.
Recorded(row, w, status) ==
    LET attempted == [row EXCEPT !.attempt_count = worker[w].attempts + 1]
        failures == worker[w].failures + 1
        failed == [attempted EXCEPT !.failure_count = failures]
    IN IF worker[w].outcome = "SUCCESS"
       THEN Closed([attempted EXCEPT !.failure_count = 0], "DELIVERED")
       ELSE IF status = "DISABLED" THEN Closed(failed, "CANCELLED")
       ELSE IF failures >= MaxAttempts THEN Closed(failed, "DEAD_LETTER")
       ELSE [Closed(failed, "RETRY_SCHEDULED") EXCEPT
               !.next_attempt_at = RetryDelay(failures) - worker[w].age]

\* CHECK (status_code IS NULL OR status_code BETWEEN 100 AND 599)
StatusStorable(w) == worker[w].outcome # "STATUS_ABOVE_599"

\* Mutant: the attempts table has no UNIQUE constraint.
AttemptInsertableAlways(w) == StatusStorable(w)

\* UNIQUE (delivery_id, attempt_number) and the CHECK of the status
AttemptInsertable(w) ==
    Len(log[worker[w].cur]) = worker[w].attempts /\ StatusStorable(w)

\* INSERT the attempt, then UPDATE the row WHERE status = 'PROCESSING'.
RecordWrite(w) ==
    LET d == worker[w].cur IN
    /\ worker[w].pc = "write"
    /\ AttemptInsertable(w)
    /\ log' = [log EXCEPT ![d] = Append(@, worker[w].outcome)]
    /\ delivery' = [delivery EXCEPT ![d] =
         IF @.status = "PROCESSING"
         THEN Recorded(@, w, Subscriber(d).status) ELSE @]
    /\ NextDelivery(w)
    /\ UNCHANGED <<sub, accepted, admin, crashes>>

\* Another dispatcher recorded this attempt_number, or the status is out of
\* range: the IntegrityError is caught by nobody and ends the batch.
RecordFails(w) ==
    /\ worker[w].pc = "write"
    /\ ~AttemptInsertable(w)
    /\ worker' = [worker EXCEPT ![w] = Idle]
    /\ UNCHANGED <<rows, accepted, admin, crashes>>

-----------------------------------------------------------------------------

\* A dispatcher dies; its claims stay PROCESSING until their lease expires.
Crash(w) ==
    /\ worker[w].pc # "idle"
    /\ crashes < MaxCrashes
    /\ crashes' = crashes + 1
    /\ worker' = [worker EXCEPT ![w] = Idle]
    /\ UNCHANGED <<rows, accepted, admin>>

Earlier(t) == IF t > -MaxAge THEN t - 1 ELSE t

Tick ==
    /\ \A w \in Workers : worker[w].pc # "idle" => worker[w].age < MaxAge
    /\ delivery' = [d \in Deliveries |->
         [delivery[d] EXCEPT
            !.next_attempt_at = IF delivery[d].status \in Queued \cup {"PROCESSING"}
                                THEN Earlier(@) ELSE @,
            !.lease_expires_at = IF delivery[d].status = "PROCESSING"
                                 THEN Earlier(@) ELSE @]]
    /\ worker' = [w \in Workers |->
         IF worker[w].pc = "idle" THEN worker[w]
         ELSE [worker[w] EXCEPT !.age = @ + 1]]
    /\ UNCHANGED <<sub, log, accepted, admin, crashes>>

Init ==
    /\ sub = [s \in Subscriptions |-> [status |-> "NONE", secret_version |-> 0]]
    /\ delivery = [d \in Deliveries |-> NoDelivery]
    /\ log = [d \in Deliveries |-> <<>>]
    /\ accepted = {}
    /\ worker = [w \in Workers |-> Idle]
    /\ admin = [a \in Admins |-> [pc |-> "idle", of |-> None, version |-> 0]]
    /\ crashes = 0

AdminStep(a) ==
    \/ \E d \in Deliveries : RedeliverRead(a, d)
    \/ \E s \in Subscriptions : DisableRead(a, s) \/ RotateRead(a, s)
    \/ RedeliverCommit(a) \/ DisableCommit(a) \/ RotateCommit(a) \/ AdminRefused(a)

DispatchStep(w) ==
    \/ DispatchStart(w) \/ ClaimDue(w) \/ CancelProcessing(w)
    \/ \E d \in Deliveries : GetDispatchItem(w, d)
    \/ \E received \in BOOLEAN, outcome \in SendResults : Send(w, received, outcome)
    \/ SendRaises(w) \/ RecordRead(w) \/ RecordWrite(w) \/ RecordFails(w)

Next ==
    \/ Tick
    \/ BusinessMutation
    \/ \E s \in Subscriptions : CreateSubscription(s)
    \/ \E a \in Admins : AdminStep(a)
    \/ \E w \in Workers : DispatchStep(w) \/ Crash(w)

\* The worker process loops for ever and is restarted by its supervisor; every
\* send has a timeout; time goes on.
Fairness ==
    /\ WF_vars(Tick)
    /\ \A w \in Workers : WF_vars(DispatchStep(w))

Spec == Init /\ [][Next]_vars /\ Fairness

-----------------------------------------------------------------------------
(* Properties                                                              *)

\* attempt_count is the number of attempt rows: without a fencing token the
\* UNIQUE attempt number keeps two dispatchers of one delivery from both
\* recording.  Only a delivery cancelled between the read and the write of a
\* result keeps one attempt more than it counts.
AttemptsMatchLog ==
    \A d \in Deliveries :
        \/ Len(log[d]) = delivery[d].attempt_count
        \/ /\ delivery[d].status = "CANCELLED"
           /\ Len(log[d]) = delivery[d].attempt_count + 1

\* failure_count is the number of consecutive failures at the end of the
\* attempt history since the last redelivery; it stays below max_attempts
\* until the delivery is dead-lettered with exactly max_attempts failures.
FailureCycle ==
    \A d \in Deliveries :
        LET row == delivery[d]
            n == row.attempt_count
        IN /\ \A k \in (n - row.failure_count + 1)..n : log[d][k] = "FAILURE"
           /\ row.status = "DEAD_LETTER" => row.failure_count = MaxAttempts
           /\ row.status \in Queued \cup {"PROCESSING"} => row.failure_count < MaxAttempts
           /\ row.status = "RETRY_SCHEDULED" => row.failure_count > 0

\* DELIVERED means that a receiver accepted the delivery and the last attempt
\* says so; a delivery with a recorded success is never queued or sent again.
DeliveredOnEvidence ==
    \A d \in Deliveries :
        LET n == Len(log[d]) IN
        /\ delivery[d].status = "DELIVERED" =>
             d \in accepted /\ n > 0 /\ log[d][n] = "SUCCESS"
        /\ (\E k \in 1..n : log[d][k] = "SUCCESS") =>
             delivery[d].status \in {"DELIVERED", "CANCELLED"}

\* A late dispatcher, a redelivery or a disable never changes a delivery that
\* was delivered or cancelled, and no attempt is rewritten.
SettledIsFinal ==
    [][\A d \in Deliveries :
         /\ delivery[d].status \in {"DELIVERED", "CANCELLED"} =>
              delivery'[d] = delivery[d]
         /\ Len(log'[d]) >= Len(log[d])
         /\ SubSeq(log'[d], 1, Len(log[d])) = log[d]]_vars

\* Concurrent rotations never hand out the same signing secret, unless the
\* subscription was disabled before one of them could write.
RotationsDistinct ==
    \A a, b \in {r \in Admins : admin[r].pc = "done" /\ admin[r].version > 0} :
        a # b /\ admin[a].of = admin[b].of /\ admin[a].version = admin[b].version
          => sub[admin[a].of].status = "DISABLED"

\* A send of delivery d whose result the dispatcher cannot record.
SendIsLost(d) ==
    \E w \in Workers :
        worker[w].cur = d /\ (SendRaises(w) \/ Send(w, FALSE, "STATUS_ABOVE_599"))

\* d waits for a dispatcher: it is claimed, or queued for an active subscription.
Owed(d) ==
    \/ delivery[d].status = "PROCESSING"
    \/ delivery[d].status \in Queued /\ Subscriber(d).status = "ACTIVE"

\* At least once: no delivery is owed for ever.  Every one that is queued or claimed
\* ends up delivered or dead-lettered while its subscription stays active, and no
\* claim is held for ever, whatever dispatchers crash or end a batch early, unless
\* sends that cannot be recorded recur for ever.
EventuallySettled ==
    \/ \A d \in Deliveries : []<>~Owed(d)
    \/ []<><<\E d \in Deliveries : SendIsLost(d)>>_vars

\* docs/architecture.md: "Delivery is deliberately **at least once**", so one
\* receiver's delivery does not depend on what becomes of the requests to another.
ReceiversAreIndependent ==
    \A d \in Deliveries : []<>~Owed(d) \/ []<><<SendIsLost(d)>>_vars

\* docs/architecture.md: "Disabling is idempotent and cancels queued work."
DisabledHasNoQueuedWork ==
    \A d \in Deliveries :
        Subscriber(d).status = "DISABLED" => delivery[d].status \notin Queued
=============================================================================

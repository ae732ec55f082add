---------------------------- MODULE ApprovalGrants ----------------------------
(***************************************************************************)
(* Approvals and one-time execution grants of the authorization service.   *)
(*                                                                         *)
(* Every HTTP request runs in a thread of its own against one SQLite file. *)
(* A SELECT that precedes the first write of a connection is a step of its *)
(* own (autocommit); from the first INSERT or UPDATE to the commit the     *)
(* connection holds the only write lock, so that part is one atomic step.  *)
(* Between two steps any other request may run and the clock may move.     *)
(*                                                                         *)
(* A grant_id is a fresh uuid4 minted by the approving request, so the     *)
(* request itself stands for it, and a signed token is the grant_id it     *)
(* carries.  The request fingerprint is compared for equality only, so a   *)
(* consume request carries the outcome of that comparison.                 *)
(***************************************************************************)
EXTENDS Naturals

CONSTANTS
    Decisions,        \* decision_ids of REQUIRE_APPROVAL decisions
    Requests,         \* HTTP requests; each runs once
    NoRequest,        \* the SQL NULL / absent token
    LegacyPending,    \* migrated rows: PENDING, expires_at NULL
    LegacyApproved,   \* migrated rows: APPROVED before grants existed
    ApprovalTTL,      \* approval_ttl_seconds
    GrantTTL,         \* execution_grant_ttl_seconds
    MaxTime           \* horizon of the clock (a bound of the model)

ASSUME TTLAssumption ==
    ApprovalTTL \in Nat \ {0} /\ GrantTTL \in Nat \ {0} /\ MaxTime \in Nat

ASSUME LegacyAssumption ==
    /\ LegacyPending \subseteq Decisions
    /\ LegacyApproved \subseteq Decisions
    /\ LegacyPending \cap LegacyApproved = {}

ASSUME NoRequestAssumption == NoRequest \notin Requests

ASSUME DecisionsAssumption == Decisions # {}

VARIABLES
    now,        \* the wall clock all timestamps are sampled from
    approval,   \* approval_requests, one row per decision
    grant,      \* execution_grants, at most one row per decision
    audit,      \* administrative audit events per decision and action
    pc,         \* where each request is in its handler
    req,        \* the local variables of each request
    sweep,      \* the rows selected by a request's expiration sweep
    resp        \* the answer of each request

vars == <<now, approval, grant, audit, pc, req, sweep, resp>>
db == <<approval, grant, audit>>

-----------------------------------------------------------------------------
(* Types                                                                   *)

AuditActions ==
    {"APPROVAL_RESOLVED", "APPROVAL_EXPIRED", "EXECUTION_GRANT_ISSUED",
     "EXECUTION_GRANT_CONSUMED", "EXECUTION_GRANT_EXPIRED"}

\* NONE: no decision yet.  STAMPED: evaluated in memory, not saved.
ApprovalStatus ==
    {"NONE", "STAMPED", "PENDING", "APPROVED", "REJECTED", "EXPIRED"}

Approval ==
    [status: ApprovalStatus, requested_at: Nat, expires_at: Nat,
     resolved_at: Nat]

GrantStatus == {"NONE", "ACTIVE", "CONSUMED", "EXPIRED"}

Grant ==
    [status: GrantStatus, id: Requests \cup {NoRequest}, issued_at: Nat,
     expires_at: Nat, consumed_at: Nat, consumer: Requests \cup {NoRequest}]

\* Where a handler goes on once its expiration sweep is done.
AfterSweep ==
    {"approve_get", "approve_read", "conflict_read", "reject_read", "read"}

ApprovePC ==
    {"approve_get", "approve_existing", "approve_read", "approve_persisted",
     "approve_commit", "conflict_read", "conflict_grant"}
RejectPC == {"reject_read", "reject_commit"}
ConsumePC == {"consume_read", "consume_expire", "consume_commit"}
PC == {"idle", "sweep", "expire", "read", "done", "executed"}
        \cup ApprovePC \cup RejectPC \cup ConsumePC

Codes ==
    {"NONE", "GRANT", "REJECTED", "READ", "CONSUMED", "APPROVAL_EXPIRED",
     "ALREADY_RESOLVED", "GRANT_EXPIRED", "ALREADY_CONSUMED", "MISMATCH",
     "INVALID", "SERVER_ERROR", "ABORTED"}

Req ==
    [op: {"none", "approve", "reject", "read", "consume"}, d: Decisions,
     at: Nat, token: Requests \cup {NoRequest}, match: BOOLEAN]

Sweep == [then: AfterSweep, at: Nat, due: SUBSET Decisions]

TypeOK ==
    /\ now \in Nat
    /\ approval \in [Decisions -> Approval]
    /\ grant \in [Decisions -> Grant]
    /\ audit \in [Decisions -> [AuditActions -> Nat]]
    /\ pc \in [Requests -> PC]
    /\ req \in [Requests -> Req]
    /\ sweep \in [Requests -> Sweep]
    /\ resp \in [Requests -> Codes]

-----------------------------------------------------------------------------
(* Rows                                                                    *)

NoGrant ==
    [status |-> "NONE", id |-> NoRequest, issued_at |-> 0, expires_at |-> 0,
     consumed_at |-> 0, consumer |-> NoRequest]

\* Mutant: a missing deadline compares like an early one.
HasExpiryAlways(d) == TRUE

\* A migrated row has expires_at NULL, which no SQL comparison satisfies:
\* the row never expires.
HasExpiry(d) == d \notin LegacyPending \cup LegacyApproved

\* WHERE status = 'PENDING' AND expires_at IS NOT NULL AND expires_at <= t
Due(d, t) ==
    /\ approval[d].status = "PENDING"
    /\ HasExpiry(d)
    /\ approval[d].expires_at <= t

\* Mutant: the conditional UPDATE forgets status = 'PENDING'.
ResolvableAnyStatus(d, t) == HasExpiry(d) => approval[d].expires_at > t

\* WHERE status = 'PENDING' AND (expires_at IS NULL OR expires_at > t)
Resolvable(d, t) ==
    /\ approval[d].status = "PENDING"
    /\ HasExpiry(d) => approval[d].expires_at > t

\* The trigger enforce_execution_grant_scope and the UNIQUE decision_id of
\* execution_grants, for a grant issued at t.
GrantInsertable(d, t) ==
    /\ Resolvable(d, t)
    /\ approval[d].requested_at <= t
    /\ grant[d].status = "NONE"

\* Mutant: the clock is sampled again when the row is written.
ResolvedAtWrite(d, status, t) ==
    [approval EXCEPT ![d] = [@ EXCEPT !.status = status, !.resolved_at = now]]

Resolved(d, status, t) ==
    [approval EXCEPT ![d] = [@ EXCEPT !.status = status, !.resolved_at = t]]

\* The audit row and the webhook event that share the mutation's transaction.
RecordAdministrativeChange(ds, actions) ==
    audit' = [d \in Decisions |-> [a \in AuditActions |->
                IF d \in ds /\ a \in actions
                THEN audit[d][a] + 1 ELSE audit[d][a]]]

-----------------------------------------------------------------------------
(* Control of a request                                                    *)

Goto(r, l) == pc' = [pc EXCEPT ![r] = l] /\ UNCHANGED resp

Respond(r, code) ==
    /\ pc' = [pc EXCEPT ![r] = "done"]
    /\ resp' = [resp EXCEPT ![r] = code]

\* Enter expire_due_approvals and continue at label l.
StartSweep(r, l) ==
    /\ Goto(r, "sweep")
    /\ sweep' = [sweep EXCEPT ![r] = [then |-> l, at |-> 0, due |-> {}]]

\* The 409 answers to a status that is no longer PENDING.
RefuseStatus(r, status) ==
    Respond(r, IF status = "EXPIRED"
               THEN "APPROVAL_EXPIRED" ELSE "ALREADY_RESOLVED")

Receive(r, op, d, l) ==
    /\ pc[r] = "idle"
    /\ approval[d].status \notin {"NONE", "STAMPED"}
    /\ req' = [req EXCEPT ![r] = [op |-> op, d |-> d, at |-> now,
                                  token |-> NoRequest, match |-> TRUE]]
    /\ StartSweep(r, l)
    /\ UNCHANGED <<now, db>>

-----------------------------------------------------------------------------
(* Creation of an approval by an authorize request                         *)

\* The policy engine answered REQUIRE_APPROVAL: the row is built in memory.
Evaluate(d) ==
    /\ approval[d].status = "NONE"
    /\ approval' = [approval EXCEPT ![d] =
         [status |-> "STAMPED", requested_at |-> now,
          expires_at |-> now + ApprovalTTL, resolved_at |-> 0]]
    /\ UNCHANGED <<now, grant, audit, pc, req, sweep, resp>>

\* ... and saved with its decision.
SaveAuthorization(d) ==
    /\ approval[d].status = "STAMPED"
    /\ approval' = [approval EXCEPT ![d] = [@ EXCEPT !.status = "PENDING"]]
    /\ UNCHANGED <<now, grant, audit, pc, req, sweep, resp>>

-----------------------------------------------------------------------------
(* The lazy expiration sweep, run first by every approval read and         *)
(* resolution.  get_approval samples its own time; a resolution sweeps at  *)
(* the time of the resolution.                                             *)

SweepTime(r) ==
    IF sweep[r].then \in {"approve_read", "reject_read"} THEN req[r].at ELSE now

SweepSelect(r) ==
    /\ pc[r] = "sweep"
    /\ LET t == SweepTime(r)
           due == {d \in Decisions : Due(d, t)}
       IN \/ /\ due = {}
             /\ Goto(r, sweep[r].then)
             /\ UNCHANGED sweep
          \/ /\ due # {}
             /\ Goto(r, "expire")
             /\ sweep' = [sweep EXCEPT ![r] = [@ EXCEPT !.at = t, !.due = due]]
    /\ UNCHANGED <<now, db, req>>

\* Mutant: the rows are updated as selected, without checking them again.
SweepUpdateUnchecked(r) ==
    /\ pc[r] = "expire"
    /\ approval' = [d \in Decisions |->
          IF d \in sweep[r].due
          THEN [approval[d] EXCEPT !.status = "EXPIRED", !.resolved_at = sweep[r].at]
          ELSE approval[d]]
    /\ RecordAdministrativeChange(sweep[r].due, {"APPROVAL_EXPIRED"})
    /\ Goto(r, sweep[r].then)
    /\ sweep' = [sweep EXCEPT ![r] = [@ EXCEPT !.at = 0, !.due = {}]]
    /\ UNCHANGED <<now, grant, req>>

\* Mutant: every selected row is audited, also one the UPDATE did not change.
SweepUpdateAuditsSelected(r) ==
    /\ pc[r] = "expire"
    /\ LET t == sweep[r].at
           expired == {d \in sweep[r].due : Due(d, t)}
       IN approval' = [d \in Decisions |->
             IF d \in expired
             THEN [approval[d] EXCEPT !.status = "EXPIRED", !.resolved_at = t]
             ELSE approval[d]]
    /\ RecordAdministrativeChange(sweep[r].due, {"APPROVAL_EXPIRED"})
    /\ Goto(r, sweep[r].then)
    /\ sweep' = [sweep EXCEPT ![r] = [@ EXCEPT !.at = 0, !.due = {}]]
    /\ UNCHANGED <<now, grant, req>>

\* One UPDATE per selected row, each still conditional on PENDING and due;
\* the rows that changed get their audit event in the same transaction.
SweepUpdate(r) ==
    /\ pc[r] = "expire"
    /\ LET t == sweep[r].at
           expired == {d \in sweep[r].due : Due(d, t)}
       IN /\ approval' = [d \in Decisions |->
                IF d \in expired
                THEN [approval[d] EXCEPT !.status = "EXPIRED", !.resolved_at = t]
                ELSE approval[d]]
          /\ RecordAdministrativeChange(expired, {"APPROVAL_EXPIRED"})
    /\ Goto(r, sweep[r].then)
    /\ sweep' = [sweep EXCEPT ![r] = [@ EXCEPT !.at = 0, !.due = {}]]
    /\ UNCHANGED <<now, grant, req>>

-----------------------------------------------------------------------------
(* GET /v1/approvals and GET /v1/approvals/{id}: the sweep is the only     *)
(* change they make.                                                       *)

ReadStart(r, d) == Receive(r, "read", d, "read")

ReadApproval(r) ==
    /\ pc[r] = "read"
    /\ Respond(r, "READ")
    /\ UNCHANGED <<now, db, req, sweep>>

-----------------------------------------------------------------------------
(* POST /v1/approvals/{id}/approve                                         *)

ApproveStart(r, d) == Receive(r, "approve", d, "approve_get")

\* Mutant: a losing request answers with the token it minted itself.
ReturnGrantMinted(r) ==
    /\ req' = [req EXCEPT ![r] = [@ EXCEPT !.token = r]]
    /\ Respond(r, IF grant[req[r].d].status = "NONE" THEN "SERVER_ERROR" ELSE "GRANT")

\* The answer that carries the token of the decision's persisted grant; an
\* approved row without a grant is a RuntimeError.
ReturnGrant(r) ==
    LET g == grant[req[r].d] IN
    /\ req' = [req EXCEPT ![r] = [@ EXCEPT !.token = g.id]]
    /\ Respond(r, IF g.status = "NONE" THEN "SERVER_ERROR" ELSE "GRANT")

\* An approve request that finds the approval APPROVED answers with the same
\* token while the grant is ACTIVE and unexpired at the request's time.
ReturnGrantIfActive(r) ==
    LET g == grant[req[r].d] IN
    \/ /\ g.status = "ACTIVE" /\ g.expires_at > req[r].at
       /\ ReturnGrant(r)
    \/ /\ ~(g.status = "ACTIVE" /\ g.expires_at > req[r].at)
       /\ Respond(r, "ALREADY_RESOLVED")
       /\ UNCHANGED req

ApproveGet(r) ==
    /\ pc[r] = "approve_get"
    /\ LET status == approval[req[r].d].status IN
       \/ status = "PENDING" /\ StartSweep(r, "approve_read")
       \/ status = "APPROVED" /\ Goto(r, "approve_existing") /\ UNCHANGED sweep
       \/ /\ status \in {"REJECTED", "EXPIRED"}
          /\ RefuseStatus(r, status) /\ UNCHANGED sweep
    /\ UNCHANGED <<now, db, req>>

ApproveExisting(r) ==
    /\ pc[r] = "approve_existing"
    /\ ReturnGrantIfActive(r)
    /\ UNCHANGED <<now, db, sweep>>

\* approve_approval_with_grant reads the row again before it writes.
ApproveRead(r) ==
    /\ pc[r] = "approve_read"
    /\ LET status == approval[req[r].d].status IN
       \/ status = "PENDING" /\ Goto(r, "approve_commit")
       \/ status = "APPROVED" /\ Goto(r, "approve_persisted")
       \/ status \in {"REJECTED", "EXPIRED"} /\ RefuseStatus(r, status)
    /\ UNCHANGED <<now, db, req, sweep>>

\* Approved by another request in the meantime: its grant is returned as it
\* is, whatever its status.
ApprovePersisted(r) ==
    /\ pc[r] = "approve_persisted"
    /\ ReturnGrant(r)
    /\ UNCHANGED <<now, db, sweep>>

\* The write transaction: grant row, approval row and two audit events, or an
\* IntegrityError that rolls all of it back.
ApproveCommit(r) ==
    LET d == req[r].d
        t == req[r].at
    IN /\ pc[r] = "approve_commit"
       /\ GrantInsertable(d, t)
       /\ grant' = [grant EXCEPT ![d] =
            [status |-> "ACTIVE", id |-> r, issued_at |-> t,
             expires_at |-> t + GrantTTL, consumed_at |-> 0,
             consumer |-> NoRequest]]
       /\ approval' = Resolved(d, "APPROVED", t)
       /\ RecordAdministrativeChange({d},
            {"APPROVAL_RESOLVED", "EXECUTION_GRANT_ISSUED"})
       /\ req' = [req EXCEPT ![r] = [@ EXCEPT !.token = r]]
       /\ Respond(r, "GRANT")
       /\ UNCHANGED <<now, sweep>>

ApproveConflict(r) ==
    /\ pc[r] = "approve_commit"
    /\ ~GrantInsertable(req[r].d, req[r].at)
    /\ StartSweep(r, "conflict_read")
    /\ UNCHANGED <<now, db, req>>

ConflictRead(r) ==
    /\ pc[r] = "conflict_read"
    /\ LET status == approval[req[r].d].status IN
       \/ status = "APPROVED" /\ Goto(r, "conflict_grant")
       \/ status # "APPROVED" /\ RefuseStatus(r, status)
    /\ UNCHANGED <<now, db, req, sweep>>

ConflictGrant(r) ==
    /\ pc[r] = "conflict_grant"
    /\ ReturnGrantIfActive(r)
    /\ UNCHANGED <<now, db, sweep>>

-----------------------------------------------------------------------------
(* POST /v1/approvals/{id}/reject                                          *)

RejectStart(r, d) == Receive(r, "reject", d, "reject_read")

RejectRead(r) ==
    /\ pc[r] = "reject_read"
    /\ LET status == approval[req[r].d].status IN
       \/ status = "EXPIRED" /\ RefuseStatus(r, status)
       \/ status # "EXPIRED" /\ Goto(r, "reject_commit")
    /\ UNCHANGED <<now, db, req, sweep>>

\* The conditional UPDATE of resolve_with_connection and its audit event.
RejectCommit(r) ==
    LET d == req[r].d
        t == req[r].at
    IN /\ pc[r] = "reject_commit"
       /\ Resolvable(d, t)
       /\ approval' = Resolved(d, "REJECTED", t)
       /\ RecordAdministrativeChange({d}, {"APPROVAL_RESOLVED"})
       /\ Respond(r, "REJECTED")
       /\ UNCHANGED <<now, grant, req, sweep>>

\* Mutant: a refused row is reported by its deadline, not by its status.
RejectRefusedByDeadline(r) ==
    LET d == req[r].d IN
    /\ pc[r] = "reject_commit"
    /\ ~Resolvable(d, req[r].at)
    /\ Respond(r, IF approval[d].expires_at <= now
                  THEN "APPROVAL_EXPIRED" ELSE "ALREADY_RESOLVED")
    /\ UNCHANGED <<now, db, req, sweep>>

\* The UPDATE changed no row: a due row is reported as expired, any other as
\* already resolved (also one a sweep has marked EXPIRED since).
RejectRefused(r) ==
    LET d == req[r].d IN
    /\ pc[r] = "reject_commit"
    /\ ~Resolvable(d, req[r].at)
    /\ Respond(r, IF Due(d, req[r].at)
                  THEN "APPROVAL_EXPIRED" ELSE "ALREADY_RESOLVED")
    /\ UNCHANGED <<now, db, req, sweep>>

-----------------------------------------------------------------------------
(* POST /v1/execution-grants/consume                                       *)

\* The token is one an approve response carried; match says whether the
\* presented agent, action and context have the approved fingerprint.
ConsumeStart(r, issuer, match) ==
    /\ pc[r] = "idle"
    /\ resp[issuer] = "GRANT"
    /\ req' = [req EXCEPT ![r] =
         [op |-> "consume", d |-> req[issuer].d, at |-> now,
          token |-> req[issuer].token, match |-> match]]
    /\ Goto(r, "consume_read")
    /\ UNCHANGED <<now, db, sweep>>

\* A token that is malformed, forged or of another project: 401.
ConsumeInvalid(r) ==
    /\ pc[r] = "idle"
    /\ Respond(r, "INVALID")
    /\ UNCHANGED <<now, db, req, sweep>>

\* Mutant: the row's status is passed on as the error code.
ConsumeRefusalRaw(g, r) ==
    IF g.status = "NONE" \/ g.id # req[r].token THEN "INVALID"
    ELSE IF ~req[r].match THEN "MISMATCH"
    ELSE IF g.status # "ACTIVE" THEN g.status ELSE "NONE"

\* The answer to a consume request that reads grant row g, or "NONE" when the
\* request may go on.
ConsumeRefusal(g, r) ==
    IF g.status = "NONE" \/ g.id # req[r].token THEN "INVALID"
    ELSE IF ~req[r].match THEN "MISMATCH"
    ELSE IF g.status = "CONSUMED" THEN "ALREADY_CONSUMED"
    ELSE IF g.status = "EXPIRED" THEN "GRANT_EXPIRED" ELSE "NONE"

ConsumeRead(r) ==
    LET g == grant[req[r].d]
        refusal == ConsumeRefusal(g, r)
    IN /\ pc[r] = "consume_read"
       /\ \/ refusal # "NONE" /\ Respond(r, refusal)
          \/ /\ refusal = "NONE"
             /\ Goto(r, IF g.expires_at <= req[r].at
                        THEN "consume_expire" ELSE "consume_commit")
       /\ UNCHANGED <<now, db, req, sweep>>

\* Mutant: the UPDATE forgets status = 'ACTIVE'.
ConsumeExpireAnyStatus(r) ==
    LET d == req[r].d IN
    /\ pc[r] = "consume_expire"
    /\ grant' = [grant EXCEPT ![d] = [@ EXCEPT !.status = "EXPIRED"]]
    /\ RecordAdministrativeChange({d}, {"EXECUTION_GRANT_EXPIRED"})
    /\ Respond(r, "GRANT_EXPIRED")
    /\ UNCHANGED <<now, approval, req, sweep>>

\* UPDATE ... SET status = 'EXPIRED' WHERE status = 'ACTIVE' AND expires_at <= t.
\* It commits before the 409 is raised; when it changes no row the handler
\* raises RuntimeError.
ConsumeExpire(r) ==
    LET d == req[r].d
        expirable == grant[d].status = "ACTIVE" /\ grant[d].expires_at <= req[r].at
    IN /\ pc[r] = "consume_expire"
       /\ \/ /\ expirable
             /\ grant' = [grant EXCEPT ![d] = [@ EXCEPT !.status = "EXPIRED"]]
             /\ RecordAdministrativeChange({d}, {"EXECUTION_GRANT_EXPIRED"})
             /\ Respond(r, "GRANT_EXPIRED")
          \/ /\ ~expirable
             /\ Respond(r, "SERVER_ERROR")
             /\ UNCHANGED <<grant, audit>>
       /\ UNCHANGED <<now, approval, req, sweep>>

\* Mutant: the UPDATE forgets status = 'ACTIVE'.
ConsumableAnyStatus(d, t) == grant[d].expires_at > t

\* WHERE status = 'ACTIVE' AND expires_at > t
Consumable(d, t) == grant[d].status = "ACTIVE" /\ grant[d].expires_at > t

\* Mutant: consumed_at is sampled when the row is written.
ConsumeCommitAtWrite(r) ==
    LET d == req[r].d IN
    /\ pc[r] = "consume_commit"
    /\ Consumable(d, req[r].at)
    /\ grant' = [grant EXCEPT ![d] =
         [@ EXCEPT !.status = "CONSUMED", !.consumed_at = now, !.consumer = r]]
    /\ RecordAdministrativeChange({d}, {"EXECUTION_GRANT_CONSUMED"})
    /\ Respond(r, "CONSUMED")
    /\ UNCHANGED <<now, approval, req, sweep>>

ConsumeCommit(r) ==
    LET d == req[r].d
        t == req[r].at
    IN /\ pc[r] = "consume_commit"
       /\ Consumable(d, t)
       /\ grant' = [grant EXCEPT ![d] =
            [@ EXCEPT !.status = "CONSUMED", !.consumed_at = t, !.consumer = r]]
       /\ RecordAdministrativeChange({d}, {"EXECUTION_GRANT_CONSUMED"})
       /\ Respond(r, "CONSUMED")
       /\ UNCHANGED <<now, approval, req, sweep>>

ConsumeRefused(r) ==
    LET d == req[r].d IN
    /\ pc[r] = "consume_commit"
    /\ ~Consumable(d, req[r].at)
    /\ Respond(r, CASE grant[d].status = "CONSUMED" -> "ALREADY_CONSUMED"
                    [] grant[d].status = "EXPIRED" -> "GRANT_EXPIRED"
                    [] OTHER -> "SERVER_ERROR")
    /\ UNCHANGED <<now, db, req, sweep>>

\* The SDK guard runs the protected operation once consumption succeeded.
GuardExecute(r) ==
    /\ pc[r] = "done"
    /\ resp[r] = "CONSUMED"
    /\ pc' = [pc EXCEPT ![r] = "executed"]
    /\ UNCHANGED <<now, db, req, sweep, resp>>

-----------------------------------------------------------------------------

\* The process dies or the write lock times out: the open transaction is
\* rolled back, what earlier steps committed stays.
Abort(r) ==
    /\ pc[r] \notin {"idle", "done", "executed"}
    /\ Respond(r, "ABORTED")
    /\ UNCHANGED <<now, db, req, sweep>>

Tick ==
    /\ now < MaxTime
    /\ now' = now + 1
    /\ UNCHANGED <<db, pc, req, sweep, resp>>

InitialApproval(d) ==
    [status |-> IF d \in LegacyPending THEN "PENDING"
                ELSE IF d \in LegacyApproved THEN "APPROVED" ELSE "NONE",
     requested_at |-> 0, expires_at |-> 0, resolved_at |-> 0]

Init ==
    /\ now = 0
    /\ approval = [d \in Decisions |-> InitialApproval(d)]
    /\ grant = [d \in Decisions |-> NoGrant]
    /\ audit = [d \in Decisions |-> [a \in AuditActions |-> 0]]
    /\ pc = [r \in Requests |-> "idle"]
    /\ req = [r \in Requests |->
               [op |-> "none", d |-> CHOOSE d \in Decisions : TRUE, at |-> 0,
                token |-> NoRequest, match |-> TRUE]]
    /\ sweep = [r \in Requests |-> [then |-> "read", at |-> 0, due |-> {}]]
    /\ resp = [r \in Requests |-> "NONE"]

SweepStep(r) == SweepSelect(r) \/ SweepUpdate(r)

ApproveStep(r) ==
    \/ ApproveGet(r) \/ ApproveExisting(r) \/ ApproveRead(r)
    \/ ApprovePersisted(r) \/ ApproveCommit(r) \/ ApproveConflict(r)
    \/ ConflictRead(r) \/ ConflictGrant(r)

RejectStep(r) == RejectRead(r) \/ RejectCommit(r) \/ RejectRefused(r)

ConsumeStep(r) ==
    \/ ConsumeRead(r) \/ ConsumeExpire(r)
    \/ ConsumeCommit(r) \/ ConsumeRefused(r)

RequestArrives(r) ==
    \/ \E d \in Decisions :
          ReadStart(r, d) \/ ApproveStart(r, d) \/ RejectStart(r, d)
    \/ \E issuer \in Requests, match \in BOOLEAN : ConsumeStart(r, issuer, match)
    \/ ConsumeInvalid(r)

RequestStep(r) ==
    \/ RequestArrives(r) \/ SweepStep(r) \/ ReadApproval(r) \/ ApproveStep(r)
    \/ RejectStep(r) \/ ConsumeStep(r) \/ GuardExecute(r) \/ Abort(r)

Next ==
    \/ Tick
    \/ \E d \in Decisions : Evaluate(d) \/ SaveAuthorization(d)
    \/ \E r \in Requests : RequestStep(r)

Spec == Init /\ [][Next]_vars

-----------------------------------------------------------------------------
(* Properties                                                              *)

\* The grant row and the approval row of a decision are written by one
\* transaction: whatever requests race, an approval is APPROVED exactly when
\* its decision has a grant, issued at the moment of approval.  Rows approved
\* before grants existed never receive one.
GrantMatchesApproval ==
    \A d \in Decisions :
        /\ (approval[d].status = "APPROVED" /\ d \notin LegacyApproved)
             <=> grant[d].status # "NONE"
        /\ d \in LegacyApproved => approval[d].status = "APPROVED"
        /\ grant[d].status # "NONE" =>
             grant[d].issued_at = approval[d].resolved_at

\* A human resolution is recorded inside the validity window of the approval
\* and an expiration at or after its end, although handlers resolve with a
\* time they sampled before other requests ran.  A migrated row without a
\* deadline never expires.
ResolvedInWindow ==
    \A d \in Decisions :
        /\ d \in LegacyPending => approval[d].status # "EXPIRED"
        /\ d \notin LegacyPending \cup LegacyApproved =>
             /\ approval[d].status \in {"APPROVED", "REJECTED"} =>
                  /\ approval[d].requested_at <= approval[d].resolved_at
                  /\ approval[d].resolved_at < approval[d].expires_at
             /\ approval[d].status = "EXPIRED" =>
                  approval[d].expires_at <= approval[d].resolved_at

\* A consumption is recorded inside the window of the grant (what
\* ExecutionGrantRecord.validate_status demands of every row it loads).
ConsumedInWindow ==
    \A d \in Decisions : grant[d].status = "CONSUMED" =>
        /\ grant[d].issued_at <= grant[d].consumed_at
        /\ grant[d].consumed_at < grant[d].expires_at

\* All approve responses for one decision carry the token of the one persisted
\* grant: the racing requests that lose never leak the token they minted.
OneTokenPerDecision ==
    \A r \in Requests : resp[r] = "GRANT" =>
        /\ grant[req[r].d].status # "NONE"
        /\ req[r].token = grant[req[r].d].id

\* The protected operation runs at most once per decision, only for the
\* request that consumed the grant, and only with the approved fingerprint.
AtMostOnceExecution ==
    \A r \in Requests : pc[r] = "executed" =>
        /\ req[r].match
        /\ approval[req[r].d].status = "APPROVED"
        /\ grant[req[r].d].status = "CONSUMED"
        /\ \A q \in Requests :
             pc[q] = "executed" /\ req[q].d = req[r].d => q = r

\* A conflict answer is final: what it reports is what the rows say, now and
\* later, so a client may give up on the token or the approval.
ConflictAnswersAreFinal ==
    \A r \in Requests :
        LET a == approval[req[r].d].status
            g == grant[req[r].d].status
        IN /\ resp[r] = "APPROVAL_EXPIRED" => a = "EXPIRED"
           /\ resp[r] = "REJECTED" => a = "REJECTED"
           /\ resp[r] = "ALREADY_RESOLVED" => a \in {"APPROVED", "REJECTED", "EXPIRED"}
           /\ resp[r] = "GRANT_EXPIRED" => g = "EXPIRED"
           /\ resp[r] \in {"CONSUMED", "ALREADY_CONSUMED"} => g = "CONSUMED"

\* The audit trail holds exactly one event for every effective transition of a
\* row and none for a transition that did not happen.
AuditExact ==
    \A d \in Decisions :
        LET Happened(a) ==
              CASE a = "APPROVAL_RESOLVED" ->
                     /\ approval[d].status \in {"APPROVED", "REJECTED"}
                     /\ d \notin LegacyApproved
                [] a = "APPROVAL_EXPIRED" -> approval[d].status = "EXPIRED"
                [] a = "EXECUTION_GRANT_ISSUED" -> grant[d].status # "NONE"
                [] a = "EXECUTION_GRANT_CONSUMED" -> grant[d].status = "CONSUMED"
                [] OTHER -> grant[d].status = "EXPIRED"
        IN \A a \in AuditActions : audit[d][a] = IF Happened(a) THEN 1 ELSE 0

\* How the two rows of decision d may change in one step: an approval that was
\* resolved stays as it was resolved, a grant keeps its identity and validity,
\* and a consumed or expired grant is never reset.
RowForward(d) ==
    /\ approval[d].status \in {"APPROVED", "REJECTED", "EXPIRED"} =>
         approval'[d] = approval[d]
    /\ approval[d].status = "PENDING" =>
         /\ approval'[d].status \in {"PENDING", "APPROVED", "REJECTED", "EXPIRED"}
         /\ approval'[d].requested_at = approval[d].requested_at
         /\ approval'[d].expires_at = approval[d].expires_at
    /\ grant[d].status \in {"CONSUMED", "EXPIRED"} => grant'[d] = grant[d]
    /\ grant[d].status = "ACTIVE" =>
         /\ grant'[d].status \in {"ACTIVE", "CONSUMED", "EXPIRED"}
         /\ grant'[d].id = grant[d].id
         /\ grant'[d].issued_at = grant[d].issued_at
         /\ grant'[d].expires_at = grant[d].expires_at

\* No interleaving of sweeps, approvals, rejections and consumptions rewrites a
\* terminal row or changes what an issued token is bound to.
RowsOnlyMoveForward == [][\A d \in Decisions : RowForward(d)]_vars

\* docs/architecture.md says that the token "can be deterministically
\* regenerated for an idempotent retry while it remains active": a response
\* that carries a token carries one whose grant is ACTIVE.
ReturnedGrantIsActive ==
    [][\A r \in Requests : resp[r] # "GRANT" /\ resp'[r] = "GRANT" =>
          grant'[req'[r].d].status = "ACTIVE"]_vars

\* consume_execution_grant asserts that the expiration of a grant it has read
\* as ACTIVE and due changes the row ("Execution grant expiration failed.").
ExpirationNeverFails == \A r \in Requests : resp[r] # "SERVER_ERROR"

\* The abstract life of one execution license per decision.
LicensePhase(d) ==
    IF approval[d].status \in {"NONE", "STAMPED"} THEN "absent"
    ELSE IF approval[d].status = "PENDING" THEN "pending"
    ELSE IF grant[d].status = "ACTIVE" THEN "granted"
    ELSE IF grant[d].status = "CONSUMED" THEN "spent" ELSE "refused"

License == INSTANCE ExecutionLicense WITH
    Executors <- Requests,
    phase <- [d \in Decisions |-> LicensePhase(d)],
    ran <- [d \in Decisions |-> {r \in Requests : pc[r] = "executed" /\ req[r].d = d}]

\* Every step of the handlers, triggers and the sweep is a step, or no step, of
\* a license that is granted at most once and runs at most one execution.
ImplementsLicense == License!Spec
=============================================================================

------------------------- MODULE ApprovalGrantsProofs -------------------------
(***************************************************************************)
(* Machine-checked proofs about ApprovalGrants, for any sets of decisions  *)
(* and requests, any TTLs and any horizon: what the stored rows and the    *)
(* audit trail always say, and what the workflow promises to its clients,  *)
(* that a conflict answer is final and that the handlers implement the     *)
(* ExecutionLicense.                                                       *)
(***************************************************************************)
EXTENDS ApprovalGrants, TLAPS

USE TTLAssumption, LegacyAssumption, NoRequestAssumption, DecisionsAssumption

\* The control helpers keep the labels and answers well typed.
LEMMA RespondType ==
    ASSUME TypeOK, NEW r \in Requests, NEW code \in Codes, Respond(r, code)
    PROVE  pc' \in [Requests -> PC] /\ resp' \in [Requests -> Codes]
BY DEF TypeOK, Respond, PC

LEMMA GotoType ==
    ASSUME TypeOK, NEW r \in Requests, NEW l \in PC, Goto(r, l)
    PROVE  pc' \in [Requests -> PC] /\ resp' \in [Requests -> Codes]
BY DEF TypeOK, Goto

LEMMA StartSweepType ==
    ASSUME TypeOK, NEW r \in Requests, NEW l \in AfterSweep, StartSweep(r, l)
    PROVE  /\ pc' \in [Requests -> PC] /\ resp' \in [Requests -> Codes]
           /\ sweep' \in [Requests -> Sweep]
BY GotoType DEF TypeOK, StartSweep, Sweep, PC

LEMMA ReceiveType ==
    ASSUME TypeOK, NEW r \in Requests, NEW d \in Decisions,
           NEW op \in {"approve", "reject", "read"}, NEW l \in AfterSweep,
           Receive(r, op, d, l)
    PROVE  TypeOK'
<1>1. req' \in [Requests -> Req]
  BY DEF Receive, TypeOK, Req
<1>2. QED
  BY <1>1, StartSweepType DEF Receive, TypeOK, db

\* An audit step counts events per decision and action.
LEMMA AuditType ==
    ASSUME TypeOK, NEW ds, NEW actions, RecordAdministrativeChange(ds, actions)
    PROVE  audit' \in [Decisions -> [AuditActions -> Nat]]
BY DEF TypeOK, RecordAdministrativeChange

\* What the conditional UPDATEs do to a row keeps it well typed.
LEMMA ResolvedRowType ==
    ASSUME NEW a \in Approval, NEW s \in ApprovalStatus, NEW t \in Nat
    PROVE  [a EXCEPT !.status = s, !.resolved_at = t] \in Approval
BY DEF Approval

LEMMA InitType == Init => TypeOK
<1> SUFFICES ASSUME Init PROVE TypeOK
  OBVIOUS
<1>1. approval \in [Decisions -> Approval]
  BY DEF Init, InitialApproval, Approval, ApprovalStatus
<1>2. grant \in [Decisions -> Grant]
  BY DEF Init, NoGrant, Grant, GrantStatus
<1>3. req \in [Requests -> Req]
  BY DEF Init, Req
<1>4. sweep \in [Requests -> Sweep]
  BY DEF Init, Sweep, AfterSweep
<1>5. QED
  BY <1>1, <1>2, <1>3, <1>4 DEF Init, TypeOK, PC, Codes

LEMMA SweepSelectType ==
    ASSUME TypeOK, NEW r \in Requests, SweepSelect(r)
    PROVE  TypeOK'
<1> DEFINE t == SweepTime(r)
           due == {d \in Decisions : Due(d, t)}
<1>1. t \in Nat /\ due \in SUBSET Decisions
  BY DEF SweepTime, TypeOK, Req
<1>2. sweep[r].then \in PC /\ "expire" \in PC
  BY DEF TypeOK, Sweep, AfterSweep, PC, ApprovePC, RejectPC
<1>3. \/ UNCHANGED sweep
      \/ sweep' = [sweep EXCEPT ![r] = [@ EXCEPT !.at = t, !.due = due]]
  BY DEF SweepSelect
<1> HIDE DEF t, due
<1>4. sweep' \in [Requests -> Sweep]
  <2>1. [sweep[r] EXCEPT !.at = t, !.due = due] \in Sweep
    BY <1>1 DEF TypeOK, Sweep
  <2>2. QED
    BY <2>1, <1>3 DEF TypeOK
<1>5. QED
  BY <1>2, <1>4, GotoType DEF SweepSelect, TypeOK, db

LEMMA SweepUpdateType ==
    ASSUME TypeOK, NEW r \in Requests, SweepUpdate(r)
    PROVE  TypeOK'
<1>1. approval' \in [Decisions -> Approval]
  <2>1. ASSUME NEW d \in Decisions
        PROVE  [approval[d] EXCEPT !.status = "EXPIRED",
                                   !.resolved_at = sweep[r].at] \in Approval
    <3>1. approval[d] \in Approval /\ sweep[r].at \in Nat
      BY DEF TypeOK, Sweep
    <3>2. "EXPIRED" \in ApprovalStatus
      BY DEF ApprovalStatus
    <3>3. QED
      BY <3>1, <3>2, ResolvedRowType
  <2> DEFINE expired == {d \in sweep[r].due : Due(d, sweep[r].at)}
  <2>2. approval' = [d \in Decisions |->
           IF d \in expired
           THEN [approval[d] EXCEPT !.status = "EXPIRED",
                                    !.resolved_at = sweep[r].at]
           ELSE approval[d]]
    BY DEF SweepUpdate
  <2> HIDE DEF expired
  <2>3. QED
    BY <2>1, <2>2 DEF TypeOK
<1>2. sweep[r].then \in PC
  BY DEF TypeOK, Sweep, AfterSweep, PC, ApprovePC, RejectPC
<1>3. sweep' \in [Requests -> Sweep]
  BY DEF SweepUpdate, TypeOK, Sweep
<1>4. QED
  BY <1>1, <1>2, <1>3, GotoType, AuditType DEF SweepUpdate, TypeOK

LEMMA ExpiredGrantType ==
    ASSUME NEW g \in Grant, NEW s \in GrantStatus
    PROVE  [g EXCEPT !.status = s] \in Grant
BY DEF Grant

LEMMA ConsumedGrantType ==
    ASSUME NEW g \in Grant, NEW s \in GrantStatus, NEW t \in Nat, NEW r \in Requests
    PROVE  [g EXCEPT !.status = s, !.consumed_at = t, !.consumer = r] \in Grant
BY DEF Grant

LEMMA TokenType ==
    ASSUME NEW q \in Req, NEW t \in Requests \cup {NoRequest}
    PROVE  [q EXCEPT !.token = t] \in Req
BY DEF Req

LEMMA ResolvedType ==
    ASSUME TypeOK, NEW d \in Decisions, NEW s \in ApprovalStatus, NEW t \in Nat
    PROVE  Resolved(d, s, t) \in [Decisions -> Approval]
<1>1. [approval[d] EXCEPT !.status = s, !.resolved_at = t] \in Approval
  BY ResolvedRowType DEF TypeOK
<1>2. QED
  BY <1>1 DEF TypeOK, Resolved

LEMMA RequestFields ==
    ASSUME TypeOK, NEW r \in Requests
    PROVE  /\ req[r].d \in Decisions
           /\ req[r].at \in Nat
           /\ req[r].token \in Requests \cup {NoRequest}
           /\ req[r].match \in BOOLEAN
BY DEF TypeOK, Req

\* Returning a token only fills in the request's token.
LEMMA ReturnGrantType ==
    ASSUME TypeOK, NEW r \in Requests, ReturnGrant(r)
    PROVE  /\ req' \in [Requests -> Req]
           /\ pc' \in [Requests -> PC] /\ resp' \in [Requests -> Codes]
<1>1. grant[req[r].d].id \in Requests \cup {NoRequest}
  BY RequestFields DEF TypeOK, Grant
<1>2. [req[r] EXCEPT !.token = grant[req[r].d].id] \in Req
  BY <1>1, TokenType DEF TypeOK
<1>3. "GRANT" \in Codes /\ "SERVER_ERROR" \in Codes
  BY DEF Codes
<1>4. QED
  BY <1>2, <1>3, RespondType DEF ReturnGrant, TypeOK

LEMMA ReturnGrantIfActiveType ==
    ASSUME TypeOK, NEW r \in Requests, ReturnGrantIfActive(r)
    PROVE  /\ req' \in [Requests -> Req]
           /\ pc' \in [Requests -> PC] /\ resp' \in [Requests -> Codes]
<1>1. "ALREADY_RESOLVED" \in Codes
  BY DEF Codes
<1>2. QED
  BY <1>1, RespondType, ReturnGrantType DEF ReturnGrantIfActive, TypeOK

LEMMA RefuseStatusType ==
    ASSUME TypeOK, NEW r \in Requests, NEW status, RefuseStatus(r, status)
    PROVE  pc' \in [Requests -> PC] /\ resp' \in [Requests -> Codes]
<1>1. "APPROVAL_EXPIRED" \in Codes /\ "ALREADY_RESOLVED" \in Codes
  BY DEF Codes
<1>2. QED
  BY <1>1, RespondType DEF RefuseStatus

LEMMA ApproveStepType ==
    ASSUME TypeOK, NEW r \in Requests, ApproveStep(r)
    PROVE  TypeOK'
<1> USE RequestFields
<1>l. /\ ApprovePC \subseteq PC
      /\ {"approve_read", "conflict_read"} \subseteq AfterSweep
      /\ {"approve_existing", "approve_commit", "approve_persisted",
          "conflict_grant"} \subseteq PC
  BY DEF ApprovePC, PC, AfterSweep
<1>1. CASE ApproveGet(r)
  BY <1>1, <1>l, StartSweepType, GotoType, RefuseStatusType DEF ApproveGet, TypeOK, db
<1>2. CASE ApproveExisting(r)
  BY <1>2, ReturnGrantIfActiveType DEF ApproveExisting, TypeOK, db
<1>3. CASE ApproveRead(r)
  BY <1>3, <1>l, GotoType, RefuseStatusType DEF ApproveRead, TypeOK, db
<1>4. CASE ApprovePersisted(r)
  BY <1>4, ReturnGrantType DEF ApprovePersisted, TypeOK, db
<1>5. CASE ApproveCommit(r)
  <2>1. grant' \in [Decisions -> Grant]
    BY <1>5 DEF ApproveCommit, TypeOK, Grant, GrantStatus
  <2>2. approval' \in [Decisions -> Approval]
    BY <1>5, ResolvedType DEF ApproveCommit, ApprovalStatus
  <2>3. req' \in [Requests -> Req]
    <3>1. [req[r] EXCEPT !.token = r] \in Req
      BY TokenType DEF TypeOK
    <3>2. QED
      BY <1>5, <3>1 DEF ApproveCommit, TypeOK
  <2>4. "GRANT" \in Codes
    BY DEF Codes
  <2>5. QED
    BY <1>5, <2>1, <2>2, <2>3, <2>4, AuditType, RespondType DEF ApproveCommit, TypeOK
<1>6. CASE ApproveConflict(r)
  BY <1>6, <1>l, StartSweepType DEF ApproveConflict, TypeOK, db
<1>7. CASE ConflictRead(r)
  BY <1>7, <1>l, GotoType, RefuseStatusType DEF ConflictRead, TypeOK, db
<1>8. CASE ConflictGrant(r)
  BY <1>8, ReturnGrantIfActiveType DEF ConflictGrant, TypeOK, db
<1>9. QED
  BY <1>1, <1>2, <1>3, <1>4, <1>5, <1>6, <1>7, <1>8 DEF ApproveStep

LEMMA RejectStepType ==
    ASSUME TypeOK, NEW r \in Requests, RejectStep(r)
    PROVE  TypeOK'
<1> USE RequestFields
<1>1. CASE RejectRead(r)
  <2>1. "reject_commit" \in PC
    BY DEF PC, RejectPC
  <2>2. QED
    BY <1>1, <2>1, GotoType, RefuseStatusType DEF RejectRead, TypeOK, db
<1>2. CASE RejectCommit(r)
  <2>1. approval' \in [Decisions -> Approval]
    BY <1>2, ResolvedType DEF RejectCommit, ApprovalStatus
  <2>2. "REJECTED" \in Codes
    BY DEF Codes
  <2>3. QED
    BY <1>2, <2>1, <2>2, AuditType, RespondType DEF RejectCommit, TypeOK
<1>3. CASE RejectRefused(r)
  <2>1. "APPROVAL_EXPIRED" \in Codes /\ "ALREADY_RESOLVED" \in Codes
    BY DEF Codes
  <2>2. QED
    BY <1>3, <2>1, RespondType DEF RejectRefused, TypeOK, db
<1>4. QED
  BY <1>1, <1>2, <1>3 DEF RejectStep

LEMMA ConsumeStepType ==
    ASSUME TypeOK, NEW r \in Requests, ConsumeStep(r)
    PROVE  TypeOK'
<1> USE RequestFields
<1>c. /\ {"INVALID", "MISMATCH", "ALREADY_CONSUMED", "GRANT_EXPIRED", "NONE",
          "SERVER_ERROR", "CONSUMED"} \subseteq Codes
      /\ {"consume_expire", "consume_commit"} \subseteq PC
  BY DEF Codes, PC, ConsumePC
<1>1. CASE ConsumeRead(r)
  <2> DEFINE refusal == ConsumeRefusal(grant[req[r].d], r)
  <2>1. refusal \in Codes
    BY <1>c DEF ConsumeRefusal
  <2> HIDE DEF refusal
  <2>2. Respond(r, refusal) \/ Goto(r, "consume_expire") \/ Goto(r, "consume_commit")
    BY <1>1 DEF ConsumeRead, refusal
  <2>3. QED
    BY <1>1, <1>c, <2>1, <2>2, GotoType, RespondType DEF ConsumeRead, TypeOK, db
<1>2. CASE ConsumeExpire(r)
  <2>1. [grant[req[r].d] EXCEPT !.status = "EXPIRED"] \in Grant
    BY ExpiredGrantType DEF TypeOK, GrantStatus
  <2>2. grant' \in [Decisions -> Grant]
    BY <1>2, <2>1 DEF ConsumeExpire, TypeOK
  <2>3. QED
    BY <1>2, <1>c, <2>2, AuditType, RespondType DEF ConsumeExpire, TypeOK
<1>3. CASE ConsumeCommit(r)
  <2>1. [grant[req[r].d] EXCEPT !.status = "CONSUMED",
           !.consumed_at = req[r].at, !.consumer = r] \in Grant
    BY ConsumedGrantType DEF TypeOK, GrantStatus
  <2>2. grant' \in [Decisions -> Grant]
    BY <1>3, <2>1 DEF ConsumeCommit, TypeOK
  <2>3. QED
    BY <1>3, <1>c, <2>2, AuditType, RespondType DEF ConsumeCommit, TypeOK
<1>4. CASE ConsumeRefused(r)
  BY <1>4, <1>c, RespondType DEF ConsumeRefused, TypeOK, db
<1>5. QED
  BY <1>1, <1>2, <1>3, <1>4 DEF ConsumeStep

LEMMA ArrivalType ==
    ASSUME TypeOK, NEW r \in Requests, RequestArrives(r)
    PROVE  TypeOK'
<1>1. ASSUME NEW d \in Decisions,
             ReadStart(r, d) \/ ApproveStart(r, d) \/ RejectStart(r, d)
      PROVE  TypeOK'
  BY <1>1, ReceiveType DEF ReadStart, ApproveStart, RejectStart, AfterSweep
<1>2. ASSUME NEW issuer \in Requests, NEW match \in BOOLEAN,
             ConsumeStart(r, issuer, match)
      PROVE  TypeOK'
  <2>1. req' \in [Requests -> Req]
    BY <1>2, RequestFields DEF ConsumeStart, TypeOK, Req
  <2>2. "consume_read" \in PC
    BY DEF PC, ConsumePC
  <2>3. QED
    BY <1>2, <2>1, <2>2, GotoType DEF ConsumeStart, TypeOK, db
<1>3. CASE ConsumeInvalid(r)
  <2>1. "INVALID" \in Codes
    BY DEF Codes
  <2>2. QED
    BY <1>3, <2>1, RespondType DEF ConsumeInvalid, TypeOK, db
<1>4. QED
  BY <1>1, <1>2, <1>3 DEF RequestArrives

LEMMA AuthorizeType ==
    ASSUME TypeOK, NEW d \in Decisions, Evaluate(d) \/ SaveAuthorization(d)
    PROVE  TypeOK'
<1>1. CASE Evaluate(d)
  <2>1. approval' \in [Decisions -> Approval]
    BY <1>1 DEF Evaluate, TypeOK, Approval, ApprovalStatus
  <2>2. QED
    BY <1>1, <2>1 DEF Evaluate, TypeOK
<1>2. CASE SaveAuthorization(d)
  <2>1. "PENDING" \in ApprovalStatus
    BY DEF ApprovalStatus
  <2>2. approval[d] \in Approval
    BY DEF TypeOK
  <2>3. [approval[d] EXCEPT !.status = "PENDING"] \in Approval
    BY <2>1, <2>2 DEF Approval
  <2>4. QED
    BY <1>2, <2>3 DEF SaveAuthorization, TypeOK
<1>3. QED
  BY <1>1, <1>2

LEMMA RequestStepType ==
    ASSUME TypeOK, NEW r \in Requests, RequestStep(r)
    PROVE  TypeOK'
<1>1. {"READ", "ABORTED"} \subseteq Codes /\ "executed" \in PC
  BY DEF Codes, PC
<1>2. CASE SweepStep(r)
  BY <1>2, SweepSelectType, SweepUpdateType DEF SweepStep
<1>3. CASE ReadApproval(r)
  BY <1>3, <1>1, RespondType DEF ReadApproval, TypeOK, db
<1>4. CASE GuardExecute(r)
  BY <1>4, <1>1 DEF GuardExecute, TypeOK, db
<1>5. CASE Abort(r)
  BY <1>5, <1>1, RespondType DEF Abort, TypeOK, db
<1>6. QED
  BY <1>2, <1>3, <1>4, <1>5, ArrivalType, ApproveStepType, RejectStepType,
     ConsumeStepType DEF RequestStep

LEMMA NextType == TypeOK /\ [Next]_vars => TypeOK'
<1> SUFFICES ASSUME TypeOK, [Next]_vars PROVE TypeOK'
  OBVIOUS
<1>1. CASE Tick
  BY <1>1 DEF Tick, TypeOK, db
<1>2. CASE UNCHANGED vars
  BY <1>2 DEF vars, TypeOK
<1>3. QED
  BY <1>1, <1>2, AuthorizeType, RequestStepType DEF Next

\* Every reachable state is well typed: no handler leaves a row, a label or an
\* answer outside the schema of the tables and the documented error codes.
THEOREM TypeCorrect == Spec => []TypeOK
<1>1. QED
  BY InitType, NextType, PTL DEF Spec

-----------------------------------------------------------------------------
(* The rows: the invariants of the two tables and the audit trail.  They   *)
(* are inductive together, since every handler writes through conditional  *)
(* statements that check the row again inside the transaction.             *)

Rows == GrantMatchesApproval /\ ResolvedInWindow /\ AuditExact

\* Steps that write nothing keep every statement about the rows.
LEMMA RowsUnchanged ==
    ASSUME Rows, UNCHANGED db
    PROVE  Rows'
BY DEF Rows, GrantMatchesApproval, ResolvedInWindow, AuditExact, HasExpiry, db

LEMMA InitRows == Init => Rows
<1> SUFFICES ASSUME Init PROVE Rows
  OBVIOUS
<1>1. GrantMatchesApproval
  BY DEF Init, GrantMatchesApproval, InitialApproval, NoGrant
<1>2. ResolvedInWindow
  BY DEF Init, ResolvedInWindow, InitialApproval, HasExpiry
<1>3. AuditExact
  BY DEF Init, AuditExact, InitialApproval, NoGrant
<1>4. QED
  BY <1>1, <1>2, <1>3 DEF Rows

LEMMA ApproveCommitRows ==
    ASSUME TypeOK, Rows, NEW r \in Requests, ApproveCommit(r)
    PROVE  Rows'
<1> USE RequestFields DEF TypeOK
<1>1. GrantMatchesApproval'
  BY DEF Rows, GrantMatchesApproval, ApproveCommit, GrantInsertable, Resolvable,
         Resolved, Approval, Grant
<1>2. ResolvedInWindow'
  BY DEF Rows, ResolvedInWindow, HasExpiry, ApproveCommit, GrantInsertable,
         Resolvable, Resolved, Approval
<1>3. AuditExact'
  BY DEF Rows, AuditExact, GrantMatchesApproval, ApproveCommit, GrantInsertable,
         Resolvable, Resolved, RecordAdministrativeChange, AuditActions, Approval, Grant
<1>4. QED
  BY <1>1, <1>2, <1>3 DEF Rows

LEMMA RejectCommitRows ==
    ASSUME TypeOK, Rows, NEW r \in Requests, RejectCommit(r),
           approval[req[r].d].requested_at <= req[r].at
    PROVE  Rows'
<1> USE RequestFields DEF TypeOK
<1>1. GrantMatchesApproval'
  BY DEF Rows, GrantMatchesApproval, RejectCommit, Resolvable, Resolved, Approval
<1>2. ResolvedInWindow'
  BY DEF Rows, ResolvedInWindow, HasExpiry, RejectCommit, Resolvable, Resolved, Approval
<1>3. AuditExact'
  BY DEF Rows, AuditExact, GrantMatchesApproval, RejectCommit, Resolvable, Resolved,
         RecordAdministrativeChange, AuditActions, Approval
<1>4. QED
  BY <1>1, <1>2, <1>3 DEF Rows

\* What a sweep's transaction does to the approval row of decision d.
LEMMA SweepUpdateEffect ==
    ASSUME TypeOK, NEW r \in Requests, SweepUpdate(r), NEW d \in Decisions
    PROVE  \/ /\ d \in sweep[r].due /\ Due(d, sweep[r].at)
              /\ approval'[d] = [approval[d] EXCEPT !.status = "EXPIRED",
                                                   !.resolved_at = sweep[r].at]
              /\ \A a \in AuditActions :
                   audit'[d][a] = IF a = "APPROVAL_EXPIRED"
                                  THEN audit[d][a] + 1 ELSE audit[d][a]
           \/ /\ approval'[d] = approval[d]
              /\ \A a \in AuditActions : audit'[d][a] = audit[d][a]
BY DEF SweepUpdate, RecordAdministrativeChange

\* The columns of the row it changes.
LEMMA SweepUpdateColumns ==
    ASSUME TypeOK, NEW r \in Requests, SweepUpdate(r), NEW d \in Decisions
    PROVE  \/ /\ approval[d].status = "PENDING" /\ HasExpiry(d)
              /\ approval[d].expires_at <= sweep[r].at
              /\ approval'[d].status = "EXPIRED"
              /\ approval'[d].resolved_at = sweep[r].at
              /\ approval'[d].requested_at = approval[d].requested_at
              /\ approval'[d].expires_at = approval[d].expires_at
              /\ \A a \in AuditActions :
                   audit'[d][a] = IF a = "APPROVAL_EXPIRED"
                                  THEN audit[d][a] + 1 ELSE audit[d][a]
           \/ /\ approval'[d] = approval[d]
              /\ \A a \in AuditActions : audit'[d][a] = audit[d][a]
<1>1. approval[d] \in Approval
  BY DEF TypeOK
<1>2. CASE Due(d, sweep[r].at) /\ approval'[d] =
             [approval[d] EXCEPT !.status = "EXPIRED", !.resolved_at = sweep[r].at]
  <2>1. /\ approval'[d].status = "EXPIRED"
        /\ approval'[d].resolved_at = sweep[r].at
        /\ approval'[d].requested_at = approval[d].requested_at
        /\ approval'[d].expires_at = approval[d].expires_at
    BY <1>1, <1>2 DEF Approval
  <2>2. approval'[d] # approval[d]
    BY <1>2, <2>1 DEF Due
  <2>3. QED
    BY <1>2, <2>1, <2>2, SweepUpdateEffect DEF Due
<1>3. QED
  BY <1>2, SweepUpdateEffect

LEMMA SweepUpdateRows ==
    ASSUME TypeOK, Rows, NEW r \in Requests, SweepUpdate(r)
    PROVE  Rows'
<1>1. UNCHANGED grant
  BY DEF SweepUpdate
<1>2. GrantMatchesApproval'
  BY <1>1, SweepUpdateColumns DEF Rows, GrantMatchesApproval, HasExpiry
<1>3. ResolvedInWindow'
  BY SweepUpdateColumns DEF Rows, ResolvedInWindow, HasExpiry
<1>4. AuditExact'
  <2>1. ASSUME NEW d \in Decisions
        PROVE  \/ /\ approval[d].status = "PENDING" /\ approval'[d].status = "EXPIRED"
                  /\ \A a \in AuditActions :
                       audit'[d][a] = IF a = "APPROVAL_EXPIRED"
                                      THEN audit[d][a] + 1 ELSE audit[d][a]
               \/ /\ approval'[d].status = approval[d].status
                  /\ \A a \in AuditActions : audit'[d][a] = audit[d][a]
    BY SweepUpdateColumns
  <2>2. QED
    BY <1>1, <2>1 DEF Rows, AuditExact, AuditActions
<1>5. QED
  BY <1>2, <1>3, <1>4 DEF Rows

LEMMA ConsumeExpireRows ==
    ASSUME TypeOK, Rows, NEW r \in Requests, ConsumeExpire(r)
    PROVE  Rows'
<1> USE RequestFields DEF TypeOK
<1>1. GrantMatchesApproval'
  <2>1. \A d \in Decisions :
            /\ grant'[d].issued_at = grant[d].issued_at
            /\ grant'[d].status = "NONE" <=> grant[d].status = "NONE"
    BY DEF ConsumeExpire, Grant
  <2>2. UNCHANGED approval
    BY DEF ConsumeExpire
  <2>3. QED
    BY <2>1, <2>2 DEF Rows, GrantMatchesApproval
<1>2. ResolvedInWindow'
  BY DEF Rows, ResolvedInWindow, HasExpiry, ConsumeExpire
<1>3. AuditExact'
  BY DEF Rows, AuditExact, ConsumeExpire, RecordAdministrativeChange, AuditActions, Grant
<1>4. QED
  BY <1>1, <1>2, <1>3 DEF Rows

LEMMA ConsumeCommitRows ==
    ASSUME TypeOK, Rows, NEW r \in Requests, ConsumeCommit(r)
    PROVE  Rows'
<1> USE RequestFields DEF TypeOK
<1>1. GrantMatchesApproval'
  BY DEF Rows, GrantMatchesApproval, ConsumeCommit, Consumable, Grant
<1>2. ResolvedInWindow'
  BY DEF Rows, ResolvedInWindow, HasExpiry, ConsumeCommit
<1>3. AuditExact'
  BY DEF Rows, AuditExact, ConsumeCommit, Consumable, RecordAdministrativeChange,
         AuditActions, Grant
<1>4. QED
  BY <1>1, <1>2, <1>3 DEF Rows

LEMMA AuthorizeRows ==
    ASSUME TypeOK, Rows, NEW d \in Decisions, Evaluate(d) \/ SaveAuthorization(d)
    PROVE  Rows'
<1>1. /\ approval[d].status \in {"NONE", "STAMPED"}
      /\ approval'[d].status \in {"STAMPED", "PENDING"}
      /\ UNCHANGED <<grant, audit>>
  BY DEF Evaluate, SaveAuthorization, TypeOK, Approval
<1>2. \A e \in Decisions : e # d => approval'[e] = approval[e]
  BY DEF Evaluate, SaveAuthorization, TypeOK
<1>3. GrantMatchesApproval'
  BY <1>1, <1>2 DEF Rows, GrantMatchesApproval
<1>4. ResolvedInWindow'
  BY <1>1, <1>2 DEF Rows, ResolvedInWindow, HasExpiry
<1>5. AuditExact'
  BY <1>1, <1>2 DEF Rows, AuditExact, AuditActions
<1>6. QED
  BY <1>3, <1>4, <1>5 DEF Rows

-----------------------------------------------------------------------------
(* Rows only move forward.                                                 *)

Forward == \A d \in Decisions : RowForward(d)

LEMMA ForwardUnchanged ==
    ASSUME TypeOK, UNCHANGED db
    PROVE  Forward
BY DEF TypeOK, Forward, RowForward, db, Approval, ApprovalStatus, Grant, GrantStatus

LEMMA WritesForward ==
    ASSUME TypeOK, NEW r \in Requests,
           \/ SweepUpdate(r) \/ ApproveCommit(r) \/ RejectCommit(r)
           \/ ConsumeExpire(r) \/ ConsumeCommit(r)
    PROVE  Forward
<1> USE RequestFields DEF TypeOK
<1>1. CASE SweepUpdate(r)
  <2>1. UNCHANGED grant
    BY <1>1 DEF SweepUpdate
  <2>2. QED
    BY <1>1, <2>1, SweepUpdateColumns DEF Forward, RowForward, Grant
<1>2. CASE ApproveCommit(r)
  BY <1>2 DEF ApproveCommit, GrantInsertable, Resolvable, Resolved, Forward,
              RowForward, Approval, Grant
<1>3. CASE RejectCommit(r)
  BY <1>3 DEF RejectCommit, Resolvable, Resolved, Forward, RowForward, Approval
<1>4. CASE ConsumeExpire(r)
  <2>1. UNCHANGED approval
    BY <1>4 DEF ConsumeExpire
  <2>2. \/ UNCHANGED grant
        \/ /\ grant[req[r].d].status = "ACTIVE"
           /\ grant' = [grant EXCEPT ![req[r].d] = [@ EXCEPT !.status = "EXPIRED"]]
    BY <1>4 DEF ConsumeExpire
  <2>3. QED
    BY <2>1, <2>2 DEF Forward, RowForward, Approval, Grant
<1>5. CASE ConsumeCommit(r)
  BY <1>5 DEF ConsumeCommit, Consumable, Forward, RowForward, Approval, Grant
<1>6. QED
  BY <1>1, <1>2, <1>3, <1>4, <1>5

LEMMA AuthorizeForward ==
    ASSUME TypeOK, NEW d \in Decisions, Evaluate(d) \/ SaveAuthorization(d)
    PROVE  Forward
BY DEF TypeOK, Evaluate, SaveAuthorization, Forward, RowForward, Approval, Grant

\* Five steps of the handlers write; all others leave the tables alone.
Writes(r) ==
    \/ SweepUpdate(r) \/ ApproveCommit(r) \/ RejectCommit(r)
    \/ ConsumeExpire(r) \/ ConsumeCommit(r)

LEMMA QuietOrWrites ==
    ASSUME NEW r \in Requests, RequestStep(r)
    PROVE  UNCHANGED db \/ Writes(r)
<1>1. CASE RequestArrives(r)
  BY <1>1 DEF RequestArrives, ReadStart, ApproveStart, RejectStart, Receive,
              ConsumeStart, ConsumeInvalid
<1>2. CASE SweepStep(r)
  BY <1>2 DEF SweepStep, SweepSelect, Writes
<1>3. CASE ApproveStep(r)
  BY <1>3 DEF ApproveStep, ApproveGet, ApproveExisting, ApproveRead,
              ApprovePersisted, ApproveConflict, ConflictRead, ConflictGrant, Writes
<1>4. CASE RejectStep(r)
  BY <1>4 DEF RejectStep, RejectRead, RejectRefused, Writes
<1>5. CASE ConsumeStep(r)
  BY <1>5 DEF ConsumeStep, ConsumeRead, ConsumeRefused, Writes
<1>6. CASE ReadApproval(r) \/ GuardExecute(r) \/ Abort(r)
  BY <1>6 DEF ReadApproval, GuardExecute, Abort
<1>7. QED
  BY <1>1, <1>2, <1>3, <1>4, <1>5, <1>6 DEF RequestStep

LEMMA NextForward == TypeOK /\ [Next]_vars => Forward
<1> SUFFICES ASSUME TypeOK, [Next]_vars PROVE Forward
  OBVIOUS
<1>1. CASE Tick
  BY <1>1, ForwardUnchanged DEF Tick
<1>2. CASE UNCHANGED vars
  BY <1>2, ForwardUnchanged DEF vars, db
<1>3. ASSUME NEW r \in Requests, RequestStep(r) PROVE Forward
  BY <1>3, QuietOrWrites, ForwardUnchanged, WritesForward DEF Writes
<1>4. QED
  BY <1>1, <1>2, <1>3, AuthorizeForward DEF Next

\* No step of any request rewrites a terminal approval or grant, or changes
\* what an issued grant is bound to: a consumed grant cannot be reset.
THEOREM RowsForward == Spec => RowsOnlyMoveForward
<1>1. TypeOK /\ [Next]_vars => [\A d \in Decisions : RowForward(d)]_vars
  BY NextForward DEF Forward
<1>2. QED
  BY <1>1, TypeCorrect, PTL DEF Spec, RowsOnlyMoveForward

-----------------------------------------------------------------------------
(* The sessions: what a request's local variables know about the rows      *)
(* while other requests run.                                               *)

Clock ==
    /\ \A d \in Decisions :
         approval[d].requested_at <= now /\ grant[d].issued_at <= now
    /\ \A r \in Requests : req[r].at <= now

Answered(r) == pc[r] \in {"done", "executed"}

Session(r) ==
    LET d == req[r].d IN
    /\ Answered(r) <=> resp[r] # "NONE"
    /\ ~Answered(r) /\ pc[r] # "idle" =>
         /\ approval[d].status \notin {"NONE", "STAMPED"}
         /\ approval[d].requested_at <= req[r].at
    /\ resp[r] = "GRANT" \/ pc[r] \in ConsumePC =>
         grant[d].status # "NONE" /\ req[r].token = grant[d].id
    /\ pc[r] \in ConsumePC => grant[d].issued_at <= req[r].at
    /\ pc[r] \in {"consume_expire", "consume_commit"} => req[r].match
    /\ resp[r] = "CONSUMED" =>
         /\ req[r].match
         /\ grant[d].status = "CONSUMED" /\ grant[d].consumer = r
    /\ pc[r] = "executed" => resp[r] = "CONSUMED"

Sessions == \A r \in Requests : Session(r)

Inv == TypeOK /\ Rows /\ ConsumedInWindow /\ Clock /\ Sessions

\* A session survives any step that leaves its locals alone: rows only move
\* forward.
LEMMA SessionStable ==
    ASSUME TypeOK, Forward, NEW q \in Requests, Session(q),
           pc'[q] = pc[q], req'[q] = req[q], resp'[q] = resp[q]
    PROVE  Session(q)'
<1>1. req[q].d \in Decisions
  BY RequestFields
<1>2. /\ approval[req[q].d].status \in ApprovalStatus
      /\ grant[req[q].d].status \in GrantStatus
  BY <1>1 DEF TypeOK, Approval, Grant
<1>3. RowForward(req[q].d)
  BY <1>1 DEF Forward
<1>4. QED
  BY <1>2, <1>3 DEF Session, Answered, RowForward, ApprovalStatus, GrantStatus

\* A request changes nobody's locals but its own.
LEMMA OthersUntouched ==
    ASSUME TypeOK, NEW r \in Requests, RequestStep(r), NEW q \in Requests, q # r
    PROVE  pc'[q] = pc[q] /\ req'[q] = req[q] /\ resp'[q] = resp[q]
<1> USE DEF Respond, Goto, StartSweep, TypeOK
<1>1. CASE RequestArrives(r)
  BY <1>1 DEF RequestArrives, ReadStart, ApproveStart, RejectStart, Receive,
              ConsumeStart, ConsumeInvalid
<1>2. CASE SweepStep(r)
  BY <1>2 DEF SweepStep, SweepSelect, SweepUpdate
<1>3. CASE ApproveStep(r)
  <2> USE DEF RefuseStatus, ReturnGrant, ReturnGrantIfActive
  <2>1. CASE ApproveGet(r) \/ ApproveRead(r) \/ ConflictRead(r) \/ ApproveConflict(r)
    BY <2>1 DEF ApproveGet, ApproveRead, ConflictRead, ApproveConflict
  <2>2. CASE ApproveExisting(r) \/ ConflictGrant(r) \/ ApprovePersisted(r)
    BY <2>2 DEF ApproveExisting, ConflictGrant, ApprovePersisted
  <2>3. CASE ApproveCommit(r)
    BY <2>3 DEF ApproveCommit
  <2>4. QED
    BY <1>3, <2>1, <2>2, <2>3 DEF ApproveStep
<1>4. CASE RejectStep(r)
  BY <1>4 DEF RejectStep, RejectRead, RejectRefused, RejectCommit, RefuseStatus
<1>5. CASE ConsumeStep(r)
  BY <1>5 DEF ConsumeStep, ConsumeRead, ConsumeRefused, ConsumeExpire, ConsumeCommit
<1>6. CASE ReadApproval(r) \/ GuardExecute(r) \/ Abort(r)
  BY <1>6 DEF ReadApproval, GuardExecute, Abort
<1>7. QED
  BY <1>1, <1>2, <1>3, <1>4, <1>5, <1>6 DEF RequestStep

\* An answer that carries neither a token nor a consumption claims nothing.
LEMMA RefusedSession ==
    ASSUME TypeOK, NEW r \in Requests, NEW code, Respond(r, code),
           code \notin {"NONE", "GRANT", "CONSUMED"}
    PROVE  Session(r)'
BY DEF TypeOK, Respond, Session, Answered, ConsumePC

\* Moving to a label outside the consume handler keeps the session.
PlainPC == ApprovePC \cup RejectPC \cup {"sweep", "expire", "read"}

LEMMA GotoSession ==
    ASSUME TypeOK, Forward, NEW r \in Requests, Session(r), NEW l \in PlainPC,
           Goto(r, l), req'[r] = req[r], pc[r] # "idle", ~Answered(r)
    PROVE  Session(r)'
<1>1. req[r].d \in Decisions
  BY RequestFields
<1>2. approval[req[r].d].status \in ApprovalStatus /\ RowForward(req[r].d)
  BY <1>1 DEF TypeOK, Approval, Forward
<1>3. pc'[r] = l /\ resp'[r] = "NONE"
  BY DEF Goto, Session, Answered, TypeOK
<1>4. /\ l \notin {"done", "executed", "idle"} /\ l \notin ConsumePC
      /\ l \notin {"consume_expire", "consume_commit"}
  BY DEF PlainPC, ApprovePC, RejectPC, ConsumePC
<1>5. QED
  BY <1>2, <1>3, <1>4 DEF Session, Answered, RowForward, ApprovalStatus

\* A response that carries the persisted token.
LEMMA GrantSession ==
    ASSUME TypeOK, NEW r \in Requests, ReturnGrant(r), UNCHANGED db
    PROVE  Session(r)'
<1>1. req'[r].d = req[r].d /\ req'[r].token = grant[req[r].d].id
  BY DEF ReturnGrant, TypeOK, Req
<1>2. /\ pc'[r] = "done"
      /\ resp'[r] = IF grant[req[r].d].status = "NONE" THEN "SERVER_ERROR" ELSE "GRANT"
  BY DEF ReturnGrant, Respond, TypeOK
<1>3. QED
  BY <1>1, <1>2 DEF Session, Answered, ConsumePC, db

LEMMA GrantIfActiveSession ==
    ASSUME TypeOK, NEW r \in Requests, ReturnGrantIfActive(r), UNCHANGED db
    PROVE  Session(r)'
BY GrantSession, RefusedSession DEF ReturnGrantIfActive

LEMMA RefuseStatusSession ==
    ASSUME TypeOK, NEW r \in Requests, NEW status, RefuseStatus(r, status)
    PROVE  Session(r)'
BY RefusedSession DEF RefuseStatus

LEMMA ArrivalSession ==
    ASSUME Inv, NEW r \in Requests, RequestArrives(r)
    PROVE  Session(r)'
<1> USE DEF Inv
<1>1. pc[r] = "idle" /\ UNCHANGED <<now, db>>
  BY DEF RequestArrives, ReadStart, ApproveStart, RejectStart, Receive,
         ConsumeStart, ConsumeInvalid
<1>2. resp[r] = "NONE"
  BY <1>1 DEF Sessions, Session, Answered
<1>3. ASSUME NEW d \in Decisions, NEW op, NEW l, Receive(r, op, d, l)
      PROVE  Session(r)'
  <2>1. /\ pc'[r] = "sweep" /\ resp'[r] = "NONE"
        /\ req'[r].d = d /\ req'[r].at = now
        /\ approval[d].status \notin {"NONE", "STAMPED"}
    BY <1>2, <1>3 DEF Receive, StartSweep, Goto, TypeOK
  <2>2. QED
    BY <1>1, <2>1 DEF Session, Answered, ConsumePC, Clock, db
<1>4. ASSUME NEW issuer \in Requests, NEW match \in BOOLEAN,
             ConsumeStart(r, issuer, match)
      PROVE  Session(r)'
  <2>1. /\ pc'[r] = "consume_read" /\ resp'[r] = "NONE"
        /\ req'[r].d = req[issuer].d /\ req'[r].at = now
        /\ req'[r].token = req[issuer].token
    BY <1>2, <1>4 DEF ConsumeStart, Goto, TypeOK
  <2>2. /\ grant[req[issuer].d].status # "NONE"
        /\ req[issuer].token = grant[req[issuer].d].id
    BY <1>4 DEF ConsumeStart, Sessions, Session
  <2>3. req[issuer].d \in Decisions
    BY RequestFields
  <2>4. approval[req[issuer].d].status = "APPROVED"
    BY <2>2, <2>3 DEF Rows, GrantMatchesApproval
  <2>5. QED
    BY <1>1, <2>1, <2>2, <2>3, <2>4 DEF Session, Answered, ConsumePC, Clock, db
<1>5. CASE ConsumeInvalid(r)
  BY <1>5, RefusedSession DEF ConsumeInvalid
<1>6. QED
  BY <1>3, <1>4, <1>5 DEF RequestArrives, ReadStart, ApproveStart, RejectStart

LEMMA ApproveSession ==
    ASSUME Inv, Forward, NEW r \in Requests, ApproveStep(r)
    PROVE  Session(r)'
<1> USE DEF Inv
<1>1. Session(r)
  BY DEF Sessions
<1>2. pc[r] \in ApprovePC
  BY DEF ApproveStep, ApproveGet, ApproveExisting, ApproveRead, ApprovePersisted,
         ApproveCommit, ApproveConflict, ConflictRead, ConflictGrant, ApprovePC
<1>3. pc[r] # "idle" /\ ~Answered(r)
  BY <1>2 DEF ApprovePC, Answered
<1>4. {"sweep", "approve_existing", "approve_commit", "approve_persisted",
       "conflict_grant"} \subseteq PlainPC
  BY DEF PlainPC, ApprovePC
<1>5. CASE ApproveGet(r)
  BY <1>1, <1>3, <1>4, <1>5, GotoSession, RefuseStatusSession DEF ApproveGet, StartSweep
<1>6. CASE ApproveRead(r)
  BY <1>1, <1>3, <1>4, <1>6, GotoSession, RefuseStatusSession DEF ApproveRead
<1>7. CASE ConflictRead(r)
  BY <1>1, <1>3, <1>4, <1>7, GotoSession, RefuseStatusSession DEF ConflictRead
<1>8. CASE ApproveConflict(r)
  BY <1>1, <1>3, <1>4, <1>8, GotoSession DEF ApproveConflict, StartSweep
<1>9. CASE ApproveExisting(r) \/ ConflictGrant(r)
  BY <1>9, GrantIfActiveSession DEF ApproveExisting, ConflictGrant
<1>10. CASE ApprovePersisted(r)
  BY <1>10, GrantSession DEF ApprovePersisted
<1>11. CASE ApproveCommit(r)
  <2>1. req[r].d \in Decisions
    BY RequestFields
  <2>2. req'[r].d = req[r].d /\ req'[r].token = r
    BY <1>11 DEF ApproveCommit, TypeOK, Req
  <2>3. grant'[req[r].d].status = "ACTIVE" /\ grant'[req[r].d].id = r
    BY <1>11, <2>1 DEF ApproveCommit, TypeOK
  <2>4. pc'[r] = "done" /\ resp'[r] = "GRANT"
    BY <1>11 DEF ApproveCommit, Respond, TypeOK
  <2>5. QED
    BY <2>2, <2>3, <2>4 DEF Session, Answered, ConsumePC
<1>12. QED
  BY <1>5, <1>6, <1>7, <1>8, <1>9, <1>10, <1>11 DEF ApproveStep

LEMMA SweepSession ==
    ASSUME Inv, Forward, NEW r \in Requests, SweepStep(r)
    PROVE  Session(r)'
<1> USE DEF Inv
<1>1. Session(r) /\ pc[r] # "idle" /\ ~Answered(r)
  BY DEF Sessions, SweepStep, SweepSelect, SweepUpdate, Answered
<1>2. sweep[r].then \in PlainPC /\ "expire" \in PlainPC
  BY DEF TypeOK, Sweep, AfterSweep, PlainPC, ApprovePC, RejectPC
<1>3. req'[r] = req[r]
  BY DEF SweepStep, SweepSelect, SweepUpdate
<1>4. Goto(r, sweep[r].then) \/ Goto(r, "expire")
  BY DEF SweepStep, SweepSelect, SweepUpdate
<1>5. QED
  BY <1>1, <1>2, <1>3, <1>4, GotoSession

LEMMA RejectSession ==
    ASSUME Inv, Forward, NEW r \in Requests, RejectStep(r)
    PROVE  Session(r)'
<1> USE DEF Inv
<1>1. Session(r) /\ pc[r] # "idle" /\ ~Answered(r)
  BY DEF Sessions, RejectStep, RejectRead, RejectCommit, RejectRefused, Answered
<1>2. "reject_commit" \in PlainPC
  BY DEF PlainPC, RejectPC
<1>3. CASE RejectRead(r)
  BY <1>1, <1>2, <1>3, GotoSession, RefuseStatusSession DEF RejectRead
<1>4. CASE RejectCommit(r)
  BY <1>4, RefusedSession DEF RejectCommit
<1>5. CASE RejectRefused(r)
  BY <1>5, RefusedSession DEF RejectRefused
<1>6. QED
  BY <1>3, <1>4, <1>5 DEF RejectStep

LEMMA ConsumeSession ==
    ASSUME Inv, Forward, NEW r \in Requests, ConsumeStep(r)
    PROVE  Session(r)'
<1> USE DEF Inv
<1>1. Session(r) /\ pc[r] \in ConsumePC /\ req[r].d \in Decisions
  BY RequestFields DEF Sessions, ConsumeStep, ConsumeRead, ConsumeExpire, ConsumeCommit,
                       ConsumeRefused, ConsumePC
<1>2. CASE ConsumeRead(r)
  <2> DEFINE refusal == ConsumeRefusal(grant[req[r].d], r)
  <2>1. refusal \notin {"GRANT", "CONSUMED"}
    BY DEF ConsumeRefusal
  <2>2. refusal = "NONE" => req[r].match
    BY RequestFields DEF ConsumeRefusal
  <2> HIDE DEF refusal
  <2>3. \/ refusal # "NONE" /\ Respond(r, refusal)
        \/ refusal = "NONE" /\ Goto(r, "consume_expire")
        \/ refusal = "NONE" /\ Goto(r, "consume_commit")
    BY <1>2 DEF ConsumeRead, refusal
  <2>4. UNCHANGED <<db, req>>
    BY <1>2 DEF ConsumeRead
  <2>5. CASE Respond(r, refusal) /\ refusal # "NONE"
    BY <2>1, <2>5, RefusedSession
  <2>6. ASSUME NEW l \in {"consume_expire", "consume_commit"}, Goto(r, l), refusal = "NONE"
        PROVE  Session(r)'
    <3>1. pc'[r] = l /\ resp'[r] = "NONE"
      BY <1>1, <2>6 DEF Goto, TypeOK, Session, Answered, ConsumePC
    <3>2. QED
      BY <1>1, <2>2, <2>4, <2>6, <3>1 DEF Session, Answered, ConsumePC, db
  <2>7. QED
    BY <2>3, <2>5, <2>6
<1>3. CASE ConsumeExpire(r)
  BY <1>3, RefusedSession DEF ConsumeExpire
<1>4. CASE ConsumeCommit(r)
  <2>1. pc'[r] = "done" /\ resp'[r] = "CONSUMED" /\ req'[r] = req[r]
    BY <1>4 DEF ConsumeCommit, Respond, TypeOK
  <2>2. grant'[req[r].d].status = "CONSUMED" /\ grant'[req[r].d].consumer = r
    BY <1>1, <1>4 DEF ConsumeCommit, TypeOK, Grant
  <2>3. req[r].match
    BY <1>1, <1>4 DEF ConsumeCommit, Session
  <2>4. QED
    BY <2>1, <2>2, <2>3 DEF Session, Answered, ConsumePC
<1>5. CASE ConsumeRefused(r)
  BY <1>5, RefusedSession DEF ConsumeRefused
<1>6. QED
  BY <1>2, <1>3, <1>4, <1>5 DEF ConsumeStep

LEMMA OwnSession ==
    ASSUME Inv, Forward, NEW r \in Requests, RequestStep(r)
    PROVE  Session(r)'
<1>1. CASE ReadApproval(r) \/ Abort(r)
  BY <1>1, RefusedSession DEF ReadApproval, Abort, Inv
<1>2. CASE GuardExecute(r)
  <2>1. pc'[r] = "executed" /\ resp[r] = "CONSUMED"
    BY <1>2 DEF GuardExecute, Inv, TypeOK
  <2>2. QED
    BY <1>2, <2>1 DEF GuardExecute, Inv, Sessions, Session, Answered, ConsumePC, db
<1>3. QED
  BY <1>1, <1>2, ArrivalSession, SweepSession, ApproveSession, RejectSession,
     ConsumeSession DEF RequestStep

LEMMA NextSessions ==
    ASSUME Inv, [Next]_vars
    PROVE  Sessions'
<1>0. Forward
  BY NextForward DEF Inv
<1>1. ASSUME NEW q \in Requests, UNCHANGED <<pc, req, resp>>
      PROVE  Session(q)'
  BY <1>0, <1>1, SessionStable DEF Inv, Sessions
<1>2. ASSUME NEW r \in Requests, RequestStep(r), NEW q \in Requests
      PROVE  Session(q)'
  <2>1. CASE q = r
    BY <1>0, <1>2, <2>1, OwnSession
  <2>2. CASE q # r
    BY <1>0, <1>2, <2>2, OthersUntouched, SessionStable DEF Inv, Sessions
  <2>3. QED
    BY <2>1, <2>2
<1>3. QED
  BY <1>1, <1>2 DEF Next, Tick, Evaluate, SaveAuthorization, vars, Sessions

-----------------------------------------------------------------------------
(* The inductive invariant.                                                *)

LEMMA InitInv == Init => Inv
<1> SUFFICES ASSUME Init PROVE Inv
  OBVIOUS
<1>1. ConsumedInWindow
  BY DEF Init, ConsumedInWindow, NoGrant
<1>2. Clock
  <2>1. /\ \A d \in Decisions : approval[d].requested_at = 0 /\ grant[d].issued_at = 0
        /\ \A r \in Requests : req[r].at = 0
    BY DEF Init, InitialApproval, NoGrant
  <2>2. now = 0
    BY DEF Init
  <2>3. QED
    BY <2>1, <2>2 DEF Clock
<1>3. Sessions
  BY DEF Init, Sessions, Session, Answered, ConsumePC
<1>4. QED
  BY <1>1, <1>2, <1>3, InitType, InitRows DEF Inv

LEMMA NextRows ==
    ASSUME Inv, [Next]_vars
    PROVE  Rows'
<1> USE DEF Inv
<1>1. CASE Tick \/ UNCHANGED vars
  BY <1>1, RowsUnchanged DEF Tick, vars, db
<1>2. ASSUME NEW r \in Requests, RequestStep(r) PROVE Rows'
  <2>1. CASE RejectCommit(r)
    <3>1. approval[req[r].d].requested_at <= req[r].at
      BY <2>1 DEF RejectCommit, Sessions, Session, Answered
    <3>2. QED
      BY <2>1, <3>1, RejectCommitRows
  <2>2. QED
    BY <1>2, <2>1, QuietOrWrites, RowsUnchanged, SweepUpdateRows, ApproveCommitRows,
       ConsumeExpireRows, ConsumeCommitRows DEF Writes
<1>3. QED
  BY <1>1, <1>2, AuthorizeRows DEF Next

LEMMA NextConsumedInWindow ==
    ASSUME Inv, [Next]_vars
    PROVE  ConsumedInWindow'
<1> USE DEF Inv
<1>1. CASE UNCHANGED grant
  BY <1>1 DEF ConsumedInWindow
<1>2. ASSUME NEW r \in Requests, ApproveCommit(r) PROVE ConsumedInWindow'
  BY <1>2, RequestFields DEF ApproveCommit, ConsumedInWindow, TypeOK
<1>3. ASSUME NEW r \in Requests, ConsumeExpire(r) PROVE ConsumedInWindow'
  <2>1. \/ UNCHANGED grant
        \/ grant' = [grant EXCEPT ![req[r].d] = [@ EXCEPT !.status = "EXPIRED"]]
    BY <1>3 DEF ConsumeExpire
  <2>2. QED
    <3>1. \A d \in Decisions : grant[d] \in Grant
      BY DEF TypeOK
    <3>2. \A d \in Decisions : grant'[d].status = "CONSUMED" => grant'[d] = grant[d]
      BY <2>1, <3>1, RequestFields DEF Grant, TypeOK
    <3>3. QED
      BY <3>2 DEF ConsumedInWindow
<1>4. ASSUME NEW r \in Requests, ConsumeCommit(r) PROVE ConsumedInWindow'
  <2>1. grant[req[r].d].issued_at <= req[r].at
    BY <1>4 DEF ConsumeCommit, Sessions, Session, ConsumePC
  <2>2. QED
    BY <1>4, <2>1, RequestFields
       DEF ConsumeCommit, Consumable, ConsumedInWindow, TypeOK, Grant
<1>5. ASSUME NEW r \in Requests, SweepUpdate(r) \/ RejectCommit(r) PROVE UNCHANGED grant
  BY <1>5 DEF SweepUpdate, RejectCommit
<1>6. ASSUME NEW r \in Requests, RequestStep(r) PROVE ConsumedInWindow'
  BY <1>1, <1>2, <1>3, <1>4, <1>5, <1>6, QuietOrWrites DEF Writes, db
<1>7. QED
  BY <1>1, <1>6 DEF Next, Tick, Evaluate, SaveAuthorization, vars, db

LEMMA NextClock ==
    ASSUME Inv, [Next]_vars
    PROVE  Clock'
<1> USE DEF Inv
<1>1. now' \in Nat /\ now <= now'
  <2>1. ASSUME NEW r \in Requests, RequestStep(r) PROVE UNCHANGED now
    BY <2>1 DEF RequestStep, RequestArrives, ReadStart, ApproveStart, RejectStart,
         Receive, ConsumeStart, ConsumeInvalid, SweepStep, SweepSelect, SweepUpdate,
         ReadApproval, ApproveStep, ApproveGet, ApproveExisting, ApproveRead,
         ApprovePersisted, ApproveCommit, ApproveConflict, ConflictRead,
         ConflictGrant, RejectStep, RejectRead, RejectCommit, RejectRefused,
         ConsumeStep, ConsumeRead, ConsumeExpire, ConsumeCommit, ConsumeRefused,
         GuardExecute, Abort
  <2>2. QED
    BY <2>1 DEF Next, Tick, Evaluate, SaveAuthorization, vars, TypeOK
<1>2. ASSUME NEW r \in Requests, RequestStep(r), NEW q \in Requests
      PROVE  req'[q].at <= now
  <2>1. CASE q # r
    BY <1>2, <2>1, OthersUntouched DEF Clock
  <2>2. CASE RequestArrives(r) /\ q = r
    BY <2>2 DEF RequestArrives, ReadStart, ApproveStart, RejectStart, Receive,
                ConsumeStart, ConsumeInvalid, Clock, TypeOK
  <2>3. CASE UNCHANGED req
    BY <2>3 DEF Clock
  <2>4. ASSUME ReturnGrant(r) \/ ApproveCommit(r) PROVE req'[r].at = req[r].at
    BY <2>4 DEF ReturnGrant, ApproveCommit, TypeOK, Req
  <2>5. \/ RequestArrives(r) \/ UNCHANGED req \/ ReturnGrant(r) \/ ApproveCommit(r)
    BY <1>2 DEF RequestStep, SweepStep, SweepSelect, SweepUpdate, ReadApproval,
         ApproveStep, ApproveGet, ApproveExisting, ApproveRead, ApprovePersisted,
         ApproveConflict, ConflictRead, ConflictGrant, ReturnGrantIfActive,
         RejectStep, RejectRead, RejectCommit, RejectRefused, ConsumeStep,
         ConsumeRead, ConsumeExpire, ConsumeCommit, ConsumeRefused, GuardExecute, Abort
  <2>6. QED
    BY <2>1, <2>2, <2>3, <2>4, <2>5 DEF Clock
<1>3. ASSUME NEW r \in Requests, Writes(r), NEW d \in Decisions
      PROVE  /\ approval'[d].requested_at = approval[d].requested_at
             /\ grant'[d].issued_at <= now
  <2> USE RequestFields DEF TypeOK
  <2>1. CASE SweepUpdate(r)
    BY <2>1, SweepUpdateColumns DEF SweepUpdate, Clock
  <2>2. CASE ApproveCommit(r)
    BY <2>2 DEF ApproveCommit, Resolved, Approval, Grant, Clock
  <2>3. CASE RejectCommit(r)
    BY <2>3 DEF RejectCommit, Resolved, Approval, Clock
  <2>4. CASE ConsumeExpire(r)
    <3>1. \/ UNCHANGED grant
          \/ grant' = [grant EXCEPT ![req[r].d] = [@ EXCEPT !.status = "EXPIRED"]]
      BY <2>4 DEF ConsumeExpire
    <3>2. QED
      <4>1. grant'[d].issued_at = grant[d].issued_at
        <5>1. \A e \in Decisions : grant[e] \in Grant
          BY DEF TypeOK
        <5>2. [grant[req[r].d] EXCEPT !.status = "EXPIRED"].issued_at
                = grant[req[r].d].issued_at
          BY <5>1 DEF Grant
        <5>3. QED
          BY <3>1, <5>2
      <4>2. QED
        BY <2>4, <4>1 DEF ConsumeExpire, Clock
  <2>5. CASE ConsumeCommit(r)
    BY <2>5 DEF ConsumeCommit, Grant, Clock
  <2>6. QED
    BY <1>3, <2>1, <2>2, <2>3, <2>4, <2>5 DEF Writes
<1>4. ASSUME NEW r \in Requests, RequestStep(r), NEW d \in Decisions
      PROVE  approval'[d].requested_at <= now /\ grant'[d].issued_at <= now
  BY <1>3, <1>4, QuietOrWrites DEF Clock, db
<1>5. ASSUME NEW e \in Decisions, Evaluate(e) \/ SaveAuthorization(e),
             NEW d \in Decisions
      PROVE  approval'[d].requested_at <= now /\ grant'[d].issued_at <= now
  <2>1. UNCHANGED grant
    BY <1>5 DEF Evaluate, SaveAuthorization
  <2>2. CASE Evaluate(e)
    BY <2>1, <2>2 DEF Evaluate, Clock, TypeOK
  <2>3. CASE SaveAuthorization(e)
    <3>1. approval[e] \in Approval
      BY DEF TypeOK
    <3>2. approval'[d].requested_at = approval[d].requested_at
      BY <2>3, <3>1 DEF SaveAuthorization, TypeOK, Approval
    <3>3. QED
      BY <2>1, <3>2 DEF Clock
  <2>4. QED
    BY <1>5, <2>2, <2>3
<1>6. \/ UNCHANGED <<approval, grant, req>>
      \/ \E r \in Requests : RequestStep(r)
      \/ UNCHANGED req /\ \E e \in Decisions : Evaluate(e) \/ SaveAuthorization(e)
  BY DEF Next, Tick, Evaluate, SaveAuthorization, vars, db
<1>7. /\ \A d \in Decisions : approval'[d].requested_at <= now /\ grant'[d].issued_at <= now
      /\ \A q \in Requests : req'[q].at <= now
  BY <1>2, <1>4, <1>5, <1>6 DEF Clock
<1>8. /\ \A d \in Decisions :
           approval'[d].requested_at \in Nat /\ grant'[d].issued_at \in Nat
      /\ \A q \in Requests : req'[q].at \in Nat
      /\ now \in Nat
  BY NextType DEF TypeOK, Approval, Grant, Req
<1>9. QED
  BY <1>1, <1>7, <1>8 DEF Clock

\* Init => Inv and Inv /\ [Next]_vars => Inv', so Inv always holds.
THEOREM Invariance == Spec => []Inv
<1>1. Inv /\ [Next]_vars => Inv'
  BY NextType, NextRows, NextConsumedInWindow, NextClock, NextSessions DEF Inv
<1>2. QED
  BY <1>1, InitInv, PTL DEF Spec

\* Approval and grant rows agree, resolutions and consumptions lie in their
\* windows and the audit trail is exact, for any number of racing requests.
THEOREM RowsCorrect ==
    Spec => [](GrantMatchesApproval /\ ResolvedInWindow /\ ConsumedInWindow /\ AuditExact)
<1>1. Inv => GrantMatchesApproval /\ ResolvedInWindow /\ ConsumedInWindow /\ AuditExact
  BY DEF Inv, Rows
<1>2. QED
  BY <1>1, Invariance, PTL

\* A resolution lies in the window of its approval, and an expiration after it.
THEOREM ResolutionInWindow == Spec => []ResolvedInWindow
<1>1. QED
  BY RowsCorrect, PTL

\* A grant is consumed only while it is valid, by the clock of the consumer.
THEOREM ConsumptionInWindow == Spec => []ConsumedInWindow
<1>1. QED
  BY RowsCorrect, PTL

\* The audit trail has exactly the events of the changes that were committed.
THEOREM AuditTrailExact == Spec => []AuditExact
<1>1. QED
  BY RowsCorrect, PTL

\* Every approve response for a decision carries the one persisted token.
THEOREM TokenUnique == Spec => []OneTokenPerDecision
<1>1. Inv => OneTokenPerDecision
  BY DEF Inv, Sessions, Session, OneTokenPerDecision
<1>2. QED
  BY <1>1, Invariance, PTL

\* The protected operation of a decision runs at most once, for the request
\* whose consumption the grant row records.
THEOREM ExecutionAtMostOnce == Spec => []AtMostOnceExecution
<1>1. Inv => AtMostOnceExecution
  <2> SUFFICES ASSUME Inv, NEW r \in Requests, pc[r] = "executed"
               PROVE  /\ req[r].match
                      /\ approval[req[r].d].status = "APPROVED"
                      /\ grant[req[r].d].status = "CONSUMED"
                      /\ \A q \in Requests :
                           pc[q] = "executed" /\ req[q].d = req[r].d => q = r
    BY DEF AtMostOnceExecution
  <2>1. ASSUME NEW q \in Requests, pc[q] = "executed"
        PROVE  /\ req[q].match /\ grant[req[q].d].status = "CONSUMED"
               /\ grant[req[q].d].consumer = q
    BY <2>1 DEF Inv, Sessions, Session
  <2>2. approval[req[r].d].status = "APPROVED"
    BY <2>1, RequestFields DEF Inv, Rows, GrantMatchesApproval
  <2>3. QED
    BY <2>1, <2>2
<1>2. QED
  BY <1>1, Invariance, PTL

-----------------------------------------------------------------------------
(* Conflict answers.  A handler answers from what it read in an earlier    *)
(* step; Knows(r) is what it may still rely on when it answers.            *)

Knows(r) ==
    LET d == req[r].d IN
    /\ pc[r] \in {"approve_existing", "conflict_grant"} => approval[d].status = "APPROVED"
    /\ pc[r] \in {"reject_read", "reject_commit"} => ~Due(d, req[r].at)
    /\ pc[r] = "conflict_read" => approval[d].status # "PENDING"
    /\ pc[r] \in {"sweep", "expire"} /\ sweep[r].then = "conflict_read" =>
         ~Resolvable(d, req[r].at)
    /\ pc[r] = "expire" /\ sweep[r].then \in {"conflict_read", "reject_read"} =>
         /\ req[r].at <= sweep[r].at
         /\ Due(d, sweep[r].at) => d \in sweep[r].due

AnswerIsFinal(r) ==
    LET a == approval[req[r].d].status
        g == grant[req[r].d].status
    IN /\ resp[r] = "APPROVAL_EXPIRED" => a = "EXPIRED"
       /\ resp[r] = "REJECTED" => a = "REJECTED"
       /\ resp[r] = "ALREADY_RESOLVED" => a \in {"APPROVED", "REJECTED", "EXPIRED"}
       /\ resp[r] = "GRANT_EXPIRED" => g = "EXPIRED"
       /\ resp[r] \in {"CONSUMED", "ALREADY_CONSUMED"} => g = "CONSUMED"

\* Answered(r) follows AnswerIsFinal, a request under way follows Knows.
Promise(r) == Knows(r) /\ AnswerIsFinal(r)

FinalInv == Inv /\ \A r \in Requests : Promise(r)

\* A row that is no longer PENDING never becomes due, a deadline never moves.
LEMMA NotDueStays ==
    ASSUME TypeOK, Forward, NEW d \in Decisions, NEW t \in Nat,
           approval[d].status \notin {"NONE", "STAMPED"}
    PROVE  /\ ~Due(d, t) => ~Due(d, t)'
           /\ ~Resolvable(d, t) => ~Resolvable(d, t)'
           /\ Due(d, t)' => Due(d, t)
<1>1. approval[d].status \in ApprovalStatus /\ RowForward(d)
  BY DEF TypeOK, Approval, Forward
<1>2. QED
  BY <1>1 DEF RowForward, ApprovalStatus, Due, Resolvable, HasExpiry

\* Other requests cannot invalidate what a handler knows or has answered.
LEMMA PromiseStable ==
    ASSUME Inv, Forward, NEW q \in Requests, Promise(q),
           pc'[q] = pc[q], req'[q] = req[q], resp'[q] = resp[q], sweep'[q] = sweep[q]
    PROVE  Promise(q)'
<1> DEFINE d == req[q].d
<1>1. /\ d \in Decisions /\ req[q].at \in Nat /\ sweep[q].at \in Nat
      /\ req'[q].d = d
  BY RequestFields DEF Inv, TypeOK, Sweep
<1>2. /\ approval[d].status \in ApprovalStatus /\ grant[d].status \in GrantStatus
      /\ RowForward(d)
  BY <1>1 DEF Inv, TypeOK, Approval, Grant, Forward
<1>3. AnswerIsFinal(q)'
  BY <1>1, <1>2 DEF Promise, AnswerIsFinal, RowForward
<1>4. Knows(q)'
  <2>1. CASE pc[q] \in {"idle", "done", "executed"}
    BY <2>1 DEF Knows
  <2>2. CASE pc[q] \notin {"idle", "done", "executed"}
    <3>1. approval[d].status \notin {"NONE", "STAMPED"}
      BY <2>2 DEF Inv, Sessions, Session, Answered
    <3>2. /\ ~Due(d, req[q].at) => ~Due(d, req[q].at)'
          /\ ~Resolvable(d, req[q].at) => ~Resolvable(d, req[q].at)'
      BY <1>1, <3>1, NotDueStays DEF Inv
    <3>3. Due(d, sweep[q].at)' => Due(d, sweep[q].at)
      BY <1>1, <3>1, NotDueStays DEF Inv
    <3>4. /\ approval[d].status # "PENDING" => approval'[d].status # "PENDING"
          /\ approval[d].status = "APPROVED" => approval'[d].status = "APPROVED"
      BY <1>2, <3>1 DEF RowForward, ApprovalStatus
    <3>5. QED
      BY <3>2, <3>3, <3>4 DEF Promise, Knows
  <2>3. QED
    BY <2>1, <2>2
<1>5. QED
  BY <1>3, <1>4 DEF Promise

\* A request's sweep is its own.
LEMMA OthersSweep ==
    ASSUME TypeOK, NEW r \in Requests, RequestStep(r), NEW q \in Requests, q # r
    PROVE  sweep'[q] = sweep[q]
<1> USE DEF StartSweep, TypeOK
<1>1. CASE RequestArrives(r)
  BY <1>1 DEF RequestArrives, ReadStart, ApproveStart, RejectStart, Receive,
              ConsumeStart, ConsumeInvalid
<1>2. CASE SweepStep(r)
  BY <1>2 DEF SweepStep, SweepSelect, SweepUpdate
<1>3. CASE ApproveStep(r)
  BY <1>3 DEF ApproveStep, ApproveGet, ApproveExisting, ApproveRead,
              ApprovePersisted, ApproveCommit, ApproveConflict, ConflictRead, ConflictGrant
<1>4. CASE RejectStep(r) \/ ConsumeStep(r)
  BY <1>4 DEF RejectStep, RejectRead, RejectRefused, RejectCommit, ConsumeStep,
              ConsumeRead, ConsumeRefused, ConsumeExpire, ConsumeCommit
<1>5. CASE ReadApproval(r) \/ GuardExecute(r) \/ Abort(r)
  BY <1>5 DEF ReadApproval, GuardExecute, Abort
<1>6. QED
  BY <1>1, <1>2, <1>3, <1>4, <1>5 DEF RequestStep

\* A request that is under way has answered nothing yet.
LEMMA NoAnswerYet ==
    ASSUME Inv, NEW r \in Requests, pc[r] \notin {"done", "executed"}
    PROVE  resp[r] = "NONE"
BY DEF Inv, Sessions, Session, Answered

\* Moving to a label about which nothing is claimed.
LEMMA GotoPromise ==
    ASSUME Inv, NEW r \in Requests, NEW l, Goto(r, l), pc[r] \notin {"done", "executed"},
           l \notin {"approve_existing", "conflict_grant", "reject_read", "reject_commit",
                     "conflict_read", "sweep", "expire"}
    PROVE  Promise(r)'
<1>1. pc'[r] = l /\ resp'[r] = "NONE"
  BY NoAnswerYet DEF Goto, Inv, TypeOK
<1>2. QED
  BY <1>1 DEF Promise, Knows, AnswerIsFinal

\* Answering: what remains to show is that the answer is true of the new rows.
LEMMA RespondPromise ==
    ASSUME Inv, NEW r \in Requests, NEW code, Respond(r, code),
           req'[r].d = req[r].d,
           code = "APPROVAL_EXPIRED" => approval'[req[r].d].status = "EXPIRED",
           code = "REJECTED" => approval'[req[r].d].status = "REJECTED",
           code = "ALREADY_RESOLVED" =>
             approval'[req[r].d].status \in {"APPROVED", "REJECTED", "EXPIRED"},
           code = "GRANT_EXPIRED" => grant'[req[r].d].status = "EXPIRED",
           code \in {"CONSUMED", "ALREADY_CONSUMED"} => grant'[req[r].d].status = "CONSUMED"
    PROVE  Promise(r)'
<1>1. pc'[r] = "done" /\ resp'[r] = code
  BY DEF Respond, Inv, TypeOK
<1>2. QED
  BY <1>1 DEF Promise, Knows, AnswerIsFinal

\* The 409 answers report the status the handler has just read.
LEMMA RefuseStatusPromise ==
    ASSUME Inv, NEW r \in Requests, RefuseStatus(r, approval[req[r].d].status),
           UNCHANGED <<db, req>>,
           approval[req[r].d].status \in {"APPROVED", "REJECTED", "EXPIRED"}
    PROVE  Promise(r)'
<1> DEFINE code == IF approval[req[r].d].status = "EXPIRED"
                   THEN "APPROVAL_EXPIRED" ELSE "ALREADY_RESOLVED"
<1>1. Respond(r, code)
  BY DEF RefuseStatus
<1>2. UNCHANGED <<approval, grant, req>>
  BY DEF db
<1>3. QED
  BY <1>1, <1>2, RespondPromise

\* A token, or the answer that the approval was resolved before.
LEMMA ReturnGrantPromise ==
    ASSUME Inv, NEW r \in Requests, ReturnGrant(r), UNCHANGED db
    PROVE  Promise(r)'
<1>1. req'[r].d = req[r].d
  BY DEF ReturnGrant, Inv, TypeOK, Req
<1>2. Respond(r, "SERVER_ERROR") \/ Respond(r, "GRANT")
  BY DEF ReturnGrant
<1>3. QED
  BY <1>1, <1>2, RespondPromise

LEMMA ReturnGrantIfActivePromise ==
    ASSUME Inv, NEW r \in Requests, ReturnGrantIfActive(r), UNCHANGED db,
           approval[req[r].d].status = "APPROVED"
    PROVE  Promise(r)'
<1>1. CASE ReturnGrant(r)
  BY <1>1, ReturnGrantPromise
<1>2. CASE Respond(r, "ALREADY_RESOLVED") /\ UNCHANGED req
  <2>1. UNCHANGED <<approval, grant, req>>
    BY <1>2 DEF db
  <2>2. QED
    BY <1>2, <2>1, RespondPromise
<1>3. QED
  BY <1>1, <1>2 DEF ReturnGrantIfActive

LEMMA StartSweepPromise ==
    ASSUME Inv, NEW r \in Requests, NEW l \in AfterSweep, StartSweep(r, l), req'[r] = req[r],
           pc[r] \notin {"done", "executed"},
           l = "conflict_read" => ~Resolvable(req[r].d, req[r].at)'
    PROVE  Promise(r)'
<1>1. pc'[r] = "sweep" /\ resp'[r] = "NONE" /\ sweep'[r].then = l
  BY NoAnswerYet DEF StartSweep, Goto, Inv, TypeOK
<1>2. QED
  BY <1>1 DEF Promise, Knows, AnswerIsFinal

LEMMA ArrivalPromise ==
    ASSUME Inv, NEW r \in Requests, RequestArrives(r)
    PROVE  Promise(r)'
<1>1. pc[r] = "idle"
  BY DEF RequestArrives, ReadStart, ApproveStart, RejectStart, Receive,
         ConsumeStart, ConsumeInvalid
<1>2. ASSUME NEW d \in Decisions, NEW op, NEW l \in {"read", "approve_get", "reject_read"},
             Receive(r, op, d, l)
      PROVE  Promise(r)'
  <2>1. pc'[r] = "sweep" /\ resp'[r] = "NONE" /\ sweep'[r].then = l
    BY <1>1, <1>2, NoAnswerYet DEF Receive, StartSweep, Goto, Inv, TypeOK
  <2>2. QED
    BY <2>1 DEF Promise, Knows, AnswerIsFinal
<1>3. ASSUME NEW issuer \in Requests, NEW match \in BOOLEAN, ConsumeStart(r, issuer, match)
      PROVE  Promise(r)'
  BY <1>1, <1>3, GotoPromise DEF ConsumeStart
<1>4. CASE ConsumeInvalid(r)
  BY <1>4, RespondPromise DEF ConsumeInvalid, Inv
<1>5. QED
  BY <1>2, <1>3, <1>4 DEF RequestArrives, ReadStart, ApproveStart, RejectStart

LEMMA SweepSelectPromise ==
    ASSUME FinalInv, NEW r \in Requests, SweepSelect(r)
    PROVE  Promise(r)'
<1> DEFINE d == req[r].d
           t == SweepTime(r)
           due == {e \in Decisions : Due(e, t)}
<1> USE DEF FinalInv
<1>1. /\ d \in Decisions /\ req[r].at \in Nat /\ now \in Nat /\ req[r].at <= now
      /\ approval[d] \in Approval
  BY RequestFields DEF Inv, TypeOK, Clock
<1>2. req[r].at <= t /\ t \in Nat
  BY <1>1 DEF SweepTime
<1>3. resp[r] = "NONE" /\ UNCHANGED <<db, req, now>>
  BY NoAnswerYet DEF SweepSelect
<1>4. sweep[r].then = "conflict_read" => ~Resolvable(d, req[r].at)
  BY DEF Promise, Knows, SweepSelect
<1>5. sweep[r].then = "conflict_read" => ~Resolvable(d, req[r].at)'
  BY <1>3, <1>4 DEF db, Resolvable
<1>6. CASE due = {} /\ Goto(r, sweep[r].then) /\ UNCHANGED sweep
  <2>1. ~Due(d, t)
    BY <1>1, <1>6
  <2>2. pc'[r] = sweep[r].then /\ resp'[r] = "NONE"
    BY <1>3, <1>6 DEF Goto, Inv, TypeOK
  <2>3. sweep[r].then = "conflict_read" => approval'[d].status # "PENDING"
    BY <1>1, <1>2, <1>3, <1>4, <2>1 DEF Due, Resolvable, db, Approval
  <2>4. ~Due(d, req[r].at)'
    BY <1>1, <1>2, <1>3, <2>1 DEF Due, db, Approval
  <2>5. sweep[r].then \in AfterSweep
    BY DEF Inv, TypeOK, Sweep
  <2>6. QED
    BY <1>3, <2>2, <2>3, <2>4, <2>5 DEF Promise, Knows, AnswerIsFinal, AfterSweep
<1>7. CASE /\ Goto(r, "expire")
           /\ sweep' = [sweep EXCEPT ![r] = [@ EXCEPT !.at = t, !.due = due]]
  <2>1. pc'[r] = "expire" /\ resp'[r] = "NONE"
    BY <1>3, <1>7 DEF Goto, Inv, TypeOK
  <2>2. /\ sweep'[r].then = sweep[r].then
        /\ sweep'[r].at = t /\ sweep'[r].due = due
    <3>1. sweep[r] \in Sweep
      BY DEF Inv, TypeOK
    <3> HIDE DEF t, due
    <3>2. QED
      BY <1>7, <3>1 DEF Inv, TypeOK, Sweep
  <2>3. Due(req[r].d, sweep[r].at)' => d \in due
    <3>1. (approval'[d].status = "PENDING" /\ HasExpiry(d) /\ approval'[d].expires_at <= t)
            => d \in due
      BY <1>1, <1>3 DEF Due, db
    <3> HIDE DEF t, due
    <3>2. QED
      BY <1>3, <2>2, <3>1 DEF Due, HasExpiry
  <2> HIDE DEF t, due
  <2>4. QED
    BY <1>2, <1>3, <1>5, <2>1, <2>2, <2>3 DEF Promise, Knows, AnswerIsFinal, Due
<1>8. QED
  BY <1>6, <1>7 DEF SweepSelect

LEMMA SweepUpdatePromise ==
    ASSUME FinalInv, Forward, NEW r \in Requests, SweepUpdate(r)
    PROVE  Promise(r)'
<1> DEFINE d == req[r].d
           t == sweep[r].at
<1> USE DEF FinalInv
<1>1. /\ d \in Decisions /\ req[r].at \in Nat /\ t \in Nat
      /\ approval[d] \in Approval /\ sweep[r].then \in AfterSweep
  BY RequestFields DEF Inv, TypeOK, Sweep
<1>2. /\ resp[r] = "NONE" /\ UNCHANGED req
      /\ approval[d].status \notin {"NONE", "STAMPED"}
  BY NoAnswerYet DEF SweepUpdate, Inv, Sessions, Session, Answered
<1>3. pc'[r] = sweep[r].then /\ resp'[r] = "NONE"
  BY <1>2 DEF SweepUpdate, Goto, Inv, TypeOK
<1>4. CASE sweep[r].then \in {"conflict_read", "reject_read"}
  <2>1. /\ req[r].at <= t /\ (Due(d, t) => d \in sweep[r].due)
        /\ sweep[r].then = "conflict_read" => ~Resolvable(d, req[r].at)
    BY <1>4 DEF SweepUpdate, Promise, Knows
  <2>2. Due(d, t) => approval'[d].status = "EXPIRED"
    BY <1>1, <2>1 DEF SweepUpdate, Approval
  <2>3. ~Due(d, t) => approval'[d] = approval[d]
    BY <1>1 DEF SweepUpdate
  <2>4. ~Due(d, req[r].at)'
    BY <1>1, <1>2, <2>1, <2>2, <2>3 DEF Due, Approval, HasExpiry
  <2>5. sweep[r].then = "conflict_read" => approval'[d].status # "PENDING"
    BY <1>1, <2>1, <2>2, <2>3 DEF Due, Resolvable, Approval
  <2>6. QED
    BY <1>2, <1>3, <1>4, <2>4, <2>5 DEF Promise, Knows, AnswerIsFinal
<1>5. CASE sweep[r].then \notin {"conflict_read", "reject_read"}
  BY <1>1, <1>2, <1>3, <1>5 DEF Promise, Knows, AnswerIsFinal, AfterSweep
<1>6. QED
  BY <1>4, <1>5

LEMMA ApprovePromise ==
    ASSUME FinalInv, NEW r \in Requests, ApproveStep(r)
    PROVE  Promise(r)'
<1> DEFINE d == req[r].d
<1> USE DEF FinalInv
<1>1. /\ pc[r] \in ApprovePC
      /\ pc[r] \notin {"done", "executed", "idle"}
      /\ d \in Decisions
      /\ {"approve_read", "conflict_read"} \subseteq AfterSweep
  BY RequestFields
     DEF ApproveStep, ApproveGet, ApproveExisting, ApproveRead, ApprovePersisted,
         ApproveCommit, ApproveConflict, ConflictRead, ConflictGrant, ApprovePC, AfterSweep,
         Inv
<1>2. resp[r] = "NONE"
  BY <1>1, NoAnswerYet
<1>3. /\ approval[d].status \notin {"NONE", "STAMPED"}
      /\ approval[d].status \in ApprovalStatus
      /\ approval[d].requested_at <= req[r].at
  BY <1>1 DEF Inv, Sessions, Session, Answered, TypeOK, Approval
<1>4. ASSUME NEW l \in {"approve_existing", "conflict_grant"}, Goto(r, l), UNCHANGED <<db, req>>,
             approval[d].status = "APPROVED"
      PROVE  Promise(r)'
  <2>1. pc'[r] = l /\ resp'[r] = "NONE" /\ approval'[d].status = "APPROVED"
    BY <1>2, <1>4 DEF Goto, Inv, TypeOK, db
  <2>2. QED
    BY <1>4, <2>1 DEF Promise, Knows, AnswerIsFinal
<1>5. CASE ApproveGet(r)
  BY <1>1, <1>4, <1>5, StartSweepPromise, RefuseStatusPromise DEF ApproveGet
<1>6. CASE ApproveRead(r)
  BY <1>1, <1>6, GotoPromise, RefuseStatusPromise DEF ApproveRead
<1>7. CASE ConflictRead(r)
  <2>1. approval[d].status # "PENDING"
    BY <1>7 DEF ConflictRead, Promise, Knows
  <2>2. approval[d].status \in {"APPROVED", "REJECTED", "EXPIRED"}
    BY <1>3, <2>1 DEF ApprovalStatus
  <2>3. QED
    BY <1>4, <1>7, <2>2, RefuseStatusPromise DEF ConflictRead
<1>8. CASE ApproveConflict(r)
  <2>1. ~Resolvable(d, req[r].at)
    <3>1. grant[d].status # "NONE" => approval[d].status = "APPROVED"
      BY <1>1 DEF Inv, Rows, GrantMatchesApproval
    <3>2. QED
      BY <1>3, <1>8, <3>1 DEF ApproveConflict, GrantInsertable, Resolvable
  <2>2. ~Resolvable(d, req[r].at)'
    BY <1>8, <2>1 DEF ApproveConflict, Resolvable, db
  <2>3. QED
    BY <1>1, <1>8, <2>2, StartSweepPromise DEF ApproveConflict
<1>9. CASE ApproveExisting(r) \/ ConflictGrant(r)
  BY <1>9, ReturnGrantIfActivePromise DEF ApproveExisting, ConflictGrant, Promise, Knows
<1>10. CASE ApprovePersisted(r)
  BY <1>10, ReturnGrantPromise DEF ApprovePersisted
<1>11. CASE ApproveCommit(r)
  <2>1. req'[r].d = req[r].d
    BY <1>11 DEF ApproveCommit, Inv, TypeOK, Req
  <2>2. Respond(r, "GRANT")
    BY <1>11 DEF ApproveCommit
  <2>3. QED
    BY <2>1, <2>2, RespondPromise
<1>12. QED
  BY <1>5, <1>6, <1>7, <1>8, <1>9, <1>10, <1>11 DEF ApproveStep

LEMMA RejectPromise ==
    ASSUME FinalInv, NEW r \in Requests, RejectStep(r)
    PROVE  Promise(r)'
<1> DEFINE d == req[r].d
<1> USE DEF FinalInv
<1>1. /\ d \in Decisions /\ pc[r] \in RejectPC
      /\ pc[r] \notin {"done", "executed", "idle"}
      /\ ~Due(d, req[r].at) /\ UNCHANGED req
  BY RequestFields DEF RejectStep, RejectRead, RejectCommit, RejectRefused, RejectPC,
                       Promise, Knows, Inv
<1>2. resp[r] = "NONE"
  BY <1>1, NoAnswerYet
<1>3. approval[d].status \in ApprovalStatus \ {"NONE", "STAMPED"}
  BY <1>1 DEF Inv, Sessions, Session, Answered, TypeOK, Approval
<1>4. CASE RejectRead(r)
  <2>1. CASE Goto(r, "reject_commit")
    <3>1. pc'[r] = "reject_commit" /\ resp'[r] = "NONE"
      BY <1>2, <2>1 DEF Goto, Inv, TypeOK
    <3>2. ~Due(d, req[r].at)'
      BY <1>1, <1>4 DEF RejectRead, Due, db
    <3>3. QED
      BY <1>1, <3>1, <3>2 DEF Promise, Knows, AnswerIsFinal
  <2>2. QED
    BY <1>4, <2>1, RefuseStatusPromise DEF RejectRead
<1>5. CASE RejectCommit(r)
  <2>1. approval'[d].status = "REJECTED"
    BY <1>1, <1>5 DEF RejectCommit, Resolved, Inv, TypeOK, Approval
  <2>2. QED
    BY <1>1, <1>5, <2>1, RespondPromise DEF RejectCommit
<1>6. CASE RejectRefused(r)
  <2>1. Respond(r, "ALREADY_RESOLVED") /\ UNCHANGED approval
    BY <1>1, <1>6 DEF RejectRefused, db
  <2>2. approval[d].status # "PENDING"
    BY <1>1, <1>6, RequestFields DEF RejectRefused, Resolvable, Due, Inv, TypeOK, Approval
  <2>3. QED
    BY <1>1, <1>3, <2>1, <2>2, RespondPromise DEF ApprovalStatus
<1>7. QED
  BY <1>4, <1>5, <1>6 DEF RejectStep

LEMMA ConsumePromise ==
    ASSUME FinalInv, NEW r \in Requests, ConsumeStep(r)
    PROVE  Promise(r)'
<1> DEFINE d == req[r].d
<1> USE DEF FinalInv
<1>1. /\ d \in Decisions /\ UNCHANGED req
      /\ pc[r] \notin {"done", "executed"}
      /\ grant[d] \in Grant
  BY RequestFields DEF ConsumeStep, ConsumeRead, ConsumeExpire, ConsumeCommit, ConsumeRefused,
                       Inv, TypeOK
<1>2. CASE ConsumeRead(r)
  <2> DEFINE refusal == ConsumeRefusal(grant[d], r)
  <2>1. /\ refusal \in {"INVALID", "MISMATCH", "ALREADY_CONSUMED", "GRANT_EXPIRED", "NONE"}
        /\ refusal = "ALREADY_CONSUMED" => grant[d].status = "CONSUMED"
        /\ refusal = "GRANT_EXPIRED" => grant[d].status = "EXPIRED"
    BY DEF ConsumeRefusal
  <2> HIDE DEF refusal
  <2>2. \/ Respond(r, refusal) \/ Goto(r, "consume_expire") \/ Goto(r, "consume_commit")
    BY <1>2 DEF ConsumeRead, refusal
  <2>3. UNCHANGED <<approval, grant>>
    BY <1>2 DEF ConsumeRead, db
  <2>4. QED
    BY <1>1, <2>1, <2>2, <2>3, GotoPromise, RespondPromise
<1>3. CASE ConsumeExpire(r)
  <2>1. CASE Respond(r, "SERVER_ERROR")
    BY <1>1, <2>1, RespondPromise
  <2>2. CASE /\ grant' = [grant EXCEPT ![d] = [@ EXCEPT !.status = "EXPIRED"]]
             /\ Respond(r, "GRANT_EXPIRED")
    <3>1. grant'[d].status = "EXPIRED"
      BY <1>1, <2>2 DEF Inv, TypeOK, Grant
    <3>2. QED
      BY <1>1, <2>2, <3>1, RespondPromise
  <2>3. QED
    BY <1>3, <2>1, <2>2 DEF ConsumeExpire
<1>4. CASE ConsumeCommit(r)
  <2>1. grant'[d].status = "CONSUMED"
    BY <1>1, <1>4 DEF ConsumeCommit, Inv, TypeOK, Grant
  <2>2. Respond(r, "CONSUMED")
    BY <1>4 DEF ConsumeCommit
  <2>3. QED
    BY <1>1, <2>1, <2>2, RespondPromise
<1>5. CASE ConsumeRefused(r)
  <2>1. \/ Respond(r, "ALREADY_CONSUMED") /\ grant[d].status = "CONSUMED"
        \/ Respond(r, "GRANT_EXPIRED") /\ grant[d].status = "EXPIRED"
        \/ Respond(r, "SERVER_ERROR")
    BY <1>5 DEF ConsumeRefused
  <2>2. UNCHANGED <<approval, grant>>
    BY <1>5 DEF ConsumeRefused, db
  <2>3. QED
    BY <1>1, <2>1, <2>2, RespondPromise
<1>6. QED
  BY <1>2, <1>3, <1>4, <1>5 DEF ConsumeStep

LEMMA OwnPromise ==
    ASSUME FinalInv, Forward, NEW r \in Requests, RequestStep(r)
    PROVE  Promise(r)'
<1> USE DEF FinalInv
<1>1. CASE ReadApproval(r) \/ Abort(r)
  <2>1. UNCHANGED req /\ (Respond(r, "READ") \/ Respond(r, "ABORTED"))
    BY <1>1 DEF ReadApproval, Abort
  <2>2. QED
    BY <2>1, RespondPromise
<1>2. CASE GuardExecute(r)
  <2>1. pc'[r] = "executed" /\ UNCHANGED <<approval, grant, req, resp>>
    BY <1>2 DEF GuardExecute, Inv, TypeOK, db
  <2>2. QED
    BY <2>1 DEF Promise, Knows, AnswerIsFinal
<1>3. QED
  BY <1>1, <1>2, ArrivalPromise, SweepSelectPromise, SweepUpdatePromise, ApprovePromise,
     RejectPromise, ConsumePromise DEF RequestStep, SweepStep

LEMMA NextFinal ==
    ASSUME FinalInv, [Next]_vars
    PROVE  \A q \in Requests : Promise(q)'
<1>0. Forward
  BY NextForward DEF FinalInv, Inv
<1>1. ASSUME NEW q \in Requests, UNCHANGED <<pc, req, resp, sweep>>
      PROVE  Promise(q)'
  BY <1>0, <1>1, PromiseStable DEF FinalInv
<1>2. ASSUME NEW r \in Requests, RequestStep(r), NEW q \in Requests
      PROVE  Promise(q)'
  <2>1. CASE q = r
    BY <1>0, <1>2, <2>1, OwnPromise
  <2>2. CASE q # r
    BY <1>0, <1>2, <2>2, OthersUntouched, OthersSweep, PromiseStable DEF FinalInv, Inv
  <2>3. QED
    BY <2>1, <2>2
<1>3. QED
  BY <1>1, <1>2 DEF Next, Tick, Evaluate, SaveAuthorization, vars

\* A client may give up on what a conflict answer reports: the row already had
\* that status when the answer was given, although the handler read it in an
\* earlier step, and no later step of any request changes it.
THEOREM ConflictAnswersFinal == Spec => []ConflictAnswersAreFinal
<1>1. Init => FinalInv
  <2> SUFFICES ASSUME Init, NEW r \in Requests PROVE Promise(r)
    BY InitInv DEF FinalInv
  <2>1. pc[r] = "idle" /\ resp[r] = "NONE"
    BY DEF Init
  <2>2. QED
    BY <2>1 DEF Promise, Knows, AnswerIsFinal
<1>2. Inv /\ [Next]_vars => Inv'
  BY NextType, NextRows, NextConsumedInWindow, NextClock, NextSessions DEF Inv
<1>3. FinalInv /\ [Next]_vars => FinalInv'
  BY <1>2, NextFinal DEF FinalInv
<1>4. FinalInv => ConflictAnswersAreFinal
  BY DEF FinalInv, Promise, AnswerIsFinal, ConflictAnswersAreFinal
<1>5. QED
  BY <1>1, <1>3, <1>4, PTL DEF Spec

-----------------------------------------------------------------------------
(* The refinement: the handlers implement the ExecutionLicense.            *)

Phases == [d \in Decisions |-> LicensePhase(d)]
Ran(d) == {r \in Requests : pc[r] = "executed" /\ req[r].d = d}
Runs == [d \in Decisions |-> Ran(d)]

\* Only the phases of the rows that a step writes can change.
LEMMA PhaseOf ==
    ASSUME NEW d \in Decisions, approval'[d].status = approval[d].status,
           grant'[d].status = grant[d].status
    PROVE  LicensePhase(d)' = LicensePhase(d)
BY DEF LicensePhase

LEMMA PhasesUnchanged ==
    ASSUME UNCHANGED <<approval, grant>>
    PROVE  Phases' = Phases
BY DEF Phases, LicensePhase

\* Only the guard executes, and an executed request stays executed.
LEMMA RunsUnchanged ==
    ASSUME TypeOK, NEW r \in Requests, RequestStep(r), ~GuardExecute(r)
    PROVE  Runs' = Runs
<1>1. pc[r] # "executed"
  BY DEF RequestStep, RequestArrives, ReadStart, ApproveStart, RejectStart, Receive,
         ConsumeStart, ConsumeInvalid, SweepStep, SweepSelect, SweepUpdate, ReadApproval,
         ApproveStep, ApproveGet, ApproveExisting, ApproveRead, ApprovePersisted,
         ApproveCommit, ApproveConflict, ConflictRead, ConflictGrant, RejectStep,
         RejectRead, RejectCommit, RejectRefused, ConsumeStep, ConsumeRead,
         ConsumeExpire, ConsumeCommit, ConsumeRefused, Abort
<1>2. pc'[r] # "executed"
  <2>1. ASSUME NEW code, Respond(r, code) PROVE pc'[r] # "executed"
    BY <2>1 DEF Respond, TypeOK
  <2>2. ASSUME NEW l, Goto(r, l), l # "executed" PROVE pc'[r] # "executed"
    BY <2>2 DEF Goto, TypeOK
  <2>3. sweep[r].then # "executed"
    BY DEF TypeOK, Sweep, AfterSweep
  <2>4. CASE RequestArrives(r)
    BY <2>1, <2>2, <2>4 DEF RequestArrives, ReadStart, ApproveStart, RejectStart, Receive,
         StartSweep, ConsumeStart, ConsumeInvalid
  <2>5. CASE SweepStep(r)
    BY <2>2, <2>3, <2>5 DEF SweepStep, SweepSelect, SweepUpdate
  <2>6. CASE ApproveStep(r)
    <3> USE <2>1, <2>2 DEF RefuseStatus, ReturnGrant, ReturnGrantIfActive, StartSweep
    <3>1. CASE ApproveGet(r) \/ ApproveRead(r) \/ ConflictRead(r) \/ ApproveConflict(r)
      BY <3>1 DEF ApproveGet, ApproveRead, ConflictRead, ApproveConflict
    <3>2. CASE ApproveExisting(r) \/ ConflictGrant(r) \/ ApprovePersisted(r)
      BY <3>2 DEF ApproveExisting, ConflictGrant, ApprovePersisted
    <3>3. CASE ApproveCommit(r)
      BY <3>3 DEF ApproveCommit
    <3>4. QED
      BY <2>6, <3>1, <3>2, <3>3 DEF ApproveStep
  <2>7. CASE RejectStep(r)
    BY <2>1, <2>2, <2>7 DEF RejectStep, RejectRead, RejectRefused, RejectCommit, RefuseStatus
  <2>8. CASE ConsumeStep(r)
    <3>1. CASE ConsumeRead(r)
      BY <2>1, <2>2, <3>1 DEF ConsumeRead
    <3>2. CASE ConsumeRefused(r) \/ ConsumeExpire(r) \/ ConsumeCommit(r)
      BY <2>1, <3>2 DEF ConsumeRefused, ConsumeExpire, ConsumeCommit
    <3>3. QED
      BY <2>8, <3>1, <3>2 DEF ConsumeStep
  <2>9. CASE ReadApproval(r) \/ Abort(r)
    BY <2>1, <2>9 DEF ReadApproval, Abort
  <2>10. QED
    BY <2>4, <2>5, <2>6, <2>7, <2>8, <2>9 DEF RequestStep
<1>3. \A q \in Requests : q # r => pc'[q] = pc[q] /\ req'[q] = req[q]
  BY OthersUntouched
<1>4. ASSUME NEW d \in Decisions PROVE Ran(d)' = Ran(d)
  BY <1>1, <1>2, <1>3 DEF Ran
<1>5. QED
  BY <1>4 DEF Runs

\* A request writes the rows of at most its own decision.
LEMMA OnePhase ==
    ASSUME TypeOK, NEW d \in Decisions, NEW to,
           \A e \in Decisions : e # d =>
             approval'[e] = approval[e] /\ grant'[e] = grant[e],
           LicensePhase(d)' = to
    PROVE  Phases' = [Phases EXCEPT ![d] = to]
<1>1. \A e \in Decisions : e # d => LicensePhase(e)' = LicensePhase(e)
  BY PhaseOf
<1>2. QED
  BY <1>1 DEF Phases

\* The abstract action that each writing step of a handler performs.
LicenseStep ==
    \/ \E d \in Decisions, to \in {"pending", "granted", "spent", "refused"} :
         /\ <<LicensePhase(d), to>> \in
              {<<"absent", "pending">>, <<"pending", "granted">>,
               <<"granted", "spent">>, <<"granted", "refused">>}
         /\ Phases' = [Phases EXCEPT ![d] = to]
         /\ Runs' = Runs
    \/ \E D \in SUBSET Decisions :
         /\ \A d \in D : LicensePhase(d) = "pending"
         /\ Phases' = [d \in Decisions |-> IF d \in D THEN "refused" ELSE LicensePhase(d)]
         /\ Runs' = Runs
    \/ \E d \in Decisions, e \in Requests :
         /\ LicensePhase(d) = "spent" /\ Ran(d) = {}
         /\ Runs' = [Runs EXCEPT ![d] = {e}]
         /\ Phases' = Phases
    \/ Phases' = Phases /\ Runs' = Runs

LEMMA LicenseStepRefines == LicenseStep => [License!Next]_License!lvars
<1> SUFFICES ASSUME LicenseStep PROVE [License!Next]_License!lvars
  OBVIOUS
<1>1. ASSUME NEW d \in Decisions PROVE Phases[d] = LicensePhase(d) /\ Runs[d] = Ran(d)
  BY DEF Phases, Runs
<1> DEFINE phase == [d \in Decisions |-> LicensePhase(d)]
           ran == [d \in Decisions |-> {r \in Requests : pc[r] = "executed" /\ req[r].d = d}]
<1>2. phase = Phases /\ ran = Runs /\ phase' = Phases' /\ ran' = Runs'
  BY DEF Phases, Runs, Ran
<1>3. ASSUME NEW d \in Decisions, NEW to, UNCHANGED ran,
             phase' = [phase EXCEPT ![d] = to],
             \/ phase[d] = "absent" /\ to = "pending"
             \/ phase[d] = "pending" /\ to = "granted"
             \/ phase[d] = "granted" /\ to = "spent"
             \/ phase[d] = "granted" /\ to = "refused"
      PROVE  License!Next
  BY <1>3, Zenon DEF License!Next, License!Request, License!GrantLicense, License!Spend,
                     License!Lapse, License!Move
<1>4. ASSUME NEW D \in SUBSET Decisions, UNCHANGED ran,
             \A d \in D : phase[d] = "pending",
             phase' = [d \in Decisions |-> IF d \in D THEN "refused" ELSE phase[d]]
      PROVE  License!Next
  BY <1>4, Zenon DEF License!Next, License!Refuse
<1>5. ASSUME NEW d \in Decisions, NEW e \in Requests, phase[d] = "spent", ran[d] = {},
             ran' = [ran EXCEPT ![d] = {e}], UNCHANGED phase
      PROVE  License!Next
  BY <1>5, Zenon DEF License!Next, License!Run
<1>6. ASSUME UNCHANGED <<phase, ran>> PROVE UNCHANGED License!lvars
  BY <1>6 DEF License!lvars
<1> HIDE DEF phase, ran
<1>7. CASE \E d \in Decisions, to \in {"pending", "granted", "spent", "refused"} :
             /\ <<LicensePhase(d), to>> \in
                  {<<"absent", "pending">>, <<"pending", "granted">>,
                   <<"granted", "spent">>, <<"granted", "refused">>}
             /\ Phases' = [Phases EXCEPT ![d] = to]
             /\ Runs' = Runs
  BY <1>1, <1>2, <1>3, <1>7
<1>8. CASE \E D \in SUBSET Decisions :
             /\ \A d \in D : LicensePhase(d) = "pending"
             /\ Phases' = [d \in Decisions |-> IF d \in D THEN "refused" ELSE LicensePhase(d)]
             /\ Runs' = Runs
  <2>1. PICK D \in SUBSET Decisions :
             /\ \A d \in D : LicensePhase(d) = "pending"
             /\ Phases' = [d \in Decisions |-> IF d \in D THEN "refused" ELSE LicensePhase(d)]
             /\ Runs' = Runs
    BY <1>8
  <2>2. phase' = [d \in Decisions |-> IF d \in D THEN "refused" ELSE phase[d]]
    BY <1>1, <1>2, <2>1
  <2>3. QED
    BY <1>1, <1>2, <1>4, <2>1, <2>2
<1>9. CASE \E d \in Decisions, e \in Requests :
             /\ LicensePhase(d) = "spent" /\ Ran(d) = {}
             /\ Runs' = [Runs EXCEPT ![d] = {e}]
             /\ Phases' = Phases
  BY <1>1, <1>2, <1>5, <1>9
<1>10. CASE Phases' = Phases /\ Runs' = Runs
  BY <1>2, <1>6, <1>10
<1>11. QED
  BY <1>7, <1>8, <1>9, <1>10 DEF LicenseStep

\* While a row waits for its resolution its decision has no grant, and a grant
\* exists only for an approved row.
LEMMA GrantOfRow ==
    ASSUME Rows, NEW d \in Decisions
    PROVE  /\ approval[d].status # "APPROVED" => grant[d].status = "NONE"
           /\ grant[d].status # "NONE" => approval[d].status = "APPROVED"
BY DEF Rows, GrantMatchesApproval

\* The request that executes is the one whose consumption the row records.
LEMMA ExecutesAlone ==
    ASSUME Inv, NEW r \in Requests, GuardExecute(r)
    PROVE  LicensePhase(req[r].d) = "spent" /\ Ran(req[r].d) = {}
<1> USE DEF Inv
<1>1. /\ req[r].d \in Decisions /\ pc[r] = "done"
      /\ grant[req[r].d].status = "CONSUMED" /\ grant[req[r].d].consumer = r
  BY RequestFields DEF GuardExecute, Sessions, Session
<1>2. approval[req[r].d].status = "APPROVED"
  BY <1>1, GrantOfRow
<1>3. ASSUME NEW q \in Requests, pc[q] = "executed" PROVE req[q].d # req[r].d
  BY <1>1, <1>3 DEF Sessions, Session
<1>4. QED
  BY <1>1, <1>2, <1>3 DEF LicensePhase, Ran

LEMMA GuardRefines ==
    ASSUME Inv, NEW r \in Requests, GuardExecute(r)
    PROVE  LicenseStep
<1> USE DEF Inv
<1>1. /\ UNCHANGED <<approval, grant, req>> /\ pc' = [pc EXCEPT ![r] = "executed"]
      /\ req[r].d \in Decisions
  BY RequestFields DEF GuardExecute, db
<1>2. Phases' = Phases
  BY <1>1, PhasesUnchanged
<1>3. ASSUME NEW d \in Decisions
      PROVE  Ran(d)' = IF d = req[r].d THEN {r} ELSE Ran(d)
  BY <1>1, ExecutesAlone DEF Ran, TypeOK
<1>4. Runs' = [Runs EXCEPT ![req[r].d] = {r}]
  BY <1>1, <1>3 DEF Runs
<1>5. QED
  BY <1>1, <1>2, <1>4, ExecutesAlone DEF LicenseStep

LEMMA SweepRefines ==
    ASSUME Inv, NEW r \in Requests, SweepUpdate(r)
    PROVE  LicenseStep
<1> USE DEF Inv
<1> DEFINE D == {d \in sweep[r].due : Due(d, sweep[r].at)}
<1>1. D \subseteq Decisions
  BY DEF TypeOK, Sweep
<1>2. Runs' = Runs
  BY RunsUnchanged DEF RequestStep, SweepStep, GuardExecute, SweepUpdate
<1>3. ASSUME NEW d \in D PROVE LicensePhase(d) = "pending" /\ LicensePhase(d)' = "refused"
  <2>1. approval[d].status = "PENDING" /\ grant[d].status = "NONE"
    BY <1>1, GrantOfRow DEF Due
  <2>2. approval'[d].status = "EXPIRED" /\ grant' = grant
    <3>1. /\ approval \in [Decisions -> Approval] /\ d \in Decisions
          /\ approval' = [e \in Decisions |->
               IF e \in D THEN [approval[e] EXCEPT !.status = "EXPIRED",
                                                   !.resolved_at = sweep[r].at]
               ELSE approval[e]]
          /\ grant' = grant
      BY <1>1 DEF SweepUpdate, TypeOK
    <3> HIDE DEF D
    <3>2. QED
      BY <3>1 DEF Approval
  <2>3. QED
    BY <2>1, <2>2 DEF LicensePhase
<1>4. ASSUME NEW d \in Decisions, d \notin D PROVE LicensePhase(d)' = LicensePhase(d)
  BY <1>4, PhaseOf DEF SweepUpdate
<1> HIDE DEF D
<1>5. Phases' = [d \in Decisions |-> IF d \in D THEN "refused" ELSE LicensePhase(d)]
  BY <1>1, <1>3, <1>4 DEF Phases
<1>6. QED
  BY <1>1, <1>2, <1>3, <1>5 DEF LicenseStep

LEMMA RejectRefines ==
    ASSUME Inv, NEW r \in Requests, RejectCommit(r)
    PROVE  LicenseStep
<1> USE DEF Inv
<1> PICK d \in Decisions : d = req[r].d
  BY RequestFields
<1>2. Runs' = Runs
  BY RunsUnchanged DEF RequestStep, RejectStep, GuardExecute, RejectCommit
<1>3. /\ approval[d].status = "PENDING" /\ grant[d].status = "NONE"
      /\ approval'[d].status = "REJECTED" /\ grant' = grant
  BY GrantOfRow DEF RejectCommit, Resolvable, Resolved, TypeOK, Approval
<1>4. LicensePhase(d) = "pending" /\ LicensePhase(d)' = "refused"
  BY <1>3 DEF LicensePhase
<1>5. ASSUME NEW e \in Decisions, e # d PROVE LicensePhase(e)' = LicensePhase(e)
  BY <1>5, PhaseOf DEF RejectCommit, Resolved, TypeOK
<1>6. Phases' = [e \in Decisions |-> IF e \in {d} THEN "refused" ELSE LicensePhase(e)]
  BY <1>4, <1>5 DEF Phases
<1>7. {d} \in SUBSET Decisions /\ \A e \in {d} : LicensePhase(e) = "pending"
  BY <1>4
<1>8. QED
  BY <1>2, <1>6, <1>7 DEF LicenseStep

LEMMA ApproveRefines ==
    ASSUME Inv, NEW r \in Requests, ApproveCommit(r)
    PROVE  LicenseStep
<1> USE DEF Inv
<1> PICK d \in Decisions : d = req[r].d
  BY RequestFields
<1>2. Runs' = Runs
  BY RunsUnchanged DEF RequestStep, ApproveStep, GuardExecute, ApproveCommit
<1>3. /\ approval[d].status = "PENDING"
      /\ approval'[d].status = "APPROVED" /\ grant'[d].status = "ACTIVE"
  BY DEF ApproveCommit, GrantInsertable, Resolvable, Resolved, TypeOK, Approval
<1>4. LicensePhase(d) = "pending" /\ LicensePhase(d)' = "granted"
  BY <1>3 DEF LicensePhase
<1>5. Phases' = [Phases EXCEPT ![d] = "granted"]
  <2>1. \A e \in Decisions : e # d => approval'[e] = approval[e] /\ grant'[e] = grant[e]
    BY DEF ApproveCommit, Resolved, TypeOK
  <2>2. QED
    BY <1>4, <2>1, OnePhase
<1>6. QED
  BY <1>2, <1>4, <1>5 DEF LicenseStep

LEMMA ConsumeRefines ==
    ASSUME Inv, NEW r \in Requests, ConsumeExpire(r) \/ ConsumeCommit(r)
    PROVE  LicenseStep
<1> USE DEF Inv
<1> PICK d \in Decisions : d = req[r].d
  BY RequestFields
<1>1. UNCHANGED approval
  BY DEF ConsumeExpire, ConsumeCommit
<1>2. Runs' = Runs
  BY RunsUnchanged DEF RequestStep, ConsumeStep, GuardExecute, ConsumeExpire, ConsumeCommit
<1>3. CASE UNCHANGED grant
  BY <1>1, <1>2, <1>3, PhasesUnchanged DEF LicenseStep
<1>4. ASSUME NEW to \in {"spent", "refused"}, grant[d].status = "ACTIVE",
             to = "spent" => grant'[d].status = "CONSUMED",
             to = "refused" => grant'[d].status = "EXPIRED",
             \A e \in Decisions : e # d => grant'[e] = grant[e]
      PROVE  LicenseStep
  <2>1. approval[d].status = "APPROVED"
    BY <1>1, <1>4, GrantOfRow
  <2>2. LicensePhase(d) = "granted" /\ LicensePhase(d)' = to
    BY <1>1, <1>4, <2>1 DEF LicensePhase
  <2>3. Phases' = [Phases EXCEPT ![d] = to]
    BY <1>1, <1>4, <2>2, OnePhase
  <2>4. <<LicensePhase(d), to>> \in
              {<<"absent", "pending">>, <<"pending", "granted">>,
               <<"granted", "spent">>, <<"granted", "refused">>}
    BY <1>4, <2>2
  <2>5. QED
    BY <1>1, <1>2, <1>4, <2>3, <2>4 DEF LicenseStep
<1>5. CASE ConsumeCommit(r)
  <2>1. grant[d].status = "ACTIVE" /\ grant'[d].status = "CONSUMED"
    BY <1>1, <1>5 DEF ConsumeCommit, Consumable, TypeOK, Grant
  <2>2. \A e \in Decisions : e # d => grant'[e] = grant[e]
    BY <1>5 DEF ConsumeCommit, TypeOK
  <2>3. QED
    BY <1>4, <2>1, <2>2
<1>6. CASE ConsumeExpire(r) /\ ~UNCHANGED grant
  <2>1. /\ grant[d].status = "ACTIVE"
        /\ grant' = [grant EXCEPT ![d] = [@ EXCEPT !.status = "EXPIRED"]]
    BY <1>6 DEF ConsumeExpire
  <2>2. grant'[d].status = "EXPIRED"
    BY <1>1, <2>1 DEF TypeOK, Grant
  <2>3. \A e \in Decisions : e # d => grant'[e] = grant[e]
    BY <2>1 DEF TypeOK
  <2>4. QED
    BY <1>4, <2>1, <2>2, <2>3
<1>7. QED
  BY <1>3, <1>5, <1>6

LEMMA AuthorizeRefines ==
    ASSUME Inv, NEW d \in Decisions, Evaluate(d) \/ SaveAuthorization(d)
    PROVE  LicenseStep
<1> USE DEF Inv
<1>1. /\ Runs' = Runs /\ UNCHANGED grant
      /\ \A e \in Decisions : e # d => approval'[e] = approval[e]
  BY DEF Evaluate, SaveAuthorization, Runs, Ran, TypeOK
<1>2. CASE Evaluate(d)
  <2>1. LicensePhase(d)' = LicensePhase(d)
    BY <1>2 DEF Evaluate, LicensePhase, TypeOK, Approval
  <2>2. Phases' = Phases
    BY <1>1, <2>1, PhaseOf DEF Phases
  <2>3. QED
    BY <1>1, <2>2 DEF LicenseStep
<1>3. CASE SaveAuthorization(d)
  <2>1. approval[d].status = "STAMPED" /\ approval'[d].status = "PENDING"
    BY <1>3 DEF SaveAuthorization, TypeOK, Approval
  <2>2. LicensePhase(d) = "absent" /\ LicensePhase(d)' = "pending"
    BY <2>1 DEF LicensePhase
  <2>3. Phases' = [Phases EXCEPT ![d] = "pending"]
    BY <1>1, <2>2, OnePhase
  <2>4. QED
    BY <1>1, <2>2, <2>3 DEF LicenseStep
<1>4. QED
  BY <1>2, <1>3

LEMMA NextRefines == Inv /\ [Next]_vars => LicenseStep
<1> SUFFICES ASSUME Inv, [Next]_vars PROVE LicenseStep
  OBVIOUS
<1>1. CASE UNCHANGED <<approval, grant, pc, req>>
  BY <1>1, PhasesUnchanged DEF LicenseStep, Runs, Ran
<1>2. ASSUME NEW r \in Requests, RequestStep(r) PROVE LicenseStep
  <2>1. CASE GuardExecute(r)
    BY <2>1, GuardRefines
  <2>2. CASE Writes(r)
    BY <2>2, SweepRefines, RejectRefines, ApproveRefines, ConsumeRefines DEF Writes
  <2>3. CASE ~GuardExecute(r) /\ UNCHANGED db
    <3>1. UNCHANGED <<approval, grant>>
      BY <2>3 DEF db
    <3>2. QED
      BY <1>2, <2>3, <3>1, RunsUnchanged, PhasesUnchanged DEF LicenseStep, Inv
  <2>4. QED
    BY <1>2, <2>1, <2>2, <2>3, QuietOrWrites
<1>3. QED
  BY <1>1, <1>2, AuthorizeRefines DEF Next, Tick, vars, db

\* Every run of the handlers, triggers and sweeps, in any interleaving and with
\* any number of requests, is a run of a license per decision that is requested,
\* granted or refused, spent or lapsed, and executed at most once.
THEOREM HandlersImplementLicense == Spec => ImplementsLicense
<1>1. Init => License!Init
  <2> SUFFICES ASSUME Init PROVE License!Init
    OBVIOUS
  <2>1. ASSUME NEW d \in Decisions
        PROVE  /\ LicensePhase(d) = IF d \in LegacyPending THEN "pending"
                                    ELSE IF d \in LegacyApproved THEN "refused" ELSE "absent"
               /\ Ran(d) = {}
    BY DEF Init, InitialApproval, NoGrant, LicensePhase, Ran
  <2>2. QED
    BY <2>1 DEF License!Init, Ran
<1>2. Inv /\ [Next]_vars => [License!Next]_License!lvars
  BY NextRefines, LicenseStepRefines
<1>3. QED
  BY <1>1, <1>2, Invariance, PTL DEF Spec, ImplementsLicense, License!Spec
=============================================================================

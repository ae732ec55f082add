--------------------------- MODULE DecisionLedger ---------------------------
(***************************************************************************)
(* POST /v1/authorize and the decision ledger: the Idempotency-Key         *)
(* protocol, the transaction that stores a decision with its integrity     *)
(* record, approval and events, the verification of a project's hash       *)
(* chain, and the startup backfill that gives migrated decisions their     *)
(* records.                                                                *)
(*                                                                         *)
(* API processes and webhook workers share one SQLite file in WAL mode:    *)
(* every SELECT outside a write transaction is a step of its own and sees  *)
(* the last commit; a write transaction holds the write lock from its      *)
(* first INSERT and is one step.                                           *)
(*                                                                         *)
(* SHA-256 is taken to be free of collisions: a payload hash is            *)
(* represented by the payload, and a record hash, which covers its         *)
(* predecessor's hash, by the list of all envelopes up to the record.      *)
(*                                                                         *)
(* DatabaseWrite is the fault the ledger exists for: a write that does not *)
(* go through this code (the tests drop the triggers first).               *)
(***************************************************************************)
EXTENDS Naturals, Sequences, FiniteSets, FiniteSetsExt

CONSTANTS
    Projects,   \* project ids
    Calls,      \* authorize calls; a call's id is the decision_id it would mint
    Legacy,     \* decisions stored before the ledger existed
    Keys,       \* values of the Idempotency-Key header
    Bodies,     \* normalized requests (fingerprints)
    Outcomes,   \* decisions of the policy engine
    Verifiers,  \* verify calls
    Starters,   \* processes that run EvidenceStore.initialize
    None,       \* no row, no header, no answer
    MaxWrites   \* writes outside the application (a bound of the model)

Ids == Calls \cup Legacy

VARIABLES
    decision,   \* authorization_decisions, by decision_id
    record,     \* decision_integrity_records, by decision_id
    idem,       \* idempotency_records, by project and key
    approvals,  \* approval_requests: the decisions that have one
    events,     \* webhook events, by type and decision
    clock,      \* evaluations so far: the source of evaluated_at
    call,       \* the authorize calls
    verifier,   \* the verify calls
    starter,    \* the initialize calls
    issued,     \* every record hash the application ever stored, by project
    writes,     \* writes outside the application so far
    rebuilt     \* one of them recomputed a whole chain

db == <<decision, record, idem, approvals, events>>
faults == <<writes, rebuilt>>
vars == <<db, clock, call, verifier, starter, issued, faults>>

-----------------------------------------------------------------------------
(* Types                                                                   *)

Decision == [project: Projects, body: Bodies, outcome: Outcomes, at: Nat]

Payload == Ids \X Decision

Envelope ==
    [decision_id: Ids, payload: Payload, created_at: Nat, project: Projects,
     sequence_number: Nat \ {0}]

Hash == Seq(Envelope)   \* << >> is the null previous_hash

Record ==
    [project: Projects, sequence_number: Nat \ {0}, previous_hash: Hash,
     payload_hash: Payload, record_hash: Hash, created_at: Nat]

Key == Keys \cup {None}

IdempotencyRecord == [body: Bodies, decision_id: Ids]

Codes == {"ok", "conflict", "invalid_context", "failed", "integrity_error",
          "missing_decision"}

Answer == [code: Codes, id: Ids \cup {None}, row: Decision \cup {None}]

Call ==
    [pc: {"idle", "fetch", "evaluate", "save", "recover", "done"},
     project: Projects \cup {None}, key: Key, body: Bodies \cup {None},
     found: Ids \cup {None}, row: Decision \cup {None},
     answer: Answer \cup {None}]

Report ==
    [verified: BOOLEAN, total: Nat, checked: Nat, head: Hash, seen: Seq(Payload)]

Verifier ==
    [pc: {"idle", "unmatched", "scan", "done"},
     project: Projects \cup {None}, expected: Hash, total: Nat,
     records: Nat, max: Nat, report: Report \cup {None}]

Starter ==
    [pc: {"down", "count", "insert", "up", "refused"},
     counted: [Projects -> Nat], todo: SUBSET Projects,
     cur: Projects \cup {None}]

\* None stands for SQL NULL, an absent row or an absent header.
ASSUME LedgerAssumption ==
    /\ Calls \cap Legacy = {}
    /\ IsFiniteSet(Ids)
    /\ MaxWrites \in Nat
    /\ None \notin Ids \cup Projects \cup Keys \cup Bodies
    /\ None \notin Decision /\ None \notin IdempotencyRecord /\ None \notin Answer
    /\ None \notin Record

TypeOK ==
    /\ decision \in [Ids -> Decision \cup {None}]
    /\ record \in [Ids -> Record \cup {None}]
    /\ idem \in [Projects \X Keys ->
                   IdempotencyRecord \cup {None}]
    /\ approvals \subseteq Ids
    /\ events \subseteq {"authorization.created", "approval.requested"} \X Ids
    /\ clock \in Nat
    /\ call \in [Calls -> Call]
    /\ verifier \in [Verifiers -> Verifier]
    /\ starter \in [Starters -> Starter]
    /\ issued \subseteq Projects \X Hash
    /\ writes \in 0..MaxWrites
    /\ rebuilt \in BOOLEAN

-----------------------------------------------------------------------------
(* The hash chain                                                          *)

DecisionsOf(p, dec) == {i \in Ids : dec[i] # None /\ dec[i].project = p}
RecordsOf(p, rec) == {i \in Ids : rec[i] # None /\ rec[i].project = p}

PayloadHash(i, row) == <<i, row>>

\* integrity_record_envelope, but for the previous hash
RecordEnvelope(i, row, seq, payload) ==
    [decision_id |-> i, payload |-> payload, created_at |-> row.at,
     project |-> row.project, sequence_number |-> seq]

\* calculate_integrity_record_hash
RecordHash(i, row, seq, prev, payload) ==
    Append(prev, RecordEnvelope(i, row, seq, payload))

\* build_decision_integrity_proof
Proof(i, row, seq, prev) ==
    [project |-> row.project, sequence_number |-> seq, previous_hash |-> prev,
     payload_hash |-> PayloadHash(i, row), created_at |-> row.at,
     record_hash |-> RecordHash(i, row, seq, prev, PayloadHash(i, row))]

Sequences(p, rec) == {rec[i].sequence_number : i \in RecordsOf(p, rec)}

\* Mutant: the chain starts at zero.
NextProofFromZero(i, row, rec) ==
    IF RecordsOf(row.project, rec) = {} THEN Proof(i, row, 0, << >>)
    ELSE LET last == Max(Sequences(row.project, rec))
             head == CHOOSE j \in RecordsOf(row.project, rec) :
                       rec[j].sequence_number = last
         IN Proof(i, row, last + 1, rec[head].record_hash)

\* Mutant: the head is the last record of any project.
NextProofAnyProject(i, row, rec) ==
    LET all == {j \in Ids : rec[j] # None} IN
    IF all = {} THEN Proof(i, row, 1, << >>)
    ELSE LET last == Max({rec[j].sequence_number : j \in all})
             head == CHOOSE j \in all : rec[j].sequence_number = last
         IN Proof(i, row, last + 1, rec[head].record_hash)

\* The integrity record that appends decision i to its project's chain: the
\* head is the record with the highest sequence number.
NextProof(i, row, rec) ==
    IF RecordsOf(row.project, rec) = {} THEN Proof(i, row, 1, << >>)
    ELSE LET last == Max(Sequences(row.project, rec))
             head == CHOOSE j \in RecordsOf(row.project, rec) :
                       rec[j].sequence_number = last
         IN Proof(i, row, last + 1, rec[head].record_hash)

\* The members of S listed by their keys (ORDER BY).
Ordered(S, key) ==
    CHOOSE s \in [1..Cardinality(S) -> S] :
      \A k, l \in 1..Cardinality(S) : k < l => s[k] # s[l] /\ key[s[k]] <= key[s[l]]

\* ORDER BY evaluated_at (distinct in this model)
Oldest(ids, dec) == Ordered(ids, [i \in ids |-> dec[i].at])

\* The rows with the proofs of all decisions of the projects ps, each project
\* enumerated from 1: the previous hash of a record covers all those before it.
BackfillProofs(ps, dec, rec) ==
    LET Order(p) == Oldest(DecisionsOf(p, dec), dec)
        Previous(p, k) == [l \in 1..(k - 1) |->
          LET i == Order(p)[l] IN RecordEnvelope(i, dec[i], l, PayloadHash(i, dec[i]))]
        Place(p, i) == CHOOSE k \in DOMAIN Order(p) : Order(p)[k] = i
    IN [i \in Ids |->
          IF dec[i] = None THEN rec[i]
          ELSE LET p == dec[i].project IN
               IF p \in ps THEN Proof(i, dec[i], Place(p, i), Previous(p, Place(p, i)))
               ELSE rec[i]]

\* The hashes of the records a transaction adds.
Issue(rec) == issued \cup {<<rec[i].project, rec[i].record_hash>> :
                             i \in {j \in Ids : rec[j] # record[j]}}

-----------------------------------------------------------------------------
(* Startup: EvidenceStore.initialize, of an API process or a worker        *)

Idle == [pc |-> "down", counted |-> [p \in Projects |-> 0], todo |-> {},
         cur |-> None]

Serving == \E s \in Starters : starter[s].pc = "up"

\* The per-project decision counts.  Reading the last of these rows ends the
\* statement, so the counts below are read from later commits.
CountDecisions(s) ==
    /\ starter[s].pc \in {"down", "refused"}
    /\ LET counted == [p \in Projects |-> Cardinality(DecisionsOf(p, decision))]
           todo == {p \in Projects : counted[p] > 0}
       IN starter' = [starter EXCEPT ![s] =
            [pc |-> IF todo = {} THEN "up" ELSE "count",
             counted |-> counted, todo |-> todo, cur |-> None]]
    /\ UNCHANGED <<db, clock, call, verifier, issued, faults>>

\* How a project's number of integrity records is judged.
Judge(counted, records) ==
    IF records = counted THEN "complete"
    ELSE IF records # 0 THEN "partial" ELSE "absent"

CountRecords(s) ==
    /\ starter[s].pc = "count"
    /\ \E p \in starter[s].todo :
         LET verdict == Judge(starter[s].counted[p],
                              Cardinality(RecordsOf(p, record)))
             rest == starter[s].todo \ {p}
         IN starter' = [starter EXCEPT ![s] =
              CASE verdict = "complete" ->
                     IF rest = {} THEN [Idle EXCEPT !.pc = "up"]
                     ELSE [@ EXCEPT !.todo = rest]
                [] verdict = "partial" -> [Idle EXCEPT !.pc = "refused"]
                [] verdict = "absent" -> [@ EXCEPT !.pc = "insert", !.cur = p]]
    /\ UNCHANGED <<db, clock, call, verifier, issued, faults>>

\* Mutant: the decisions are chained behind whatever records exist by now.
BackfillReplaces(s) ==
    /\ starter[s].pc = "insert"
    /\ starter' = [starter EXCEPT ![s] = [Idle EXCEPT !.pc = "up"]]
    /\ record' = [i \in Ids |->
         IF i \in DecisionsOf(starter[s].cur, decision)
         THEN NextProof(i, decision[i], record) ELSE record[i]]
    /\ issued' = Issue(record')
    /\ UNCHANGED <<decision, idem, approvals, events, clock, call, verifier, faults>>

\* The first INSERT takes the write lock; the transaction then covers the
\* projects that are left.  A record that exists by now violates a UNIQUE
\* constraint: the process fails to start with nothing written.
Backfill(s) ==
    LET p == starter[s].cur
        verdict(q) == Judge(starter[s].counted[q], Cardinality(RecordsOf(q, record)))
        rest == starter[s].todo \ {p}
        absent == {p} \cup {q \in rest : verdict(q) = "absent"}
        ends == IF RecordsOf(p, record) # {} THEN "down"
                ELSE IF \E q \in rest : verdict(q) = "partial" THEN "refused"
                ELSE "up"
    IN /\ starter[s].pc = "insert"
       /\ starter' = [starter EXCEPT ![s] = [Idle EXCEPT !.pc = ends]]
       /\ record' = IF ends # "up" THEN record
            ELSE BackfillProofs(absent, decision, record)
       /\ issued' = Issue(record')
       /\ UNCHANGED <<decision, idem, approvals, events, clock, call, verifier,
                      faults>>

\* A process dies, or gives up waiting for the write lock; what its open
\* transaction had written is rolled back.  It can be started again.
Stop(s) ==
    /\ starter[s].pc \in {"count", "insert"}
    /\ starter' = [starter EXCEPT ![s] = Idle]
    /\ UNCHANGED <<db, clock, call, verifier, issued, faults>>

-----------------------------------------------------------------------------
(* authorize_request                                                       *)

NotCalled ==
    [pc |-> "idle", project |-> None, key |-> None, body |-> None,
     found |-> None, row |-> None, answer |-> None]

Ended(cl, code, i, row) ==
    [cl EXCEPT !.pc = "done", !.found = None, !.row = None,
               !.answer = [code |-> code, id |-> i, row |-> row]]

Refused(cl, code) == Ended(cl, code, None, None)

\* Mutant: the fingerprint is not compared.
LookupAnyBody(cl, absent) ==
    LET rec == idem[<<cl.project, cl.key>>] IN
    IF rec = None THEN absent
    ELSE [cl EXCEPT !.pc = "fetch", !.found = rec.decision_id]

\* get_idempotent_authorization up to the fingerprint comparison; absent is
\* the call when there is no record.
Lookup(cl, absent) ==
    LET rec == idem[<<cl.project, cl.key>>] IN
    IF rec = None THEN absent
    ELSE IF rec.body # cl.body THEN Refused(cl, "conflict")
    ELSE [cl EXCEPT !.pc = "fetch", !.found = rec.decision_id]

Receive(c) ==
    /\ call[c].pc = "idle" /\ Serving
    /\ \E p \in Projects, k \in Key, b \in Bodies :
         LET cl == [NotCalled EXCEPT !.pc = "evaluate", !.project = p,
                                     !.key = k, !.body = b]
         IN call' = [call EXCEPT ![c] = IF k = None THEN cl ELSE Lookup(cl, cl)]
    /\ UNCHANGED <<db, clock, verifier, starter, issued, faults>>

\* The second SELECT of get_idempotent_authorization.
Fetch(c) ==
    /\ call[c].pc = "fetch"
    /\ LET i == call[c].found
       IN call' = [call EXCEPT ![c] =
            IF decision[i] = None \/ decision[i].project # call[c].project
            THEN Refused(@, "missing_decision")
            ELSE Ended(@, "ok", i, decision[i])]
    /\ UNCHANGED <<db, clock, verifier, starter, issued, faults>>

\* The policies of the project are read and evaluated.
Evaluate(c) ==
    /\ call[c].pc = "evaluate"
    /\ \/ /\ call' = [call EXCEPT ![c] = Refused(@, "invalid_context")]
          /\ UNCHANGED clock
       \/ \E o \in Outcomes :
            /\ clock' = clock + 1
            /\ call' = [call EXCEPT ![c] =
                 [@ EXCEPT !.pc = "save",
                           !.row = [project |-> call[c].project,
                                    body |-> call[c].body,
                                    outcome |-> o, at |-> clock + 1]]]
    /\ UNCHANGED <<db, verifier, starter, issued, faults>>

\* Mutant: the key is not UNIQUE.
KeyTakenNever(cl) == FALSE

\* The idempotency_records row of this call's key exists.
KeyTaken(cl) == cl.key # None /\ idem[<<cl.project, cl.key>>] # None

\* save_authorization_with_approval: what its transaction inserts.
Commit(c) ==
    LET cl == call[c]
        asks == cl.row.outcome = "REQUIRE_APPROVAL"
    IN /\ decision' = [decision EXCEPT ![c] = cl.row]
       /\ record' = [record EXCEPT ![c] = NextProof(c, cl.row, record)]
       /\ issued' = Issue(record')
       /\ approvals' = approvals \cup (IF asks THEN {c} ELSE {})
       /\ idem' = IF cl.key = None THEN idem
            ELSE [idem EXCEPT ![<<cl.project, cl.key>>] =
                    [body |-> cl.body, decision_id |-> c]]
       /\ events' = events \cup {<<"authorization.created", c>>} \cup
            (IF asks THEN {<<"approval.requested", c>>} ELSE {})

\* It commits as a whole, or a taken key rolls all of it back.
Save(c) ==
    /\ call[c].pc = "save"
    /\ \/ /\ KeyTaken(call[c])
          /\ call' = [call EXCEPT ![c] = [@ EXCEPT !.pc = "recover"]]
          /\ UNCHANGED <<db, issued>>
       \/ /\ ~KeyTaken(call[c])
          /\ Commit(c)
          /\ call' = [call EXCEPT ![c] = Ended(@, "ok", c, call[c].row)]
    /\ UNCHANGED <<clock, verifier, starter, faults>>

\* Mutant: the IntegrityError is re-raised at once.
RecoverReraises(c) ==
    /\ call[c].pc = "recover"
    /\ call' = [call EXCEPT ![c] = Refused(@, "integrity_error")]
    /\ UNCHANGED <<db, clock, verifier, starter, issued, faults>>

\* The IntegrityError handler looks the key up again, or re-raises.
Recover(c) ==
    /\ call[c].pc = "recover"
    /\ call' = [call EXCEPT ![c] = Lookup(@, Refused(@, "integrity_error"))]
    /\ UNCHANGED <<db, clock, verifier, starter, issued, faults>>

\* The wait for the write lock times out and nothing is written.  (A call whose
\* process dies takes no further step.)
Fail(c) ==
    /\ call[c].pc = "save"
    /\ call' = [call EXCEPT ![c] = Refused(@, "failed")]
    /\ UNCHANGED <<db, clock, verifier, starter, issued, faults>>

-----------------------------------------------------------------------------
(* DecisionIntegrityRepository.verify                                      *)

NotVerifying ==
    [pc |-> "idle", project |-> None, expected |-> << >>, total |-> 0,
     records |-> 0, max |-> 0, report |-> None]

\* The first SELECT, for project p and the expected head h; << >> is none.
StartVerify(v, p, h) ==
    /\ verifier' = [verifier EXCEPT ![v] =
         [NotVerifying EXCEPT
            !.pc = "unmatched", !.project = p, !.expected = h,
            !.total = Cardinality(DecisionsOf(p, decision)),
            !.records = Cardinality(RecordsOf(p, record)),
            !.max = IF RecordsOf(p, record) = {} THEN 0
                    ELSE Max(Sequences(p, record))]]
    /\ UNCHANGED <<db, clock, call, starter, issued, faults>>

\* No checkpoint, or a head of the project the application returned before.
Checkpoints(p) == {<< >>} \cup {t[2] : t \in {u \in issued : u[1] = p}}

\* A verify call.
VerifyCounts(v) ==
    /\ verifier[v].pc = "idle" /\ Serving
    /\ \E p \in Projects : \E h \in Checkpoints(p) : StartVerify(v, p, h)

\* The second SELECT: decisions without a record and records without a decision.
Unmatched(p) ==
    (DecisionsOf(p, decision) \ RecordsOf(p, record))
      \cup (RecordsOf(p, record) \ DecisionsOf(p, decision))

VerifyMatching(v) ==
    LET vf == verifier[v] IN
    /\ vf.pc = "unmatched"
    /\ verifier' = [verifier EXCEPT ![v] =
         IF vf.records # vf.total \/ Unmatched(vf.project) # {}
         THEN [@ EXCEPT !.pc = "done", !.max = 0, !.records = 0, !.total = 0,
                 !.report = [verified |-> FALSE, total |-> vf.total, checked |-> 0,
                             head |-> << >>, seen |-> << >>]]
         ELSE [@ EXCEPT !.pc = "scan"]]
    /\ UNCHANGED <<db, clock, call, starter, issued, faults>>

\* ORDER BY sequence_number
ByNumber(ids) == Ordered(ids, [i \in ids |-> record[i].sequence_number])

\* Mutant: the scan reads on to records committed after the counts.
VerificationRowsUnbounded(p, max) ==
    ByNumber(RecordsOf(p, record) \cap DecisionsOf(p, decision))

\* _iter_verification_rows: one SELECT that joins records with their decisions.
VerificationRows(p, max) ==
    ByNumber({i \in RecordsOf(p, record) \cap DecisionsOf(p, decision) :
                record[i].sequence_number <= max})

\* Mutant: the record hash is recomputed from the stored payload hash.
RowIsGoodByStoredHash(i, k, previous) ==
    /\ record[i].sequence_number = k
    /\ record[i].previous_hash = previous
    /\ record[i].created_at = decision[i].at
    /\ record[i].record_hash =
         RecordHash(i, decision[i], k, previous, record[i].payload_hash)

\* The checks of the k-th row, previous being the preceding record's hash.
RowIsGood(i, k, previous) ==
    LET payload == PayloadHash(i, decision[i]) IN
    /\ record[i].sequence_number = k
    /\ record[i].previous_hash = previous
    /\ record[i].created_at = decision[i].at
    /\ record[i].payload_hash = payload
    /\ record[i].record_hash = RecordHash(i, decision[i], k, previous, payload)

PreviousHash(rows, k) == IF k = 1 THEN << >> ELSE record[rows[k - 1]].record_hash

\* Mutant: the checkpoint is only required of an empty chain.
ScanForgetsCheckpoint(vf) ==
    LET rows == VerificationRows(vf.project, vf.max)
        bad == {k \in DOMAIN rows : ~RowIsGood(rows[k], k, PreviousHash(rows, k))}
        checked == IF bad = {} THEN Len(rows) ELSE Min(bad) - 1
    IN [verified |-> bad = {} /\ (rows = << >> => vf.expected = << >>),
        total |-> vf.total, checked |-> checked,
        head |-> IF bad = {} THEN PreviousHash(rows, checked + 1) ELSE << >>,
        seen |-> [k \in DOMAIN rows |-> PayloadHash(rows[k], decision[rows[k]])]]

\* The scan stops at the first bad row; the checkpoint must be the hash of a
\* row it has passed.
Scan(vf) ==
    LET rows == VerificationRows(vf.project, vf.max)
        bad == {k \in DOMAIN rows : ~RowIsGood(rows[k], k, PreviousHash(rows, k))}
        checked == IF bad = {} THEN Len(rows) ELSE Min(bad) - 1
        passed == {record[rows[k]].record_hash : k \in 1..checked}
    IN [verified |-> bad = {} /\ vf.expected \in passed \cup {<< >>},
        total |-> vf.total, checked |-> checked,
        head |-> IF bad = {} THEN PreviousHash(rows, checked + 1) ELSE << >>,
        seen |-> [k \in DOMAIN rows |-> PayloadHash(rows[k], decision[rows[k]])]]

VerifyChain(v) ==
    /\ verifier[v].pc = "scan"
    /\ verifier' = [verifier EXCEPT ![v] =
         [@ EXCEPT !.pc = "done", !.max = 0, !.records = 0, !.total = 0,
                   !.report = Scan(verifier[v])]]
    /\ UNCHANGED <<db, clock, call, starter, issued, faults>>

-----------------------------------------------------------------------------
(* Writes that do not go through the application                           *)

\* A decision's content is changed.
AlterDecision ==
    /\ \E i \in Ids, b \in Bodies :
         /\ decision[i] # None /\ decision[i].body # b
         /\ decision' = [decision EXCEPT ![i].body = b]
    /\ UNCHANGED <<record, rebuilt>>

\* A decision, its record, or both are deleted.
DeleteRows ==
    /\ \E i \in Ids, both \in {{"decision"}, {"record"}, {"decision", "record"}} :
         /\ decision[i] # None /\ record[i] # None
         /\ decision' = IF "decision" \in both
                        THEN [decision EXCEPT ![i] = None] ELSE decision
         /\ record' = IF "record" \in both
                      THEN [record EXCEPT ![i] = None] ELSE record
    /\ UNCHANGED rebuilt

\* Two records of a project change places.
ReorderRecords ==
    /\ \E i, j \in Ids :
         /\ record[i] # None /\ record[j] # None /\ i # j
         /\ record[i].project = record[j].project
         /\ record' = [record EXCEPT
              ![i].sequence_number = record[j].sequence_number,
              ![j].sequence_number = record[i].sequence_number]
    /\ UNCHANGED <<decision, rebuilt>>

\* All records of a project are computed afresh.
RebuildChain ==
    /\ \E p \in Projects :
         /\ DecisionsOf(p, decision) # {}
         /\ record' = BackfillProofs({p}, decision,
              [i \in Ids |-> IF i \in RecordsOf(p, record) THEN None ELSE record[i]])
    /\ rebuilt' = TRUE
    /\ UNCHANGED decision

\* The n-th write.
DatabaseWrite(n) ==
    /\ writes = n - 1 /\ Serving
    /\ AlterDecision \/ DeleteRows \/ ReorderRecords \/ RebuildChain
    /\ writes' = n
    /\ UNCHANGED <<idem, approvals, events, clock, call, verifier, starter, issued>>

-----------------------------------------------------------------------------
\* A new database, or one whose decisions were stored before the ledger.
Init ==
    /\ \E old \in SUBSET Legacy, p \in Projects, b \in Bodies, o \in Outcomes :
         \E at \in [old -> 1..Cardinality(old)] :
           /\ \A i, j \in old : at[i] = at[j] => i = j
           /\ decision = [i \in Ids |->
                IF i \in old
                THEN [project |-> p, body |-> b, outcome |-> o, at |-> at[i]]
                ELSE None]
           /\ clock = Cardinality(old)
    /\ record = [i \in Ids |-> None]
    /\ idem = [pk \in Projects \X Keys |-> None]
    /\ approvals = {} /\ events = {} /\ issued = {}
    /\ call = [c \in Calls |-> NotCalled]
    /\ verifier = [v \in Verifiers |-> NotVerifying]
    /\ starter = [s \in Starters |-> Idle]
    /\ writes = 0 /\ rebuilt = FALSE

Next ==
    \/ \E s \in Starters :
         CountDecisions(s) \/ CountRecords(s) \/ Backfill(s) \/ Stop(s)
    \/ \E c \in Calls :
         Receive(c) \/ Fetch(c) \/ Evaluate(c) \/ Save(c) \/ Recover(c) \/ Fail(c)
    \/ \E v \in Verifiers :
         VerifyCounts(v) \/ VerifyMatching(v) \/ VerifyChain(v)
    \/ \E n \in 1..MaxWrites : DatabaseWrite(n)

Spec == Init /\ [][Next]_vars

-----------------------------------------------------------------------------
(* Properties.  Genuine: no write has bypassed the application.            *)

Genuine == writes = 0

\* The chain of every project is the one append-only list the code intends:
\* sequence numbers 1..n without gap or repetition, each record built from its
\* decision and the hash of the record before it, whatever calls and startups
\* interleave; a startup leaves all of a project's decisions with a record or
\* none, the oldest first, and once a process serves, all of them.
LedgerIsChain ==
    Genuine => \A p \in Projects :
      LET ids == RecordsOf(p, record)
          Before(i) == {j \in ids :
            record[j].sequence_number + 1 = record[i].sequence_number}
      IN /\ Sequences(p, record) = 1..Cardinality(ids)
         /\ \A i \in ids :
              \/ /\ Before(i) = {}
                 /\ record[i] = Proof(i, decision[i], 1, << >>)
              \/ \E j \in Before(i) :
                   record[i] = Proof(i, decision[i],
                                     record[i].sequence_number,
                                     record[j].record_hash)
         /\ ids \in {{}, DecisionsOf(p, decision)}
         /\ \A i, j \in ids \cap Legacy :
              record[i].sequence_number < record[j].sequence_number =>
                decision[i].at <= decision[j].at
         /\ Serving => ids = DecisionsOf(p, decision)

\* Startups, calls and verifications only append: no record, and no decision
\* that has one, is replaced or removed, and a new record is numbered behind all
\* of its project, so a head that a client holds stays on the chain.
LedgerIsAppendOnly ==
    [][Genuine' => \A p \in Projects :
         LET ids == RecordsOf(p, record)
             added == RecordsOf(p, record') \ ids
         IN \A i \in ids :
              /\ record'[i] = record[i] /\ decision'[i] = decision[i]
              /\ \A j \in added :
                   record'[j].sequence_number > record[i].sequence_number]_vars

Answered(c) == call[c].answer # None /\ call[c].answer.code = "ok"

\* Calls of one project with one Idempotency-Key that are answered 200, first
\* calls, retries and losers of the race alike, get the same decision, and it
\* decides the request each of them made.
IdempotentAnswers ==
    Genuine => \A c, d \in Calls :
      Answered(c) =>
        /\ call[c].answer.row.body = call[c].body
        /\ call[c].answer.row.project = call[c].project
        /\ (Answered(d) /\ call[c].key # None /\ call[d].key = call[c].key
              /\ call[d].project = call[c].project)
             => call[d].answer = call[c].answer

\* A decision is stored with its approval, its events and the record of its
\* key, or not at all: a call that lost the race for its key, failed, or was
\* refused leaves nothing behind.
OneTransaction ==
    Genuine => \A c \in Calls :
      LET cl == call[c]
          asks == decision[c] # None /\ decision[c].outcome = "REQUIRE_APPROVAL"
      IN /\ decision[c] # None <=>
              cl.answer # None /\ cl.answer.id = c
         /\ <<"authorization.created", c>> \in events <=> decision[c] # None
         /\ c \in approvals <=> asks
         /\ <<"approval.requested", c>> \in events <=> asks
         /\ decision[c] # None /\ cl.key # None =>
              idem[<<cl.project, cl.key>>] =
                [body |-> decision[c].body, decision_id |-> c]

\* A 409 means that the key is taken by a stored decision on another request,
\* and a call that lost the race for its key never ends in a server error: the
\* record it collided with and its decision are there when it looks again.
RefusalsAreReal ==
    Genuine => \A c \in Calls :
      LET cl == call[c] IN
      cl.answer # None =>
        /\ cl.answer.code \notin {"integrity_error", "missing_decision"}
        /\ cl.answer.code = "conflict" =>
             /\ cl.key # None /\ idem[<<cl.project, cl.key>>] # None
             /\ decision[idem[<<cl.project, cl.key>>].decision_id].body # cl.body

Reported(v) == verifier[v].pc = "done"

\* Verifying a ledger that only the application has written succeeds and
\* covers every decision it counted, although decisions commit between its
\* three SELECTs, and any checkpoint returned before is still found.
NoFalseAlarm ==
    Genuine => \A v \in Verifiers :
      Reported(v) => /\ verifier[v].report.verified
                     /\ verifier[v].report.checked = verifier[v].report.total

\* A verification against a trusted head succeeds only if every decision up to
\* that head reads as it did when the head was issued, even if all later
\* hashes, or the whole chain, have been recomputed.
CheckpointHolds ==
    \A v \in Verifiers :
      LET r == verifier[v].report
          head == verifier[v].expected
      IN (Reported(v) /\ r.verified) =>
           /\ Len(head) <= Len(r.seen)
           /\ \A k \in DOMAIN head : r.seen[k] = head[k].payload

\* A verification without a checkpoint succeeds only on decisions exactly as
\* the application chained them: changed, deleted, exchanged or unproved rows
\* are found unless the whole chain was recomputed.
VerifiedWasIssued ==
    ~rebuilt => \A v \in Verifiers :
      LET r == verifier[v].report IN
      (Reported(v) /\ r.verified) =>
        /\ r.head # << >> => <<verifier[v].project, r.head>> \in issued
        /\ r.seen = [k \in DOMAIN r.head |-> r.head[k].payload]

\* The startup refuses to serve only a partially populated ledger, which the
\* application itself never produces.
RefusesOnlyPartialLedgers ==
    Genuine => \A s \in Starters : starter[s].pc # "refused"

=============================================================================

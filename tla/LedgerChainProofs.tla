-------------------------- MODULE LedgerChainProofs --------------------------
(***************************************************************************)
(* Proofs about the hash chain, for any number of projects, calls,         *)
(* verifications, startups and outside writes: what a verification that    *)
(* succeeds means whatever was written around the application, and, when   *)
(* nothing was, that the records are one chain and that no verification    *)
(* fails.                                                                  *)
(***************************************************************************)
EXTENDS LedgerTypeProofs, SequenceTheorems

-----------------------------------------------------------------------------
(* Rows that pass the checks                                               *)

\* The null previous_hash.
LEMMA NullHash == << >> \in Hash /\ Len(<< >>) = 0
BY EmptySeq DEF Hash

\* What appending an envelope to a hash does.
LEMMA Appended ==
    ASSUME NEW prev \in Hash, NEW env \in Envelope
    PROVE  /\ Append(prev, env) \in Hash
           /\ Len(prev) \in Nat /\ Len(Append(prev, env)) = Len(prev) + 1
           /\ Append(prev, env)[Len(prev) + 1] = env
           /\ \A l \in 1..Len(prev) : Append(prev, env)[l] = prev[l]
BY DEF Hash

\* If the first n rows of a scan are good, the hash of the k-th of them is
\* the list of the envelopes of the first k decisions as they read now.
LEMMA GoodRows ==
    ASSUME TypeOK, NEW p, NEW max,
           LET rows == VerificationRows(p, max) IN
             \A k \in 1..Len(rows) : RowIsGood(rows[k], k, PreviousHash(rows, k))
    PROVE  LET rows == VerificationRows(p, max) IN
           \A k \in 1..Len(rows) :
             LET hash == record[rows[k]].record_hash IN
             /\ hash \in Hash /\ Len(hash) = k
             /\ \A l \in 1..k : hash[l] =
                  RecordEnvelope(rows[l], decision[rows[l]], l,
                                 PayloadHash(rows[l], decision[rows[l]]))
<1> DEFINE rows == VerificationRows(p, max)
           n == Len(rows)
           env(l) == RecordEnvelope(rows[l], decision[rows[l]], l,
                                    PayloadHash(rows[l], decision[rows[l]]))
           hash(k) == record[rows[k]].record_hash
           Fine(k) == /\ hash(k) \in Hash /\ Len(hash(k)) = k
                      /\ \A l \in 1..k : hash(k)[l] = env(l)
           Bad == {k \in 1..n : ~Fine(k)}
<1>1. /\ n \in Nat
      /\ \A k \in 1..n : /\ rows[k] \in Ids /\ decision[rows[k]] \in Decision
                         /\ hash(k) \in Hash
  BY ScanReads
<1>2. \A k \in 1..n : RowIsGood(rows[k], k, PreviousHash(rows, k))
  OBVIOUS
<1> HIDE DEF rows
<1>3. \A k \in 1..n : hash(k) = Append(PreviousHash(rows, k), env(k))
  BY <1>2 DEF RowIsGood, RecordHash
<1>4. \A k \in 1..n : env(k) \in Envelope
  <2> SUFFICES ASSUME NEW k \in 1..n PROVE env(k) \in Envelope
    OBVIOUS
  <2>1. k \in Nat \ {0} /\ << >> \in Hash
    BY <1>1 DEF Hash
  <2>2. QED
    BY <1>1, <2>1, ProofShape
<1>5. \A k \in 1..n : k # 1 => k - 1 \in 1..n /\ PreviousHash(rows, k) = hash(k - 1)
  BY <1>1 DEF PreviousHash
<1>6. PreviousHash(rows, 1) = << >>
  BY DEF PreviousHash
<1> HIDE DEF hash, env
<1>7. SUFFICES ASSUME Bad # {} PROVE FALSE
  BY DEF rows, n, hash, env
<1>8. PICK k \in Bad : \A l \in Bad : k <= l
  <2>1. Bad \in SUBSET Nat
    BY <1>1
  <2> HIDE DEF Bad
  <2>2. QED
    BY <1>7, <2>1, LeastNumber
<1>9. k \in 1..n /\ ~Fine(k)
  BY <1>8
<1>10. CASE k = 1
  <2>1. hash(1) = Append(PreviousHash(rows, 1), env(1)) /\ env(1) \in Envelope
    BY <1>3, <1>4, <1>9, <1>10
  <2>2. PreviousHash(rows, 1) \in Hash /\ Len(PreviousHash(rows, 1)) = 0
    BY <1>6, NullHash
  <2>3. hash(1) \in Hash /\ Len(hash(1)) = 1 /\ hash(1)[1] = env(1)
    <3> DEFINE prev == PreviousHash(rows, 1)
    <3> HIDE DEF prev
    <3>1. prev \in Hash /\ Len(prev) = 0 /\ hash(1) = Append(prev, env(1))
      BY <2>1, <2>2 DEF prev
    <3>2. /\ Append(prev, env(1)) \in Hash /\ Len(Append(prev, env(1))) = 0 + 1
          /\ Append(prev, env(1))[0 + 1] = env(1)
      BY <2>1, <3>1, Appended
    <3>3. QED
      BY <3>1, <3>2
  <2>4. QED
    BY <1>9, <1>10, <2>3
<1>11. CASE k # 1
  <2>1. /\ k - 1 \in 1..n /\ hash(k) = Append(hash(k - 1), env(k))
        /\ env(k) \in Envelope
    BY <1>3, <1>4, <1>5, <1>9, <1>11
  <2>2. Fine(k - 1)
    <3>1. k - 1 \notin Bad
      <4> HIDE DEF Bad
      <4>1. QED
        BY <1>1, <1>8, <1>9
    <3>2. QED
      BY <2>1, <3>1
  <2>3. hash(k) \in Hash /\ Len(hash(k)) = k /\ hash(k)[k] = env(k)
    BY <1>1, <1>9, <2>1, <2>2 DEF Hash
  <2>4. \A l \in 1..(k - 1) : hash(k)[l] = env(l)
    BY <1>1, <1>9, <2>1, <2>2 DEF Hash
  <2>5. QED
    BY <1>1, <1>9, <2>3, <2>4
<1>12. QED
  BY <1>10, <1>11

\* A scan that succeeds has read, up to the k-th row, what any hash of k
\* envelopes it passed covers; so also up to its head, and up to the head it
\* was asked for.
LEMMA SeenIsHashed ==
    ASSUME TypeOK, NEW vf, Scan(vf).verified
    PROVE  LET r == Scan(vf)
               rows == VerificationRows(vf.project, vf.max)
               n == Len(rows)
           IN /\ r.seen \in Seq(Payload) /\ Len(r.seen) = n
              /\ vf.expected = << >> \/
                   /\ vf.expected \in Hash /\ Len(vf.expected) <= n
                   /\ \A l \in 1..Len(vf.expected) :
                        r.seen[l] = vf.expected[l].payload
              /\ n = 0 => r.head = << >> /\ r.seen = << >>
              /\ n # 0 => /\ r.head = record[rows[n]].record_hash
                          /\ r.head \in Hash /\ Len(r.head) = n
                          /\ \A l \in 1..n : r.seen[l] = r.head[l].payload
<1> DEFINE r == Scan(vf)
           rows == VerificationRows(vf.project, vf.max)
           n == Len(rows)
<1>1. /\ n \in Nat /\ DOMAIN rows = 1..n
      /\ \A k \in 1..n : RowIsGood(rows[k], k, PreviousHash(rows, k))
      /\ vf.expected = << >> \/ \E k \in 1..n : record[rows[k]].record_hash = vf.expected
      /\ r.head = PreviousHash(rows, n + 1)
      /\ r.seen = [k \in 1..n |-> PayloadHash(rows[k], decision[rows[k]])]
      /\ r.seen \in Seq(Payload) /\ Len(r.seen) = n
  BY ScanStops, ScanReads
<1> DEFINE hash(k) == record[rows[k]].record_hash
           read(l) == PayloadHash(rows[l], decision[rows[l]])
<1>2. \A k \in 1..n :
        /\ hash(k) \in Hash /\ Len(hash(k)) = k
        /\ \A l \in 1..k : hash(k)[l] = RecordEnvelope(rows[l], decision[rows[l]], l, read(l))
  BY <1>1, GoodRows
<1>3. ASSUME NEW k \in 1..n
      PROVE  /\ hash(k) \in Hash /\ Len(hash(k)) = k /\ k <= n
             /\ \A l \in 1..k : r.seen[l] = hash(k)[l].payload
  <2>1. \A l \in 1..k : hash(k)[l].payload = read(l)
    <3> SUFFICES ASSUME NEW l \in 1..k PROVE hash(k)[l].payload = read(l)
      OBVIOUS
    <3>1. hash(k)[l] = RecordEnvelope(rows[l], decision[rows[l]], l, read(l))
      BY <1>2
    <3> HIDE DEF hash, read, rows
    <3>2. QED
      BY <3>1 DEF RecordEnvelope
  <2>2. \A l \in 1..k : r.seen[l] = read(l)
    <3>1. \A l \in 1..k : l \in 1..n
      BY <1>1
    <3> HIDE DEF r, rows
    <3>2. QED
      BY <1>1, <3>1
  <2>3. k <= n /\ hash(k) \in Hash /\ Len(hash(k)) = k
    BY <1>1, <1>2
  <2> HIDE DEF hash, read, r
  <2>4. QED
    BY <2>1, <2>2, <2>3
<1>4. vf.expected = << >> \/
        /\ vf.expected \in Hash /\ Len(vf.expected) <= n
        /\ \A l \in 1..Len(vf.expected) : r.seen[l] = vf.expected[l].payload
  <2>1. vf.expected = << >> \/ \E k \in 1..n : hash(k) = vf.expected
    BY <1>1
  <2> HIDE DEF hash, r, n
  <2>2. QED
    BY <1>3, <2>1
<1>5. n = 0 => r.head = << >> /\ r.seen = << >>
  BY <1>1 DEF PreviousHash
<1>6. n # 0 => /\ r.head = record[rows[n]].record_hash
               /\ r.head \in Hash /\ Len(r.head) = n
               /\ \A l \in 1..n : r.seen[l] = r.head[l].payload
  <2>1. n # 0 => PreviousHash(rows, n + 1) = hash(n) /\ n \in 1..n
    BY <1>1 DEF PreviousHash
  <2>2. n # 0 => r.head = hash(n)
    BY <1>1, <2>1
  <2>3. n # 0 => /\ hash(n) \in Hash /\ Len(hash(n)) = n
                 /\ \A l \in 1..n : r.seen[l] = hash(n)[l].payload
    <3> HIDE DEF hash, r, n
    <3>1. QED
      BY <1>3, <2>1
  <2>4. QED
    BY <2>2, <2>3
<1>7. QED
  BY <1>1, <1>4, <1>5, <1>6 DEF r, rows

-----------------------------------------------------------------------------
(* What a successful verification means                                    *)

\* How a report comes about: it is there already, it reports a mismatch, or it
\* is the result of a scan.
Settles(v) ==
    \/ Reported(v) /\ verifier'[v] = verifier[v]
    \/ ~verifier'[v].report.verified
    \/ /\ verifier[v].pc = "scan"
       /\ verifier'[v].report = Scan(verifier[v])
       /\ verifier'[v].project = verifier[v].project
       /\ verifier'[v].expected = verifier[v].expected

LEMMA ReportsSettle ==
    ASSUME TypeInv, [LedgerStep]_vars, NEW v \in Verifiers, Reported(v)'
    PROVE  Settles(v)
<1>1. verifier \in [Verifiers -> Verifier]
  BY DEF TypeInv, TypeOK
<1>2. CASE verifier' = verifier
  BY <1>2 DEF Settles, Reported
<1>3. ASSUME NEW w \in Verifiers, StartsVerify(w) PROVE Settles(v)
  <2>1. PICK p, h : StartVerify(w, p, h)
    BY <1>3 DEF StartsVerify
  <2>2. verifier'[w].pc = "unmatched" /\ \A u \in Verifiers : u # w =>
          verifier'[u] = verifier[u]
    BY <1>1, <2>1 DEF StartVerify, NotVerifying
  <2>3. QED
    BY <2>2 DEF Settles, Reported
<1>4. ASSUME NEW w \in Verifiers, VerifyMatching(w) PROVE Settles(v)
  <2>1. w # v => verifier'[v] = verifier[v]
    BY <1>1, <1>4 DEF VerifyMatching
  <2>2. w = v => \/ verifier'[v].report.verified = FALSE
                 \/ verifier'[v].pc = "scan"
    BY <1>1, <1>4 DEF VerifyMatching, Verifier
  <2>3. QED
    BY <2>1, <2>2 DEF Settles, Reported
<1>5. ASSUME NEW w \in Verifiers, VerifyChain(w) PROVE Settles(v)
  <2> DEFINE scan == Scan(verifier[w])
  <2>1. /\ verifier[w].pc = "scan"
        /\ verifier' = [verifier EXCEPT ![w] =
             [verifier[w] EXCEPT !.pc = "done", !.max = 0, !.records = 0,
                                 !.total = 0, !.report = scan]]
    BY <1>5 DEF VerifyChain
  <2> HIDE DEF scan
  <2>2. w # v => verifier'[v] = verifier[v]
    BY <1>1, <2>1
  <2>3. w = v => /\ verifier'[v].report = scan
                 /\ verifier'[v].project = verifier[v].project
                 /\ verifier'[v].expected = verifier[v].expected
    BY <1>1, <2>1 DEF Verifier
  <2>4. QED
    BY <2>1, <2>2, <2>3 DEF Settles, Reported, scan
<1>6. CASE UNCHANGED vars
  BY <1>2, <1>6 DEF vars
<1>7. ASSUME NEW s \in Starters,
             CountDecisions(s) \/ CountRecords(s) \/ Backfill(s) \/ Stop(s)
      PROVE  Settles(v)
  <2>1. verifier' = verifier
    BY <1>7 DEF CountDecisions, CountRecords, Backfill, Stop
  <2>2. QED
    BY <1>2, <2>1
<1>8. ASSUME NEW c \in Calls,
             Receive(c) \/ Fetch(c) \/ Evaluate(c) \/ Save(c) \/ Recover(c)
               \/ Fail(c)
      PROVE  Settles(v)
  <2>1. verifier' = verifier
    BY <1>8 DEF Receive, Fetch, Evaluate, Save, Recover, Fail
  <2>2. QED
    BY <1>2, <2>1
<1>9. ASSUME NEW n \in 1..MaxWrites, DatabaseWrite(n) PROVE Settles(v)
  <2>1. verifier' = verifier
    BY <1>9 DEF DatabaseWrite
  <2>2. QED
    BY <1>2, <2>1
<1>10. QED
  BY <1>3, <1>4, <1>5, <1>6, <1>7, <1>8, <1>9 DEF LedgerStep

\* What a report with a checkpoint says.
HoldsFor(head, r) ==
    r.verified => /\ Len(head) <= Len(r.seen)
                  /\ \A k \in DOMAIN head : r.seen[k] = head[k].payload

\* A report that verifies is a scan that found its checkpoint.
LEMMA CheckpointStep ==
    TypeInv /\ CheckpointHolds /\ [LedgerStep]_vars => CheckpointHolds'
<1> SUFFICES ASSUME TypeInv, CheckpointHolds, [LedgerStep]_vars,
                    NEW v \in Verifiers, Reported(v)'
             PROVE  HoldsFor(verifier'[v].expected, verifier'[v].report)
  BY DEF CheckpointHolds, HoldsFor
<1>1. CASE Reported(v) /\ verifier'[v] = verifier[v]
  BY <1>1 DEF CheckpointHolds, HoldsFor
<1>2. CASE ~verifier'[v].report.verified
  BY <1>2 DEF HoldsFor
<1>3. CASE /\ verifier'[v].report = Scan(verifier[v])
           /\ verifier'[v].expected = verifier[v].expected
  <2> DEFINE vf == verifier[v]
             r == Scan(vf)
             head == vf.expected
  <2>1. SUFFICES ASSUME r.verified PROVE HoldsFor(head, r)
    BY <1>3 DEF HoldsFor
  <2>2. TypeOK
    BY DEF TypeInv
  <2> HIDE DEF vf
  <2>3. /\ r.seen \in Seq(Payload)
        /\ head = << >> \/ /\ head \in Hash /\ Len(head) <= Len(r.seen)
                           /\ \A l \in 1..Len(head) : r.seen[l] = head[l].payload
    BY <2>1, <2>2, SeenIsHashed
  <2> HIDE DEF r, head
  <2>4. CASE head = << >>
    <3>1. Len(head) = 0 /\ DOMAIN head = {} /\ Len(r.seen) \in Nat
      BY <2>3, <2>4, NullHash, LenProperties DEF Hash
    <3>2. QED
      BY <3>1 DEF HoldsFor
  <2>5. CASE head # << >>
    <3>1. DOMAIN head = 1..Len(head)
      BY <2>3, <2>5, LenProperties DEF Hash
    <3>2. QED
      BY <2>3, <2>5, <3>1 DEF HoldsFor
  <2>6. QED
    BY <2>4, <2>5
<1>4. Settles(v)
  BY ReportsSettle
<1>5. QED
  BY <1>1, <1>2, <1>3, <1>4 DEF Settles

\* A verification against a trusted head succeeds only if every decision up to
\* that head reads as it did when the head was issued: for any outside writes,
\* at any time, to any number of rows.
THEOREM CheckpointCorrect == Spec => []CheckpointHolds
<1>1. Init => CheckpointHolds
  BY DEF Init, CheckpointHolds, Reported, NotVerifying
<1>2. QED
  BY <1>1, CheckpointStep, NextIsLedgerStep, TypeInvariance, PTL DEF Spec

-----------------------------------------------------------------------------
(* Verification without a checkpoint                                       *)

\* Every stored hash is one the application stored for that project, unless a
\* chain was recomputed outside it.
RecordsIssued ==
    \A i \in Ids :
      record[i] # None => <<record[i].project, record[i].record_hash>> \in issued

LEMMA RecordsStayIssued ==
    ASSUME TypeInv, [LedgerStep]_vars, ~rebuilt', ~rebuilt => RecordsIssued
    PROVE  ~rebuilt /\ RecordsIssued' /\ issued \subseteq issued'
<1>1. record \in Rows
  BY DEF TypeInv, TypeOK, Rows
<1>2. CASE UNCHANGED <<record, issued, rebuilt>>
  BY <1>2 DEF RecordsIssued
<1>3. CASE issued' = Issue(record') /\ rebuilt' = rebuilt
  <2>1. issued \subseteq issued'
    BY <1>3 DEF Issue
  <2>2. \A i \in Ids : record'[i] # record[i] =>
          <<record'[i].project, record'[i].record_hash>> \in issued'
    BY <1>3 DEF Issue
  <2>3. ~rebuilt /\ RecordsIssued
    BY <1>3
  <2>4. QED
    BY <2>1, <2>2, <2>3 DEF RecordsIssued
<1>4. ASSUME NEW s \in Starters,
             CountDecisions(s) \/ CountRecords(s) \/ Backfill(s) \/ Stop(s)
      PROVE  ~rebuilt /\ RecordsIssued' /\ issued \subseteq issued'
  <2>1. \/ UNCHANGED <<record, issued, rebuilt>>
        \/ issued' = Issue(record') /\ rebuilt' = rebuilt
    BY <1>4 DEF CountDecisions, CountRecords, Backfill, Stop, db, faults
  <2>2. QED
    BY <1>2, <1>3, <2>1
<1>5. ASSUME NEW c \in Calls,
             Receive(c) \/ Fetch(c) \/ Evaluate(c) \/ Save(c) \/ Recover(c)
               \/ Fail(c)
      PROVE  ~rebuilt /\ RecordsIssued' /\ issued \subseteq issued'
  <2>1. \/ UNCHANGED <<record, issued, rebuilt>>
        \/ issued' = Issue(record') /\ rebuilt' = rebuilt
    BY <1>5 DEF Receive, Fetch, Evaluate, Save, Commit, Recover, Fail, db, faults
  <2>2. QED
    BY <1>2, <1>3, <2>1
<1>6. ASSUME NEW v \in Verifiers,
             StartsVerify(v) \/ VerifyMatching(v) \/ VerifyChain(v)
      PROVE  ~rebuilt /\ RecordsIssued' /\ issued \subseteq issued'
  <2>1. UNCHANGED <<record, issued, rebuilt>>
    BY <1>6 DEF StartsVerify, StartVerify, VerifyMatching, VerifyChain, db, faults
  <2>2. QED
    BY <1>2, <2>1
<1>7. ASSUME NEW n \in 1..MaxWrites, DatabaseWrite(n)
      PROVE  ~rebuilt /\ RecordsIssued' /\ issued \subseteq issued'
  <2>1. issued' = issued
    BY <1>7 DEF DatabaseWrite
  <2>2. CASE AlterDecision
    <3>1. UNCHANGED <<record, issued, rebuilt>>
      BY <2>1, <2>2 DEF AlterDecision
    <3>2. QED
      BY <1>2, <3>1
  <2>3. CASE DeleteRows
    <3>1. rebuilt' = rebuilt
      BY <2>3 DEF DeleteRows
    <3>2. PICK i \in Ids : record' \in {record, [record EXCEPT ![i] = None]}
      BY <2>3 DEF DeleteRows
    <3>3. \A j \in Ids : record'[j] # None => record'[j] = record[j]
      BY <1>1, <3>2 DEF Rows
    <3>4. QED
      BY <2>1, <3>1, <3>3 DEF RecordsIssued
  <2>4. CASE ReorderRecords
    <3>1. rebuilt' = rebuilt
      BY <2>4 DEF ReorderRecords
    <3>2. PICK i \in Ids, j \in Ids :
            /\ record[i] # None /\ record[j] # None /\ i # j
            /\ record' = [record EXCEPT
                 ![i].sequence_number = record[j].sequence_number,
                 ![j].sequence_number = record[i].sequence_number]
      BY <2>4 DEF ReorderRecords
    <3>3. \A k \in Ids : record'[k] # None =>
            /\ record[k] # None
            /\ record'[k].project = record[k].project
            /\ record'[k].record_hash = record[k].record_hash
      BY <1>1, <3>2 DEF Rows, Record
    <3>4. QED
      BY <2>1, <3>1, <3>3 DEF RecordsIssued
  <2>5. QED
    BY <1>7, <2>2, <2>3, <2>4 DEF DatabaseWrite, RebuildChain
<1>8. CASE UNCHANGED vars
  BY <1>2, <1>8 DEF vars, db, faults
<1>9. QED
  BY <1>4, <1>5, <1>6, <1>7, <1>8 DEF LedgerStep

\* What a report without a checkpoint says.
IssuedFor(p, r, iss) ==
    r.verified => /\ r.head # << >> => <<p, r.head>> \in iss
                  /\ r.seen = [k \in DOMAIN r.head |-> r.head[k].payload]

VerifiedInv == (~rebuilt => RecordsIssued) /\ VerifiedWasIssued

LEMMA VerifiedInit == Init => VerifiedInv
BY DEF Init, VerifiedInv, VerifiedWasIssued, Reported, NotVerifying, RecordsIssued

\* A scan that succeeds ends with a stored record, and its hash was issued.
LEMMA VerifiedStep == TypeInv /\ VerifiedInv /\ [LedgerStep]_vars => VerifiedInv'
<1> SUFFICES ASSUME TypeInv, VerifiedInv, [LedgerStep]_vars, ~rebuilt'
             PROVE  /\ RecordsIssued'
                    /\ \A v \in Verifiers : Reported(v)' =>
                         IssuedFor(verifier'[v].project, verifier'[v].report, issued')
  BY DEF VerifiedInv, VerifiedWasIssued, IssuedFor
<1>1. ~rebuilt /\ RecordsIssued /\ RecordsIssued' /\ issued \subseteq issued'
  BY RecordsStayIssued DEF VerifiedInv
<1>2. ASSUME NEW v \in Verifiers, Reported(v)'
      PROVE  IssuedFor(verifier'[v].project, verifier'[v].report, issued')
  <2>1. CASE Reported(v) /\ verifier'[v] = verifier[v]
    BY <1>1, <2>1 DEF VerifiedInv, VerifiedWasIssued, IssuedFor
  <2>2. CASE ~verifier'[v].report.verified
    BY <2>2 DEF IssuedFor
  <2>3. CASE /\ verifier'[v].report = Scan(verifier[v])
             /\ verifier'[v].project = verifier[v].project
    <3> DEFINE vf == verifier[v]
               r == Scan(vf)
               rows == VerificationRows(vf.project, vf.max)
               n == Len(rows)
    <3>1. SUFFICES ASSUME r.verified PROVE IssuedFor(vf.project, r, issued')
      BY <2>3 DEF IssuedFor
    <3>2. TypeOK
      BY DEF TypeInv
    <3> HIDE DEF vf
    <3>3. /\ r.seen \in Seq(Payload) /\ Len(r.seen) = n
          /\ n = 0 => r.head = << >> /\ r.seen = << >>
          /\ n # 0 => /\ r.head = record[rows[n]].record_hash
                      /\ r.head \in Hash /\ Len(r.head) = n
                      /\ \A l \in 1..n : r.seen[l] = r.head[l].payload
      BY <3>1, <3>2, SeenIsHashed
    <3>4. /\ n \in Nat
          /\ \A k \in 1..n : /\ rows[k] \in Ids /\ record[rows[k]] \in Record
                             /\ record[rows[k]].project = vf.project
      BY <3>2, ScanReads
    <3> HIDE DEF r, rows, n
    <3>5. CASE n = 0
      <4>1. r.seen = [k \in {} |-> r.head[k].payload] /\ DOMAIN r.head = {}
        BY <3>3, <3>5
      <4>2. QED
        BY <3>3, <3>5, <4>1 DEF IssuedFor
    <3>6. CASE n # 0
      <4>1. DOMAIN r.head = 1..n /\ r.seen \in [1..n -> Payload]
        BY <3>3, <3>6, LenProperties DEF Hash
      <4>2. r.seen = [k \in 1..n |-> r.head[k].payload]
        BY <3>3, <3>6, <4>1
      <4>3. <<vf.project, r.head>> \in issued
        <5>1. n \in 1..n
          BY <3>4, <3>6
        <5>2. rows[n] \in Ids /\ record[rows[n]] # None
          BY <3>4, <5>1, LedgerAssumption
        <5>3. QED
          BY <1>1, <3>3, <3>4, <3>6, <5>1, <5>2 DEF RecordsIssued
      <4>4. QED
        BY <1>1, <4>1, <4>2, <4>3 DEF IssuedFor
    <3>7. QED
      BY <3>5, <3>6
  <2>4. Settles(v)
    BY <1>2, ReportsSettle
  <2>5. QED
    BY <2>1, <2>2, <2>3, <2>4 DEF Settles
<1>3. QED
  BY <1>1, <1>2

\* A verification succeeds only on the decisions the application chained, as it
\* chained them, however rows are changed, deleted, exchanged or left without
\* proof outside it, short of recomputing a whole chain.
THEOREM VerifiedIsIssued == Spec => []VerifiedWasIssued
<1>1. VerifiedInv => VerifiedWasIssued
  BY DEF VerifiedInv
<1>2. QED
  BY <1>1, VerifiedInit, VerifiedStep, NextIsLedgerStep, TypeInvariance, PTL DEF Spec

-----------------------------------------------------------------------------
(* Chains                                                                  *)

\* The columns of a record that is computed from its decision.
LEMMA Computed ==
    ASSUME NEW i \in Ids, NEW row \in Decision, NEW r \in Record,
           r = Proof(i, row, r.sequence_number, r.previous_hash)
    PROVE  LET env == RecordEnvelope(i, row, r.sequence_number, PayloadHash(i, row))
           IN /\ r.sequence_number \in Nat \ {0}
              /\ r.previous_hash \in Hash /\ r.record_hash \in Hash
              /\ env \in Envelope
              /\ r.record_hash = Append(r.previous_hash, env)
              /\ r.project = row.project /\ r.created_at = row.at
              /\ r.payload_hash = PayloadHash(i, row)
<1>1. PICK seq \in Nat \ {0}, prev \in Hash :
        seq = r.sequence_number /\ prev = r.previous_hash
  BY DEF Record
<1>2. r = Proof(i, row, seq, prev)
  BY <1>1
<1>3. LET env == RecordEnvelope(i, row, seq, PayloadHash(i, row))
      IN /\ env \in Envelope
         /\ r.record_hash = Append(prev, env) /\ r.record_hash \in Hash
         /\ r.project = row.project /\ r.created_at = row.at
         /\ r.payload_hash = PayloadHash(i, row)
  <2> DEFINE env == RecordEnvelope(i, row, seq, PayloadHash(i, row))
             c == Proof(i, row, seq, prev)
  <2>1. /\ env \in Envelope
        /\ c.record_hash = Append(prev, env) /\ c.record_hash \in Hash
        /\ c.project = row.project /\ c.created_at = row.at
        /\ c.payload_hash = PayloadHash(i, row)
    BY ProofShape
  <2>2. r = c
    BY <1>2
  <2> HIDE DEF env, c
  <2>3. QED
    BY <2>1, <2>2 DEF env
<1>4. QED
  BY <1>1, <1>3

\* Every number from 1 to the number of records is taken.
LEMMA ChainCounts ==
    ASSUME NEW rec \in Rows, NEW dec, NEW ids \in SUBSET Ids, ChainOf(ids, dec, rec)
    PROVE  /\ IsFiniteSet(ids) /\ Cardinality(ids) \in Nat
           /\ \A k \in 1..Cardinality(ids) :
                \E i \in ids : rec[i].sequence_number = k
           /\ {rec[i].sequence_number : i \in ids} = 1..Cardinality(ids)
<1> DEFINE n == Cardinality(ids)
           f == [i \in ids |-> rec[i].sequence_number]
<1>1. IsFiniteSet(ids) /\ n \in Nat
  BY LedgerAssumption, FS_Subset, FS_CardinalityType
<1>2. f \in Injection(ids, 1..n)
  BY DEF ChainOf, Injection, IsInjective
<1>3. f \in Surjection(ids, 1..n)
  <2>1. IsFiniteSet(1..n) /\ Cardinality(1..n) = n
    BY <1>1, FS_Interval
  <2>2. QED
    BY <1>2, <2>1, FS_Injection
<1>4. \A k \in 1..n : \E i \in ids : rec[i].sequence_number = k
  BY <1>3 DEF Surjection
<1>5. QED
  BY <1>1, <1>4 DEF ChainOf

\* The first record follows nothing, and every other the one numbered before it.
LEMMA ChainLinks ==
    ASSUME NEW rec \in Rows, NEW dec \in [Ids -> Decision \cup {None}],
           NEW ids \in SUBSET Ids, ChainOf(ids, dec, rec),
           \A i \in ids : rec[i] # None /\ dec[i] # None
    PROVE  /\ \A i \in ids : rec[i].sequence_number = 1 =>
                               rec[i].previous_hash = << >>
           /\ \A i, j \in ids :
                rec[j].sequence_number + 1 = rec[i].sequence_number =>
                  rec[i].previous_hash = rec[j].record_hash
<1>1. /\ Cardinality(ids) \in Nat
      /\ \A k \in 1..Cardinality(ids) : \E i \in ids : rec[i].sequence_number = k
  BY ChainCounts
<1>2. ASSUME NEW i \in ids
      PROVE  /\ i \in Ids /\ dec[i] \in Decision
             /\ rec[i].sequence_number \in Nat \ {0}
             /\ rec[i].sequence_number \in 1..Cardinality(ids)
             /\ rec[i].previous_hash \in Hash
             /\ Len(rec[i].previous_hash) = rec[i].sequence_number - 1
             /\ rec[i].record_hash = Append(rec[i].previous_hash,
                  RecordEnvelope(i, dec[i], rec[i].sequence_number,
                                 PayloadHash(i, dec[i])))
             /\ RecordEnvelope(i, dec[i], rec[i].sequence_number,
                               PayloadHash(i, dec[i])) \in Envelope
             /\ rec[i].record_hash \in Hash
  <2>1. /\ i \in Ids /\ rec[i] \in Record /\ dec[i] \in Decision
        /\ rec[i] = Proof(i, dec[i], rec[i].sequence_number, rec[i].previous_hash)
        /\ rec[i].sequence_number \in 1..Cardinality(ids)
        /\ Len(rec[i].previous_hash) = rec[i].sequence_number - 1
    BY DEF Rows, ChainOf
  <2> DEFINE r == rec[i]
  <2>2. /\ r \in Record
        /\ r = Proof(i, dec[i], r.sequence_number, r.previous_hash)
    BY <2>1
  <2> HIDE DEF r
  <2>3. LET env == RecordEnvelope(i, dec[i], r.sequence_number, PayloadHash(i, dec[i]))
        IN /\ r.sequence_number \in Nat \ {0}
           /\ r.previous_hash \in Hash /\ r.record_hash \in Hash
           /\ env \in Envelope
           /\ r.record_hash = Append(r.previous_hash, env)
    BY <2>1, <2>2, Computed
  <2>4. QED
    BY <2>1, <2>3 DEF r
<1>3. \A i \in ids : rec[i].sequence_number = 1 => rec[i].previous_hash = << >>
  <2>1. ASSUME NEW i \in ids, rec[i].sequence_number = 1
        PROVE  rec[i].previous_hash = << >>
    <3>1. rec[i].previous_hash \in Hash /\ Len(rec[i].previous_hash) = 0
      BY <1>2, <2>1
    <3>2. QED
      BY <3>1, EmptySeq DEF Hash
  <2>2. QED
    BY <2>1
<1>4. ASSUME NEW i \in ids, NEW j \in ids,
             rec[j].sequence_number + 1 = rec[i].sequence_number
      PROVE  rec[i].previous_hash = rec[j].record_hash
  <2> DEFINE a == rec[i].previous_hash
             b == rec[j].record_hash
             n == rec[j].sequence_number
             env(m) == RecordEnvelope(m, dec[m], rec[m].sequence_number,
                                      PayloadHash(m, dec[m]))
             pj == rec[j].previous_hash
  <2>1. /\ n \in Nat \ {0} /\ n \in 1..Cardinality(ids)
        /\ a \in Hash /\ Len(a) = n
        /\ pj \in Hash /\ Len(pj) = n - 1
        /\ b = Append(pj, env(j)) /\ env(j) \in Envelope
    BY <1>2, <1>4
  <2>2. \A m \in ids : rec[m].sequence_number < n + 1 => a[rec[m].sequence_number] = env(m)
    BY <1>4 DEF ChainOf
  <2>3. \A m \in ids : rec[m].sequence_number < n => pj[rec[m].sequence_number] = env(m)
    BY DEF ChainOf
  <2>4. a[n] = env(j)
    <3> HIDE DEF env, a
    <3>1. QED
      BY <2>1, <2>2
  <2>5. /\ b \in Hash /\ Len(b) = n /\ b[n] = env(j)
        /\ \A l \in 1..(n - 1) : b[l] = pj[l]
    <3> HIDE DEF n, pj, env, b
    <3>1. /\ Append(pj, env(j)) \in Hash
          /\ Len(Append(pj, env(j))) = Len(pj) + 1
          /\ Append(pj, env(j))[Len(pj) + 1] = env(j)
          /\ \A l \in 1..Len(pj) : Append(pj, env(j))[l] = pj[l]
      BY <2>1, Appended
    <3>2. Len(pj) + 1 = n
      BY <2>1
    <3>3. QED
      BY <2>1, <3>1, <3>2
  <2>6. ASSUME NEW l \in 1..n PROVE a[l] = b[l]
    <3>1. CASE l = n
      BY <2>4, <2>5, <3>1
    <3>2. CASE l # n
      <4>1. l \in 1..(n - 1) /\ l \in 1..Cardinality(ids) /\ l < n
        BY <1>1, <2>1, <3>2
      <4>2. PICK m \in ids : rec[m].sequence_number = l
        BY <1>1, <4>1
      <4>3. a[l] = env(m) /\ pj[l] = env(m)
        <5>1. l < n + 1
          BY <2>1
        <5> HIDE DEF a, pj, env, n
        <5>2. QED
          BY <2>2, <2>3, <4>1, <4>2, <5>1
      <4>4. QED
        BY <2>5, <4>1, <4>3
    <3>3. QED
      BY <3>1, <3>2
  <2> HIDE DEF a, b, n
  <2>7. a \in Seq(Envelope) /\ b \in Seq(Envelope) /\ Len(a) = Len(b)
          /\ \A l \in 1..Len(a) : a[l] = b[l]
    BY <2>1, <2>5, <2>6 DEF Hash
  <2>8. a = b
    BY <2>7, SeqEqual
  <2>9. QED
    BY <2>8 DEF a, b
<1>5. QED
  BY <1>3, <1>4

\* A row appended by NextProof extends the chain of its project.
LEMMA ChainAppends ==
    ASSUME NEW rec \in Rows, NEW dec \in [Ids -> Decision \cup {None}],
           NEW i \in Ids, NEW row \in Decision, rec[i] = None,
           LET ids == RecordsOf(row.project, rec) IN
             /\ ChainOf(ids, dec, rec)
             /\ \A j \in ids : dec[j] # None
    PROVE  LET ids == RecordsOf(row.project, rec)
               rec2 == [rec EXCEPT ![i] = NextProof(i, row, rec)]
               dec2 == [dec EXCEPT ![i] = row]
           IN /\ ChainOf(ids \cup {i}, dec2, rec2)
              /\ \A j \in ids : rec2[j].sequence_number < rec2[i].sequence_number
<1> DEFINE ids == RecordsOf(row.project, rec)
           n == Cardinality(ids)
           r == NextProof(i, row, rec)
           rec2 == [rec EXCEPT ![i] = r]
           dec2 == [dec EXCEPT ![i] = row]
           env(j) == RecordEnvelope(j, dec[j], rec[j].sequence_number,
                                    PayloadHash(j, dec[j]))
<1>1. /\ i \notin ids /\ ids \in SUBSET Ids
      /\ \A j \in ids : rec[j] # None /\ dec[j] # None /\ dec[j] \in Decision
  BY DEF RecordsOf
<1>2. /\ rec2[i] = r /\ dec2[i] = row
      /\ \A j \in ids : rec2[j] = rec[j] /\ dec2[j] = dec[j]
  <2>1. \A j \in ids : j # i /\ j \in Ids
    BY <1>1
  <2>2. QED
    BY <2>1 DEF Rows
<1>3. /\ IsFiniteSet(ids) /\ n \in Nat
      /\ \A k \in 1..n : \E j \in ids : rec[j].sequence_number = k
      /\ Cardinality(ids \cup {i}) = n + 1
  <2>1. ChainOf(ids, dec, rec)
    OBVIOUS
  <2> HIDE DEF ids
  <2>2. /\ IsFiniteSet(ids) /\ n \in Nat
        /\ \A k \in 1..n : \E j \in ids : rec[j].sequence_number = k
    BY <1>1, <2>1, ChainCounts
  <2>3. QED
    BY <1>1, <2>2, FS_AddElement
<1>4. /\ \A j \in ids : /\ rec[j] = Proof(j, dec[j], rec[j].sequence_number,
                                          rec[j].previous_hash)
                        /\ rec[j].sequence_number \in 1..n
                        /\ Len(rec[j].previous_hash) = rec[j].sequence_number - 1
      /\ \A j, k \in ids : j # k => rec[j].sequence_number # rec[k].sequence_number
      /\ \A j, k \in ids : rec[j].sequence_number < rec[k].sequence_number =>
           rec[k].previous_hash[rec[j].sequence_number] = env(j)
  BY DEF ChainOf
<1>5. /\ r = Proof(i, row, n + 1, r.previous_hash)
      /\ r.sequence_number = n + 1
      /\ r.previous_hash \in Hash /\ Len(r.previous_hash) = n
      /\ \A j \in ids : r.previous_hash[rec[j].sequence_number] = env(j)
  <2>1. CASE ids = {} /\ r = Proof(i, row, 1, << >>)
    <3>1. n = 0
      BY <2>1, FS_EmptySet
    <3>2. << >> \in Hash /\ Len(<< >>) = 0
      BY NullHash
    <3>3. r.previous_hash = << >> /\ r.sequence_number = 1
      BY <2>1, <3>2, ProofShape
    <3> HIDE DEF ids, r, n
    <3>4. QED
      BY <2>1, <3>1, <3>2, <3>3
  <2>2. ASSUME NEW h \in ids,
               \A j \in ids : rec[j].sequence_number <= rec[h].sequence_number,
               r = Proof(i, row, rec[h].sequence_number + 1, rec[h].record_hash)
        PROVE  /\ r = Proof(i, row, n + 1, r.previous_hash)
               /\ r.sequence_number = n + 1
               /\ r.previous_hash \in Hash /\ Len(r.previous_hash) = n
               /\ \A j \in ids : r.previous_hash[rec[j].sequence_number] = env(j)
    <3> DEFINE ph == rec[h].previous_hash
               hash == rec[h].record_hash
    <3>1. n >= 1 /\ rec[h].sequence_number \in 1..n
      BY <1>3, <1>4
    <3>2. rec[h].sequence_number = n
      <4>1. n \in 1..n
        BY <1>3, <3>1
      <4>2. PICK j \in ids : rec[j].sequence_number = n
        BY <1>3, <4>1
      <4> HIDE DEF ids, n
      <4>3. QED
        BY <1>3, <2>2, <3>1, <4>2 DEF n
    <3>3. /\ h \in Ids /\ dec[h] \in Decision /\ ph \in Hash
          /\ rec[h].sequence_number \in Nat \ {0}
      BY <1>1, RecordsTyped
    <3>4. /\ hash = Append(ph, env(h)) /\ env(h) \in Envelope /\ hash \in Hash
      <4> DEFINE rh == rec[h]
      <4>1. /\ rh \in Record
            /\ rh = Proof(h, dec[h], rh.sequence_number, rh.previous_hash)
        BY <1>4, RecordsTyped
      <4> HIDE DEF rh
      <4>2. LET e == RecordEnvelope(h, dec[h], rh.sequence_number, PayloadHash(h, dec[h]))
            IN /\ rh.record_hash \in Hash /\ e \in Envelope
               /\ rh.record_hash = Append(rh.previous_hash, e)
        BY <3>3, <4>1, Computed
      <4>3. QED
        BY <4>2 DEF rh
    <3>5. n + 1 \in Nat \ {0}
      BY <1>3
    <3>6. /\ r = Proof(i, row, n + 1, hash)
          /\ r.sequence_number = n + 1 /\ r.previous_hash = hash
      <4>1. r = Proof(i, row, n + 1, hash)
        BY <2>2, <3>2
      <4> HIDE DEF n, hash, r
      <4>2. PICK m \in Nat \ {0} : m = n + 1
        BY <3>5
      <4>3. PICK prev \in Hash : prev = hash
        BY <3>4
      <4>4. r = Proof(i, row, m, prev)
        BY <4>1, <4>2, <4>3
      <4>5. r.sequence_number = m /\ r.previous_hash = prev
        BY <4>4, ProofShape
      <4>6. QED
        BY <4>1, <4>2, <4>3, <4>5
    <3>7. Len(ph) = n - 1
      BY <1>4, <3>2
    <3> HIDE DEF ph, hash, env, r, n
    <3>8. /\ Len(hash) = n /\ hash[n] = env(h)
          /\ \A l \in 1..(n - 1) : hash[l] = ph[l]
      <4>1. /\ Len(Append(ph, env(h))) = Len(ph) + 1
            /\ Append(ph, env(h))[Len(ph) + 1] = env(h)
            /\ \A l \in 1..Len(ph) : Append(ph, env(h))[l] = ph[l]
        BY <3>3, <3>4, Appended
      <4>2. Len(ph) + 1 = n /\ Len(ph) = n - 1
        BY <1>3, <3>7 DEF n
      <4>3. QED
        BY <3>4, <4>1, <4>2
    <3>9. ASSUME NEW j \in ids PROVE hash[rec[j].sequence_number] = env(j)
      <4>1. rec[j].sequence_number \in 1..n
        BY <1>4
      <4>2. CASE rec[j].sequence_number = n
        <5>1. j = h
          BY <1>4, <3>2, <4>2
        <5>2. QED
          BY <3>8, <4>2, <5>1
      <4>3. CASE rec[j].sequence_number # n
        <5>1. rec[j].sequence_number \in 1..(n - 1)
          BY <1>3, <4>1, <4>3 DEF n
        <5>2. rec[j].sequence_number < rec[h].sequence_number
          BY <1>3, <3>2, <5>1 DEF n
        <5>3. ph[rec[j].sequence_number] = env(j)
          BY <1>4, <5>2 DEF ph
        <5>4. QED
          BY <3>8, <5>1, <5>3
      <4>4. QED
        BY <4>2, <4>3
    <3>10. QED
      BY <3>4, <3>6, <3>8, <3>9
  <2>3. \/ ids = {} /\ r = Proof(i, row, 1, << >>)
        \/ \E h \in ids :
             /\ \A j \in ids : rec[j].sequence_number <= rec[h].sequence_number
             /\ r = Proof(i, row, rec[h].sequence_number + 1, rec[h].record_hash)
    BY NextProofAppends
  <2>4. QED
    BY <2>1, <2>2, <2>3
<1> HIDE DEF r, rec2, dec2, ids, n
<1>6. ASSUME NEW j \in ids \cup {i}
      PROVE  /\ rec2[j] = Proof(j, dec2[j], rec2[j].sequence_number,
                                rec2[j].previous_hash)
             /\ rec2[j].sequence_number \in 1..(n + 1)
             /\ Len(rec2[j].previous_hash) = rec2[j].sequence_number - 1
  <2>1. CASE j = i
    BY <1>2, <1>3, <1>5, <2>1
  <2>2. CASE j \in ids
    BY <1>2, <1>3, <1>4, <2>2
  <2>3. QED
    BY <2>1, <2>2
<1>7. \A j \in ids : rec2[j].sequence_number < rec2[i].sequence_number
  BY <1>2, <1>3, <1>4, <1>5
<1>8. ASSUME NEW j \in ids \cup {i}, NEW k \in ids \cup {i}, j # k
      PROVE  rec2[j].sequence_number # rec2[k].sequence_number
  <2>1. CASE j \in ids /\ k \in ids
    BY <1>2, <1>4, <1>8, <2>1
  <2>2. CASE j = i \/ k = i
    BY <1>2, <1>3, <1>4, <1>5, <1>8, <2>2
  <2>3. QED
    BY <2>1, <2>2
<1>9. ASSUME NEW j \in ids \cup {i}, NEW k \in ids \cup {i},
             rec2[j].sequence_number < rec2[k].sequence_number
      PROVE  rec2[k].previous_hash[rec2[j].sequence_number] =
               RecordEnvelope(j, dec2[j], rec2[j].sequence_number,
                              PayloadHash(j, dec2[j]))
  <2>1. j \in ids
    <3>1. CASE j = i
      BY <1>2, <1>3, <1>4, <1>5, <1>9, <3>1
    <3>2. QED
      BY <3>1
  <2>2. env(j) = RecordEnvelope(j, dec2[j], rec2[j].sequence_number,
                                PayloadHash(j, dec2[j]))
    BY <1>2, <2>1
  <2> HIDE DEF env
  <2>3. CASE k \in ids
    BY <1>2, <1>4, <1>9, <2>1, <2>2, <2>3
  <2>4. CASE k = i
    BY <1>2, <1>5, <2>1, <2>2, <2>4
  <2>5. QED
    BY <2>3, <2>4
<1>10. ChainOf(ids \cup {i}, dec2, rec2)
  BY <1>3, <1>6, <1>8, <1>9 DEF ChainOf, n
<1>11. QED
  BY <1>7, <1>10 DEF ids, rec2, dec2, r

-----------------------------------------------------------------------------
(* The inductive invariant of the chain                                    *)

\* The records of a project are a chain of all its decisions or of none, with
\* the migrated ones in the order of evaluated_at.
ProjectChain(p) ==
    LET ids == RecordsOf(p, record) IN
    /\ ids \in {{}, DecisionsOf(p, decision)}
    /\ ChainOf(ids, decision, record)
    /\ \A i, j \in ids \cap Legacy :
         record[i].sequence_number < record[j].sequence_number =>
           decision[i].at <= decision[j].at

Complete(p) == RecordsOf(p, record) = DecisionsOf(p, decision)

\* What a startup that has counted knows: the projects it still has to look at
\* have decisions, and until a process serves it will look at every such project.
StartupKnows(s) ==
    LET st == starter[s] IN
    st.pc \in {"count", "insert"} =>
      /\ \A p \in st.todo : DecisionsOf(p, decision) # {} /\ st.counted[p] > 0
      /\ st.pc = "insert" => st.cur \in st.todo
      /\ ~Serving => \A p \in Projects : DecisionsOf(p, decision) # {} => p \in st.todo

\* Until a process serves there is no record at all, and no call; from then on
\* every decision has its record.
ChainInv ==
    /\ \A p \in Projects : ProjectChain(p)
    /\ Serving => \A p \in Projects : Complete(p)
    /\ ~Serving => \A i \in Ids : record[i] = None
    /\ \A s \in Starters : StartupKnows(s)
    /\ \A c \in Calls : call[c].pc # "idle" => Serving
    /\ \A c \in Calls : call[c].pc # "done" => decision[c] = None

\* With no records, every project's chain is empty.
LEMMA EmptyChain ==
    ASSUME NEW p, NEW dec, NEW rec, \A i \in Ids : rec[i] = None
    PROVE  RecordsOf(p, rec) = {} /\ ChainOf({}, dec, rec)
BY DEF RecordsOf, ChainOf

LEMMA InitChain == Init => ChainInv
<1> SUFFICES ASSUME Init PROVE ChainInv
  OBVIOUS
<1>1. /\ \A i \in Ids : record[i] = None
      /\ \A s \in Starters : starter[s].pc = "down"
      /\ \A c \in Calls : call[c].pc = "idle"
  BY DEF Init, Idle, NotCalled
<1>2. ~Serving
  BY <1>1 DEF Serving
<1>3. \A p \in Projects : ProjectChain(p)
  BY <1>1, EmptyChain DEF ProjectChain
<1>4. \A c \in Calls : decision[c] = None
  <2>1. \A c \in Calls : c \notin Legacy /\ c \in Ids
    BY LedgerAssumption DEF Ids
  <2>2. PICK old \in SUBSET Legacy : \A i \in Ids : i \notin old => decision[i] = None
    <3>1. PICK old \in SUBSET Legacy, p \in Projects, b \in Bodies, o \in Outcomes :
            \E at \in [old -> 1..Cardinality(old)] :
              decision = [i \in Ids |->
                IF i \in old
                THEN [project |-> p, body |-> b, outcome |-> o, at |-> at[i]]
                ELSE None]
      BY DEF Init
    <3>2. QED
      BY <3>1
  <2>3. QED
    BY <2>1, <2>2
<1>5. \A s \in Starters : StartupKnows(s)
  BY <1>1 DEF StartupKnows
<1>6. QED
  BY <1>1, <1>2, <1>3, <1>4, <1>5 DEF ChainInv

-----------------------------------------------------------------------------
(* Steps that change neither decisions nor records                         *)

\* A step of a call that stores nothing.
LEMMA CallKeepsChain ==
    ASSUME TypeInv, ChainInv, NEW c \in Calls, NEW new,
           call[c].pc # "done", Serving,
           call' = [call EXCEPT ![c] = new],
           UNCHANGED <<decision, record, starter>>
    PROVE  ChainInv'
<1>1. \A d \in Calls : d # c => call'[d] = call[d]
  BY DEF TypeInv, TypeOK
<1>2. \A d \in Calls : call'[d].pc # "done" => decision'[d] = None
  BY <1>1 DEF ChainInv
<1>3. Serving'
  BY DEF Serving
<1>4. \A p \in Projects : ProjectChain(p)' /\ Complete(p)'
  BY DEF ChainInv, ProjectChain, Complete
<1>5. \A s \in Starters : StartupKnows(s)'
  BY <1>3 DEF ChainInv, StartupKnows
<1>6. QED
  BY <1>2, <1>3, <1>4, <1>5 DEF ChainInv

\* Verification steps leave everything the invariant is about alone.
LEMMA OthersKeepChain ==
    ASSUME ChainInv, UNCHANGED <<decision, record, starter, call>>
    PROVE  ChainInv'
<1>1. Serving' = Serving
  BY DEF Serving
<1>2. \A p \in Projects : (ProjectChain(p)' <=> ProjectChain(p))
                            /\ (Complete(p)' <=> Complete(p))
  BY DEF ProjectChain, Complete
<1>3. \A s \in Starters : StartupKnows(s)'
  BY <1>1 DEF ChainInv, StartupKnows
<1>4. QED
  BY <1>1, <1>2, <1>3 DEF ChainInv

\* What is asked of a startup that moves to state new.
MayBecome(new) ==
    /\ ~Serving /\ new.pc = "up" => \A p \in Projects : DecisionsOf(p, decision) = {}
    /\ new.pc \in {"count", "insert"} =>
         /\ \A p \in new.todo : DecisionsOf(p, decision) # {} /\ new.counted[p] > 0
         /\ new.pc = "insert" => new.cur \in new.todo
         /\ ~Serving => \A p \in Projects :
                          DecisionsOf(p, decision) # {} => p \in new.todo

\* A step of a startup that stores nothing.
LEMMA StarterKeepsChain ==
    ASSUME TypeInv, ChainInv, NEW s \in Starters, NEW new, MayBecome(new),
           starter[s].pc # "up",
           starter' = [starter EXCEPT ![s] = new],
           UNCHANGED <<decision, record, call>>
    PROVE  ChainInv'
<1>1. starter'[s] = new /\ \A t \in Starters : t # s => starter'[t] = starter[t]
  BY DEF TypeInv, TypeOK
<1>2. Serving => Serving'
  BY <1>1 DEF Serving
<1>3. \A p \in Projects : ProjectChain(p)'
  BY DEF ChainInv, ProjectChain
<1>4. ASSUME Serving', NEW p \in Projects PROVE Complete(p)'
  <2>1. CASE Serving
    BY <2>1 DEF ChainInv, Complete
  <2>2. CASE ~Serving
    <3>1. new.pc = "up"
      BY <1>1, <1>4, <2>2 DEF Serving
    <3>2. DecisionsOf(p, decision) = {} /\ RecordsOf(p, record) = {}
      BY <2>2, <3>1, EmptyChain DEF MayBecome, ChainInv
    <3>3. QED
      BY <3>2 DEF Complete
  <2>3. QED
    BY <2>1, <2>2
<1>5. ~Serving' => \A i \in Ids : record'[i] = None
  BY <1>2 DEF ChainInv
<1>6. ASSUME NEW t \in Starters PROVE StartupKnows(t)'
  <2>1. CASE t = s
    BY <1>1, <1>2, <2>1 DEF MayBecome, StartupKnows
  <2>2. CASE t # s
    <3>1. StartupKnows(t) /\ starter'[t] = starter[t]
      BY <1>1, <2>2 DEF ChainInv
    <3>2. QED
      BY <1>2, <3>1 DEF StartupKnows
  <2>3. QED
    BY <2>1, <2>2
<1>7. QED
  BY <1>2, <1>3, <1>4, <1>5, <1>6 DEF ChainInv

LEMMA CountDecisionsKeepsChain ==
    ASSUME TypeInv, ChainInv, NEW s \in Starters, CountDecisions(s)
    PROVE  ChainInv'
<1> DEFINE counted == [p \in Projects |-> Cardinality(DecisionsOf(p, decision))]
           todo == {p \in Projects : counted[p] > 0}
           new == [pc |-> IF todo = {} THEN "up" ELSE "count",
                   counted |-> counted, todo |-> todo, cur |-> None]
<1>1. /\ starter' = [starter EXCEPT ![s] = new] /\ starter[s].pc # "up"
      /\ UNCHANGED <<decision, record, call>>
  BY DEF CountDecisions, db
<1>2. \A p \in Projects : counted[p] > 0 <=> DecisionsOf(p, decision) # {}
  <2>1. decision \in [Ids -> Decision \cup {None}]
    BY DEF TypeInv, TypeOK
  <2>2. \A p \in Projects : /\ IsFiniteSet(DecisionsOf(p, decision))
                            /\ Cardinality(DecisionsOf(p, decision)) \in Nat
    BY <2>1, DecisionsTyped
  <2>3. QED
    BY <2>2, FS_EmptySet
<1> HIDE DEF counted
<1>3. \A p \in Projects : p \in todo <=> DecisionsOf(p, decision) # {}
  BY <1>2
<1>4. todo \subseteq Projects /\ \A p \in todo : counted[p] > 0
  OBVIOUS
<1> HIDE DEF todo
<1>5. MayBecome(new)
  BY <1>3, <1>4 DEF MayBecome
<1> HIDE DEF new
<1>6. QED
  BY <1>1, <1>5, StarterKeepsChain

LEMMA CountRecordsKeepsChain ==
    ASSUME TypeInv, ChainInv, NEW s \in Starters, CountRecords(s)
    PROVE  ChainInv'
<1> DEFINE st == starter[s]
<1>1. PICK p \in starter[s].todo :
        LET verdict == Judge(starter[s].counted[p],
                             Cardinality(RecordsOf(p, record)))
            rest == starter[s].todo \ {p}
        IN starter' = [starter EXCEPT ![s] =
             CASE verdict = "complete" ->
                    IF rest = {} THEN [Idle EXCEPT !.pc = "up"]
                    ELSE [@ EXCEPT !.todo = rest]
               [] verdict = "partial" -> [Idle EXCEPT !.pc = "refused"]
               [] verdict = "absent" -> [@ EXCEPT !.pc = "insert", !.cur = p]]
  BY DEF CountRecords
<1> DEFINE verdict == Judge(st.counted[p], Cardinality(RecordsOf(p, record)))
           rest == st.todo \ {p}
           new == CASE verdict = "complete" ->
                         IF rest = {} THEN [Idle EXCEPT !.pc = "up"]
                         ELSE [st EXCEPT !.todo = rest]
                    [] verdict = "partial" -> [Idle EXCEPT !.pc = "refused"]
                    [] verdict = "absent" ->
                         [st EXCEPT !.pc = "insert", !.cur = p]
<1>2. /\ starter' = [starter EXCEPT ![s] = new] /\ starter[s].pc = "count"
      /\ UNCHANGED <<decision, record, call>>
  BY <1>1 DEF CountRecords, db
<1>3. verdict \in {"complete", "partial", "absent"}
  BY DEF Judge
<1>4. /\ st \in Starter /\ p \in st.todo
      /\ \A q \in st.todo : DecisionsOf(q, decision) # {} /\ st.counted[q] > 0
      /\ ~Serving => \A q \in Projects : DecisionsOf(q, decision) # {} => q \in st.todo
  BY <1>2 DEF TypeInv, TypeOK, ChainInv, StartupKnows
<1>5. ~Serving => verdict # "complete"
  <2>1. SUFFICES ASSUME ~Serving PROVE verdict # "complete"
    OBVIOUS
  <2>2. RecordsOf(p, record) = {}
    BY <2>1, EmptyChain DEF ChainInv
  <2>3. Cardinality(RecordsOf(p, record)) = 0
    BY <2>2, FS_EmptySet
  <2>4. st.counted[p] # 0
    BY <1>4
  <2>5. QED
    BY <2>3, <2>4 DEF Judge
<1> HIDE DEF verdict, st
<1>6. MayBecome(new)
  <2>1. CASE verdict = "complete"
    <3>1. Serving
      BY <1>5, <2>1
    <3>2. CASE rest = {}
      <4>1. new.pc = "up"
        BY <2>1, <3>2 DEF Idle
      <4> HIDE DEF new
      <4>2. QED
        BY <3>1, <4>1 DEF MayBecome
    <3>3. CASE rest # {}
      <4>1. new.todo = rest /\ new.counted = st.counted /\ new.pc = st.pc
        BY <1>4, <2>1, <3>3 DEF Starter
      <4>2. st.pc = "count"
        BY <1>2 DEF st
      <4>3. \A q \in rest : q \in st.todo
        OBVIOUS
      <4> HIDE DEF new, rest
      <4>4. QED
        BY <1>4, <3>1, <4>1, <4>2, <4>3 DEF MayBecome
    <3>4. QED
      BY <3>2, <3>3
  <2>2. CASE verdict = "partial"
    <3>1. new.pc = "refused"
      BY <2>2 DEF Idle
    <3> HIDE DEF new
    <3>2. QED
      BY <3>1 DEF MayBecome
  <2>3. CASE verdict = "absent"
    <3>1. /\ new.pc = "insert" /\ new.cur = p /\ new.todo = st.todo
          /\ new.counted = st.counted
      BY <1>4, <2>3 DEF Starter
    <3> HIDE DEF new
    <3>2. QED
      BY <1>4, <3>1 DEF MayBecome
  <2>4. QED
    BY <1>3, <2>1, <2>2, <2>3
<1> HIDE DEF new
<1>7. QED
  BY <1>2, <1>6, StarterKeepsChain

LEMMA StopKeepsChain ==
    ASSUME TypeInv, ChainInv, NEW s \in Starters, Stop(s)
    PROVE  ChainInv'
<1>1. MayBecome(Idle)
  BY DEF MayBecome, Idle
<1>2. /\ starter' = [starter EXCEPT ![s] = Idle] /\ starter[s].pc # "up"
      /\ UNCHANGED <<decision, record, call>>
  BY DEF Stop, db
<1>3. QED
  BY <1>1, <1>2, StarterKeepsChain

-----------------------------------------------------------------------------
(* The two transactions                                                    *)

\* Rows are only added.
OnlyAdds ==
    \A i \in Ids : /\ record[i] # None => record'[i] = record[i]
                   /\ decision[i] # None => decision'[i] = decision[i]

\* The startup finds a table without records, or one that has those of the
\* project it stopped at and violates a UNIQUE constraint.
LEMMA BackfillKeepsChain ==
    ASSUME TypeInv, ChainInv, NEW s \in Starters, Backfill(s)
    PROVE  ChainInv' /\ OnlyAdds
<1> DEFINE st == starter[s]
           p == starter[s].cur
           verdict(q) == Judge(starter[s].counted[q], Cardinality(RecordsOf(q, record)))
           rest == starter[s].todo \ {p}
           absent == {p} \cup {q \in rest : verdict(q) = "absent"}
           ends == IF RecordsOf(p, record) # {} THEN "down"
                   ELSE IF \E q \in rest : verdict(q) = "partial" THEN "refused"
                   ELSE "up"
           new == [Idle EXCEPT !.pc = ends]
<1>1. /\ starter' = [starter EXCEPT ![s] = new]
      /\ record' = IF ends # "up" THEN record
                   ELSE BackfillProofs(absent, decision, record)
      /\ starter[s].pc = "insert" /\ UNCHANGED <<decision, call>>
  BY DEF Backfill
<1>2. /\ st \in Starter /\ p \in st.todo /\ st.todo \subseteq Projects
      /\ \A q \in st.todo : DecisionsOf(q, decision) # {} /\ st.counted[q] > 0
      /\ ~Serving => \A q \in Projects : DecisionsOf(q, decision) # {} => q \in st.todo
      /\ record \in Rows /\ decision \in [Ids -> Decision \cup {None}]
  BY <1>1 DEF TypeInv, TypeOK, ChainInv, StartupKnows, Starter, Rows
<1>3. new.pc = ends /\ ends \in {"down", "refused", "up"}
  BY DEF Idle
<1>4. CASE Serving
  <2>1. RecordsOf(p, record) # {}
    BY <1>2, <1>4 DEF ChainInv, Complete
  <2>2. ends = "down"
    BY <2>1
  <2>3. record' = record
    BY <1>1, <2>2
  <2> HIDE DEF ends
  <2>4. MayBecome(new)
    <3> HIDE DEF new
    <3>1. QED
      BY <1>3, <2>2 DEF MayBecome
  <2> HIDE DEF new
  <2>5. QED
    BY <1>1, <2>3, <2>4, StarterKeepsChain DEF OnlyAdds
<1>5. CASE ~Serving
  <2>1. \A i \in Ids : record[i] = None
    BY <1>5 DEF ChainInv
  <2>2. \A q : RecordsOf(q, record) = {} /\ Cardinality(RecordsOf(q, record)) = 0
    BY <2>1, EmptyChain, FS_EmptySet
  <2>3. \A q \in st.todo : verdict(q) = "absent"
    BY <1>2, <2>2 DEF Judge
  <2>4. ends = "up"
    BY <1>2, <2>2, <2>3
  <2>5. absent = st.todo
    BY <1>2, <2>3
  <2>6. record' = BackfillProofs(st.todo, decision, record)
    BY <1>1, <2>4, <2>5
  <2> HIDE DEF ends, absent, verdict
  <2>7. /\ \A i \in Ids : decision[i] = None \/ decision[i].project \notin st.todo =>
                            record'[i] = record[i]
        /\ \A q \in st.todo : LET ids == DecisionsOf(q, decision) IN
             /\ \A i \in ids : record'[i] # None /\ record'[i].project = q
             /\ ChainOf(ids, decision, record')
             /\ \A i, j \in ids :
                  record'[i].sequence_number < record'[j].sequence_number =>
                    decision[i].at <= decision[j].at
    BY <1>2, <2>6, BackfillChains
  <2>8. \A q \in Projects : RecordsOf(q, record') = DecisionsOf(q, decision)
    <3> SUFFICES ASSUME NEW q \in Projects, NEW i \in Ids
                 PROVE  record'[i] # None /\ record'[i].project = q <=>
                          decision[i] # None /\ decision[i].project = q
      BY DEF RecordsOf, DecisionsOf
    <3>1. CASE decision[i] = None
      BY <2>1, <2>7, <3>1
    <3>2. CASE decision[i] # None
      <4>1. decision[i].project \in Projects /\ i \in DecisionsOf(decision[i].project, decision)
        BY <1>2, <3>2 DEF Decision, DecisionsOf
      <4>2. decision[i].project \in st.todo
        BY <1>2, <1>5, <4>1
      <4>3. record'[i] # None /\ record'[i].project = decision[i].project
        BY <2>7, <4>1, <4>2
      <4>4. QED
        BY <3>2, <4>3
    <3>3. QED
      BY <3>1, <3>2
  <2>9. ASSUME NEW q \in Projects PROVE ProjectChain(q)'
    <3>1. CASE q \in st.todo
      BY <1>1, <2>7, <2>8, <3>1 DEF ProjectChain
    <3>2. CASE q \notin st.todo
      <4>1. RecordsOf(q, record') = {}
        BY <1>2, <1>5, <2>8, <3>2
      <4>2. QED
        BY <4>1 DEF ProjectChain, ChainOf
    <3>3. QED
      BY <3>1, <3>2
  <2>10. starter'[s].pc = "up" /\ \A t \in Starters : t # s => starter'[t] = starter[t]
    <3> HIDE DEF new
    <3>1. QED
      BY <1>1, <1>3, <2>4 DEF TypeInv, TypeOK
  <2>11. Serving'
    BY <2>10 DEF Serving
  <2>12. ASSUME NEW t \in Starters PROVE StartupKnows(t)'
    <3>1. CASE t = s
      BY <2>10, <3>1 DEF StartupKnows
    <3>2. CASE t # s
      <4>1. StartupKnows(t) /\ starter'[t] = starter[t]
        BY <2>10, <3>2 DEF ChainInv
      <4>2. QED
        BY <1>1, <2>11, <4>1 DEF StartupKnows
    <3>3. QED
      BY <3>1, <3>2
  <2>13. ChainInv'
    BY <1>1, <2>8, <2>9, <2>11, <2>12 DEF ChainInv, Complete
  <2>14. OnlyAdds
    BY <1>1, <2>1 DEF OnlyAdds
  <2>15. QED
    BY <2>13, <2>14
<1>6. QED
  BY <1>4, <1>5

\* A committed call appends its record to the chain of its project.
LEMMA CommitKeepsChain ==
    ASSUME TypeInv, ChainInv, NEW c \in Calls, call[c].pc = "save", Commit(c),
           NEW new, new.pc = "done", call' = [call EXCEPT ![c] = new],
           UNCHANGED starter
    PROVE  ChainInv' /\ OnlyAdds
<1> DEFINE row == call[c].row
           p == row.project
           ids == RecordsOf(p, record)
<1>1. /\ row \in Decision /\ c \in Ids /\ c \notin Legacy /\ p \in Projects
      /\ record \in Rows /\ decision \in [Ids -> Decision \cup {None}]
      /\ call \in [Calls -> Call]
  BY LedgerAssumption DEF TypeInv, TypeOK, CallTyped, Ids, Rows, Decision
<1>2. Serving /\ decision[c] = None
  BY DEF ChainInv
<1>3. \A q \in Projects : RecordsOf(q, record) = DecisionsOf(q, decision)
  BY <1>2 DEF ChainInv, Complete
<1>4. record[c] = None
  <2>1. ASSUME record[c] # None PROVE FALSE
    <3>1. record[c].project \in Projects
      BY <1>1, <2>1 DEF Rows, Record
    <3>2. c \in RecordsOf(record[c].project, record)
      BY <1>1, <2>1 DEF RecordsOf
    <3>3. QED
      BY <1>2, <1>3, <3>1, <3>2 DEF DecisionsOf
  <2>2. QED
    BY <2>1
<1> DEFINE r == NextProof(c, row, record)
<1>5. /\ decision' = [decision EXCEPT ![c] = row]
      /\ record' = [record EXCEPT ![c] = r]
  BY DEF Commit
<1>6. r # None /\ r.project = p
  <2>1. /\ r \in Record
        /\ \/ r = Proof(c, row, 1, << >>)
           \/ \E h \in ids : r = Proof(c, row, record[h].sequence_number + 1,
                                       record[h].record_hash)
    BY <1>1, NextProofAppends
  <2> HIDE DEF r
  <2>2. r.project = p
    BY <2>1 DEF Proof
  <2>3. QED
    BY <2>1, <2>2, LedgerAssumption
<1>7. /\ ChainOf(ids \cup {c}, decision', record')
      /\ \A j \in ids : record'[j].sequence_number < record'[c].sequence_number
  <2>1. ChainOf(ids, decision, record) /\ \A j \in ids : decision[j] # None
    BY <1>1, <1>3 DEF ChainInv, ProjectChain, DecisionsOf
  <2> HIDE DEF r, ids
  <2>2. QED
    BY <1>1, <1>4, <1>5, <2>1, ChainAppends DEF r, ids
<1> HIDE DEF r, row
<1>8. /\ record'[c] = r /\ decision'[c] = row
      /\ \A i \in Ids : i # c => record'[i] = record[i] /\ decision'[i] = decision[i]
  BY <1>1, <1>5 DEF Rows
<1>9. /\ RecordsOf(p, record') = ids \cup {c}
      /\ DecisionsOf(p, decision') = DecisionsOf(p, decision) \cup {c}
      /\ \A q \in Projects : q # p =>
           /\ RecordsOf(q, record') = RecordsOf(q, record)
           /\ DecisionsOf(q, decision') = DecisionsOf(q, decision)
  <2>1. row # None
    BY <1>1, LedgerAssumption
  <2>2. RecordsOf(p, record') = ids \cup {c}
    BY <1>1, <1>6, <1>8 DEF RecordsOf
  <2>3. DecisionsOf(p, decision') = DecisionsOf(p, decision) \cup {c}
    BY <1>1, <1>8, <2>1 DEF DecisionsOf
  <2>4. \A q \in Projects : q # p => RecordsOf(q, record') = RecordsOf(q, record)
    BY <1>1, <1>4, <1>6, <1>8 DEF RecordsOf
  <2>5. \A q \in Projects : q # p => DecisionsOf(q, decision') = DecisionsOf(q, decision)
    BY <1>1, <1>2, <1>8, <2>1 DEF DecisionsOf
  <2>6. QED
    BY <2>2, <2>3, <2>4, <2>5
<1>10. \A q \in Projects : RecordsOf(q, record') = DecisionsOf(q, decision')
  BY <1>1, <1>3, <1>9
<1>11. ASSUME NEW q \in Projects PROVE ProjectChain(q)'
  <2>1. ProjectChain(q)
    BY DEF ChainInv
  <2>2. CASE q = p
    <3>1. ASSUME NEW i \in (ids \cup {c}) \cap Legacy,
                 NEW j \in (ids \cup {c}) \cap Legacy,
                 record'[i].sequence_number < record'[j].sequence_number
          PROVE  decision'[i].at <= decision'[j].at
      <4>1. i \in ids /\ j \in ids /\ i # c /\ j # c /\ i \in Ids /\ j \in Ids
        BY <1>1 DEF RecordsOf
      <4>2. QED
        BY <1>8, <2>1, <2>2, <3>1, <4>1 DEF ProjectChain
    <3> HIDE DEF ids, p
    <3>2. QED
      BY <1>7, <1>9, <1>10, <2>2, <3>1 DEF ProjectChain
  <2>3. CASE q # p
    <3> DEFINE qs == RecordsOf(q, record)
    <3>1. /\ RecordsOf(q, record') = qs
          /\ \A i \in qs : record'[i] = record[i] /\ decision'[i] = decision[i]
      <4>1. \A i \in qs : i # c /\ i \in Ids
        BY <1>4 DEF RecordsOf
      <4>2. QED
        BY <1>8, <1>9, <2>3, <4>1
    <3>2. ChainOf(qs, decision', record')
      <4>1. ChainOf(qs, decision, record)
        BY <2>1 DEF ProjectChain
      <4> HIDE DEF qs
      <4>2. QED
        BY <3>1, <4>1 DEF ChainOf
    <3> HIDE DEF qs
    <3>3. QED
      BY <1>10, <2>1, <3>1, <3>2 DEF ProjectChain, qs
  <2>4. QED
    BY <2>2, <2>3
<1>12. Serving'
  BY <1>2 DEF Serving
<1>13. ASSUME NEW s \in Starters PROVE StartupKnows(s)'
  <2>1. StartupKnows(s)
    BY DEF ChainInv
  <2>2. \A q \in Projects : DecisionsOf(q, decision) # {} => DecisionsOf(q, decision') # {}
    BY <1>9
  <2>3. starter[s].todo \subseteq Projects
    BY DEF TypeInv, TypeOK, Starter
  <2>4. QED
    BY <1>12, <2>1, <2>2, <2>3 DEF StartupKnows
<1>14. \A d \in Calls : call'[d].pc # "done" => decision'[d] = None
  <2>1. call'[c] = new /\ \A d \in Calls : d # c => call'[d] = call[d] /\ d \in Ids
    BY <1>1 DEF Ids
  <2>2. QED
    BY <1>8, <2>1 DEF ChainInv
<1>15. ChainInv'
  BY <1>10, <1>11, <1>12, <1>13, <1>14 DEF ChainInv, Complete
<1>16. OnlyAdds
  BY <1>2, <1>4, <1>8 DEF OnlyAdds
<1>17. QED
  BY <1>15, <1>16

-----------------------------------------------------------------------------
(* The chain                                                               *)

\* Every step of the application keeps the chain and only adds rows.
LEMMA StepKeepsChain ==
    ASSUME TypeInv, ChainInv, [LedgerStep]_vars, writes' = writes
    PROVE  /\ ChainInv' /\ OnlyAdds
           /\ issued' \in {issued, Issue(record')}
<1>1. UNCHANGED <<decision, record>> => OnlyAdds
  BY DEF OnlyAdds
<1>2. ASSUME NEW s \in Starters,
             CountDecisions(s) \/ CountRecords(s) \/ Stop(s)
      PROVE  ChainInv' /\ OnlyAdds /\ issued' = issued
  <2>1. UNCHANGED <<decision, record, issued>>
    BY <1>2 DEF CountDecisions, CountRecords, Stop, db
  <2>2. QED
    BY <1>1, <1>2, <2>1, CountDecisionsKeepsChain, CountRecordsKeepsChain,
       StopKeepsChain
<1>3. ASSUME NEW s \in Starters, Backfill(s)
      PROVE  ChainInv' /\ OnlyAdds /\ issued' = Issue(record')
  BY <1>3, BackfillKeepsChain DEF Backfill
<1>4. ASSUME NEW v \in Verifiers,
             StartsVerify(v) \/ VerifyMatching(v) \/ VerifyChain(v)
      PROVE  ChainInv' /\ OnlyAdds /\ issued' = issued
  <2>1. UNCHANGED <<decision, record, starter, call, issued>>
    BY <1>4 DEF StartsVerify, StartVerify, VerifyMatching, VerifyChain, db
  <2>2. QED
    BY <1>1, <2>1, OthersKeepChain
<1>5. ASSUME NEW c \in Calls,
             Receive(c) \/ Fetch(c) \/ Evaluate(c) \/ Save(c) \/ Recover(c)
               \/ Fail(c),
             UNCHANGED <<decision, record, starter, issued>>
      PROVE  ChainInv' /\ OnlyAdds /\ issued' = issued
  <2>1. call[c].pc # "done" /\ Serving
    <3>1. \/ call[c].pc \in {"fetch", "evaluate", "save", "recover"}
          \/ call[c].pc = "idle" /\ Serving
      BY <1>5 DEF Receive, Fetch, Evaluate, Save, Recover, Fail
    <3>2. QED
      BY <3>1 DEF ChainInv
  <2>2. \E new : call' = [call EXCEPT ![c] = new]
    BY <1>5 DEF Receive, Fetch, Evaluate, Save, Recover, Fail
  <2>3. QED
    BY <1>1, <1>5, <2>1, <2>2, CallKeepsChain
<1>6. ASSUME NEW c \in Calls, Save(c)
      PROVE  ChainInv' /\ OnlyAdds /\ issued' \in {issued, Issue(record')}
  <2>1. CASE UNCHANGED <<db, issued>>
    <3>1. UNCHANGED <<decision, record, starter, issued>>
      BY <1>6, <2>1 DEF db, Save
    <3>2. QED
      BY <1>5, <1>6, <3>1
  <2>2. CASE Commit(c) /\ call' = [call EXCEPT ![c] = Ended(@, "ok", c, call[c].row)]
    <3> DEFINE new == Ended(call[c], "ok", c, call[c].row)
    <3>1. /\ call[c].pc = "save" /\ call' = [call EXCEPT ![c] = new]
          /\ UNCHANGED starter
      BY <1>6, <2>2 DEF Save
    <3>2. new.pc = "done"
      BY DEF Ended, TypeInv, TypeOK, Call
    <3> HIDE DEF new
    <3>3. QED
      BY <2>2, <3>1, <3>2, CommitKeepsChain DEF Commit
  <2>3. QED
    BY <1>6, <2>1, <2>2 DEF Save
<1>7. ASSUME NEW c \in Calls,
             Receive(c) \/ Fetch(c) \/ Evaluate(c) \/ Recover(c) \/ Fail(c)
      PROVE  ChainInv' /\ OnlyAdds /\ issued' = issued
  <2>1. UNCHANGED <<decision, record, starter, issued>>
    BY <1>7 DEF Receive, Fetch, Evaluate, Recover, Fail, db
  <2>2. QED
    BY <1>5, <1>7, <2>1
<1>8. CASE UNCHANGED vars
  BY <1>1, <1>8, OthersKeepChain DEF vars, db
<1>9. ASSUME NEW n \in 1..MaxWrites, DatabaseWrite(n) PROVE FALSE
  BY <1>9, LedgerAssumption DEF DatabaseWrite, TypeInv, TypeOK
<1>10. QED
  BY <1>2, <1>3, <1>4, <1>6, <1>7, <1>8, <1>9 DEF LedgerStep

\* As long as nothing has been written around the application, nothing was.
LEMMA GenuineBefore ==
    ASSUME TypeInv, [LedgerStep]_vars, Genuine'
    PROVE  Genuine /\ writes' = writes
<1>1. ASSUME NEW n \in 1..MaxWrites, DatabaseWrite(n) PROVE FALSE
  BY <1>1, LedgerAssumption DEF DatabaseWrite, Genuine
<1>2. writes' = writes
  BY <1>1 DEF LedgerStep, vars, faults, CountDecisions, CountRecords, Backfill, Stop,
     Receive, Fetch, Evaluate, Save, Recover, Fail, StartsVerify, StartVerify,
     VerifyMatching, VerifyChain
<1>3. QED
  BY <1>2 DEF Genuine

THEOREM ChainInvariance == Spec => [](Genuine => ChainInv)
<1>1. Init => (Genuine => ChainInv)
  BY InitChain
<1>2. TypeInv /\ (Genuine => ChainInv) /\ [LedgerStep]_vars => (Genuine => ChainInv)'
  BY GenuineBefore, StepKeepsChain
<1>3. QED
  BY <1>1, <1>2, NextIsLedgerStep, TypeInvariance, PTL DEF Spec

\* The invariant says what LedgerIsChain says of neighbouring records.
LEMMA ChainIsLedger == TypeInv /\ (Genuine => ChainInv) => LedgerIsChain
<1> SUFFICES ASSUME TypeInv, ChainInv, NEW p \in Projects
             PROVE  LET ids == RecordsOf(p, record)
                        Before(i) == {j \in ids :
                          record[j].sequence_number + 1 = record[i].sequence_number}
                    IN /\ Sequences(p, record) = 1..Cardinality(ids)
                       /\ \A i \in ids :
                            \/ /\ Before(i) = {}
                               /\ record[i] = Proof(i, decision[i], 1, << >>)
                            \/ \E j \in Before(i) :
                                 record[i] = Proof(i, decision[i],
                                                   record[i].sequence_number,
                                                   record[j].record_hash)
                       /\ ids \in {{}, DecisionsOf(p, decision)}
                       /\ \A i, j \in ids \cap Legacy :
                            record[i].sequence_number < record[j].sequence_number =>
                              decision[i].at <= decision[j].at
                       /\ Serving => ids = DecisionsOf(p, decision)
  BY DEF LedgerIsChain
<1> DEFINE ids == RecordsOf(p, record)
           n == Cardinality(ids)
<1>1. /\ ProjectChain(p) /\ (Serving => Complete(p))
      /\ record \in Rows /\ decision \in [Ids -> Decision \cup {None}]
  BY DEF ChainInv, TypeInv, TypeOK, Rows
<1>2. /\ ids \in SUBSET Ids /\ ChainOf(ids, decision, record)
      /\ \A i \in ids : record[i] # None /\ decision[i] # None
  BY <1>1 DEF ProjectChain, RecordsOf, DecisionsOf
<1> HIDE DEF ids
<1>3. /\ n \in Nat
      /\ \A k \in 1..n : \E i \in ids : record[i].sequence_number = k
      /\ {record[i].sequence_number : i \in ids} = 1..n
  BY <1>1, <1>2, ChainCounts
<1>4. /\ \A i \in ids : record[i].sequence_number = 1 =>
                          record[i].previous_hash = << >>
      /\ \A i, j \in ids :
           record[j].sequence_number + 1 = record[i].sequence_number =>
             record[i].previous_hash = record[j].record_hash
  BY <1>1, <1>2, ChainLinks
<1>5. \A i \in ids :
        /\ record[i].sequence_number \in 1..n
        /\ record[i] = Proof(i, decision[i], record[i].sequence_number,
                             record[i].previous_hash)
  BY <1>2 DEF ChainOf
<1>6. ASSUME NEW i \in ids
      PROVE  LET before == {j \in ids :
                   record[j].sequence_number + 1 = record[i].sequence_number}
             IN \/ before = {} /\ record[i] = Proof(i, decision[i], 1, << >>)
                \/ \E j \in before :
                     record[i] = Proof(i, decision[i], record[i].sequence_number,
                                       record[j].record_hash)
  <2> DEFINE k == record[i].sequence_number
  <2>1. k \in 1..n /\ record[i] = Proof(i, decision[i], k, record[i].previous_hash)
    BY <1>5
  <2>2. CASE k = 1
    <3>1. record[i] = Proof(i, decision[i], 1, << >>)
      BY <1>4, <2>1, <2>2
    <3>2. \A j \in ids : record[j].sequence_number + 1 # k
      BY <1>3, <1>5, <2>2
    <3>3. QED
      BY <3>1, <3>2
  <2>3. CASE k # 1
    <3>1. k - 1 \in 1..n
      BY <1>3, <2>1, <2>3
    <3>2. PICK j \in ids : record[j].sequence_number = k - 1
      BY <1>3, <3>1
    <3>3. record[j].sequence_number + 1 = k
      BY <1>3, <2>1, <3>2
    <3>4. record[i].previous_hash = record[j].record_hash
      BY <1>4, <3>3
    <3>5. record[i] = Proof(i, decision[i], k, record[j].record_hash)
      BY <2>1, <3>4
    <3>6. QED
      BY <3>3, <3>5
  <2>4. QED
    BY <2>2, <2>3
<1>7. QED
  BY <1>1, <1>3, <1>6 DEF Sequences, ProjectChain, Complete, ids

\* The ledger is the append-only list the code intends, for any number of
\* concurrent calls and startups: numbered 1..n without gap or repetition, each
\* record built from its decision and the hash of the record before it, and
\* complete once a process serves.
THEOREM LedgerCorrect == Spec => []LedgerIsChain
BY ChainIsLedger, TypeInvariance, ChainInvariance, PTL

-----------------------------------------------------------------------------
(* Append-only                                                             *)

\* New records are numbered behind all that are there.
LEMMA GrowsBehind ==
    ASSUME TypeInv, TypeInv', ChainInv, ChainInv', OnlyAdds, NEW p \in Projects
    PROVE  LET ids == RecordsOf(p, record)
               ids2 == RecordsOf(p, record')
           IN /\ \A i \in ids : /\ i \in ids2 /\ record'[i] = record[i]
                                /\ decision[i] # None /\ decision'[i] = decision[i]
              /\ Cardinality(ids) \in Nat /\ Cardinality(ids2) \in Nat
              /\ Cardinality(ids) <= Cardinality(ids2)
              /\ \A i \in ids2 : record'[i].sequence_number <= Cardinality(ids) => i \in ids
<1> DEFINE ids == RecordsOf(p, record)
           ids2 == RecordsOf(p, record')
           n == Cardinality(ids)
<1>1. /\ record \in Rows /\ record' \in Rows
      /\ ids \in SUBSET Ids /\ ids2 \in SUBSET Ids
      /\ ChainOf(ids, decision, record) /\ ChainOf(ids2, decision', record')
      /\ ids \in {{}, DecisionsOf(p, decision)}
  BY DEF TypeInv, TypeOK, Rows, ChainInv, ProjectChain, RecordsOf
<1>2. \A i \in ids : /\ i \in ids2 /\ record'[i] = record[i]
                     /\ decision[i] # None /\ decision'[i] = decision[i]
  BY <1>1 DEF OnlyAdds, RecordsOf, DecisionsOf
<1>3. /\ IsFiniteSet(ids) /\ n \in Nat /\ IsFiniteSet(ids2) /\ Cardinality(ids2) \in Nat
      /\ \A k \in 1..n : \E i \in ids : record[i].sequence_number = k
  <2> HIDE DEF ids, ids2
  <2>1. QED
    BY <1>1, ChainCounts
<1>4. n <= Cardinality(ids2)
  <2>1. ids \in SUBSET ids2
    BY <1>2
  <2> HIDE DEF ids, ids2
  <2>2. QED
    BY <1>3, <2>1, FS_Subset
<1>5. /\ \A i \in ids2 : record'[i].sequence_number \in 1..Cardinality(ids2)
      /\ \A i, j \in ids2 : i # j => record'[i].sequence_number # record'[j].sequence_number
  BY <1>1 DEF ChainOf
<1> HIDE DEF ids, ids2, n
<1>6. ASSUME NEW i \in ids2, record'[i].sequence_number <= n PROVE i \in ids
  <2>1. record'[i].sequence_number \in 1..n
    BY <1>3, <1>5, <1>6
  <2>2. PICK j \in ids : record[j].sequence_number = record'[i].sequence_number
    BY <1>3, <2>1
  <2>3. j \in ids2 /\ record'[j].sequence_number = record'[i].sequence_number
    BY <1>2, <2>2
  <2>4. QED
    BY <1>5, <2>2, <2>3
<1>7. QED
  BY <1>2, <1>3, <1>4, <1>6 DEF ids, ids2, n

\* A step of the application replaces and removes nothing.
LEMMA StepAppends ==
    ASSUME TypeInv, TypeInv', Genuine => ChainInv, [LedgerStep]_vars, Genuine',
           NEW p \in Projects, NEW i \in RecordsOf(p, record)
    PROVE  /\ record'[i] = record[i] /\ decision'[i] = decision[i]
           /\ \A j \in RecordsOf(p, record') \ RecordsOf(p, record) :
                record'[j].sequence_number > record[i].sequence_number
<1> DEFINE ids == RecordsOf(p, record)
           ids2 == RecordsOf(p, record')
           n == Cardinality(ids)
<1>1. ChainInv /\ ChainInv' /\ OnlyAdds
  BY GenuineBefore, StepKeepsChain
<1>2. /\ record'[i] = record[i] /\ decision'[i] = decision[i] /\ n \in Nat
      /\ \A j \in ids2 : record'[j].sequence_number <= n => j \in ids
  BY <1>1, GrowsBehind
<1>3. record[i].sequence_number \in 1..n
  BY <1>1 DEF ChainInv, ProjectChain, ChainOf
<1>4. \A j \in ids2 : record'[j].sequence_number \in Nat
  BY RecordsTyped DEF TypeInv, TypeOK, Rows
<1> HIDE DEF ids, ids2, n
<1>5. \A j \in ids2 \ ids : record'[j].sequence_number > record[i].sequence_number
  BY <1>2, <1>3, <1>4
<1>6. QED
  BY <1>2, <1>5 DEF ids, ids2

GrowsAtEnd ==
    Genuine' => \A p \in Projects :
      LET ids == RecordsOf(p, record)
          added == RecordsOf(p, record') \ ids
      IN \A i \in ids :
           /\ record'[i] = record[i] /\ decision'[i] = decision[i]
           /\ \A j \in added : record'[j].sequence_number > record[i].sequence_number

LEMMA LedgerGrows ==
    TypeInv /\ TypeInv' /\ (Genuine => ChainInv) /\ [LedgerStep]_vars => GrowsAtEnd
BY StepAppends DEF GrowsAtEnd

\* The application only appends: no record, and no decision that has one, is
\* replaced or removed, and a new record is numbered behind all of its project,
\* whatever startups, calls and verifications interleave.
THEOREM LedgerAppends == Spec => LedgerIsAppendOnly
<1>1. Spec => [][GrowsAtEnd]_vars
  BY LedgerGrows, NextIsLedgerStep, TypeInvariance, ChainInvariance, PTL DEF Spec
<1>2. QED
  BY <1>1 DEF LedgerIsAppendOnly, GrowsAtEnd

-----------------------------------------------------------------------------
(* No false alarm                                                          *)

\* Every hash the application returned is that of a record that is still there.
IssuedStored ==
    \A t \in issued : \E i \in Ids :
      record[i] # None /\ t = <<record[i].project, record[i].record_hash>>

\* What a verification of an untouched ledger knows between its SELECTs: it
\* counted as many records as decisions, numbered up to that count, the ledger
\* can only have grown since, and its checkpoint is among the records counted.
VerifierKnows(v) ==
    LET vf == verifier[v]
        ids == RecordsOf(vf.project, record)
    IN /\ vf.pc # "idle" => Serving
       /\ vf.pc \in {"unmatched", "scan"} =>
            /\ vf.project \in Projects
            /\ vf.records = vf.total /\ vf.max = vf.total
            /\ vf.total <= Cardinality(ids)
            /\ vf.expected = << >> \/ \E i \in ids :
                 record[i].record_hash = vf.expected
                   /\ record[i].sequence_number <= vf.total
       /\ vf.pc = "done" => vf.report.verified /\ vf.report.checked = vf.report.total

\* Adding records keeps what was issued, and what verifications know.
LEMMA AddingKeepsIssued ==
    ASSUME TypeInv, OnlyAdds, IssuedStored, issued' \in {issued, Issue(record')},
           \A j \in Ids : record'[j] # record[j] => record'[j] # None
    PROVE  IssuedStored'
<1>1. ASSUME NEW t \in issued'
      PROVE  \E i \in Ids : record'[i] # None
                              /\ t = <<record'[i].project, record'[i].record_hash>>
  <2>1. CASE t \in issued
    BY <2>1 DEF IssuedStored, OnlyAdds
  <2>2. CASE t \notin issued
    <3>1. PICK i \in Ids : /\ record'[i] # record[i]
                           /\ t = <<record'[i].project, record'[i].record_hash>>
      BY <1>1, <2>2 DEF Issue
    <3>2. QED
      BY <3>1
  <2>3. QED
    BY <2>1, <2>2
<1>2. QED
  BY <1>1 DEF IssuedStored

LEMMA AddingKeepsVerifier ==
    ASSUME TypeInv, TypeInv', ChainInv', OnlyAdds, Serving => Serving',
           NEW v \in Verifiers, VerifierKnows(v), verifier'[v] = verifier[v]
    PROVE  VerifierKnows(v)'
<1> DEFINE p == verifier[v].project
           ids == RecordsOf(p, record)
           ids2 == RecordsOf(p, record')
<1>1. \A i \in ids : i \in ids2 /\ record'[i] = record[i]
  BY DEF RecordsOf, OnlyAdds
<1>2. Cardinality(ids) <= Cardinality(ids2) /\ Cardinality(ids) \in Nat
        /\ Cardinality(ids2) \in Nat
  <2>1. record \in Rows /\ record' \in Rows
    BY DEF TypeInv, TypeOK, Rows
  <2>2. /\ IsFiniteSet(ids) /\ IsFiniteSet(ids2) /\ Cardinality(ids2) \in Nat
        /\ Cardinality(ids) \in Nat
    BY <2>1, RecordsTyped
  <2>3. ids \in SUBSET ids2
    BY <1>1
  <2> HIDE DEF ids, ids2
  <2>4. QED
    BY <2>2, <2>3, FS_Subset
<1>3. verifier[v].total \in Nat
  BY DEF TypeInv, TypeOK, Verifier
<1>4. verifier[v].total <= Cardinality(ids) => verifier[v].total <= Cardinality(ids2)
  <2> HIDE DEF ids, ids2
  <2>1. QED
    BY <1>2, <1>3
<1>5. QED
  BY <1>1, <1>4 DEF VerifierKnows

\* The first SELECT of an untouched ledger counts a complete chain.
LEMMA CountsAgree ==
    ASSUME TypeInv, ChainInv, Serving, IssuedStored, NEW v \in Verifiers,
           NEW p \in Projects, NEW h \in Checkpoints(p), StartVerify(v, p, h)
    PROVE  VerifierKnows(v)'
<1> DEFINE ids == RecordsOf(p, record)
           n == Cardinality(ids)
           max == IF ids = {} THEN 0 ELSE Max(Sequences(p, record))
           new == [NotVerifying EXCEPT
                     !.pc = "unmatched", !.project = p, !.expected = h,
                     !.total = Cardinality(DecisionsOf(p, decision)),
                     !.records = n, !.max = max]
<1>1. /\ record \in Rows /\ ids = DecisionsOf(p, decision)
      /\ ids \in SUBSET Ids /\ ChainOf(ids, decision, record)
  BY DEF TypeInv, TypeOK, Rows, ChainInv, Complete, ProjectChain, RecordsOf
<1>2. verifier'[v] = new /\ UNCHANGED <<record, starter>>
  BY DEF StartVerify, TypeInv, TypeOK, db
<1>3. /\ n \in Nat
      /\ \A k \in 1..n : \E i \in ids : record[i].sequence_number = k
      /\ \A i \in ids : record[i].sequence_number \in 1..n
  <2>1. \A i \in ids : record[i].sequence_number \in 1..n
    BY <1>1 DEF ChainOf
  <2> HIDE DEF ids
  <2>2. QED
    BY <1>1, <2>1, ChainCounts
<1>4. max = n
  <2>1. CASE ids = {}
    BY <2>1, FS_EmptySet
  <2>2. CASE ids # {}
    <3>1. PICK i \in ids : /\ Max(Sequences(p, record)) = record[i].sequence_number
                           /\ \A j \in ids : record[j].sequence_number
                                               <= record[i].sequence_number
      BY <1>1, <2>2, HeadExists
    <3>2. n \in 1..n
      BY <1>3, <2>2
    <3>3. PICK j \in ids : record[j].sequence_number = n
      BY <1>3, <3>2
    <3> HIDE DEF ids, n
    <3>4. record[i].sequence_number = n
      BY <1>3, <3>1, <3>3
    <3>5. QED
      BY <2>2, <3>1, <3>4
  <2>3. QED
    BY <2>1, <2>2
<1>5. /\ new.pc = "unmatched" /\ new.project = p /\ new.expected = h
      /\ new.total = n /\ new.records = n /\ new.max = max
  BY <1>1 DEF NotVerifying
<1>6. h = << >> \/ \E i \in ids : /\ record[i].record_hash = h
                                  /\ record[i].sequence_number <= n
  <2>1. SUFFICES ASSUME h # << >>
                 PROVE  \E i \in ids : /\ record[i].record_hash = h
                                       /\ record[i].sequence_number <= n
    OBVIOUS
  <2>2. PICK t \in issued : t[1] = p /\ t[2] = h
    BY <2>1 DEF Checkpoints
  <2>3. PICK i \in Ids : record[i] # None
                           /\ t = <<record[i].project, record[i].record_hash>>
    BY DEF IssuedStored
  <2>4. i \in ids /\ record[i].record_hash = h
    BY <2>2, <2>3 DEF RecordsOf
  <2>5. QED
    BY <1>3, <2>4
<1>7. Serving'
  BY <1>2 DEF Serving
<1> HIDE DEF ids, n, max, new
<1>8. n <= n
  BY <1>3
<1>9. QED
  BY <1>2, <1>4, <1>5, <1>6, <1>7, <1>8 DEF VerifierKnows, ids, n

\* The rows 1..n list the records of ids up to max by their numbers.
ListsUpTo(rows, n, ids, rec, max) ==
    /\ \A k \in 1..n : rows[k] \in ids /\ rec[rows[k]].sequence_number <= max
    /\ \A k, l \in 1..n : k # l => rows[k] # rows[l]
    /\ \A k, l \in 1..n : k < l =>
         rec[rows[k]].sequence_number <= rec[rows[l]].sequence_number
    /\ \A i \in ids : rec[i].sequence_number <= max => \E k \in 1..n : rows[k] = i

\* ORDER BY sequence_number of the records up to max is the first max records
\* of the chain.
LEMMA NumberedRows ==
    ASSUME NEW rec \in Rows, NEW dec, NEW ids \in SUBSET Ids, ChainOf(ids, dec, rec),
           NEW max \in Nat, max <= Cardinality(ids), NEW n \in Nat, NEW rows,
           ListsUpTo(rows, n, ids, rec, max)
    PROVE  n = max /\ \A k \in 1..n : rec[rows[k]].sequence_number = k
<1> USE DEF ListsUpTo
<1> DEFINE g(k) == rec[rows[k]].sequence_number
<1>1. /\ Cardinality(ids) \in Nat
      /\ \A k \in 1..Cardinality(ids) : \E i \in ids : rec[i].sequence_number = k
  BY ChainCounts
<1>2. \A i \in ids : rec[i].sequence_number \in 1..Cardinality(ids)
  BY DEF ChainOf
<1>3. \A i, j \in ids : i # j => rec[i].sequence_number # rec[j].sequence_number
  BY DEF ChainOf
<1>4. /\ \A k \in 1..n : rows[k] \in ids /\ g(k) \in 1..max
      /\ \A k, l \in 1..n : k < l => g(k) < g(l)
      /\ \A m \in 1..max : \E k \in 1..n : g(k) = m
  <2>1. \A k \in 1..n : rows[k] \in ids /\ g(k) <= max
    OBVIOUS
  <2>2. \A k \in 1..n : g(k) \in 1..max
    BY <1>1, <1>2, <2>1
  <2>3. ASSUME NEW k \in 1..n, NEW l \in 1..n, k < l PROVE g(k) < g(l)
    <3>1. rows[k] # rows[l] /\ g(k) <= g(l)
      BY <2>3
    <3>2. g(k) # g(l)
      BY <1>3, <2>1, <3>1
    <3>3. g(k) \in Nat /\ g(l) \in Nat
      BY <2>2
    <3> HIDE DEF g
    <3>4. QED
      BY <3>1, <3>2, <3>3
  <2>4. ASSUME NEW m \in 1..max PROVE \E k \in 1..n : g(k) = m
    <3>1. m \in 1..Cardinality(ids)
      BY <1>1
    <3>2. PICK i \in ids : rec[i].sequence_number = m
      BY <1>1, <3>1
    <3>3. rec[i].sequence_number <= max
      BY <3>2
    <3>4. QED
      BY <3>2, <3>3
  <2>5. QED
    BY <2>1, <2>2, <2>3, <2>4
<1>5. \A k \in 1..n : g(k) = k
  <2> DEFINE Bad == {k \in 1..n : g(k) # k}
  <2>1. SUFFICES ASSUME Bad # {} PROVE FALSE
    OBVIOUS
  <2>2. PICK k \in Bad : \A l \in Bad : k <= l
    <3>1. Bad \in SUBSET Nat
      OBVIOUS
    <3> HIDE DEF Bad
    <3>2. QED
      BY <2>1, <3>1, LeastNumber
  <2>3. k \in 1..n /\ g(k) # k /\ k \in Nat /\ g(k) \in 1..max
    BY <1>4, <2>2
  <2>4. \A l \in 1..n : l < k => g(l) = l
    BY <2>2, <2>3
  <2> HIDE DEF g
  <2>5. CASE g(k) < k
    <3>1. g(k) \in 1..n /\ g(k) < k
      BY <1>1, <2>3, <2>5
    <3>2. g(g(k)) = g(k)
      BY <2>4, <3>1
    <3>3. g(g(k)) < g(k)
      BY <1>4, <2>3, <3>1
    <3>4. QED
      BY <1>1, <2>3, <3>2, <3>3
  <2>6. CASE k < g(k)
    <3>1. k \in 1..max
      BY <1>1, <2>3, <2>6
    <3>2. PICK l \in 1..n : g(l) = k
      BY <1>4, <3>1
    <3>3. l >= k /\ l # k
      BY <2>3, <2>4, <2>6, <3>2
    <3>4. g(k) < g(l)
      BY <1>4, <2>3, <3>3
    <3>5. QED
      BY <1>1, <2>3, <2>6, <3>2, <3>4
  <2>7. QED
    BY <1>1, <2>3, <2>5, <2>6
<1>6. n = max
  <2>1. n # 0 => n \in 1..max
    BY <1>4, <1>5
  <2>2. max # 0 => max \in 1..n
    <3>1. max # 0 => max \in 1..max
      BY <1>1
    <3>2. max # 0 => \E k \in 1..n : g(k) = max
      BY <1>4, <3>1
    <3>3. QED
      BY <1>5, <3>2
  <2>3. QED
    BY <1>1, <2>1, <2>2
<1>7. QED
  BY <1>5, <1>6

\* The scan of an untouched ledger reads the first n records of the chain in
\* their order, finds each of them good, and passes the checkpoint.
LEMMA ScanSucceeds ==
    ASSUME TypeInv, ChainInv, NEW v \in Verifiers, VerifierKnows(v),
           verifier[v].pc = "scan"
    PROVE  /\ Scan(verifier[v]).verified
           /\ Scan(verifier[v]).checked = Scan(verifier[v]).total
<1> DEFINE vf == verifier[v]
           p == vf.project
           max == vf.max
           ids == RecordsOf(p, record)
           rows == VerificationRows(p, max)
           n == Len(rows)
           g(k) == record[rows[k]].sequence_number
<1>1. /\ record \in Rows /\ decision \in [Ids -> Decision \cup {None}]
      /\ p \in Projects /\ ids = DecisionsOf(p, decision)
      /\ ids \in SUBSET Ids /\ ChainOf(ids, decision, record)
      /\ max \in Nat /\ max = vf.total /\ max <= Cardinality(ids)
      /\ vf.expected = << >> \/ \E i \in ids :
           record[i].record_hash = vf.expected /\ record[i].sequence_number <= max
  BY DEF TypeInv, TypeOK, Rows, ChainInv, Complete, ProjectChain, RecordsOf,
     VerifierKnows, Verifier
<1>2. /\ \A i \in ids : record[i] # None /\ decision[i] # None
      /\ Scanned(p, max) = {i \in ids : record[i].sequence_number <= max}
  BY <1>1 DEF Scanned, RecordsOf, DecisionsOf
<1> HIDE DEF ids
<1>3. /\ Cardinality(ids) \in Nat
      /\ \A k \in 1..Cardinality(ids) : \E i \in ids : record[i].sequence_number = k
  BY <1>1, ChainCounts
<1>4. \A i \in ids : /\ record[i].sequence_number \in 1..Cardinality(ids)
                     /\ record[i] \in Record /\ decision[i] \in Decision
                     /\ record[i] = Proof(i, decision[i], record[i].sequence_number,
                                          record[i].previous_hash)
  BY <1>1, <1>2 DEF ChainOf, Rows
<1>5. \A i, j \in ids : i # j => record[i].sequence_number # record[j].sequence_number
  BY <1>1 DEF ChainOf
<1>6. /\ \A i \in ids : record[i].sequence_number = 1 =>
                          record[i].previous_hash = << >>
      /\ \A i, j \in ids :
           record[j].sequence_number + 1 = record[i].sequence_number =>
             record[i].previous_hash = record[j].record_hash
  BY <1>1, <1>2, ChainLinks
<1>7. /\ n \in Nat
      /\ \A k \in 1..n : rows[k] \in Scanned(p, max)
      /\ \A k, l \in 1..n : k # l => rows[k] # rows[l]
      /\ \A k, l \in 1..n : k < l => g(k) <= g(l)
      /\ \A i \in Scanned(p, max) : \E k \in 1..n : rows[k] = i
  <2>1. TypeOK
    BY DEF TypeInv
  <2> HIDE DEF vf
  <2>2. QED
    BY <2>1, ScanReads
<1> HIDE DEF rows, max, p
<1>8. n = max /\ \A k \in 1..n : rows[k] \in ids /\ g(k) = k
  <2>1. \A k \in 1..n : rows[k] \in ids /\ g(k) <= max
    BY <1>2, <1>7
  <2>2. \A i \in ids : record[i].sequence_number <= max => \E k \in 1..n : rows[k] = i
    BY <1>2, <1>7
  <2> HIDE DEF n
  <2>3. n = max /\ \A k \in 1..n : record[rows[k]].sequence_number = k
    <3>1. ListsUpTo(rows, n, ids, record, max)
      BY <1>7, <2>1, <2>2 DEF ListsUpTo
    <3>2. QED
      BY <1>1, <1>7, <3>1, NumberedRows
  <2>4. QED
    BY <2>1, <2>3
<1> HIDE DEF n
<1>9. ASSUME NEW k \in 1..n PROVE RowIsGood(rows[k], k, PreviousHash(rows, k))
  <2> DEFINE i == rows[k]
             r == record[rows[k]]
             row == decision[rows[k]]
  <2>1. /\ i \in ids /\ i \in Ids /\ r \in Record /\ row \in Decision
        /\ r.sequence_number = k
        /\ r = Proof(i, row, r.sequence_number, r.previous_hash)
    BY <1>1, <1>4, <1>8
  <2>2. r.previous_hash = PreviousHash(rows, k)
    <3>1. CASE k = 1
      BY <1>6, <2>1, <3>1 DEF PreviousHash
    <3>2. CASE k # 1
      <4>1. k - 1 \in 1..n /\ (k - 1) + 1 = k
        BY <1>7, <3>2
      <4>2. rows[k - 1] \in ids /\ record[rows[k - 1]].sequence_number = k - 1
        BY <1>8, <4>1
      <4>3. r.previous_hash = record[rows[k - 1]].record_hash
        BY <1>6, <2>1, <4>1, <4>2
      <4>4. QED
        BY <3>2, <4>3 DEF PreviousHash
    <3>3. QED
      BY <3>1, <3>2
  <2>3. /\ r.created_at = row.at /\ r.payload_hash = PayloadHash(i, row)
        /\ r.record_hash = Append(r.previous_hash,
             RecordEnvelope(i, row, r.sequence_number, PayloadHash(i, row)))
    <3> HIDE DEF i, r, row
    <3>1. QED
      BY <2>1, Computed
  <2>4. QED
    BY <2>1, <2>2, <2>3 DEF RowIsGood, RecordHash
<1>10. vf.expected = << >> \/ \E k \in 1..n : record[rows[k]].record_hash = vf.expected
  <2>1. ASSUME NEW i \in ids, record[i].record_hash = vf.expected,
               record[i].sequence_number <= max
        PROVE  \E k \in 1..n : record[rows[k]].record_hash = vf.expected
    <3>1. i \in Scanned(p, max)
      BY <1>2, <2>1
    <3>2. QED
      BY <1>7, <2>1, <3>1
  <2>2. QED
    BY <1>1, <2>1
<1>11. QED
  <2> DEFINE r == Scan(vf)
  <2>1. TypeOK
    BY DEF TypeInv
  <2>2. /\ r.total = vf.total
        /\ r.verified <=>
             /\ \A k \in 1..n : RowIsGood(rows[k], k, PreviousHash(rows, k))
             /\ vf.expected = << >> \/ \E k \in 1..n :
                                         record[rows[k]].record_hash = vf.expected
        /\ (\A k \in 1..n : RowIsGood(rows[k], k, PreviousHash(rows, k))) =>
             r.checked = n
    <3> HIDE DEF vf
    <3>1. QED
      BY <2>1, ScanStops DEF rows, n, p, max
  <2> HIDE DEF r, vf
  <2>3. r.verified /\ r.checked = n
    BY <1>9, <1>10, <2>2
  <2>4. QED
    BY <1>1, <1>8, <2>2, <2>3 DEF r, vf

NoAlarmInv == ChainInv /\ IssuedStored /\ \A v \in Verifiers : VerifierKnows(v)

\* A process that serves does so until the end.
LEMMA ServingStays == TypeInv /\ [LedgerStep]_vars => (Serving => Serving')
<1> SUFFICES ASSUME TypeInv, [LedgerStep]_vars PROVE Serving => Serving'
  OBVIOUS
<1>1. \A s \in Starters : starter[s].pc = "up" => starter'[s].pc = "up"
  <2>1. ASSUME NEW s \in Starters, starter[s].pc = "up",
               NEW t \in Starters,
               CountDecisions(t) \/ CountRecords(t) \/ Backfill(t) \/ Stop(t)
        PROVE  starter'[s].pc = "up"
    <3>1. t # s /\ \E new : starter' = [starter EXCEPT ![t] = new]
      BY <2>1 DEF CountDecisions, CountRecords, Backfill, Stop
    <3>2. starter'[s] = starter[s]
      BY <3>1 DEF TypeInv, TypeOK
    <3>3. QED
      BY <2>1, <3>2
  <2>2. CASE UNCHANGED starter
    BY <2>2
  <2>3. \/ UNCHANGED starter
        \/ \E t \in Starters :
             CountDecisions(t) \/ CountRecords(t) \/ Backfill(t) \/ Stop(t)
    BY DEF LedgerStep, vars, Receive, Fetch, Evaluate, Save, Recover, Fail,
       StartsVerify, StartVerify, VerifyMatching, VerifyChain, DatabaseWrite
  <2>4. QED
    BY <2>1, <2>2, <2>3
<1>2. QED
  BY <1>1 DEF Serving

\* Each step of a verification hands what it knows to the next.
LEMMA StepKnows ==
    ASSUME TypeInv, TypeInv', NoAlarmInv, [LedgerStep]_vars, Genuine,
           writes' = writes
    PROVE  NoAlarmInv'
<1>1. /\ ChainInv /\ ChainInv' /\ OnlyAdds /\ IssuedStored
      /\ issued' \in {issued, Issue(record')}
  BY StepKeepsChain DEF NoAlarmInv
<1>2. Serving => Serving'
  BY ServingStays
<1>3. \A j \in Ids : record'[j] # record[j] => record'[j] # None
  BY <1>1 DEF OnlyAdds
<1>4. IssuedStored'
  BY <1>1, <1>3, AddingKeepsIssued
<1>5. ASSUME NEW v \in Verifiers, verifier'[v] = verifier[v]
      PROVE  VerifierKnows(v)'
  BY <1>1, <1>2, <1>5, AddingKeepsVerifier DEF NoAlarmInv
<1>6. ASSUME NEW v \in Verifiers, NEW w \in Verifiers,
             StartsVerify(w) \/ VerifyMatching(w) \/ VerifyChain(w)
      PROVE  VerifierKnows(v)'
  <2>1. CASE v # w
    <3>1. \E new : verifier' = [verifier EXCEPT ![w] = new]
      BY <1>6 DEF StartsVerify, StartVerify, VerifyMatching, VerifyChain
    <3>2. verifier'[v] = verifier[v]
      BY <2>1, <3>1 DEF TypeInv, TypeOK
    <3>3. QED
      BY <1>5, <3>2
  <2>2. CASE v = w /\ StartsVerify(w)
    <3>1. PICK p \in Projects : \E h \in Checkpoints(p) : StartVerify(v, p, h)
      BY <2>2 DEF StartsVerify
    <3>2. PICK h \in Checkpoints(p) : StartVerify(v, p, h)
      BY <3>1
    <3>3. Serving
      BY <2>2 DEF StartsVerify
    <3>4. QED
      BY <1>1, <3>2, <3>3, CountsAgree
  <2>3. CASE v = w /\ VerifyMatching(w)
    <3> DEFINE vf == verifier[v]
    <3>1. /\ vf \in Verifier /\ VerifierKnows(v) /\ vf.pc = "unmatched"
          /\ UNCHANGED <<record, decision, starter>>
      BY <2>3 DEF TypeInv, TypeOK, NoAlarmInv, VerifyMatching, db
    <3>2. vf.records = vf.total /\ Unmatched(vf.project) = {}
      BY <1>1, <3>1 DEF VerifierKnows, ChainInv, Complete, Unmatched
    <3> DEFINE new == [vf EXCEPT !.pc = "scan"]
    <3>3. verifier' = [verifier EXCEPT ![v] = new]
      BY <2>3, <3>2 DEF VerifyMatching
    <3>4. /\ new.pc = "scan" /\ new.project = vf.project
          /\ new.expected = vf.expected /\ new.total = vf.total
          /\ new.records = vf.records /\ new.max = vf.max
      BY <3>1 DEF Verifier
    <3> HIDE DEF new
    <3>5. verifier'[v] = new
      BY <3>3 DEF TypeInv, TypeOK
    <3>6. QED
      BY <1>2, <3>1, <3>4, <3>5 DEF VerifierKnows, Serving
  <2>4. CASE v = w /\ VerifyChain(w)
    <3> DEFINE r == Scan(verifier[v])
               new == [verifier[v] EXCEPT !.pc = "done", !.max = 0, !.records = 0,
                                          !.total = 0, !.report = r]
    <3>1. verifier[v].pc = "scan" /\ VerifierKnows(v)
      BY <2>4 DEF VerifyChain, NoAlarmInv
    <3>2. r.verified /\ r.checked = r.total
      BY <1>1, <3>1, ScanSucceeds
    <3>3. verifier' = [verifier EXCEPT ![v] = new]
      BY <2>4 DEF VerifyChain
    <3> HIDE DEF r
    <3>4. verifier[v] \in Verifier
      BY DEF TypeInv, TypeOK
    <3>5. new.pc = "done" /\ new.report = r
      BY <3>4 DEF Verifier
    <3> HIDE DEF new
    <3>6. verifier'[v] = new
      BY <3>3 DEF TypeInv, TypeOK
    <3>7. Serving
      BY <3>1 DEF VerifierKnows
    <3>8. QED
      BY <1>2, <3>2, <3>5, <3>6, <3>7 DEF VerifierKnows
  <2>5. QED
    BY <1>6, <2>1, <2>2, <2>3, <2>4
<1>7. \/ UNCHANGED verifier
      \/ \E w \in Verifiers : StartsVerify(w) \/ VerifyMatching(w) \/ VerifyChain(w)
  BY DEF LedgerStep, vars, CountDecisions, CountRecords, Backfill, Stop,
     Receive, Fetch, Evaluate, Save, Recover, Fail, DatabaseWrite
<1>8. \A v \in Verifiers : VerifierKnows(v)'
  BY <1>5, <1>6, <1>7
<1>9. QED
  BY <1>1, <1>4, <1>8 DEF NoAlarmInv

LEMMA NoAlarmInit == Init => NoAlarmInv
<1> SUFFICES ASSUME Init PROVE NoAlarmInv
  OBVIOUS
<1>1. IssuedStored
  BY DEF Init, IssuedStored
<1>2. \A v \in Verifiers : VerifierKnows(v)
  BY DEF Init, VerifierKnows, NotVerifying
<1>3. QED
  BY <1>1, <1>2, InitChain DEF NoAlarmInv

LEMMA NoAlarmStep ==
    TypeInv /\ TypeInv' /\ (Genuine => NoAlarmInv) /\ [LedgerStep]_vars
      => (Genuine => NoAlarmInv)'
BY GenuineBefore, StepKnows

\* Verifying a ledger that only the application has written succeeds and covers
\* every decision it counted, whatever commits between its three SELECTs, and
\* any checkpoint returned before is found.
THEOREM NoAlarm == Spec => []NoFalseAlarm
<1>1. (Genuine => NoAlarmInv) => NoFalseAlarm
  BY DEF NoAlarmInv, VerifierKnows, NoFalseAlarm, Reported
<1>2. QED
  BY <1>1, NoAlarmInit, NoAlarmStep, NextIsLedgerStep, TypeInvariance, PTL DEF Spec

-----------------------------------------------------------------------------
(* Refused startups                                                        *)

NoneRefused == \A s \in Starters : starter[s].pc # "refused"

\* A single startup looks at a table without records.
LEMMA SingleStartup ==
    ASSUME \A s, t \in Starters : s = t, TypeInv, ChainInv, NoneRefused, [LedgerStep]_vars
    PROVE  NoneRefused'
<1>1. ASSUME NEW s \in Starters, starter[s].pc \in {"count", "insert"}, NEW p \in Projects
      PROVE  RecordsOf(p, record) = {} /\ Cardinality(RecordsOf(p, record)) = 0
  <2>1. ~Serving
    BY <1>1 DEF Serving
  <2>2. RecordsOf(p, record) = {}
    BY <2>1 DEF ChainInv, RecordsOf
  <2>3. QED
    BY <2>2, FS_EmptySet
<1>2. ASSUME NEW s \in Starters, NEW new, new.pc # "refused",
             starter' = [starter EXCEPT ![s] = new]
      PROVE  NoneRefused'
  BY <1>2 DEF NoneRefused, TypeInv, TypeOK
<1>3. ASSUME NEW s \in Starters, CountRecords(s) PROVE NoneRefused'
  <2> DEFINE st == starter[s]
  <2>1. st \in Starter /\ st.pc = "count" /\ st.todo \subseteq Projects
    BY <1>3 DEF CountRecords, TypeInv, TypeOK, Starter
  <2>2. PICK p \in st.todo :
          starter' = [starter EXCEPT ![s] =
              CASE Judge(st.counted[p], Cardinality(RecordsOf(p, record))) = "complete" ->
                     IF st.todo \ {p} = {} THEN [Idle EXCEPT !.pc = "up"]
                     ELSE [st EXCEPT !.todo = st.todo \ {p}]
                [] Judge(st.counted[p], Cardinality(RecordsOf(p, record))) = "partial" ->
                     [Idle EXCEPT !.pc = "refused"]
                [] Judge(st.counted[p], Cardinality(RecordsOf(p, record))) = "absent" ->
                     [st EXCEPT !.pc = "insert", !.cur = p]]
    BY <1>3 DEF CountRecords
  <2>3. Judge(st.counted[p], Cardinality(RecordsOf(p, record))) = "absent"
    <3>1. st.counted[p] > 0 /\ st.counted[p] \in Nat
      BY <2>1 DEF ChainInv, StartupKnows, Starter
    <3>2. Cardinality(RecordsOf(p, record)) = 0
      BY <1>1, <2>1
    <3>3. QED
      BY <3>1, <3>2 DEF Judge
  <2>4. starter' = [starter EXCEPT ![s] = [st EXCEPT !.pc = "insert", !.cur = p]]
    BY <2>2, <2>3
  <2>5. [st EXCEPT !.pc = "insert", !.cur = p].pc # "refused"
    BY <2>1 DEF Starter
  <2>6. QED
    BY <1>2, <2>4, <2>5
<1>4. ASSUME NEW s \in Starters, Backfill(s) PROVE NoneRefused'
  <2> DEFINE st == starter[s]
             p == st.cur
             verdict(q) == Judge(st.counted[q], Cardinality(RecordsOf(q, record)))
             rest == st.todo \ {p}
             ends == IF RecordsOf(p, record) # {} THEN "down"
                     ELSE IF \E q \in rest : verdict(q) = "partial" THEN "refused"
                     ELSE "up"
  <2>1. /\ st \in Starter /\ st.pc = "insert" /\ st.todo \subseteq Projects
        /\ starter' = [starter EXCEPT ![s] = [Idle EXCEPT !.pc = ends]]
    BY <1>4 DEF Backfill, TypeInv, TypeOK, Starter
  <2>2. \A q \in rest : verdict(q) # "partial"
    <3>1. ASSUME NEW q \in rest PROVE verdict(q) # "partial"
      <4>1. Cardinality(RecordsOf(q, record)) = 0
        BY <1>1, <2>1
      <4>2. QED
        BY <4>1 DEF Judge
    <3>2. QED
      BY <3>1
  <2>3. ends # "refused"
    BY <2>2
  <2> HIDE DEF ends
  <2>4. [Idle EXCEPT !.pc = ends].pc # "refused"
    BY <2>3 DEF Idle
  <2>5. QED
    BY <1>2, <2>1, <2>4
<1>5. ASSUME NEW s \in Starters, CountDecisions(s) PROVE NoneRefused'
  <2> DEFINE counted == [p \in Projects |-> Cardinality(DecisionsOf(p, decision))]
             todo == {p \in Projects : counted[p] > 0}
             new == [pc |-> IF todo = {} THEN "up" ELSE "count",
                     counted |-> counted, todo |-> todo, cur |-> None]
  <2>1. starter' = [starter EXCEPT ![s] = new]
    BY <1>5 DEF CountDecisions
  <2>2. new.pc # "refused"
    OBVIOUS
  <2> HIDE DEF new
  <2>3. QED
    BY <1>2, <2>1, <2>2
<1>6. ASSUME NEW s \in Starters, Stop(s) PROVE NoneRefused'
  <2>1. starter' = [starter EXCEPT ![s] = Idle] /\ Idle.pc # "refused"
    BY <1>6 DEF Stop, Idle
  <2>2. QED
    BY <1>2, <2>1
<1>7. CASE UNCHANGED starter
  BY <1>7 DEF NoneRefused
<1>8. \/ UNCHANGED starter
      \/ \E s \in Starters :
           CountDecisions(s) \/ CountRecords(s) \/ Backfill(s) \/ Stop(s)
  BY DEF LedgerStep, vars, Receive, Fetch, Evaluate, Save, Recover, Fail,
     StartsVerify, StartVerify, VerifyMatching, VerifyChain, DatabaseWrite
<1>9. QED
  BY <1>3, <1>4, <1>5, <1>6, <1>7, <1>8

\* With a single process, which may stop and start again, no startup takes a
\* ledger that only the application wrote for a partially migrated one: it takes
\* a second process, whose backfill or whose calls fall between the two counts
\* of the first, for a startup to be refused.
THEOREM SingleStartupServes ==
    (\A s, t \in Starters : s = t) => (Spec => []RefusesOnlyPartialLedgers)
<1> SUFFICES ASSUME \A s, t \in Starters : s = t
             PROVE  Spec => []RefusesOnlyPartialLedgers
  OBVIOUS
<1>1. Init => RefusesOnlyPartialLedgers
  BY DEF Init, RefusesOnlyPartialLedgers, Idle
<1>2. /\ TypeInv /\ (Genuine => ChainInv) /\ RefusesOnlyPartialLedgers /\ [LedgerStep]_vars
      => RefusesOnlyPartialLedgers'
  BY GenuineBefore, SingleStartup DEF RefusesOnlyPartialLedgers, NoneRefused
<1>3. QED
  BY <1>1, <1>2, NextIsLedgerStep, TypeInvariance, ChainInvariance, PTL DEF Spec

-----------------------------------------------------------------------------
(* All of it, whoever starts the verifications                             *)

LedgerInv ==
    /\ TypeInv /\ AuthInv /\ VerifiedInv /\ CheckpointHolds
    /\ Genuine => ~rebuilt /\ NoAlarmInv

\* What the ledger keeps, other modules that start verifications may rely on.
LEMMA LedgerStarts == Init => LedgerInv
<1>1. Init => CheckpointHolds /\ ~rebuilt
  BY DEF Init, CheckpointHolds, Reported, NotVerifying
<1>2. QED
  BY <1>1, InitTyped, InitCore, VerifiedInit, NoAlarmInit DEF LedgerInv

LEMMA LedgerKeeps == LedgerInv /\ [LedgerStep]_vars => LedgerInv'
<1> SUFFICES ASSUME LedgerInv, [LedgerStep]_vars PROVE LedgerInv'
  OBVIOUS
<1>1. TypeInv' /\ AuthInv' /\ VerifiedInv' /\ CheckpointHolds'
  BY StepTyped, StepCore, VerifiedStep, CheckpointStep DEF LedgerInv
<1>2. (Genuine => NoAlarmInv)'
  BY <1>1, NoAlarmStep DEF LedgerInv
<1>3. Genuine' => ~rebuilt'
  <2> SUFFICES ASSUME Genuine' PROVE ~rebuilt'
    OBVIOUS
  <2>1. ~rebuilt /\ writes' = writes /\ writes = 0
    BY GenuineBefore DEF LedgerInv, Genuine
  <2>2. ASSUME NEW n \in 1..MaxWrites, DatabaseWrite(n) PROVE FALSE
    BY <2>1, <2>2, LedgerAssumption DEF DatabaseWrite
  <2>3. rebuilt' = rebuilt
    BY <2>2 DEF LedgerStep, vars, faults, CountDecisions, CountRecords, Backfill,
       Stop, Receive, Fetch, Evaluate, Save, Recover, Fail, StartsVerify,
       StartVerify, VerifyMatching, VerifyChain
  <2>4. QED
    BY <2>1, <2>3
<1>4. QED
  BY <1>1, <1>2, <1>3 DEF LedgerInv

LEMMA LedgerPromises ==
    LedgerInv => /\ TypeOK /\ LedgerIsChain /\ NoFalseAlarm
                 /\ CheckpointHolds /\ VerifiedWasIssued
                 /\ IdempotentAnswers /\ OneTransaction /\ RefusalsAreReal
<1>1. LedgerInv => NoFalseAlarm
  BY DEF LedgerInv, NoAlarmInv, VerifierKnows, NoFalseAlarm, Reported
<1>2. LedgerInv => LedgerIsChain
  BY ChainIsLedger DEF LedgerInv, NoAlarmInv
<1>3. LedgerInv => IdempotentAnswers /\ OneTransaction /\ RefusalsAreReal
  BY AuthPromises DEF LedgerInv
<1>4. QED
  BY <1>1, <1>2, <1>3 DEF LedgerInv, TypeInv, VerifiedInv

LEMMA LedgerInvGrows == LedgerInv /\ LedgerInv' /\ [LedgerStep]_vars => GrowsAtEnd
BY LedgerGrows DEF LedgerInv, NoAlarmInv

=============================================================================

----------------------------- MODULE ExportProofs -----------------------------
(***************************************************************************)
(* Proofs about evidence exports, for any number of projects, calls,       *)
(* verifications, exports and outside writes: what a verified bundle says, *)
(* that the ledger keeps its promises while exports verify it, that an     *)
(* export of an untouched ledger is complete, and that the offline         *)
(* verifier accepts what the service returned and no forgery of it that    *)
(* contradicts a trusted head.                                             *)
(***************************************************************************)
EXTENDS EvidenceExport, LedgerChainProofs

-----------------------------------------------------------------------------
(* The chain of a bundle                                                   *)

ProofHashes(chain) == {chain[k].proof.record_hash : k \in DOMAIN chain}

\* The hash a chain ends with, and the hash before its k-th proof.
LEMMA LastHashes ==
    ASSUME NEW chain \in Seq(ChainProof)
    PROVE  /\ Len(chain) = 0 => LastHash(chain) = << >>
           /\ Len(chain) # 0 => LastHash(chain) = chain[Len(chain)].proof.record_hash
           /\ LastHash(chain) \in Hash
           /\ \A k \in 1..Len(chain) :
                LastHash(SubSeq(chain, 1, k - 1)) =
                  IF k = 1 THEN << >> ELSE chain[k - 1].proof.record_hash
<1> DEFINE n == Len(chain)
<1>1. n \in Nat /\ \A k \in 1..n : chain[k] \in ChainProof
  BY ElementOfSeq, LenProperties
<1>2. n = 0 <=> chain = << >>
  BY EmptySeq
<1>3. n # 0 => n \in 1..n /\ chain[n].proof.record_hash \in Hash
  BY <1>1 DEF ChainProof, Record
<1>4. ASSUME NEW k \in 1..n
      PROVE  LastHash(SubSeq(chain, 1, k - 1)) =
               IF k = 1 THEN << >> ELSE chain[k - 1].proof.record_hash
  <2> DEFINE sub == SubSeq(chain, 1, k - 1)
  <2>1. k - 1 \in Int /\ \A i \in 1..(k - 1) : chain[i] \in ChainProof
    BY <1>1
  <2>2. /\ sub \in Seq(ChainProof)
        /\ Len(sub) = IF 1 <= k - 1 THEN (k - 1) - 1 + 1 ELSE 0
        /\ \A i \in 1..((k - 1) - 1 + 1) : sub[i] = chain[1 + i - 1]
    BY <2>1, SubSeqProperties
  <2> HIDE DEF sub
  <2>3. CASE k = 1
    <3>1. Len(sub) = 0
      BY <2>2, <2>3
    <3>2. sub = << >>
      BY <2>2, <3>1, EmptySeq
    <3>3. QED
      BY <2>3, <3>2 DEF LastHash, sub
  <2>4. CASE k # 1
    <3>1. Len(sub) = k - 1 /\ k - 1 \in 1..(k - 1) /\ sub[k - 1] = chain[k - 1]
      BY <1>1, <2>2, <2>4
    <3>2. sub # << >>
      BY <1>1, <2>2, <2>4, <3>1, EmptySeq
    <3>3. QED
      BY <2>4, <3>1, <3>2 DEF LastHash, Last, sub
  <2>5. QED
    BY <2>3, <2>4
<1>5. QED
  BY <1>1, <1>2, <1>3, <1>4, NullHash DEF LastHash, Last

\* The envelopes of typed proofs are typed.
LEMMA EnvelopeTyped ==
    ASSUME NEW c \in ChainProof
    PROVE  ProofEnvelope(c) \in Envelope
BY DEF ChainProof, Record, ProofEnvelope, Envelope

\* In a linked chain, the hash of the k-th proof is the list of the envelopes
\* of the first k proofs.
LEMMA LinkedHashes ==
    ASSUME NEW b \in Bundle, ChainIsLinked(b)
    PROVE  \A k \in 1..Len(b.chain) :
             LET hash == b.chain[k].proof.record_hash IN
             /\ hash \in Hash /\ Len(hash) = k
             /\ \A l \in 1..k : hash[l] = ProofEnvelope(b.chain[l])
<1> DEFINE chain == b.chain
           n == Len(chain)
           hash(k) == chain[k].proof.record_hash
           env(k) == ProofEnvelope(chain[k])
           Fine(k) == /\ hash(k) \in Hash /\ Len(hash(k)) = k
                      /\ \A l \in 1..k : hash(k)[l] = env(l)
           Bad == {k \in 1..n : ~Fine(k)}
<1>1. /\ chain \in Seq(ChainProof) /\ n \in Nat /\ DOMAIN chain = 1..n
      /\ \A k \in 1..n : chain[k] \in ChainProof
  <2>1. chain \in Seq(ChainProof)
    BY DEF Bundle
  <2> HIDE DEF chain
  <2>2. QED
    BY <2>1, ElementOfSeq, LenProperties
<1>2. \A k \in 1..n : env(k) \in Envelope /\ hash(k) \in Hash
  BY <1>1, EnvelopeTyped DEF ChainProof, Record
<1>3. \A k \in 1..n :
        hash(k) = Append(IF k = 1 THEN << >> ELSE hash(k - 1), env(k))
  <2>1. ASSUME NEW k \in 1..n
        PROVE  /\ chain[k].proof.previous_hash = LastHash(SubSeq(chain, 1, k - 1))
               /\ hash(k) = Append(chain[k].proof.previous_hash, env(k))
    BY <1>1 DEF ChainIsLinked, ProofHash
  <2>2. \A k \in 1..n : LastHash(SubSeq(chain, 1, k - 1)) =
                          IF k = 1 THEN << >> ELSE hash(k - 1)
    <3> HIDE DEF chain
    <3>1. QED
      BY <1>1, LastHashes
  <2> HIDE DEF chain, hash, env, n
  <2>3. QED
    BY <2>1, <2>2
<1> HIDE DEF hash, env, n
<1>4. SUFFICES ASSUME Bad # {} PROVE FALSE
  BY DEF hash, env, n
<1>5. PICK k \in Bad : \A l \in Bad : k <= l
  <2>1. Bad \in SUBSET Nat
    BY <1>1
  <2> HIDE DEF Bad
  <2>2. QED
    BY <1>4, <2>1, LeastNumber
<1>6. k \in 1..n /\ ~Fine(k)
  BY <1>5
<1> DEFINE prev == IF k = 1 THEN << >> ELSE hash(k - 1)
<1>7. /\ prev \in Hash /\ Len(prev) = k - 1
      /\ \A l \in 1..(k - 1) : prev[l] = env(l)
  <2>1. CASE k = 1
    BY <1>6, <2>1, NullHash
  <2>2. CASE k # 1
    <3>1. k - 1 \in 1..n /\ k - 1 \notin Bad
      <4>1. k - 1 \in 1..n /\ k - 1 < k
        BY <1>1, <1>6, <2>2
      <4> HIDE DEF Bad
      <4>2. QED
        BY <1>1, <1>5, <1>6, <4>1
    <3>2. Fine(k - 1)
      BY <3>1
    <3>3. QED
      BY <2>2, <3>2
  <2>3. QED
    BY <2>1, <2>2
<1>8. hash(k) = Append(prev, env(k)) /\ env(k) \in Envelope
  BY <1>2, <1>3, <1>6
<1> HIDE DEF prev, Bad, Fine
<1>9. /\ hash(k) \in Hash /\ Len(hash(k)) = k /\ hash(k)[k] = env(k)
      /\ \A l \in 1..(k - 1) : hash(k)[l] = env(l)
  <2> DEFINE new == Append(prev, env(k))
  <2>1. /\ new \in Hash /\ Len(prev) \in Nat /\ Len(new) = Len(prev) + 1
        /\ new[Len(prev) + 1] = env(k)
        /\ \A l \in 1..Len(prev) : new[l] = prev[l]
    BY <1>7, <1>8, Appended
  <2>2. hash(k) = new
    BY <1>8
  <2> HIDE DEF new
  <2>3. QED
    BY <1>1, <1>6, <1>7, <2>1, <2>2
<1>10. Fine(k)
  BY <1>1, <1>6, <1>9 DEF Fine
<1>11. QED
  BY <1>6, <1>10

\* If a linked chain has the hash h, its decisions up to h read as issued.
LEMMA CheckpointReads ==
    ASSUME NEW b \in Bundle, ChainIsLinked(b), RecordsProved(b),
           NEW h \in {<< >>} \cup ProofHashes(b.chain)
    PROVE  h \in Hash /\ Len(h) <= Len(b.chain) /\ ReadsAsIssued(b, h)
<1> DEFINE chain == b.chain
           n == Len(chain)
<1>1. /\ chain \in Seq(ChainProof) /\ b.records \in Seq(EvidenceRecord)
  BY DEF Bundle
<1>2. n \in Nat /\ DOMAIN chain = 1..n
  <2> HIDE DEF chain
  <2>1. QED
    BY <1>1, LenProperties
<1>3. \A k \in 1..n : /\ chain[k].proof.record_hash \in Hash
                      /\ Len(chain[k].proof.record_hash) = k
                      /\ \A l \in 1..k : chain[k].proof.record_hash[l]
                                           = ProofEnvelope(chain[l])
  BY LinkedHashes
<1>4. \A k \in DOMAIN b.records :
        /\ b.records[k].proof.sequence_number \in Nat \ {0}
        /\ b.records[k].proof.payload_hash
             = PayloadHash(b.records[k].id, b.records[k].row)
        /\ \E l \in 1..n : chain[l].proof = b.records[k].proof
  <2>1. \A k \in DOMAIN b.records : b.records[k] \in EvidenceRecord
    BY <1>1
  <2>2. \A k \in DOMAIN b.records :
          b.records[k].proof.sequence_number \in Nat \ {0}
    BY <2>1 DEF EvidenceRecord, Record
  <2>3. ASSUME NEW k \in DOMAIN b.records
        PROVE  /\ b.records[k].proof.payload_hash
                    = PayloadHash(b.records[k].id, b.records[k].row)
               /\ \E l \in 1..n : chain[l].proof = b.records[k].proof
    <3> DEFINE r == b.records[k]
    <3>1. PICK l \in DOMAIN chain : chain[l] = [id |-> r.id, proof |-> r.proof]
      BY DEF RecordsProved
    <3>2. chain[l].proof = r.proof
      BY <3>1
    <3>3. r.proof.payload_hash = PayloadHash(r.id, r.row)
      BY DEF RecordsProved
    <3>4. QED
      BY <1>2, <3>2, <3>3
  <2>4. QED
    BY <2>2, <2>3
<1>5. \A l \in 1..n : chain[l].proof.sequence_number = l
  BY <1>2 DEF ChainIsLinked
<1>6. CASE h = << >>
  <2>1. h \in Hash /\ Len(h) = 0
    BY <1>6, NullHash
  <2>2. ReadsAsIssued(b, h)
    BY <1>4, <2>1 DEF ReadsAsIssued
  <2>3. QED
    BY <1>2, <2>1, <2>2
<1>7. CASE h \in ProofHashes(b.chain)
  <2>1. PICK m \in 1..n : h = chain[m].proof.record_hash
    BY <1>2, <1>7 DEF ProofHashes
  <2>2. /\ h \in Hash /\ Len(h) = m
        /\ \A l \in 1..m : h[l] = ProofEnvelope(chain[l])
    BY <1>3, <2>1
  <2>3. ASSUME NEW k \in DOMAIN b.records,
               b.records[k].proof.sequence_number <= m
        PROVE  PayloadHash(b.records[k].id, b.records[k].row)
                 = h[b.records[k].proof.sequence_number].payload
    <3>1. PICK l \in 1..n : chain[l].proof = b.records[k].proof
      BY <1>4
    <3>2. l \in 1..m /\ b.records[k].proof.sequence_number = l
      BY <1>5, <2>3, <3>1
    <3>3. h[l].payload = chain[l].proof.payload_hash
      BY <2>2, <3>2 DEF ProofEnvelope
    <3>4. QED
      BY <1>4, <3>1, <3>2, <3>3
  <2>4. ReadsAsIssued(b, h)
    BY <2>2, <2>3 DEF ReadsAsIssued
  <2>5. QED
    BY <1>2, <2>2, <2>4
<1>8. QED
  BY <1>6, <1>7

-----------------------------------------------------------------------------
(* Digests                                                                 *)

\* A bundle by its fields, and what its digest covers.
Fields(p, m, n, head, expected, records, chain, rs, cs, d) ==
    [project |-> p, record_count |-> m, chain_record_count |-> n, head |-> head,
     expected |-> expected, records |-> records, chain |-> chain,
     records_sha256 |-> rs, chain_sha256 |-> cs, bundle_sha256 |-> d]

Contents(p, head, expected, records, chain) ==
    [project |-> p, record_count |-> Len(records), chain_record_count |-> Len(chain),
     head |-> head, expected |-> expected, records |-> records, chain |-> chain,
     records_sha256 |-> records, chain_sha256 |-> chain]

SealedFields(p, head, expected, records, chain) ==
    Fields(p, Len(records), Len(chain), head, expected, records, chain, records, chain,
           Contents(p, head, expected, records, chain))

LEMMA DigestOf ==
    ASSUME NEW p, NEW head, NEW expected, NEW records, NEW chain, NEW d
    PROVE  BundleDigest(Fields(p, Len(records), Len(chain), head, expected, records,
                               chain, records, chain, d))
             = Contents(p, head, expected, records, chain)
BY DEF BundleDigest, Fields, Contents

\* Sealing makes the counts and the digests those of the rest.
LEMMA SealedIs ==
    ASSUME NEW p, NEW m, NEW n, NEW head, NEW expected, NEW records, NEW chain,
           NEW rs, NEW cs, NEW d
    PROVE  Sealed(Fields(p, m, n, head, expected, records, chain, rs, cs, d))
             = SealedFields(p, head, expected, records, chain)
<1> DEFINE b == Fields(p, m, n, head, expected, records, chain, rs, cs, d)
           m2 == Len(records)
           n2 == Len(chain)
           b1 == [b EXCEPT !.record_count = m2]
           b2 == [b1 EXCEPT !.chain_record_count = n2]
           b3 == [b2 EXCEPT !.records_sha256 = records]
           b4 == [b3 EXCEPT !.chain_sha256 = chain]
           c == Contents(p, head, expected, records, chain)
<1>1. b.records = records /\ b.chain = chain
  BY DEF Fields
<1>2. b1 = Fields(p, m2, n, head, expected, records, chain, rs, cs, d)
  BY DEF Fields
<1>3. b2 = Fields(p, m2, n2, head, expected, records, chain, rs, cs, d)
  <2> HIDE DEF b1
  <2>1. QED
    BY <1>2 DEF Fields
<1>4. b3 = Fields(p, m2, n2, head, expected, records, chain, records, cs, d)
  <2> HIDE DEF b2
  <2>1. QED
    BY <1>3 DEF Fields
<1>5. b4 = Fields(p, m2, n2, head, expected, records, chain, records, chain, d)
  <2> HIDE DEF b3
  <2>1. QED
    BY <1>4 DEF Fields
<1>6. [b4 EXCEPT !.bundle_sha256 = c] = SealedFields(p, head, expected, records, chain)
  <2> HIDE DEF b4, c
  <2>1. QED
    BY <1>5 DEF Fields, SealedFields, c
<1>7. BundleDigest(b4) = c
  BY <1>5, DigestOf
<1>8. Sealed(b) = [b4 EXCEPT !.bundle_sha256 = BundleDigest(b4)]
  <2> HIDE DEF b
  <2>1. QED
    BY <1>1 DEF Sealed
<1>9. QED
  <2> HIDE DEF b4, c
  <2>1. QED
    BY <1>6, <1>7, <1>8

LEMMA SealedTyped ==
    ASSUME NEW p \in Projects, NEW head \in Hash, NEW expected \in Hash,
           NEW records \in Seq(EvidenceRecord), NEW chain \in Seq(ChainProof)
    PROVE  LET b == SealedFields(p, head, expected, records, chain) IN
           /\ b \in Bundle /\ DigestsMatch(b)
           /\ b.project = p /\ b.head = head /\ b.expected = expected
           /\ b.records = records /\ b.chain = chain
<1>1. Len(records) \in Nat /\ Len(chain) \in Nat
  BY LenProperties
<1>2. Contents(p, head, expected, records, chain) \in Covered
  BY <1>1 DEF Contents, Covered
<1>3. SealedFields(p, head, expected, records, chain) \in Bundle
  BY <1>1, <1>2 DEF SealedFields, Fields, Bundle
<1>4. BundleDigest(SealedFields(p, head, expected, records, chain))
        = Contents(p, head, expected, records, chain)
  BY DigestOf DEF SealedFields
<1>5. QED
  BY <1>3, <1>4 DEF DigestsMatch, SealedFields, Fields

\* A digest decides what the bundle is.
LEMMA DigestDecides ==
    ASSUME NEW b \in Bundle, NEW f \in Bundle, DigestsMatch(b), DigestsMatch(f),
           f.bundle_sha256 = b.bundle_sha256
    PROVE  f = b
<1>1. BundleDigest(f) = BundleDigest(b)
  BY DEF DigestsMatch
<1>2. \A g \in DOMAIN b \ {"bundle_sha256"} : f[g] = b[g]
  BY <1>1 DEF BundleDigest, Bundle
<1>3. QED
  BY <1>2 DEF Bundle

-----------------------------------------------------------------------------
(* Snapshots and chains                                                    *)

\* The rows of a snapshot: each selected decision once.
LEMMA SelectedListed ==
    ASSUME TypeOK, NEW p, NEW filter, NEW max
    PROVE  LET ids == Selected(p, filter, max)
               order == Oldest(ids, decision)
               n == Cardinality(ids)
           IN /\ n \in Nat /\ order \in [1..n -> ids] /\ DOMAIN order = 1..n
              /\ \A i \in ids : /\ i \in Ids /\ decision[i] \in Decision
                                /\ record[i] \in Record
              /\ \A k, l \in 1..n : k # l => order[k] # order[l]
              /\ \A i \in ids : \E k \in 1..n : order[k] = i
<1> DEFINE ids == Selected(p, filter, max)
           n == Cardinality(ids)
           key == [i \in ids |-> decision[i].at]
<1>1. record \in Rows /\ decision \in [Ids -> Decision \cup {None}]
  BY DEF TypeOK, Rows
<1>2. ids \in SUBSET RecordsOf(p, record) /\ ids \in SUBSET DecisionsOf(p, decision)
  BY DEF Selected
<1>3. IsFiniteSet(ids)
  BY <1>1, <1>2, RecordsTyped, FS_Subset
<1>4. \A i \in ids : /\ i \in Ids /\ decision[i] \in Decision /\ record[i] \in Record
                     /\ key[i] \in Nat
  BY <1>1, <1>2, RecordsTyped, DecisionsTyped
<1>5. Oldest(ids, decision) = Ordered(ids, key)
  BY DEF Oldest
<1> DEFINE order == Ordered(ids, key)
<1> HIDE DEF key, ids
<1>6. /\ n \in Nat /\ order \in [1..n -> ids]
      /\ \A k, l \in 1..n : k # l => order[k] # order[l]
      /\ \A i \in ids : \E k \in 1..n : order[k] = i
  BY <1>3, <1>4, OrderedLists
<1> HIDE DEF order
<1>7. DOMAIN order = 1..n
  BY <1>6
<1>8. QED
  BY <1>4, <1>5, <1>6, <1>7 DEF order, ids

\* The captured head of a ledger.
HeadOf(p, max) ==
    IF RecordsOf(p, record) = {} THEN << >>
    ELSE record[CHOOSE i \in RecordsOf(p, record) :
                  record[i].sequence_number = max].record_hash

MaxOf(p) ==
    IF RecordsOf(p, record) = {} THEN 0 ELSE Max(Sequences(p, record))

LEMMA HeadCaptured ==
    ASSUME TypeOK, NEW p
    PROVE  LET max == MaxOf(p)
               head == HeadOf(p, max)
               ids == RecordsOf(p, record)
           IN /\ max \in Nat /\ head \in Hash
              /\ ids = {} => max = 0 /\ head = << >>
              /\ ids # {} => /\ max # 0
                             /\ \E i \in ids : /\ record[i].sequence_number = max
                                               /\ record[i].record_hash = head
              /\ \A i \in ids : record[i].sequence_number <= max
<1> DEFINE ids == RecordsOf(p, record)
<1>1. /\ record \in Rows
      /\ \A i \in ids : /\ record[i].sequence_number \in Nat \ {0}
                        /\ record[i].record_hash \in Hash
  BY RecordsTyped DEF TypeOK, Rows
<1>2. CASE ids = {}
  BY <1>2, NullHash DEF MaxOf, HeadOf
<1>3. CASE ids # {}
  <2> DEFINE max == Max(Sequences(p, record))
             h == CHOOSE i \in ids : record[i].sequence_number = max
  <2>1. /\ \E i \in ids : record[i].sequence_number = max
        /\ \A i \in ids : record[i].sequence_number <= max
    BY <1>1, <1>3, HeadExists
  <2>2. MaxOf(p) = max /\ HeadOf(p, max) = record[h].record_hash
    BY <1>3 DEF MaxOf, HeadOf
  <2> HIDE DEF ids, max
  <2>3. h \in ids /\ record[h].sequence_number = max
    BY <2>1
  <2> HIDE DEF h
  <2>4. QED
    BY <1>1, <1>3, <2>1, <2>2, <2>3 DEF ids
<1>4. QED
  BY <1>2, <1>3

\* What a snapshot is made of.
LEMMA SnapshotReads ==
    ASSUME TypeOK, NEW x \in Exporter, x.project \in Projects
    PROVE  LET y == Snapshot(x)
               p == x.project
               order == Oldest(Selected(p, x.filter, MaxOf(p)), decision)
           IN /\ y \in Exporter /\ y.pc = "captured"
              /\ y.project = p /\ y.filter = x.filter /\ y.expected = x.expected
              /\ y.format = x.format /\ y.bundle = x.bundle /\ y.code = x.code
              /\ y.max = MaxOf(p) /\ y.head = HeadOf(p, MaxOf(p))
              /\ DOMAIN y.records = DOMAIN order
              /\ \A k \in DOMAIN order :
                   /\ y.records[k].id = order[k]
                   /\ y.records[k].row = decision[order[k]]
                   /\ y.records[k].proof = record[order[k]]
<1> DEFINE p == x.project
           max == MaxOf(p)
           head == HeadOf(p, max)
           order == Oldest(Selected(p, x.filter, max), decision)
           records == [k \in DOMAIN order |->
                         [id |-> order[k], row |-> decision[order[k]],
                          proof |-> record[order[k]]]]
           y == [x EXCEPT !.pc = "captured", !.max = max, !.head = head,
                          !.records = records]
<1>1. Snapshot(x) = y
  BY DEF Snapshot, MaxOf, HeadOf
<1>2. max \in Nat /\ head \in Hash
  BY HeadCaptured
<1>3. PICK n \in Nat : /\ DOMAIN order = 1..n
                       /\ \A k \in 1..n : /\ order[k] \in Ids
                                          /\ decision[order[k]] \in Decision
                                          /\ record[order[k]] \in Record
  <2> HIDE DEF max
  <2>1. QED
    BY SelectedListed
<1> HIDE DEF max, head, order
<1>4. records \in Seq(EvidenceRecord)
  <2>1. \A k \in 1..n : [id |-> order[k], row |-> decision[order[k]],
                         proof |-> record[order[k]]] \in EvidenceRecord
    BY <1>3 DEF EvidenceRecord
  <2>2. records \in [1..n -> EvidenceRecord]
    BY <1>3, <2>1
  <2> HIDE DEF records
  <2>3. QED
    BY <2>2
<1>5. /\ DOMAIN records = DOMAIN order
      /\ \A k \in DOMAIN order :
           /\ records[k].id = order[k] /\ records[k].row = decision[order[k]]
           /\ records[k].proof = record[order[k]]
  OBVIOUS
<1> HIDE DEF records
<1>6. /\ y \in Exporter /\ y.pc = "captured" /\ y.max = max /\ y.head = head
      /\ y.records = records /\ y.project = p /\ y.filter = x.filter
      /\ y.expected = x.expected /\ y.format = x.format /\ y.bundle = x.bundle
      /\ y.code = x.code
  BY <1>2, <1>4 DEF Exporter
<1> HIDE DEF y
<1>7. QED
  BY <1>1, <1>5, <1>6 DEF max, head, order

\* list_chain returns the proofs up to max, numbered upwards.
Listed(p, max) ==
    ByNumber({i \in RecordsOf(p, record) : record[i].sequence_number <= max})

LEMMA ListChainReads ==
    ASSUME TypeOK, NEW p, NEW max
    PROVE  LET chain == ListChain(p, max)
               order == Listed(p, max)
               n == Len(chain)
           IN /\ chain \in Seq(ChainProof) /\ n \in Nat /\ DOMAIN chain = 1..n
              /\ \A k \in 1..n : /\ chain[k].id = order[k]
                                 /\ chain[k].proof = record[order[k]]
                                 /\ order[k] \in RecordsOf(p, record)
              /\ ListsUpTo(order, n, RecordsOf(p, record), record, max)
<1> DEFINE all == RecordsOf(p, record)
           ids == {i \in all : record[i].sequence_number <= max}
           n == Cardinality(ids)
           key == [i \in ids |-> record[i].sequence_number]
           order == Ordered(ids, key)
           chain == [k \in DOMAIN order |-> [id |-> order[k], proof |-> record[order[k]]]]
<1>1. ListChain(p, max) = chain /\ Listed(p, max) = order
  BY DEF ListChain, Listed, ByNumber
<1>2. /\ IsFiniteSet(all)
      /\ \A i \in all : /\ i \in Ids /\ record[i] \in Record
                        /\ record[i].sequence_number \in Nat
  BY RecordsTyped DEF TypeOK, Rows
<1>3. /\ IsFiniteSet(ids) /\ \A i \in ids : i \in all /\ record[i].sequence_number <= max
      /\ \A i \in all : record[i].sequence_number <= max => i \in ids
  BY <1>2, FS_Subset
<1>4. \A i \in ids : key[i] = record[i].sequence_number /\ key[i] \in Nat
  BY <1>2
<1> HIDE DEF ids, key, all
<1>5. /\ n \in Nat /\ order \in [1..n -> ids]
      /\ \A k, l \in 1..n : k # l => order[k] # order[l]
      /\ \A k, l \in 1..n : k < l => key[order[k]] <= key[order[l]]
      /\ \A i \in ids : \E k \in 1..n : order[k] = i
  BY <1>3, <1>4, OrderedLists
<1> HIDE DEF order, n
<1>6. DOMAIN order = 1..n /\ \A k \in 1..n : order[k] \in ids /\ order[k] \in all
  BY <1>3, <1>5
<1>7. ListsUpTo(order, n, all, record, max)
  BY <1>3, <1>4, <1>5, <1>6 DEF ListsUpTo
<1>8. chain \in [1..n -> ChainProof]
  <2>1. \A k \in 1..n : [id |-> order[k], proof |-> record[order[k]]] \in ChainProof
    BY <1>2, <1>6 DEF ChainProof
  <2>2. QED
    BY <1>6, <2>1
<1>9. \A k \in 1..n : chain[k].id = order[k] /\ chain[k].proof = record[order[k]]
  BY <1>6
<1> HIDE DEF chain
<1>10. chain \in Seq(ChainProof) /\ Len(chain) = n /\ DOMAIN chain = 1..n
  BY <1>5, <1>8
<1>11. QED
  BY <1>1, <1>5, <1>6, <1>7, <1>9, <1>10 DEF all

-----------------------------------------------------------------------------
(* The inductive invariant of the exports                                  *)

\* Between its transactions an export of an untouched ledger knows that the
\* chain it has captured the head of is still there, and the checkpoint of the
\* request in it ...
HeadKnown(x) ==
    LET ids == RecordsOf(x.project, record) IN
    /\ x.project \in Projects /\ x.max <= Cardinality(ids)
    /\ x.max = 0 => x.head = << >>
    /\ x.max # 0 => \E i \in ids : /\ record[i].sequence_number = x.max
                                   /\ record[i].record_hash = x.head
    /\ x.expected # << >> => \E i \in ids : /\ record[i].sequence_number <= x.max
                                            /\ record[i].record_hash = x.expected

\* ... and that its records are the matching decisions up to that head, each
\* once and as it reads.
RecordsKnown(x) ==
    /\ \A k \in DOMAIN x.records :
         LET r == x.records[k] IN
         /\ r.id \in RecordsOf(x.project, record)
         /\ record[r.id].sequence_number <= x.max
         /\ x.filter \in {None, decision[r.id].outcome}
         /\ r.row = decision[r.id] /\ r.proof = record[r.id]
         /\ \A l \in DOMAIN x.records : x.records[l].id = r.id => l = k
    /\ \A i \in RecordsOf(x.project, record) :
         /\ record[i].sequence_number <= x.max
         /\ x.filter \in {None, decision[i].outcome}
         => \E k \in DOMAIN x.records : x.records[k].id = i

\* Whoever writes to the ledger, a captured head was issued unless a chain was
\* recomputed, and a bundle has been verified.
BundleKnown(x) ==
    LET b == x.bundle IN
    /\ x.pc # "idle" => Serving
    /\ x.pc \notin {"idle", "done"} => x.project \in Projects
    /\ ~rebuilt /\ x.project \in Projects => x.head \in Checkpoints(x.project)
    /\ b # None => /\ x.project \in Projects /\ VerifyBundle(b, b.expected)
                   /\ b.head = x.head /\ b.expected = x.expected

ExporterKnows(x) ==
    /\ BundleKnown(x)
    /\ Genuine =>
         /\ x.pc = "done" => x.code \in {"ok", "too_large"}
         /\ x.pc \notin {"idle", "done"} \/ (x.pc = "done" /\ x.code = "ok") =>
              HeadKnown(x) /\ RecordsKnown(x)

ExportInv ==
    /\ LedgerInv /\ ExportTypeOK
    /\ \A v \in Verifiers : ExporterKnows(exporter[v])

\* Such a snapshot stays what it is while the ledger grows behind it.
LEMMA SnapshotStays ==
    ASSUME TypeInv, TypeInv', ChainInv, ChainInv', OnlyAdds,
           NEW x \in Exporter, HeadKnown(x), RecordsKnown(x)
    PROVE  HeadKnown(x)' /\ RecordsKnown(x)'
<1> DEFINE p == x.project
           ids == RecordsOf(p, record)
           ids2 == RecordsOf(p, record')
           n == Cardinality(ids)
<1>1. p \in Projects /\ x.max \in Nat /\ x.max <= n
  BY DEF HeadKnown, Exporter
<1>2. /\ \A i \in ids : /\ i \in ids2 /\ record'[i] = record[i]
                        /\ decision[i] # None /\ decision'[i] = decision[i]
      /\ n \in Nat /\ Cardinality(ids2) \in Nat /\ n <= Cardinality(ids2)
      /\ \A i \in ids2 : record'[i].sequence_number <= n => i \in ids
  <2> HIDE DEF p
  <2>1. QED
    BY <1>1, GrowsBehind
<1>3. \A i \in ids2 : record'[i].sequence_number \in Nat
  <2>1. record' \in Rows
    BY DEF TypeInv, TypeOK, Rows
  <2>2. QED
    BY <2>1, RecordsTyped
<1>4. HeadKnown(x)'
  <2>1. x.max <= Cardinality(ids2)
    <3> HIDE DEF ids2, n
    <3>1. QED
      BY <1>1, <1>2
  <2>2. QED
    BY <1>1, <1>2, <2>1 DEF HeadKnown
<1>5. RecordsKnown(x)'
  <2>1. \A k \in DOMAIN x.records :
         LET r == x.records[k] IN
         /\ r.id \in ids2
         /\ record'[r.id].sequence_number <= x.max
         /\ x.filter \in {None, decision'[r.id].outcome}
         /\ r.row = decision'[r.id] /\ r.proof = record'[r.id]
         /\ \A l \in DOMAIN x.records : x.records[l].id = r.id => l = k
    BY <1>2 DEF RecordsKnown
  <2>2. ASSUME NEW i \in ids2, record'[i].sequence_number <= x.max,
               x.filter \in {None, decision'[i].outcome}
        PROVE  \E k \in DOMAIN x.records : x.records[k].id = i
    <3>1. record'[i].sequence_number <= n
      <4> HIDE DEF n
      <4>1. QED
        BY <1>1, <1>2, <1>3, <2>2
    <3>2. i \in ids
      BY <1>2, <3>1
    <3>3. record[i].sequence_number <= x.max /\ x.filter \in {None, decision[i].outcome}
      BY <1>2, <2>2, <3>2
    <3>4. QED
      BY <3>2, <3>3 DEF RecordsKnown
  <2>3. QED
    BY <2>1, <2>2 DEF RecordsKnown
<1>6. QED
  BY <1>4, <1>5

\* What an export knows, a step of the ledger leaves true.
LEMMA KnowledgeStays ==
    ASSUME LedgerInv, LedgerInv', [LedgerStep]_vars, NEW x \in Exporter,
           ExporterKnows(x)
    PROVE  ExporterKnows(x)'
<1>1. TypeInv /\ TypeInv'
  BY DEF LedgerInv
<1>2. Serving => Serving'
  BY <1>1, ServingStays
<1>3. ~rebuilt' => ~rebuilt /\ \A p : Checkpoints(p) \subseteq Checkpoints(p)'
  <2>1. ~rebuilt' => ~rebuilt /\ issued \subseteq issued'
    BY <1>1, RecordsStayIssued DEF LedgerInv, VerifiedInv
  <2>2. QED
    BY <2>1 DEF Checkpoints
<1>4. BundleKnown(x)'
  BY <1>2, <1>3 DEF BundleKnown, ExporterKnows
<1>5. ASSUME Genuine', HeadKnown(x), RecordsKnown(x)
      PROVE  HeadKnown(x)' /\ RecordsKnown(x)'
  <2>1. Genuine /\ writes' = writes
    BY <1>1, <1>5, GenuineBefore
  <2>2. ChainInv /\ ChainInv' /\ OnlyAdds
    BY <1>1, <2>1, StepKeepsChain DEF LedgerInv, NoAlarmInv
  <2>3. QED
    BY <1>1, <1>5, <2>2, SnapshotStays
<1>6. Genuine' => Genuine
  BY <1>1, GenuineBefore
<1>7. QED
  BY <1>4, <1>5, <1>6 DEF ExporterKnows

\* The step of an export: what it knows next it knows by then already.
LEMMA ExporterMoves ==
    ASSUME ExportInv, [LedgerStep]_vars, NEW v \in Verifiers, NEW y \in Exporter,
           ExporterKnows(y), exporter' = [exporter EXCEPT ![v] = y]
    PROVE  ExportInv'
<1>1. LedgerInv /\ LedgerInv'
  BY LedgerKeeps DEF ExportInv
<1>2. ExportTypeOK /\ ExportTypeOK'
  BY DEF ExportInv, ExportTypeOK
<1>3. ASSUME NEW w \in Verifiers PROVE ExporterKnows(exporter[w])'
  <2>1. PICK x \in Exporter : x = exporter'[w] /\ ExporterKnows(x)
    <3>1. CASE w = v
      BY <1>2, <3>1 DEF ExportTypeOK
    <3>2. CASE w # v
      <4>1. exporter'[w] = exporter[w]
        BY <1>2, <3>2 DEF ExportTypeOK
      <4>2. QED
        BY <1>2, <4>1 DEF ExportInv, ExportTypeOK
    <3>3. QED
      BY <3>1, <3>2
  <2>2. ExporterKnows(x)'
    BY <1>1, <2>1, KnowledgeStays
  <2>3. QED
    BY <2>1, <2>2
<1>4. QED
  BY <1>1, <1>2, <1>3 DEF ExportInv

-----------------------------------------------------------------------------
(* Capturing                                                               *)

\* The checkpoints of a project are hashes; that of a stored record is one,
\* unless a chain was recomputed, and on an untouched ledger no other is.
LEMMA CheckpointsAre ==
    ASSUME LedgerInv, NEW p \in Projects
    PROVE  /\ \A h \in Checkpoints(p) : h \in Hash
           /\ ~rebuilt => \A i \in RecordsOf(p, record) :
                            record[i].record_hash \in Checkpoints(p)
           /\ Genuine => \A h \in Checkpoints(p) : h # << >> =>
                           \E i \in RecordsOf(p, record) : record[i].record_hash = h
<1>1. issued \subseteq Projects \X Hash
  BY DEF LedgerInv, TypeInv, TypeOK
<1>2. \A h \in Checkpoints(p) : h = << >> \/ <<p, h>> \in issued
  BY <1>1 DEF Checkpoints
<1>3. \A h \in Checkpoints(p) : h \in Hash
  BY <1>1, <1>2, NullHash
<1>4. ASSUME ~rebuilt, NEW i \in RecordsOf(p, record)
      PROVE  record[i].record_hash \in Checkpoints(p)
  <2>1. <<p, record[i].record_hash>> \in issued
    BY <1>4 DEF LedgerInv, VerifiedInv, RecordsIssued, RecordsOf
  <2>2. QED
    BY <2>1 DEF Checkpoints
<1>5. ASSUME Genuine, NEW h \in Checkpoints(p), h # << >>
      PROVE  \E i \in RecordsOf(p, record) : record[i].record_hash = h
  <2>1. PICK i \in Ids : record[i] # None
                           /\ <<p, h>> = <<record[i].project, record[i].record_hash>>
    BY <1>2, <1>5 DEF LedgerInv, NoAlarmInv, IssuedStored
  <2>2. QED
    BY <2>1 DEF RecordsOf
<1>6. QED
  BY <1>3, <1>4, <1>5

\* What a snapshot of a served ledger knows.
LEMMA CaptureKnows ==
    ASSUME LedgerInv, Serving, NEW x \in Exporter, x.project \in Projects,
           x.expected \in Checkpoints(x.project), x.bundle = None, x.code = None
    PROVE  Snapshot(x) \in Exporter /\ ExporterKnows(Snapshot(x))
<1> DEFINE y == Snapshot(x)
           p == x.project
           max == MaxOf(p)
           ids == RecordsOf(p, record)
           n == Cardinality(ids)
           order == Oldest(Selected(p, x.filter, max), decision)
<1>1. TypeOK
  BY DEF LedgerInv, TypeInv
<1>2. /\ y \in Exporter /\ y.pc = "captured" /\ y.project = p /\ y.filter = x.filter
      /\ y.expected = x.expected /\ y.bundle = None /\ y.code = None
      /\ y.max = max /\ y.head = HeadOf(p, max) /\ DOMAIN y.records = DOMAIN order
      /\ \A k \in DOMAIN order : /\ y.records[k].id = order[k]
                                 /\ y.records[k].row = decision[order[k]]
                                 /\ y.records[k].proof = record[order[k]]
  BY <1>1, SnapshotReads
<1>3. /\ max \in Nat
      /\ ids = {} => max = 0 /\ y.head = << >>
      /\ ids # {} => /\ max # 0
                     /\ \E i \in ids : /\ record[i].sequence_number = max
                                       /\ record[i].record_hash = y.head
      /\ \A i \in ids : record[i].sequence_number <= max
  BY <1>1, <1>2, HeadCaptured
<1>4. /\ \A h \in Checkpoints(p) : h \in Hash
      /\ ~rebuilt => \A i \in ids : record[i].record_hash \in Checkpoints(p)
      /\ Genuine => \A h \in Checkpoints(p) : h # << >> =>
                      \E i \in ids : record[i].record_hash = h
  <2> HIDE DEF p
  <2>1. p \in Projects
    BY DEF p
  <2>2. QED
    BY <2>1, CheckpointsAre
<1> HIDE DEF y
<1>5. BundleKnown(y)
  <2>1. ~rebuilt => y.head \in Checkpoints(p)
    BY <1>3, <1>4 DEF Checkpoints
  <2> HIDE DEF p
  <2>2. p \in Projects
    BY DEF p
  <2>3. QED
    BY <1>2, <2>1, <2>2 DEF BundleKnown
<1>6. ASSUME Genuine PROVE HeadKnown(y) /\ RecordsKnown(y)
  <2>1. ChainOf(ids, decision, record) /\ n \in Nat
    <3>1. record \in Rows /\ ChainInv
      BY <1>1, <1>6 DEF LedgerInv, NoAlarmInv, TypeOK, Rows
    <3>2. n \in Nat
      BY <3>1, RecordsTyped
    <3>3. QED
      BY <3>1, <3>2 DEF ChainInv, ProjectChain
  <2>2. \A i \in ids : record[i].sequence_number \in 1..n
    BY <2>1 DEF ChainOf
  <2>3. max <= n
    <3> HIDE DEF ids, n, max
    <3>1. QED
      BY <1>3, <2>1, <2>2
  <2>4. HeadKnown(y)
    <3>1. y.expected # << >> => \E i \in ids : /\ record[i].sequence_number <= max
                                               /\ record[i].record_hash = y.expected
      BY <1>2, <1>3, <1>4, <1>6
    <3> HIDE DEF max, n, order
    <3>2. QED
      BY <1>2, <1>3, <2>3, <3>1 DEF HeadKnown, n
  <2>5. RecordsKnown(y)
    <3> DEFINE chosen == Selected(p, x.filter, max)
               m == Cardinality(chosen)
    <3>1. /\ DOMAIN order = 1..m /\ \A k \in 1..m : order[k] \in chosen
          /\ \A k, l \in 1..m : k # l => order[k] # order[l]
          /\ \A i \in chosen : \E k \in 1..m : order[k] = i
      <4> HIDE DEF p, max
      <4>1. QED
        BY <1>1, SelectedListed
    <3>2. ids = DecisionsOf(p, decision)
      BY <1>6 DEF LedgerInv, NoAlarmInv, ChainInv, Complete
    <3>3. \A i : i \in chosen <=> /\ i \in ids
                                  /\ record[i].sequence_number <= max
                                  /\ x.filter \in {None, decision[i].outcome}
      BY <3>2 DEF Selected
    <3> HIDE DEF chosen, order, m, ids, max
    <3>4. \A k \in DOMAIN y.records :
           /\ y.records[k].id \in chosen
           /\ y.records[k].row = decision[y.records[k].id]
           /\ y.records[k].proof = record[y.records[k].id]
           /\ \A l \in DOMAIN y.records : y.records[l].id = y.records[k].id => l = k
      BY <1>2, <3>1
    <3>5. \A i \in chosen : \E k \in DOMAIN y.records : y.records[k].id = i
      BY <1>2, <3>1
    <3>6. QED
      BY <1>2, <3>3, <3>4, <3>5 DEF RecordsKnown, ids
  <2>6. QED
    BY <2>4, <2>5
<1>7. QED
  <2>1. y.pc = "captured"
    BY <1>2 DEF Exporter
  <2>2. ExporterKnows(y)
    BY <1>2, <1>5, <1>6 DEF ExporterKnows
  <2>3. QED
    BY <1>2, <2>2 DEF y

LEMMA TooLargeKnows ==
    ASSUME Serving PROVE TooLarge \in Exporter /\ ExporterKnows(TooLarge)
<1>1. /\ TooLarge.project = None /\ TooLarge.pc = "done" /\ TooLarge.code = "too_large"
      /\ TooLarge.bundle = None
  BY DEF TooLarge, NotExporting
<1>2. None \notin Projects
  BY LedgerAssumption
<1>3. BundleKnown(TooLarge)
  BY <1>1, <1>2 DEF BundleKnown
<1>4. TooLarge \in Exporter
  BY NullHash, EmptySeq DEF TooLarge, NotExporting, Exporter
<1>5. QED
  BY <1>1, <1>3, <1>4 DEF ExporterKnows

LEMMA CaptureStep ==
    ASSUME ExportInv, NEW v \in Verifiers, Capture(v)
    PROVE  UNCHANGED vars /\ ExportInv'
<1>1. Serving /\ UNCHANGED vars /\ [LedgerStep]_vars
  BY DEF Capture
<1>2. TooLarge \in Exporter /\ ExporterKnows(TooLarge)
  BY <1>1, TooLargeKnows
<1>3. PICK p \in Projects, filter \in Outcomes \cup {None},
           format \in {"stream", "bundle"} :
        \E h \in Checkpoints(p) :
          LET x == Snapshot([NotExporting EXCEPT !.format = format, !.project = p,
                               !.filter = filter, !.expected = h])
          IN exporter' \in {[exporter EXCEPT ![v] = x], [exporter EXCEPT ![v] = TooLarge]}
  BY DEF Capture
<1>4. PICK h \in Checkpoints(p) :
          LET x == Snapshot([NotExporting EXCEPT !.format = format, !.project = p,
                               !.filter = filter, !.expected = h])
          IN exporter' \in {[exporter EXCEPT ![v] = x], [exporter EXCEPT ![v] = TooLarge]}
  BY <1>3
<1> DEFINE x == [NotExporting EXCEPT !.format = format, !.project = p,
                                     !.filter = filter, !.expected = h]
<1>5. /\ x \in Exporter /\ x.project = p /\ x.expected = h
      /\ x.bundle = None /\ x.code = None
  <2>1. h \in Hash
    BY CheckpointsAre DEF ExportInv
  <2>2. QED
    BY <2>1, NullHash, EmptySeq DEF NotExporting, Exporter
<1> HIDE DEF x
<1>6. Snapshot(x) \in Exporter /\ ExporterKnows(Snapshot(x))
  BY <1>1, <1>5, CaptureKnows DEF ExportInv
<1>7. PICK y \in Exporter : ExporterKnows(y) /\ exporter' = [exporter EXCEPT ![v] = y]
  BY <1>2, <1>4, <1>6 DEF x
<1>8. QED
  BY <1>1, <1>7, ExporterMoves

-----------------------------------------------------------------------------
(* Verifying                                                               *)

\* What is known at one step is known at the next if nothing but the step, and
\* the answer at the end, has changed.
LEMMA KnowsOn ==
    ASSUME NEW x \in Exporter, ExporterKnows(x), x.pc \notin {"idle", "done"},
           NEW y \in Exporter, y.pc # "idle",
           y.project = x.project, y.filter = x.filter, y.expected = x.expected,
           y.max = x.max, y.head = x.head, y.bundle = x.bundle,
           Genuine => /\ y.records = x.records
                      /\ y.pc = "done" => y.code \in {"ok", "too_large"}
    PROVE  ExporterKnows(y)
<1>1. BundleKnown(y)
  BY DEF ExporterKnows, BundleKnown
<1>2. Genuine => HeadKnown(y) /\ RecordsKnown(y)
  BY DEF ExporterKnows, HeadKnown, RecordsKnown
<1>3. QED
  BY <1>1, <1>2 DEF ExporterKnows

LEMMA EndsTyped ==
    ASSUME NEW x \in Exporter, NEW code \in {"ok", "too_large", "integrity_conflict", "error"}
    PROVE  LET y == Ends(x, code) IN
           /\ y \in Exporter /\ y.pc = "done" /\ y.code = code
           /\ y.project = x.project /\ y.filter = x.filter
           /\ y.expected = x.expected /\ y.max = x.max /\ y.head = x.head
           /\ y.bundle = x.bundle /\ y.format = x.format
           /\ code = "ok" => y.records = x.records
<1>1. << >> \in Seq(EvidenceRecord)
  BY EmptySeq
<1>2. QED
  BY <1>1 DEF Ends, Exporter

\* An export verifies its head, then its checkpoint, as any client may: on an
\* untouched ledger both were issued.
LEMMA VerifySnapshotStep ==
    ASSUME ExportInv, NEW v \in Verifiers, VerifySnapshot(v)
    PROVE  [LedgerStep]_vars /\ ExportInv'
<1>1. PICK x \in Exporter : x = exporter[v]
  BY DEF ExportInv, ExportTypeOK
<1>2. /\ x.pc = "captured" /\ ExporterKnows(x) /\ LedgerInv
      /\ StartVerify(v, x.project, x.head)
      /\ exporter' = [exporter EXCEPT ![v] = [x EXCEPT !.pc = "verify"]]
  BY <1>1 DEF VerifySnapshot, ExportInv
<1>3. /\ x.project \in Projects /\ x.head \in Hash /\ Serving
      /\ Genuine => x.head \in Checkpoints(x.project)
  BY <1>2 DEF ExporterKnows, BundleKnown, LedgerInv, Exporter
<1>4. LedgerStep
  <2>1. StartsVerify(v)
    BY <1>2, <1>3 DEF StartsVerify
  <2>2. QED
    BY <2>1 DEF LedgerStep
<1> DEFINE y == [x EXCEPT !.pc = "verify"]
<1>5. /\ y \in Exporter /\ y.pc = "verify" /\ y.project = x.project
      /\ y.filter = x.filter /\ y.expected = x.expected /\ y.max = x.max
      /\ y.head = x.head /\ y.bundle = x.bundle /\ y.records = x.records
  BY DEF Exporter
<1> HIDE DEF y
<1>6. ExporterKnows(y)
  BY <1>2, <1>5, KnowsOn
<1>7. exporter' = [exporter EXCEPT ![v] = y]
  BY <1>2 DEF y
<1>8. QED
  BY <1>4, <1>5, <1>6, <1>7, ExporterMoves

LEMMA VerifyCheckpointStep ==
    ASSUME ExportInv, NEW v \in Verifiers, VerifyCheckpoint(v)
    PROVE  [LedgerStep]_vars /\ ExportInv'
<1>1. PICK x \in Exporter : x = exporter[v]
  BY DEF ExportInv, ExportTypeOK
<1>2. /\ x.pc = "verify" /\ ExporterKnows(x) /\ LedgerInv
      /\ x.expected # << >> /\ StartVerify(v, x.project, x.expected)
      /\ exporter' = [exporter EXCEPT ![v] = [x EXCEPT !.pc = "checkpoint"]]
  BY <1>1 DEF VerifyCheckpoint, ExportInv
<1>3. x.project \in Projects /\ x.expected \in Hash /\ Serving
  BY <1>2 DEF ExporterKnows, BundleKnown, Exporter
<1>4. ASSUME Genuine PROVE x.expected \in Checkpoints(x.project)
  <2>1. ~rebuilt /\ HeadKnown(x)
    BY <1>2, <1>4 DEF ExporterKnows, LedgerInv
  <2>2. \E i \in RecordsOf(x.project, record) : record[i].record_hash = x.expected
    BY <1>2, <2>1 DEF HeadKnown
  <2>3. QED
    BY <1>2, <1>3, <2>1, <2>2, CheckpointsAre
<1>5. LedgerStep
  <2>1. StartsVerify(v)
    BY <1>2, <1>3, <1>4 DEF StartsVerify
  <2>2. QED
    BY <2>1 DEF LedgerStep
<1> DEFINE y == [x EXCEPT !.pc = "checkpoint"]
<1>6. /\ y \in Exporter /\ y.pc = "checkpoint" /\ y.project = x.project
      /\ y.filter = x.filter /\ y.expected = x.expected /\ y.max = x.max
      /\ y.head = x.head /\ y.bundle = x.bundle /\ y.records = x.records
  BY DEF Exporter
<1> HIDE DEF y
<1>7. ExporterKnows(y)
  BY <1>2, <1>6, KnowsOn
<1>8. exporter' = [exporter EXCEPT ![v] = y]
  BY <1>2 DEF y
<1>9. QED
  BY <1>5, <1>6, <1>7, <1>8, ExporterMoves

\* On an untouched ledger no verification fails.
LEMMA VerificationEndsStep ==
    ASSUME ExportInv, NEW v \in Verifiers, VerificationEnds(v)
    PROVE  UNCHANGED vars /\ ExportInv'
<1>1. PICK x \in Exporter : x = exporter[v]
  BY DEF ExportInv, ExportTypeOK
<1>2. /\ x.pc \in {"verify", "checkpoint"} /\ ExporterKnows(x)
      /\ verifier[v].pc = "done" /\ UNCHANGED vars
      /\ \/ /\ ~verifier[v].report.verified
            /\ exporter' = [exporter EXCEPT ![v] = Ends(x, "integrity_conflict")]
         \/ exporter' = [exporter EXCEPT ![v] = Prepared(x)]
  BY <1>1 DEF VerificationEnds, ExportInv
<1>3. ASSUME ~verifier[v].report.verified
      PROVE  Ends(x, "integrity_conflict") \in Exporter
               /\ ExporterKnows(Ends(x, "integrity_conflict"))
  <2>1. ~Genuine
    BY <1>2, <1>3 DEF ExportInv, LedgerInv, NoAlarmInv, VerifierKnows
  <2>2. QED
    BY <1>2, <2>1, EndsTyped, KnowsOn
<1>4. Prepared(x) \in Exporter /\ ExporterKnows(Prepared(x))
  <2>1. CASE x.format = "stream"
    <3>1. Ends(x, "ok") \in Exporter /\ ExporterKnows(Ends(x, "ok"))
      BY <1>2, EndsTyped, KnowsOn
    <3>2. QED
      BY <2>1, <3>1 DEF Prepared
  <2>2. CASE x.format # "stream"
    <3> DEFINE y == [x EXCEPT !.pc = "chain"]
    <3>1. /\ y \in Exporter /\ y.pc = "chain" /\ y.project = x.project
          /\ y.filter = x.filter /\ y.expected = x.expected /\ y.max = x.max
          /\ y.head = x.head /\ y.bundle = x.bundle /\ y.records = x.records
      BY DEF Exporter
    <3> HIDE DEF y
    <3>2. ExporterKnows(y)
      BY <1>2, <3>1, KnowsOn
    <3>3. Prepared(x) = y
      BY <2>2 DEF Prepared, y
    <3>4. QED
      BY <3>1, <3>2, <3>3
  <2>3. QED
    BY <2>1, <2>2
<1>5. PICK y \in Exporter : ExporterKnows(y) /\ exporter' = [exporter EXCEPT ![v] = y]
  BY <1>2, <1>3, <1>4
<1>6. QED
  BY <1>2, <1>5, ExporterMoves

-----------------------------------------------------------------------------
(* Bundles                                                                 *)

\* build_evidence_bundle seals the snapshot with its chain.
LEMMA BuildBundleIs ==
    ASSUME NEW x \in Exporter, x.project \in Projects, NEW chain \in Seq(ChainProof)
    PROVE  LET b == BuildBundle(x, chain) IN
           /\ Len(chain) = x.max /\ LastHash(chain) = x.head => b # None
           /\ b # None => /\ b = SealedFields(x.project, x.head, x.expected,
                                              x.records, chain)
                          /\ b \in Bundle /\ DigestsMatch(b)
                          /\ b.project = x.project /\ b.head = x.head
                          /\ b.expected = x.expected /\ b.records = x.records
                          /\ b.chain = chain
<1>1. x.head \in Hash /\ x.expected \in Hash /\ x.records \in Seq(EvidenceRecord)
  BY DEF Exporter
<1> DEFINE raw == Fields(x.project, 0, 0, x.head, x.expected, x.records, chain,
                         << >>, << >>, << >>)
           c == SealedFields(x.project, x.head, x.expected, x.records, chain)
<1>2. Sealed(raw) = c
  BY SealedIs
<1>3. BuildBundle(x, chain) = IF Len(chain) # x.max \/ LastHash(chain) # x.head
                              THEN None ELSE Sealed(raw)
  BY DEF BuildBundle, Fields
<1>4. /\ c \in Bundle /\ DigestsMatch(c) /\ c.project = x.project /\ c.head = x.head
      /\ c.expected = x.expected /\ c.records = x.records /\ c.chain = chain
  BY <1>1, SealedTyped
<1> HIDE DEF c, raw
<1>5. QED
  BY <1>2, <1>3, <1>4, ExportAssumption DEF c

\* The chain read for a bundle of an untouched ledger is that of its snapshot,
\* whatever was appended since.
LEMMA ChainRead ==
    ASSUME TypeInv, ChainInv, NEW x \in Exporter, HeadKnown(x)
    PROVE  LET chain == ListChain(x.project, x.max)
               ids == RecordsOf(x.project, record)
           IN /\ chain \in Seq(ChainProof) /\ Len(chain) = x.max
              /\ LastHash(chain) = x.head
              /\ DOMAIN chain = 1..x.max
              /\ \A k \in 1..x.max :
                   /\ chain[k].id \in ids /\ chain[k].proof = record[chain[k].id]
                   /\ record[chain[k].id].sequence_number = k
              /\ \A i \in ids : record[i].sequence_number <= x.max =>
                   \E k \in 1..x.max : chain[k].id = i
<1> DEFINE p == x.project
           max == x.max
           chain == ListChain(p, max)
           order == Listed(p, max)
           ids == RecordsOf(p, record)
           n == Len(chain)
<1>1. /\ TypeOK /\ record \in Rows /\ p \in Projects /\ max \in Nat
      /\ max <= Cardinality(ids)
      /\ ids \in SUBSET Ids /\ ChainOf(ids, decision, record)
  BY DEF TypeInv, TypeOK, Rows, ChainInv, ProjectChain, RecordsOf, HeadKnown, Exporter
<1>2. /\ chain \in Seq(ChainProof) /\ n \in Nat /\ DOMAIN chain = 1..n
      /\ \A k \in 1..n : /\ chain[k].id = order[k]
                         /\ chain[k].proof = record[order[k]]
                         /\ order[k] \in ids
      /\ ListsUpTo(order, n, ids, record, max)
  BY <1>1, ListChainReads
<1>3. n = max /\ \A k \in 1..n : record[order[k]].sequence_number = k
  <2> HIDE DEF ids, n, max, order
  <2>1. QED
    BY <1>1, <1>2, NumberedRows
<1>4. \A i \in ids : record[i].sequence_number <= max => \E k \in 1..n : order[k] = i
  BY <1>2 DEF ListsUpTo
<1>5. /\ n = 0 => LastHash(chain) = << >>
      /\ n # 0 => LastHash(chain) = chain[n].proof.record_hash
  <2> HIDE DEF chain
  <2>1. QED
    BY <1>2, LastHashes
<1>6. LastHash(chain) = x.head
  <2>1. CASE max = 0
    BY <1>3, <1>5, <2>1 DEF HeadKnown
  <2>2. CASE max # 0
    <3>1. PICK i \in ids : record[i].sequence_number = max /\ record[i].record_hash = x.head
      BY <2>2 DEF HeadKnown
    <3>2. n \in 1..n /\ order[n] \in ids /\ record[order[n]].sequence_number = max
      BY <1>1, <1>2, <1>3, <2>2
    <3>3. i = order[n]
      BY <1>1, <3>1, <3>2 DEF ChainOf
    <3>4. QED
      BY <1>2, <1>3, <1>5, <2>2, <3>1, <3>2, <3>3
  <2>3. QED
    BY <2>1, <2>2
<1> HIDE DEF chain, order, n, ids
<1>7. QED
  BY <1>2, <1>3, <1>4, <1>6 DEF chain, ids

\* A bundle of an untouched ledger is built, and verified.
LEMMA BundleVerifies ==
    ASSUME TypeInv, ChainInv, NEW x \in Exporter, HeadKnown(x), RecordsKnown(x)
    PROVE  LET b == BuildBundle(x, ListChain(x.project, x.max)) IN
           b # None /\ VerifyBundle(b, x.expected)
<1> DEFINE p == x.project
           max == x.max
           chain == ListChain(p, max)
           ids == RecordsOf(p, record)
           b == BuildBundle(x, chain)
<1>1. /\ record \in Rows /\ decision \in [Ids -> Decision \cup {None}] /\ p \in Projects
      /\ max \in Nat /\ ids \in SUBSET Ids /\ ChainOf(ids, decision, record)
      /\ ids \in {{}, DecisionsOf(p, decision)}
  BY DEF TypeInv, TypeOK, Rows, ChainInv, ProjectChain, RecordsOf, HeadKnown, Exporter
<1>2. /\ chain \in Seq(ChainProof) /\ Len(chain) = max
      /\ LastHash(chain) = x.head /\ DOMAIN chain = 1..max
      /\ \A k \in 1..max : /\ chain[k].id \in ids
                           /\ chain[k].proof = record[chain[k].id]
                           /\ record[chain[k].id].sequence_number = k
      /\ \A i \in ids : record[i].sequence_number <= max =>
           \E k \in 1..max : chain[k].id = i
  BY ChainRead
<1>3. \A i \in ids : /\ i \in Ids /\ record[i] \in Record /\ record[i].project = p
                     /\ record[i] # None /\ decision[i] # None
                     /\ decision[i] \in Decision
                     /\ record[i].sequence_number \in Nat \ {0}
  <2>1. \A i \in ids : i \in DecisionsOf(p, decision)
    BY <1>1
  <2>2. \A i \in ids : /\ i \in Ids /\ record[i] \in Record /\ record[i].project = p
                       /\ record[i] # None /\ record[i].sequence_number \in Nat \ {0}
    BY <1>1, RecordsTyped DEF RecordsOf
  <2>3. QED
    BY <1>1, <2>1, <2>2, DecisionsTyped DEF DecisionsOf
<1>4. /\ \A i \in ids : record[i].sequence_number = 1 => record[i].previous_hash = << >>
      /\ \A i, j \in ids :
           record[j].sequence_number + 1 = record[i].sequence_number =>
             record[i].previous_hash = record[j].record_hash
  <2> HIDE DEF ids
  <2>1. QED
    BY <1>1, <1>3, ChainLinks
<1>5. ASSUME NEW i \in ids
      PROVE  /\ record[i].record_hash
                  = Append(record[i].previous_hash,
                           RecordEnvelope(i, decision[i], record[i].sequence_number,
                                          PayloadHash(i, decision[i])))
             /\ decision[i].project = p /\ record[i].created_at = decision[i].at
             /\ record[i].payload_hash = PayloadHash(i, decision[i])
  <2>1. PICK r \in Record : r = record[i]
    BY <1>3
  <2>2. PICK row \in Decision : row = decision[i]
    BY <1>3
  <2>3. i \in Ids /\ r = Proof(i, row, r.sequence_number, r.previous_hash)
    BY <1>1, <1>3, <2>1, <2>2 DEF ChainOf
  <2>4. /\ r.record_hash = Append(r.previous_hash,
                             RecordEnvelope(i, row, r.sequence_number, PayloadHash(i, row)))
        /\ r.project = row.project /\ r.created_at = row.at
        /\ r.payload_hash = PayloadHash(i, row)
    BY <2>3, Computed
  <2>5. QED
    BY <1>3, <2>1, <2>2, <2>4
<1>6. /\ b # None /\ DigestsMatch(b) /\ b.project = p /\ b.head = x.head
      /\ b.expected = x.expected /\ b.records = x.records /\ b.chain = chain
  <2> HIDE DEF chain
  <2>1. QED
    BY <1>1, <1>2, BuildBundleIs
<1> HIDE DEF b
<1>7. ASSUME NEW k \in 1..max
      PROVE  LET c == chain[k] IN
             /\ c.proof.project = p /\ c.proof.sequence_number = k
             /\ c.proof.previous_hash = LastHash(SubSeq(chain, 1, k - 1))
             /\ c.proof.record_hash = ProofHash(c)
             /\ \A l \in 1..(k - 1) : chain[l].id # c.id
  <2> DEFINE i == chain[k].id
             before == LastHash(SubSeq(chain, 1, k - 1))
  <2>1. i \in ids /\ chain[k].proof = record[i] /\ record[i].sequence_number = k
    BY <1>2
  <2>2. before = IF k = 1 THEN << >> ELSE chain[k - 1].proof.record_hash
    <3> HIDE DEF chain, max, before
    <3>1. QED
      BY <1>2, LastHashes DEF before
  <2>3. record[i].previous_hash = before
    <3>1. CASE k = 1
      BY <1>4, <2>1, <2>2, <3>1
    <3>2. CASE k # 1
      <4> DEFINE j == chain[k - 1].id
      <4>1. k - 1 \in 1..max /\ (k - 1) + 1 = k
        BY <1>1, <3>2
      <4>2. j \in ids /\ chain[k - 1].proof = record[j] /\ record[j].sequence_number = k - 1
        BY <1>2, <4>1
      <4> HIDE DEF i, j, before, ids, chain, max
      <4>3. QED
        BY <1>4, <2>1, <2>2, <3>2, <4>1, <4>2
    <3>3. QED
      BY <3>1, <3>2
  <2>4. chain[k].proof.record_hash = ProofHash(chain[k])
    <3>1. ProofEnvelope(chain[k])
            = RecordEnvelope(i, decision[i], record[i].sequence_number,
                             PayloadHash(i, decision[i]))
      <4> HIDE DEF ids, chain, max
      <4>1. QED
        BY <1>3, <1>5, <2>1 DEF ProofEnvelope, RecordEnvelope
    <3> HIDE DEF ids, i, chain
    <3>2. QED
      BY <1>5, <2>1, <3>1 DEF ProofHash
  <2>5. \A l \in 1..(k - 1) : chain[l].id # chain[k].id
    <3>1. \A l \in 1..(k - 1) : l \in 1..max /\ l # k
      BY <1>1
    <3> HIDE DEF chain, max, ids
    <3>2. QED
      BY <1>2, <3>1
  <2>6. chain[k].proof.project = p /\ chain[k].proof.sequence_number = k
    BY <1>3, <2>1
  <2>7. QED
    BY <2>1, <2>3, <2>4, <2>5, <2>6
<1>8. ChainIsLinked(b)
  <2> HIDE DEF chain, max, ids, p
  <2>1. QED
    BY <1>2, <1>6, <1>7 DEF ChainIsLinked
<1>9. CheckpointsPresent(b, x.expected)
  <2>1. x.expected # << >> => \E k \in 1..max : chain[k].proof.record_hash = x.expected
    <3>1. SUFFICES ASSUME x.expected # << >>
                   PROVE  \E k \in 1..max : chain[k].proof.record_hash = x.expected
      OBVIOUS
    <3>2. PICK i \in ids : /\ record[i].sequence_number <= max
                           /\ record[i].record_hash = x.expected
      BY <3>1 DEF HeadKnown
    <3>3. PICK k \in 1..max : chain[k].id = i
      BY <1>2, <3>2
    <3>4. QED
      BY <1>2, <3>2, <3>3
  <2> HIDE DEF chain, max
  <2>2. QED
    BY <1>2, <1>6, <2>1 DEF CheckpointsPresent
<1>10. RecordsProved(b)
  <2>1. ASSUME NEW k \in DOMAIN x.records
        PROVE  LET r == x.records[k] IN
               /\ r.row.project = p /\ r.proof.project = p
               /\ \E l \in 1..max : chain[l] = [id |-> r.id, proof |-> r.proof]
               /\ \A l \in 1..(k - 1) : l \in DOMAIN x.records => x.records[l].id # r.id
               /\ r.proof.payload_hash = PayloadHash(r.id, r.row)
    <3> DEFINE r == x.records[k]
               i == r.id
    <3>1. /\ i \in ids /\ record[i].sequence_number <= max
          /\ r.row = decision[i] /\ r.proof = record[i]
          /\ \A l \in DOMAIN x.records : x.records[l].id = i => l = k
      BY DEF RecordsKnown
    <3>2. PICK l \in 1..max : chain[l].id = i
      BY <1>2, <3>1
    <3>3. chain[l] \in ChainProof
      <4> HIDE DEF chain, max
      <4>1. QED
        BY <1>2, ElementOfSeq
    <3>4. chain[l] = [id |-> i, proof |-> r.proof]
      <4>1. chain[l].proof = r.proof
        BY <1>2, <3>1, <3>2
      <4> HIDE DEF chain, max, i, r
      <4>2. QED
        BY <3>2, <3>3, <4>1 DEF ChainProof
    <3>5. k \in Nat /\ \A m \in 1..(k - 1) : m # k
      <4>1. x.records \in Seq(EvidenceRecord)
        BY DEF Exporter
      <4>2. QED
        BY <4>1
    <3> HIDE DEF chain, max, ids
    <3>6. QED
      BY <1>3, <1>5, <3>1, <3>4, <3>5
  <2>2. DOMAIN x.records = 1..Len(x.records) /\ Len(x.records) \in Nat
    BY DEF Exporter
  <2>3. \A k \in DOMAIN x.records : \A l \in 1..(k - 1) : l \in DOMAIN x.records
    BY <2>2
  <2> HIDE DEF chain, max, ids, p
  <2>4. \A k \in DOMAIN b.records :
          LET r == b.records[k] IN
          /\ r.row.project = b.project /\ r.proof.project = b.project
          /\ \E l \in DOMAIN b.chain : b.chain[l] = [id |-> r.id, proof |-> r.proof]
          /\ \A l \in 1..(k - 1) : b.records[l].id # r.id
          /\ r.proof.payload_hash = PayloadHash(r.id, r.row)
    <3>1. b.records = x.records /\ b.project = p /\ b.chain = chain /\ DOMAIN chain = 1..max
      BY <1>2, <1>6
    <3>2. ASSUME NEW k \in DOMAIN x.records, NEW l \in 1..(k - 1)
          PROVE  x.records[l].id # x.records[k].id
      BY <2>1, <2>3
    <3>3. QED
      BY <2>1, <3>1, <3>2
  <2>5. QED
    BY <2>4 DEF RecordsProved
<1>11. QED
  BY <1>6, <1>8, <1>9, <1>10 DEF VerifyBundle, b

\* A bundle that is returned has been verified; on an untouched ledger one is,
\* unless it is too large.
LEMMA CreateBundleStep ==
    ASSUME ExportInv, NEW v \in Verifiers, CreateBundle(v)
    PROVE  UNCHANGED vars /\ ExportInv'
<1>1. PICK x \in Exporter : x = exporter[v]
  BY DEF ExportInv, ExportTypeOK
<1> DEFINE chain == ListChain(x.project, x.max)
           b == BuildBundle(x, chain)
           y == [Ends(x, "ok") EXCEPT !.bundle = b]
           verified == b # None /\ VerifyBundle(b, x.expected)
<1>2. /\ x.pc = "chain" /\ ExporterKnows(x) /\ UNCHANGED vars /\ LedgerInv
      /\ \/ exporter' = [exporter EXCEPT ![v] =
                           IF verified THEN y ELSE Ends(x, "error")]
         \/ exporter' = [exporter EXCEPT ![v] = TooLarge]
  BY <1>1 DEF CreateBundle, ExportInv
<1>3. x.project \in Projects /\ Serving
  BY <1>2 DEF ExporterKnows, BundleKnown
<1>4. ASSUME ~verified
      PROVE  Ends(x, "error") \in Exporter /\ ExporterKnows(Ends(x, "error"))
  <2>1. ~Genuine
    <3>1. SUFFICES ASSUME Genuine PROVE FALSE
      OBVIOUS
    <3>2. TypeInv /\ ChainInv /\ HeadKnown(x) /\ RecordsKnown(x)
      BY <1>2, <3>1 DEF LedgerInv, NoAlarmInv, ExporterKnows
    <3>3. QED
      BY <1>4, <3>2, BundleVerifies
  <2>2. QED
    BY <1>2, <2>1, EndsTyped, KnowsOn
<1>5. ASSUME verified PROVE y \in Exporter /\ ExporterKnows(y)
  <2> DEFINE e == Ends(x, "ok")
  <2>1. chain \in Seq(ChainProof)
    BY <1>2, ListChainReads DEF LedgerInv, TypeInv
  <2>2. b \in Bundle /\ b.head = x.head /\ b.expected = x.expected
    <3> HIDE DEF chain
    <3>1. QED
      BY <1>3, <1>5, <2>1, BuildBundleIs
  <2>3. /\ e \in Exporter /\ e.pc = "done" /\ e.code = "ok" /\ ExporterKnows(e)
        /\ e.project = x.project /\ e.head = x.head /\ e.expected = x.expected
    BY <1>2, EndsTyped, KnowsOn
  <2> HIDE DEF b, e
  <2>4. /\ y \in Exporter /\ y.pc = "done" /\ y.code = "ok" /\ y.bundle = b
        /\ y.project = e.project /\ y.filter = e.filter /\ y.expected = e.expected
        /\ y.max = e.max /\ y.head = e.head /\ y.records = e.records
    BY <2>2, <2>3 DEF Exporter, e
  <2> HIDE DEF y
  <2>5. BundleKnown(y)
    BY <1>3, <1>5, <2>2, <2>3, <2>4 DEF BundleKnown, ExporterKnows
  <2>6. Genuine => HeadKnown(y) /\ RecordsKnown(y)
    BY <2>3, <2>4 DEF ExporterKnows, HeadKnown, RecordsKnown
  <2>7. QED
    BY <2>4, <2>5, <2>6 DEF ExporterKnows
<1>6. TooLarge \in Exporter /\ ExporterKnows(TooLarge)
  BY <1>3, TooLargeKnows
<1> HIDE DEF y, verified
<1>7. PICK z \in Exporter : ExporterKnows(z) /\ exporter' = [exporter EXCEPT ![v] = z]
  <2>1. CASE verified
    BY <1>2, <1>5, <1>6, <2>1
  <2>2. CASE ~verified
    BY <1>2, <1>4, <1>6, <2>2
  <2>3. QED
    BY <2>1, <2>2
<1>8. QED
  BY <1>2, <1>7, ExporterMoves

-----------------------------------------------------------------------------
(* The specification                                                       *)

\* A step of the ledger alone leaves what exports know.
LEMMA ExportersStay ==
    ASSUME ExportInv, [LedgerStep]_vars, UNCHANGED exporter PROVE ExportInv'
<1>1. LedgerInv /\ LedgerInv' /\ ExportTypeOK /\ ExportTypeOK'
  BY LedgerKeeps DEF ExportInv, ExportTypeOK
<1>2. ASSUME NEW v \in Verifiers PROVE ExporterKnows(exporter[v])'
  <2>1. PICK x \in Exporter : x = exporter'[v] /\ ExporterKnows(x)
    BY <1>1 DEF ExportInv, ExportTypeOK
  <2>2. ExporterKnows(x)'
    BY <1>1, <2>1, KnowledgeStays
  <2>3. QED
    BY <2>1, <2>2
<1>3. QED
  BY <1>1, <1>2 DEF ExportInv

LEMMA ExportInitial == ExportInit => ExportInv
<1> SUFFICES ASSUME ExportInit PROVE ExportInv
  OBVIOUS
<1>1. LedgerInv
  BY LedgerStarts DEF ExportInit
<1>2. NotExporting \in Exporter
  BY NullHash, EmptySeq DEF NotExporting, Exporter
<1>3. ExporterKnows(NotExporting)
  BY LedgerAssumption DEF ExporterKnows, BundleKnown, NotExporting
<1>4. QED
  BY <1>1, <1>2, <1>3 DEF ExportInit, ExportInv, ExportTypeOK

\* A step of an export, or beside it, is one the ledger may take.
LEMMA ExportStep == ExportInv /\ [ExportNext]_exportVars => [LedgerStep]_vars /\ ExportInv'
<1> SUFFICES ASSUME ExportInv, [ExportNext]_exportVars PROVE [LedgerStep]_vars /\ ExportInv'
  OBVIOUS
<1>1. ASSUME NEW v \in Verifiers, Export(v) PROVE [LedgerStep]_vars /\ ExportInv'
  BY <1>1, CaptureStep, VerifySnapshotStep, VerifyCheckpointStep,
     VerificationEndsStep, CreateBundleStep DEF Export
<1>2. ASSUME NEW v \in Verifiers, Verify(v) PROVE [LedgerStep]_vars
  <2>1. VerifyCounts(v) => StartsVerify(v)
    BY DEF VerifyCounts, StartsVerify
  <2>2. QED
    BY <1>2, <2>1 DEF Verify, LedgerStep
<1>3. CASE UNCHANGED exportVars
  BY <1>3, ExportersStay DEF exportVars
<1>4. CASE ExportNext
  <2>1. CASE \E v \in Verifiers : Export(v)
    BY <1>1, <2>1
  <2>2. CASE \E v \in Verifiers : Verify(v) /\ UNCHANGED exporter
    BY <1>2, <2>2, ExportersStay
  <2>3. CASE /\ \/ \E s \in Starters :
                     CountDecisions(s) \/ CountRecords(s) \/ Backfill(s) \/ Stop(s)
                \/ \E c \in Calls :
                     Receive(c) \/ Fetch(c) \/ Evaluate(c) \/ Save(c) \/ Recover(c) \/ Fail(c)
                \/ \E n \in 1..MaxWrites : DatabaseWrite(n)
             /\ UNCHANGED exporter
    <3>1. [LedgerStep]_vars
      BY <2>3 DEF LedgerStep
    <3>2. QED
      BY <2>3, <3>1, ExportersStay
  <2>4. QED
    BY <1>4, <2>1, <2>2, <2>3 DEF ExportNext
<1>5. QED
  BY <1>3, <1>4

\* The invariant holds in every reachable state.
THEOREM ExportInvariance == ExportSpec => []ExportInv
BY ExportInitial, ExportStep, PTL DEF ExportSpec

\* The export calls have their types, whatever they capture, verify and return.
THEOREM ExportTypeCorrect == ExportSpec => []ExportTypeOK
<1>1. ExportInv => ExportTypeOK
  BY DEF ExportInv
<1>2. QED
  BY <1>1, ExportInvariance, PTL

\* The ledger keeps its promises while exports verify it against heads they have
\* read themselves: the chain is intact and only grows, no verification raises a
\* false alarm, one that succeeds is right, and calls are answered as promised.
THEOREM LedgerUnderExports ==
    ExportSpec => /\ [](/\ TypeOK /\ LedgerIsChain /\ NoFalseAlarm
                        /\ CheckpointHolds /\ VerifiedWasIssued
                        /\ IdempotentAnswers /\ OneTransaction /\ RefusalsAreReal)
                  /\ LedgerIsAppendOnly
<1>1. ExportInv => /\ TypeOK /\ LedgerIsChain /\ NoFalseAlarm
                   /\ CheckpointHolds /\ VerifiedWasIssued
                   /\ IdempotentAnswers /\ OneTransaction /\ RefusalsAreReal
  BY LedgerPromises DEF ExportInv
<1>2. ExportInv /\ ExportInv' /\ [ExportNext]_exportVars => [GrowsAtEnd]_vars
  BY ExportStep, LedgerInvGrows DEF ExportInv
<1>3. ExportSpec => [][GrowsAtEnd]_vars
  BY <1>2, ExportInvariance, PTL DEF ExportSpec
<1>4. ExportSpec => LedgerIsAppendOnly
  BY <1>3 DEF LedgerIsAppendOnly, GrowsAtEnd
<1>5. QED
  BY <1>1, <1>4, ExportInvariance, PTL

-----------------------------------------------------------------------------
(* What an export promises                                                 *)

\* The records up to a head are those whose decisions it covers.
LEMMA HeadCovers ==
    ASSUME TypeInv, ChainInv, NEW x \in Exporter, HeadKnown(x)
    PROVE  \A i \in RecordsOf(x.project, record) :
             record[i].sequence_number <= x.max <=>
               \E k \in DOMAIN x.head : x.head[k].decision_id = i
<1> DEFINE p == x.project
           ids == RecordsOf(p, record)
           max == x.max
           g(i) == record[i].sequence_number
<1>1. /\ record \in Rows /\ p \in Projects /\ max \in Nat /\ max <= Cardinality(ids)
      /\ ids \in SUBSET Ids /\ ChainOf(ids, decision, record)
      /\ decision \in [Ids -> Decision \cup {None}]
      /\ ids \in {{}, DecisionsOf(p, decision)}
  BY DEF TypeInv, TypeOK, Rows, ChainInv, ProjectChain, RecordsOf, HeadKnown, Exporter
<1>2. /\ Cardinality(ids) \in Nat
      /\ \A k \in 1..Cardinality(ids) : \E i \in ids : g(i) = k
      /\ \A i, j \in ids : i # j => g(i) # g(j)
      /\ \A i \in ids : g(i) \in 1..Cardinality(ids)
  <2>1. /\ \A i, j \in ids : i # j => g(i) # g(j)
        /\ \A i \in ids : g(i) \in 1..Cardinality(ids)
    BY <1>1 DEF ChainOf
  <2>2. /\ Cardinality(ids) \in Nat
        /\ \A k \in 1..Cardinality(ids) : \E i \in ids : g(i) = k
    <3> HIDE DEF ids
    <3>1. QED
      BY <1>1, ChainCounts
  <2>3. QED
    BY <2>1, <2>2
<1>3. CASE max = 0
  <2>1. x.head = << >> /\ DOMAIN x.head = {}
    BY <1>3 DEF HeadKnown
  <2>2. QED
    BY <1>2, <1>3, <2>1
<1>4. CASE max # 0
  <2>1. PICK h \in ids : g(h) = max /\ record[h].record_hash = x.head
    BY <1>4 DEF HeadKnown
  <2>2. PICK r \in Record : r = record[h]
    BY <1>1, RecordsTyped
  <2>3. PICK row \in Decision : row = decision[h]
    BY <1>1, DecisionsTyped
  <2> DEFINE env == RecordEnvelope(h, row, r.sequence_number, PayloadHash(h, row))
             prev == r.previous_hash
  <2>4. /\ prev \in Hash /\ env \in Envelope /\ x.head = Append(prev, env)
        /\ Len(prev) = max - 1
    <3>1. h \in Ids /\ r = Proof(h, row, r.sequence_number, prev) /\ Len(prev) = max - 1
      BY <1>1, <2>1, <2>2, <2>3 DEF ChainOf
    <3>2. QED
      BY <2>1, <2>2, <3>1, Computed
  <2>5. env.decision_id = h
    BY DEF RecordEnvelope
  <2>6. \A j \in ids : g(j) < max => prev[g(j)].decision_id = j
    <3>1. \A j \in ids : g(j) < g(h) =>
            record[h].previous_hash[g(j)]
              = RecordEnvelope(j, decision[j], g(j), PayloadHash(j, decision[j]))
      BY <1>1 DEF ChainOf
    <3>2. \A j \in ids : RecordEnvelope(j, decision[j], g(j), PayloadHash(j, decision[j]))
                           .decision_id = j
      BY DEF RecordEnvelope
    <3> HIDE DEF g, ids
    <3>3. QED
      BY <2>1, <2>2, <3>1, <3>2 DEF prev
  <2> HIDE DEF env, prev
  <2>7. /\ Len(x.head) = max /\ DOMAIN x.head = 1..max /\ x.head[max] = env
        /\ \A l \in 1..(max - 1) : x.head[l] = prev[l]
    <3> DEFINE new == Append(prev, env)
    <3>1. /\ new \in Hash /\ Len(prev) \in Nat /\ Len(new) = Len(prev) + 1
          /\ new[Len(prev) + 1] = env
          /\ \A l \in 1..Len(prev) : new[l] = prev[l]
      BY <2>4, Appended
    <3>2. x.head = new
      BY <2>4
    <3> HIDE DEF new
    <3>3. /\ Len(x.head) = max /\ x.head[max] = env
          /\ \A l \in 1..(max - 1) : x.head[l] = prev[l]
      BY <1>1, <2>4, <3>1, <3>2
    <3>4. DOMAIN x.head = 1..Len(x.head)
      BY <3>1, <3>2 DEF Hash
    <3>5. QED
      BY <3>3, <3>4
  <2> HIDE DEF g, ids, max
  <2>8. \A j \in ids : g(j) <= max => g(j) \in 1..max /\ x.head[g(j)].decision_id = j
    <3>1. ASSUME NEW j \in ids, g(j) <= max
          PROVE  g(j) \in 1..max /\ x.head[g(j)].decision_id = j
      <4>1. g(j) \in 1..max
        BY <1>1, <1>2, <3>1
      <4>2. CASE g(j) = max
        BY <1>2, <2>1, <2>5, <2>7, <4>1, <4>2
      <4>3. CASE g(j) # max
        <5>1. g(j) \in 1..(max - 1) /\ g(j) < max
          BY <1>1, <4>1, <4>3
        <5>2. QED
          BY <2>6, <2>7, <4>1, <5>1
      <4>4. QED
        BY <4>2, <4>3
    <3>2. QED
      BY <3>1
  <2>9. ASSUME NEW i \in ids, NEW k \in 1..max, x.head[k].decision_id = i
        PROVE  g(i) <= max
    <3>1. k \in 1..Cardinality(ids)
      BY <1>1, <1>2
    <3>2. PICK j \in ids : g(j) = k
      BY <1>2, <3>1
    <3>3. g(j) <= max
      BY <1>1, <3>2
    <3>4. j = i
      BY <2>8, <2>9, <3>2, <3>3
    <3>5. QED
      BY <3>3, <3>4
  <2>10. QED
    BY <2>7, <2>8, <2>9 DEF g, ids, max
<1>5. QED
  BY <1>3, <1>4

\* An export of a ledger that only the application has written ends well or is
\* refused for its size, and holds exactly the matching decisions up to a head
\* that was issued, each as it reads, although decisions commit between its
\* transactions and its verifications.
THEOREM ExportsComplete == ExportSpec => []ExportIsComplete
<1>1. ASSUME ExportInv, Genuine, NEW v \in Verifiers, exporter[v].pc = "done"
      PROVE  LET x == exporter[v] IN
             /\ x.code \in {"ok", "too_large"}
             /\ Exported(v) =>
                  /\ x.head \in Checkpoints(x.project)
                  /\ {r.id : r \in Range(x.records)} =
                       {i \in DecisionsOf(x.project, decision) :
                          /\ x.filter \in {None, decision[i].outcome}
                          /\ \E k \in DOMAIN x.head : x.head[k].decision_id = i}
                  /\ \A k \in DOMAIN x.records :
                       x.records[k].row = decision[x.records[k].id]
  <2>1. PICK x \in Exporter : x = exporter[v]
    BY <1>1 DEF ExportInv, ExportTypeOK
  <2>2. /\ LedgerInv /\ ExporterKnows(x) /\ x.pc = "done"
        /\ x.code \in {"ok", "too_large"}
    BY <1>1, <2>1 DEF ExportInv, ExporterKnows
  <2>3. ASSUME x.code = "ok"
        PROVE  /\ x.head \in Checkpoints(x.project)
               /\ {r.id : r \in Range(x.records)} =
                    {i \in DecisionsOf(x.project, decision) :
                       /\ x.filter \in {None, decision[i].outcome}
                       /\ \E k \in DOMAIN x.head : x.head[k].decision_id = i}
               /\ \A k \in DOMAIN x.records :
                    x.records[k].row = decision[x.records[k].id]
    <3> DEFINE ids == RecordsOf(x.project, record)
    <3>1. HeadKnown(x) /\ RecordsKnown(x)
      BY <1>1, <2>2, <2>3 DEF ExporterKnows
    <3>2. TypeInv /\ ChainInv /\ ~rebuilt /\ Serving
      BY <1>1, <2>2 DEF LedgerInv, NoAlarmInv, ExporterKnows, BundleKnown
    <3>3. x.project \in Projects /\ x.head \in Checkpoints(x.project)
      BY <2>2, <3>1, <3>2 DEF HeadKnown, ExporterKnows, BundleKnown
    <3>4. ids = DecisionsOf(x.project, decision)
      BY <3>2, <3>3 DEF ChainInv, Complete
    <3>5. \A i \in ids : record[i].sequence_number <= x.max <=>
                           \E k \in DOMAIN x.head : x.head[k].decision_id = i
      BY <3>1, <3>2, HeadCovers
    <3>6. {r.id : r \in Range(x.records)} = {x.records[k].id : k \in DOMAIN x.records}
      BY DEF Range
    <3>7. \A i : (\E k \in DOMAIN x.records : x.records[k].id = i) <=>
                   /\ i \in ids /\ record[i].sequence_number <= x.max
                   /\ x.filter \in {None, decision[i].outcome}
      BY <3>1 DEF RecordsKnown
    <3>8. \A k \in DOMAIN x.records : x.records[k].row = decision[x.records[k].id]
      BY <3>1 DEF RecordsKnown
    <3> HIDE DEF ids
    <3>9. {x.records[k].id : k \in DOMAIN x.records} =
            {i \in ids : /\ x.filter \in {None, decision[i].outcome}
                         /\ \E k \in DOMAIN x.head : x.head[k].decision_id = i}
      BY <3>5, <3>7
    <3>10. QED
      BY <3>3, <3>4, <3>6, <3>8, <3>9
  <2>4. QED
    BY <2>1, <2>2, <2>3 DEF Exported
<1>2. ExportInv => ExportIsComplete
  BY <1>1 DEF ExportIsComplete
<1>3. QED
  BY <1>2, ExportInvariance, PTL

\* A bundle that verifies reads as issued up to its checkpoint, and its head.
LEMMA VerifiedBundleReads ==
    ASSUME NEW b \in Bundle, NEW h, VerifyBundle(b, h)
    PROVE  /\ h \in Hash /\ Len(h) <= Len(b.chain) /\ ReadsAsIssued(b, h)
           /\ ReadsAsIssued(b, b.head)
<1>1. ChainIsLinked(b) /\ RecordsProved(b) /\ CheckpointsPresent(b, h)
  BY DEF VerifyBundle
<1>2. h \in {<< >>} \cup ProofHashes(b.chain)
  BY <1>1 DEF CheckpointsPresent, ProofHashes
<1>3. b.head \in {<< >>} \cup ProofHashes(b.chain)
  <2> DEFINE chain == b.chain
  <2>1. chain \in Seq(ChainProof)
    BY DEF Bundle
  <2> HIDE DEF chain
  <2>2. /\ Len(chain) \in Nat /\ DOMAIN chain = 1..Len(chain)
        /\ Len(chain) = 0 => LastHash(chain) = << >>
        /\ Len(chain) # 0 => LastHash(chain) = chain[Len(chain)].proof.record_hash
    BY <2>1, LastHashes, LenProperties
  <2>3. LastHash(chain) \in {<< >>} \cup ProofHashes(chain)
    BY <2>2 DEF ProofHashes
  <2>4. QED
    BY <1>1, <2>3 DEF ChainIsLinked, chain
<1>4. QED
  BY <1>1, <1>2, <1>3, CheckpointReads

\* Whatever is written around the application while an export runs, a bundle is
\* returned only if its decisions up to the request's checkpoint read as issued
\* and, unless a chain was recomputed, all of them do and its head was issued.
THEOREM BundlesGenuine == ExportSpec => []BundleIsGenuine
<1>1. ASSUME ExportInv, NEW v \in Verifiers, exporter[v].bundle # None
      PROVE  LET x == exporter[v] IN
             /\ ReadsAsIssued(x.bundle, x.expected)
             /\ ~rebuilt => x.head \in Checkpoints(x.project)
                              /\ ReadsAsIssued(x.bundle, x.head)
  <2>1. PICK x \in Exporter : x = exporter[v]
    BY <1>1 DEF ExportInv, ExportTypeOK
  <2>2. PICK b \in Bundle : b = x.bundle
    BY <1>1, <2>1 DEF Exporter
  <2>3. /\ ~rebuilt => x.head \in Checkpoints(x.project)
        /\ VerifyBundle(b, b.expected) /\ b.head = x.head /\ b.expected = x.expected
    BY <1>1, <2>1, <2>2 DEF ExportInv, ExporterKnows, BundleKnown
  <2>4. ReadsAsIssued(b, x.expected) /\ ReadsAsIssued(b, x.head)
    BY <2>3, VerifiedBundleReads
  <2>5. QED
    BY <2>1, <2>2, <2>3, <2>4
<1>2. ExportInv => BundleIsGenuine
  BY <1>1 DEF BundleIsGenuine
<1>3. QED
  BY <1>2, ExportInvariance, PTL

-----------------------------------------------------------------------------
(* Forgeries                                                               *)

\* Changing columns keeps types.
LEMMA ProofTyped ==
    ASSUME NEW c \in ChainProof, NEW payload \in Payload, NEW prev \in Hash, NEW hash \in Hash
    PROVE  /\ [c EXCEPT !.proof.payload_hash = payload] \in ChainProof
           /\ [c EXCEPT !.proof.previous_hash = prev,
                        !.proof.record_hash = hash] \in ChainProof
<1> DEFINE r == c.proof
           r1 == [r EXCEPT !.payload_hash = payload]
           r2 == [r EXCEPT !.previous_hash = prev]
           r3 == [r2 EXCEPT !.record_hash = hash]
           c2 == [c EXCEPT !.proof = r2]
<1>1. r \in Record /\ r1 \in Record
  BY DEF ChainProof, Record
<1>2. r2 \in Record
  BY DEF ChainProof, Record
<1>3. r3 \in Record
  <2> HIDE DEF r2
  <2>1. QED
    BY <1>2 DEF Record
<1> HIDE DEF r1, r3
<1>4. [c EXCEPT !.proof = r1] \in ChainProof /\ [c EXCEPT !.proof = r3] \in ChainProof
  BY <1>1, <1>3 DEF ChainProof
<1>5. [c EXCEPT !.proof.payload_hash = payload] = [c EXCEPT !.proof = r1]
  BY DEF r1, ChainProof
<1>6. [c EXCEPT !.proof.previous_hash = prev, !.proof.record_hash = hash]
        = [c EXCEPT !.proof = r3]
  BY DEF r3, ChainProof
<1>7. QED
  BY <1>4, <1>5, <1>6

LEMMA BodyAltered ==
    ASSUME NEW r \in EvidenceRecord, NEW body \in Bodies
    PROVE  [r EXCEPT !.row.body = body] \in EvidenceRecord
<1> DEFINE row == [r.row EXCEPT !.body = body]
<1>1. row \in Decision
  BY DEF EvidenceRecord, Decision
<1>2. [r EXCEPT !.row.body = body] = [r EXCEPT !.row = row]
  BY DEF EvidenceRecord
<1> HIDE DEF row
<1>3. [r EXCEPT !.row = row] \in EvidenceRecord
  BY <1>1 DEF EvidenceRecord
<1>4. QED
  BY <1>2, <1>3

LEMMA AlteredTyped == ASSUME NEW b \in Bundle PROVE Altered(b) \subseteq Bundle
<1> DEFINE records == b.records
           chain == b.chain
<1>1. records \in Seq(EvidenceRecord) /\ chain \in Seq(ChainProof)
  BY DEF Bundle
<1>2. ASSUME NEW rs \in Seq(EvidenceRecord) PROVE [b EXCEPT !.records = rs] \in Bundle
  BY DEF Bundle
<1>3. ASSUME NEW k \in DOMAIN records, NEW body \in Bodies
      PROVE  [b EXCEPT !.records[k].row.body = body] \in Bundle
  <2> DEFINE r == [records[k] EXCEPT !.row.body = body]
             rs == [records EXCEPT ![k] = r]
  <2>1. r \in EvidenceRecord
    <3>1. PICK old \in EvidenceRecord : old = records[k]
      BY <1>1
    <3>2. [old EXCEPT !.row.body = body] \in EvidenceRecord
      BY BodyAltered
    <3>3. QED
      BY <3>1, <3>2
  <2>2. [b EXCEPT !.records[k].row.body = body] = [b EXCEPT !.records = rs]
    BY DEF Bundle
  <2> HIDE DEF r
  <2>3. rs \in Seq(EvidenceRecord)
    <3> HIDE DEF records
    <3>1. QED
      BY <1>1, <2>1
  <2> HIDE DEF rs
  <2>4. QED
    BY <1>2, <2>2, <2>3
<1>4. ASSUME NEW k \in DOMAIN records
      PROVE  [b EXCEPT !.records = RemoveAt(records, k)] \in Bundle
  <2> DEFINE s == SubSeq(records, 1, k - 1)
             t == SubSeq(records, k + 1, Len(records))
  <2> HIDE DEF records
  <2>1. k \in 1..Len(records) /\ Len(records) \in Nat
    BY <1>1
  <2>2. s \in Seq(EvidenceRecord) /\ t \in Seq(EvidenceRecord)
    BY <1>1, <2>1, SubSeqProperties
  <2> HIDE DEF s, t
  <2>3. s \o t \in Seq(EvidenceRecord)
    BY <2>2
  <2>4. RemoveAt(records, k) = s \o t
    BY DEF RemoveAt, s, t
  <2>5. QED
    BY <1>2, <2>3, <2>4
<1>5. ASSUME NEW k \in 0..Len(chain)
      PROVE  [b EXCEPT !.chain = SubSeq(chain, 1, k),
                       !.head = LastHash(SubSeq(chain, 1, k))] \in Bundle
  <2> DEFINE s == SubSeq(chain, 1, k)
             h == LastHash(s)
             b2 == [b EXCEPT !.chain = s]
  <2>1. s \in Seq(ChainProof)
    <3> HIDE DEF chain
    <3>1. QED
      BY <1>1, SubSeqProperties
  <2>2. h \in Hash
    <3> HIDE DEF s
    <3>1. QED
      BY <2>1, LastHashes
  <2> HIDE DEF s, h
  <2>3. b2 \in Bundle
    BY <2>1 DEF Bundle
  <2> HIDE DEF b2
  <2>4. [b2 EXCEPT !.head = h] \in Bundle
    BY <2>2, <2>3 DEF Bundle
  <2>5. QED
    BY <2>4 DEF b2, s, h
<1> DEFINE changed(k, body) == [b EXCEPT !.records[k].row.body = body]
           removed(k) == [b EXCEPT !.records = RemoveAt(records, k)]
           cut(k) == [b EXCEPT !.chain = SubSeq(chain, 1, k),
                               !.head = LastHash(SubSeq(chain, 1, k))]
<1>6. Altered(b) = {changed(k, body) : k \in DOMAIN records, body \in Bodies}
                     \cup {removed(k) : k \in DOMAIN records}
                     \cup {cut(k) : k \in 0..Len(chain)}
  BY DEF Altered
<1>7. /\ \A k \in DOMAIN records, body \in Bodies : changed(k, body) \in Bundle
      /\ \A k \in DOMAIN records : removed(k) \in Bundle
      /\ \A k \in 0..Len(chain) : cut(k) \in Bundle
  BY <1>3, <1>4, <1>5
<1> HIDE DEF changed, removed, cut, records, chain
<1>8. QED
  BY <1>6, <1>7

LEMMA RechainedTyped == ASSUME NEW b \in Bundle PROVE Rechained(b) \in Bundle
<1> DEFINE Own(c) == {k \in DOMAIN b.records : b.records[k].id = c.id}
           Payload2(c) ==
             IF Own(c) = {} THEN c.proof.payload_hash
             ELSE PayloadHash(c.id, b.records[CHOOSE k \in Own(c) : TRUE].row)
           paid == [k \in DOMAIN b.chain |->
                      [b.chain[k] EXCEPT !.proof.payload_hash = Payload2(b.chain[k])]]
           hash == [k \in DOMAIN paid |-> ProofEnvelope(paid[k])]
           chain == [k \in DOMAIN paid |->
                      [paid[k] EXCEPT !.proof.previous_hash = SubSeq(hash, 1, k - 1),
                                      !.proof.record_hash = SubSeq(hash, 1, k)]]
           Same(r) == {m \in DOMAIN chain : chain[m].id = r.id}
           records == [k \in DOMAIN b.records |->
                         IF Same(b.records[k]) = {} THEN b.records[k]
                         ELSE [b.records[k] EXCEPT
                                 !.proof = chain[CHOOSE m \in Same(b.records[k]) : TRUE].proof]]
           n == Len(b.chain)
<1>1. Rechained(b) = [b EXCEPT !.chain = chain, !.head = LastHash(chain),
                                !.records = records]
  BY DEF Rechained
<1>2. /\ b.chain \in Seq(ChainProof) /\ b.records \in Seq(EvidenceRecord)
      /\ n \in Nat /\ DOMAIN b.chain = 1..n
      /\ \A k \in 1..n : b.chain[k] \in ChainProof
      /\ \A k \in DOMAIN b.records : b.records[k] \in EvidenceRecord
  BY DEF Bundle
<1>3. ASSUME NEW c \in ChainProof PROVE Payload2(c) \in Payload
  <2>1. c.id \in Ids /\ c.proof.payload_hash \in Payload
    BY DEF ChainProof, Record
  <2>2. CASE Own(c) = {}
    BY <2>1, <2>2
  <2>3. CASE Own(c) # {}
    <3> DEFINE k == CHOOSE k \in Own(c) : TRUE
    <3>1. k \in Own(c)
      BY <2>3
    <3> HIDE DEF k
    <3>2. b.records[k].row \in Decision
      BY <1>2, <3>1 DEF EvidenceRecord
    <3>3. PayloadHash(c.id, b.records[k].row) \in Payload
      BY <2>1, <3>2 DEF PayloadHash, Payload
    <3>4. QED
      BY <2>3, <3>3 DEF k
  <2>4. QED
    BY <2>2, <2>3
<1> HIDE DEF Payload2, n
<1>4. DOMAIN paid = 1..n /\ \A k \in 1..n : paid[k] \in ChainProof
  <2>1. ASSUME NEW k \in 1..n PROVE paid[k] \in ChainProof
    <3>1. PICK c \in ChainProof : c = b.chain[k]
      BY <1>2
    <3>2. PICK payload \in Payload : payload = Payload2(c)
      BY <1>3
    <3>3. [c EXCEPT !.proof.payload_hash = payload] \in ChainProof
      BY ProofTyped, c.proof.previous_hash \in Hash DEF ChainProof, Record
    <3>4. QED
      BY <1>2, <3>1, <3>2, <3>3
  <2>2. QED
    BY <1>2, <2>1
<1> HIDE DEF paid
<1>5. hash \in Hash /\ Len(hash) = n
  <2>1. \A k \in 1..n : ProofEnvelope(paid[k]) \in Envelope
    BY <1>4, EnvelopeTyped
  <2>2. hash \in [1..n -> Envelope]
    BY <1>4, <2>1
  <2> HIDE DEF hash
  <2>3. QED
    BY <1>2, <2>2 DEF Hash
<1> HIDE DEF hash
<1>6. /\ DOMAIN chain = 1..n /\ chain \in Seq(ChainProof)
      /\ \A k \in 1..n : chain[k] \in ChainProof
  <2>1. ASSUME NEW k \in 1..n PROVE chain[k] \in ChainProof
    <3>1. PICK c \in ChainProof : c = paid[k]
      BY <1>4
    <3>2. \A m \in 0..n : SubSeq(hash, 1, m) \in Hash
      BY <1>2, <1>5, SubSeqProperties DEF Hash
    <3>3. k - 1 \in 0..n /\ k \in 0..n
      BY <1>2
    <3> HIDE DEF chain, records
    <3>4. PICK prev \in Hash : prev = SubSeq(hash, 1, k - 1)
      BY <3>2, <3>3
    <3>5. PICK next \in Hash : next = SubSeq(hash, 1, k)
      BY <3>2, <3>3
    <3>6. [c EXCEPT !.proof.previous_hash = prev, !.proof.record_hash = next] \in ChainProof
      BY ProofTyped, c.proof.payload_hash \in Payload DEF ChainProof, Record
    <3>7. QED
      BY <1>4, <3>1, <3>4, <3>5, <3>6 DEF chain
  <2>2. chain \in [1..n -> ChainProof]
    BY <1>4, <2>1
  <2> HIDE DEF chain
  <2>3. QED
    BY <1>2, <2>2
<1> HIDE DEF chain
<1>7. LastHash(chain) \in Hash
  BY <1>6, LastHashes
<1>8. records \in Seq(EvidenceRecord)
  <2>1. ASSUME NEW k \in DOMAIN b.records PROVE records[k] \in EvidenceRecord
    <3>1. CASE Same(b.records[k]) = {}
      BY <1>2, <3>1
    <3>2. CASE Same(b.records[k]) # {}
      <4> DEFINE m == CHOOSE m \in Same(b.records[k]) : TRUE
      <4>1. m \in Same(b.records[k])
        BY <3>2
      <4> HIDE DEF m
      <4>2. m \in 1..n /\ chain[m].proof \in Record
        BY <1>6, <4>1 DEF ChainProof
      <4>3. [b.records[k] EXCEPT !.proof = chain[m].proof] \in EvidenceRecord
        BY <1>2, <4>2 DEF EvidenceRecord
      <4>4. QED
        BY <3>2, <4>3 DEF m
    <3>3. QED
      BY <3>1, <3>2
  <2>2. DOMAIN records = DOMAIN b.records
    OBVIOUS
  <2> HIDE DEF records
  <2>3. QED
    <3>1. Len(b.records) \in Nat /\ DOMAIN b.records = 1..Len(b.records)
      BY <1>2
    <3>2. records \in [1..Len(b.records) -> EvidenceRecord]
      BY <2>1, <2>2, <3>1 DEF records
    <3>3. QED
      BY <3>1, <3>2
<1> DEFINE b1 == [b EXCEPT !.chain = chain]
           head == LastHash(chain)
           b2 == [b1 EXCEPT !.head = head]
<1> HIDE DEF records, head
<1>9. b1 \in Bundle
  BY <1>6 DEF Bundle
<1>10. b2 \in Bundle
  <2> HIDE DEF b1
  <2>1. QED
    BY <1>7, <1>9 DEF Bundle, head
<1>11. [b2 EXCEPT !.records = records] \in Bundle
  <2> HIDE DEF b2
  <2>1. QED
    BY <1>8, <1>10 DEF Bundle
<1>12. QED
  BY <1>1, <1>11 DEF head

\* Sealing an altered bundle gives it matching digests.
LEMMA ResealedTyped == ASSUME NEW b \in Bundle PROVE Sealed(b) \in Bundle
<1> DEFINE c == SealedFields(b.project, b.head, b.expected, b.records, b.chain)
<1>1. b = Fields(b.project, b.record_count, b.chain_record_count, b.head, b.expected,
                 b.records, b.chain, b.records_sha256, b.chain_sha256, b.bundle_sha256)
  BY DEF Bundle, Fields
<1>2. Sealed(b) = c
  BY <1>1, SealedIs
<1>3. /\ b.project \in Projects /\ b.head \in Hash /\ b.expected \in Hash
      /\ b.records \in Seq(EvidenceRecord) /\ b.chain \in Seq(ChainProof)
  BY DEF Bundle
<1>4. c \in Bundle
  BY <1>3, SealedTyped
<1>5. QED
  BY <1>2, <1>4

LEMMA ForgeriesTyped == ASSUME NEW b \in Bundle PROVE Forgeries(b) \subseteq Bundle
<1> DEFINE edited == Altered(b) \cup {Rechained(c) : c \in Altered(b)}
<1>1. edited \subseteq Bundle
  BY AlteredTyped, RechainedTyped
<1> HIDE DEF edited
<1>2. {Sealed(c) : c \in edited} \subseteq Bundle
  BY <1>1, ResealedTyped
<1>3. Forgeries(b) = edited \cup {Sealed(c) : c \in edited}
  BY DEF Forgeries, edited
<1>4. QED
  BY <1>1, <1>2, <1>3

-----------------------------------------------------------------------------
(* The offline verifier                                                    *)

\* The bundle b with other records and another chain, by its fields and by
\* EXCEPT.
Parts(b, records, chain) ==
    Fields(b.project, b.record_count, b.chain_record_count, b.head, b.expected,
           records, chain, b.records_sha256, b.chain_sha256, b.bundle_sha256)

Replaced(x, records, chain) == [x EXCEPT !.records = records, !.chain = chain]

LEMMA ReplacedParts ==
    ASSUME NEW b, NEW records, NEW chain, NEW records2, NEW chain2
    PROVE  Replaced(Parts(b, records, chain), records2, chain2) = Parts(b, records2, chain2)
<1> DEFINE x == Parts(b, records, chain)
           y == [x EXCEPT !.records = records2]
<1>1. y = Parts(b, records2, chain)
  BY DEF Fields, Parts
<1> HIDE DEF y
<1>2. [y EXCEPT !.chain = chain2] = Parts(b, records2, chain2)
  BY <1>1 DEF Fields, Parts
<1> HIDE DEF x
<1>3. Replaced(x, records2, chain2) = [y EXCEPT !.chain = chain2]
  BY DEF y, Replaced
<1>4. QED
  BY <1>2, <1>3 DEF x

\* A bundle is read as it was written, with its separators escaped or not.
LEMMA LoadedIsWritten ==
    ASSUME NEW b \in Bundle
    PROVE  Loaded(Archive(b)) = b /\ Loaded(Escaped(Archive(b))) = b
<1> DEFINE manifest == Replaced(b, << >>, << >>)
           lines == [k \in DOMAIN b.records |-> CanonicalJson(b.records[k])]
           plain == [k \in DOMAIN lines |-> [lines[k] EXCEPT !.separated = FALSE]]
<1>1. b = Parts(b, b.records, b.chain) /\ b.records \in Seq(EvidenceRecord)
  BY DEF Bundle, Fields, Parts
<1>2. Replaced(manifest, b.records, b.chain) = b
  BY <1>1, ReplacedParts
<1>3. /\ [k \in DOMAIN lines |-> lines[k].value] = b.records
      /\ [k \in DOMAIN plain |-> plain[k].value] = b.records
  <2>1. /\ DOMAIN lines = DOMAIN b.records /\ DOMAIN plain = DOMAIN b.records
        /\ \A k \in DOMAIN b.records :
             lines[k].value = b.records[k] /\ plain[k].value = b.records[k]
    BY DEF CanonicalJson
  <2> HIDE DEF lines, plain
  <2>2. b.records = [k \in DOMAIN b.records |-> b.records[k]]
    BY <1>1
  <2>3. QED
    BY <2>1, <2>2
<1>4. /\ Archive(b).manifest = manifest /\ Archive(b).chain = b.chain
      /\ Archive(b).records = lines
  BY DEF Archive, Replaced
<1>5. /\ Escaped(Archive(b)).manifest = manifest
      /\ Escaped(Archive(b)).chain = b.chain
      /\ Escaped(Archive(b)).records = plain
  BY <1>4 DEF Escaped, Archive
<1> HIDE DEF manifest, lines, plain
<1>6. ASSUME NEW a, NEW ls, a.manifest = manifest, a.chain = b.chain, a.records = ls,
             [k \in DOMAIN ls |-> ls[k].value] = b.records
      PROVE  Loaded(a) = b
  <2>1. Loaded(a) = Replaced(manifest, b.records, b.chain)
    BY <1>6 DEF Loaded, Replaced
  <2>2. QED
    BY <1>2, <2>1
<1>7. QED
  BY <1>3, <1>4, <1>5, <1>6

\* An archive as it was made loads unless a record of it holds a separator, and
\* with its separators escaped in any case; with a file missing or twice it does
\* not.
LEMMA ArchiveLoads ==
    ASSUME NEW b
    PROVE  /\ Loads(Archive(b)) <=> ~SeparatedRecord(b)
           /\ Loads(Escaped(Archive(b)))
           /\ \A k \in 1..3 : \A names \in {RemoveAt(Archive(b).names, k),
                                            Append(Archive(b).names, Archive(b).names[k])} :
                ~Loads([Archive(b) EXCEPT !.names = names])
<1> DEFINE three == <<"manifest.json", "records.ndjson", "chain.ndjson">>
<1> DEFINE lines == [k \in DOMAIN b.records |-> CanonicalJson(b.records[k])]
<1>1. /\ Archive(b) = [names |-> three, records |-> lines, chain |-> b.chain,
                       manifest |-> [b EXCEPT !.records = << >>, !.chain = << >>]]
      /\ NdjsonParses(lines) <=> ~SeparatedRecord(b)
  BY DEF Archive, NdjsonParses, SeparatedRecord
<1>0. /\ Escaped(Archive(b)).names = Archive(b).names
      /\ NdjsonParses(Escaped(Archive(b)).records)
  <2>1. /\ Escaped(Archive(b)).names = Archive(b).names
        /\ Escaped(Archive(b)).records =
             [k \in DOMAIN lines |-> [lines[k] EXCEPT !.separated = FALSE]]
    BY <1>1 DEF Escaped
  <2>2. \A k \in DOMAIN lines : ~[lines[k] EXCEPT !.separated = FALSE].separated
    BY DEF CanonicalJson
  <2> HIDE DEF lines
  <2>3. QED
    BY <2>1, <2>2 DEF NdjsonParses
<1> HIDE DEF lines
<1> DEFINE files == EVIDENCE_BUNDLE_FILES
<1>2. /\ three \in Seq(files) /\ Len(three) = 3 /\ DOMAIN three = 1..3
      /\ three[1] = "manifest.json" /\ three[2] = "records.ndjson"
      /\ three[3] = "chain.ndjson"
  <2>1. /\ Len(three) = 3 /\ DOMAIN three = 1..3
        /\ three[1] = "manifest.json" /\ three[2] = "records.ndjson"
        /\ three[3] = "chain.ndjson"
    OBVIOUS
  <2>2. three \in Seq(files)
    BY DEF EVIDENCE_BUNDLE_FILES
  <2>3. QED
    BY <2>1, <2>2
<1> HIDE DEF three
<1>3. \A k \in 1..3 : three[k] \in files
  BY <1>2 DEF EVIDENCE_BUNDLE_FILES
<1>4. /\ Archive(b).records = lines /\ Archive(b).names = three
      /\ \A names : [Archive(b) EXCEPT !.names = names].names = names
  BY <1>1
<1>5. \A k, l \in 1..3 : three[k] = three[l] => k = l
  BY <1>2
<1>6. /\ Loads(Archive(b)) <=> ~SeparatedRecord(b)
      /\ Loads(Escaped(Archive(b)))
  <2>1. IsInjective(three)
    BY <1>2, <1>5 DEF IsInjective
  <2>2. Range(three) = EVIDENCE_BUNDLE_FILES
    <3>1. Range(three) = {three[k] : k \in 1..3}
      BY <1>2 DEF Range
    <3>2. {three[k] : k \in 1..3} = {three[1], three[2], three[3]}
      OBVIOUS
    <3>3. QED
      BY <1>2, <3>1, <3>2 DEF EVIDENCE_BUNDLE_FILES
  <2>3. QED
    BY <1>0, <1>1, <1>4, <2>1, <2>2 DEF Loads
<1>7. ASSUME NEW k \in 1..3
      PROVE  ~Loads([Archive(b) EXCEPT !.names = RemoveAt(three, k)])
  <2> DEFINE s == SubSeq(three, 1, k - 1)
             t == SubSeq(three, k + 1, 3)
             less == s \o t
  <2>1. RemoveAt(three, k) = less
    BY <1>2 DEF RemoveAt
  <2>2. /\ s \in Seq(files) /\ Len(s) = k - 1
        /\ \A i \in 1..(k - 1) : s[i] = three[i]
        /\ t \in Seq(files) /\ Len(t) = 3 - k
        /\ \A i \in 1..(3 - k) : t[i] = three[k + i]
    <3>1. /\ k - 1 \in Int /\ k + 1 \in Int /\ 1 \in Int /\ 3 \in Int
          /\ \A i \in 1..(k - 1) : i \in 1..3
          /\ \A i \in (k + 1)..3 : i \in 1..3
      OBVIOUS
    <3>2. /\ \A i \in 1..(k - 1) : three[i] \in files
          /\ \A i \in (k + 1)..3 : three[i] \in files
      BY <1>3, <3>1
    <3> HIDE DEF files
    <3>3. /\ s \in Seq(files) /\ Len(s) = IF 1 <= k - 1 THEN (k - 1) - 1 + 1 ELSE 0
          /\ \A i \in 1..((k - 1) - 1 + 1) : s[i] = three[1 + i - 1]
      BY <3>1, <3>2, SubSeqProperties
    <3>4. /\ t \in Seq(files) /\ Len(t) = IF k + 1 <= 3 THEN 3 - (k + 1) + 1 ELSE 0
          /\ \A i \in 1..(3 - (k + 1) + 1) : t[i] = three[k + 1 + i - 1]
      BY <3>1, <3>2, SubSeqProperties
    <3> HIDE DEF s, t
    <3>5. QED
      BY <3>3, <3>4
  <2> HIDE DEF s, t
  <2>3. /\ less \in Seq(files) /\ Len(less) = 2 /\ DOMAIN less = 1..2
        /\ \A i \in 1..2 : less[i] = IF i <= k - 1 THEN s[i] ELSE t[i - (k - 1)]
    BY <2>2
  <2> HIDE DEF less
  <2>4. \A i \in 1..2 : less[i] # three[k]
    <3>1. ASSUME NEW i \in 1..2 PROVE less[i] # three[k]
      <4>1. CASE i <= k - 1
        <5>1. i \in 1..(k - 1) /\ i \in 1..3 /\ i # k
          BY <4>1
        <5>2. QED
          BY <1>5, <2>2, <2>3, <4>1, <5>1
      <4>2. CASE ~(i <= k - 1)
        <5>1. i - (k - 1) \in 1..(3 - k) /\ k + (i - (k - 1)) \in 1..3
                /\ k + (i - (k - 1)) # k
          BY <4>2
        <5>2. less[i] = three[k + (i - (k - 1))]
          BY <2>2, <2>3, <4>2, <5>1
        <5>3. QED
          BY <1>5, <5>1, <5>2
      <4>3. QED
        BY <4>1, <4>2
    <3>2. QED
      BY <3>1
  <2>5. three[k] \notin Range(less)
    BY <2>3, <2>4 DEF Range
  <2>6. three[k] \in EVIDENCE_BUNDLE_FILES
    BY <1>3
  <2>7. QED
    BY <1>4, <2>1, <2>5, <2>6 DEF Loads
<1>8. ASSUME NEW k \in 1..3
      PROVE  ~Loads([Archive(b) EXCEPT !.names = Append(three, three[k])])
  <2> DEFINE more == Append(three, three[k])
  <2>1. /\ more \in Seq(files) /\ Len(more) = 4
        /\ \A i \in 1..3 : more[i] = three[i]
        /\ more[4] = three[k]
    <3> HIDE DEF files
    <3>1. three \in Seq(files) /\ three[k] \in files
      BY <1>2, <1>3
    <3>2. /\ more \in Seq(files) /\ Len(more) = Len(three) + 1
          /\ \A i \in 1..Len(three) : more[i] = three[i]
          /\ more[Len(three) + 1] = three[k]
      BY <3>1, AppendProperties
    <3> HIDE DEF more
    <3>3. QED
      BY <1>2, <3>2
  <2>2. DOMAIN more = 1..4 /\ more[4] = three[k] /\ more[k] = three[k]
    BY <2>1
  <2> HIDE DEF more
  <2>3. k \in 1..4 /\ k # 4 /\ 4 \in 1..4
    OBVIOUS
  <2>4. ~IsInjective(more)
    BY <2>2, <2>3 DEF IsInjective
  <2>5. QED
    BY <1>4, <2>4 DEF Loads, more
<1>9. QED
  BY <1>4, <1>6, <1>7, <1>8

\* The offline verifier accepts every bundle the service returned, unless a
\* record holds a line separator: that archive it cannot read until the
\* separator is escaped.  It rejects an archive with a file missing or twice; an
\* altered bundle it accepts only if its digests were made anew and its
\* decisions up to the given trusted head still read as issued.
THEOREM OfflineVerifierSound == ExportSpec => []OfflineVerifierIsSound
<1>1. ASSUME ExportInv, NEW v \in Verifiers, exporter[v].bundle # None
      PROVE  LET b == exporter[v].bundle IN
        /\ EvidenceVerifier(Archive(b), b.expected) = IF SeparatedRecord(b) THEN 2 ELSE 0
        /\ EvidenceVerifier(Escaped(Archive(b)), b.expected) = 0
        /\ \A k \in 1..3 : \A names \in {RemoveAt(Archive(b).names, k),
                                         Append(Archive(b).names, Archive(b).names[k])} :
             EvidenceVerifier([Archive(b) EXCEPT !.names = names], b.expected) = 2
        /\ \A f \in Forgeries(b), h \in Checkpoints(exporter[v].project) :
             EvidenceVerifier(Escaped(Archive(f)), h) = 0 =>
               /\ f = b \/ f.bundle_sha256 # b.bundle_sha256
               /\ Len(h) <= Len(f.chain)
               /\ ReadsAsIssued(f, h)
  <2>1. PICK x \in Exporter : x = exporter[v]
    BY <1>1 DEF ExportInv, ExportTypeOK
  <2>2. PICK b \in Bundle : b = x.bundle
    BY <1>1, <2>1 DEF Exporter
  <2>3. VerifyBundle(b, b.expected)
    BY <1>1, <2>1, <2>2 DEF ExportInv, ExporterKnows, BundleKnown
  <2>4. /\ EvidenceVerifier(Archive(b), b.expected) = IF SeparatedRecord(b) THEN 2 ELSE 0
        /\ EvidenceVerifier(Escaped(Archive(b)), b.expected) = 0
    BY <2>3, ArchiveLoads, LoadedIsWritten DEF EvidenceVerifier
  <2>5. \A k \in 1..3 : \A names \in {RemoveAt(Archive(b).names, k),
                                      Append(Archive(b).names, Archive(b).names[k])} :
          EvidenceVerifier([Archive(b) EXCEPT !.names = names], b.expected) = 2
    BY ArchiveLoads DEF EvidenceVerifier
  <2>6. ASSUME NEW f \in Forgeries(b), NEW h, EvidenceVerifier(Escaped(Archive(f)), h) = 0
        PROVE  /\ f = b \/ f.bundle_sha256 # b.bundle_sha256
               /\ Len(h) <= Len(f.chain)
               /\ ReadsAsIssued(f, h)
    <3>1. f \in Bundle
      BY ForgeriesTyped
    <3>2. VerifyBundle(f, h)
      <4>1. Loads(Escaped(Archive(f))) /\ Loaded(Escaped(Archive(f))) = f
        BY <3>1, ArchiveLoads, LoadedIsWritten
      <4>2. QED
        BY <2>6, <4>1 DEF EvidenceVerifier
    <3>3. DigestsMatch(f) /\ DigestsMatch(b)
      BY <2>3, <3>2 DEF VerifyBundle
    <3>4. f = b \/ f.bundle_sha256 # b.bundle_sha256
      BY <3>1, <3>3, DigestDecides
    <3>5. QED
      BY <3>1, <3>2, <3>4, VerifiedBundleReads
  <2>7. QED
    BY <2>1, <2>2, <2>4, <2>5, <2>6
<1>2. ExportInv => OfflineVerifierIsSound
  BY <1>1 DEF OfflineVerifierIsSound
<1>3. QED
  BY <1>2, ExportInvariance, PTL

=============================================================================

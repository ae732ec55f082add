--------------------------- MODULE EvidenceExport ---------------------------
(***************************************************************************)
(* Evidence exports of a project while its ledger grows: the snapshot, its *)
(* verification against the live ledger, the ZIP bundle, and the offline   *)
(* verifier that needs neither the API nor the database.                   *)
(*                                                                         *)
(* The verifications an export makes are those of DecisionLedger; a        *)
(* verifier is one call, to the verify route or to an export route.        *)
(* Digests are represented by what they cover, like the ledger's hashes.   *)
(* Rows have no size here: an export that is not empty may exceed one of   *)
(* the limits on its records, its chain or its archive.                    *)
(***************************************************************************)
EXTENDS DecisionLedger, SequencesExt

CONSTANT Separated      \* requests, and outcomes with their reason, in whose
                        \* text U+0085, U+2028 or U+2029 occurs

VARIABLE exporter       \* the export calls

exportVars == <<vars, exporter>>

-----------------------------------------------------------------------------
(* Types                                                                   *)

ChainProof == [id: Ids, proof: Record]                       \* DecisionIntegrityProof
EvidenceRecord == [id: Ids, row: Decision, proof: Record]    \* VerifiableDecisionRecord

\* What the digest of a bundle covers: records, chain, and the rest of the
\* manifest.  A digest is the value it was computed from.
Covered ==
    [project: Projects, record_count: Nat, chain_record_count: Nat,
     head: Hash, expected: Hash,
     records: Seq(EvidenceRecord), chain: Seq(ChainProof),
     records_sha256: Seq(EvidenceRecord), chain_sha256: Seq(ChainProof)]

Bundle ==
    [project: Projects, record_count: Nat, chain_record_count: Nat,
     head: Hash, expected: Hash,
     records: Seq(EvidenceRecord), chain: Seq(ChainProof),
     records_sha256: Seq(EvidenceRecord), chain_sha256: Seq(ChainProof),
     bundle_sha256: Covered]

Exporter ==
    [pc: {"idle", "captured", "verify", "checkpoint", "chain", "done"},
     format: {"stream", "bundle"}, project: Projects \cup {None},
     filter: Outcomes \cup {None}, expected: Hash, max: Nat, head: Hash,
     records: Seq(EvidenceRecord), bundle: Bundle \cup {None},
     code: {None, "ok", "too_large", "integrity_conflict", "error"}]

ExportTypeOK == exporter \in [Verifiers -> Exporter]

ASSUME ExportAssumption ==
    /\ None \notin Outcomes /\ None \notin Bundle
    /\ Separated \subseteq Bodies \cup Outcomes

NotExporting ==
    [pc |-> "idle", format |-> "stream", project |-> None, filter |-> None,
     expected |-> << >>, max |-> 0, head |-> << >>, records |-> << >>,
     bundle |-> None, code |-> None]

-----------------------------------------------------------------------------
(* The bundle                                                              *)

\* Mutant: the chain is read to its present end.
ListChainToTheEnd(p, max) ==
    LET order == ByNumber(RecordsOf(p, record))
    IN [k \in DOMAIN order |-> [id |-> order[k], proof |-> record[order[k]]]]

\* list_chain: the proofs up to the captured head, in their order.
ListChain(p, max) ==
    LET ids == {i \in RecordsOf(p, record) : record[i].sequence_number <= max}
        order == ByNumber(ids)
    IN [k \in DOMAIN order |-> [id |-> order[k], proof |-> record[order[k]]]]

\* The digest of all of a bundle but itself.
BundleDigest(b) == [f \in DOMAIN b \ {"bundle_sha256"} |-> b[f]]

\* Records, chain and head under fresh counts and digests.
Sealed(b) ==
    LET counted == [b EXCEPT !.record_count = Len(b.records),
                             !.chain_record_count = Len(b.chain),
                             !.records_sha256 = b.records, !.chain_sha256 = b.chain]
    IN [counted EXCEPT !.bundle_sha256 = BundleDigest(counted)]

LastHash(chain) == IF chain = << >> THEN << >> ELSE Last(chain).proof.record_hash

\* build_evidence_bundle: None if the chain is not the captured one.
BuildBundle(x, chain) ==
    IF Len(chain) # x.max \/ LastHash(chain) # x.head THEN None
    ELSE Sealed([project |-> x.project, record_count |-> 0,
                 chain_record_count |-> 0, head |-> x.head,
                 expected |-> x.expected, records |-> x.records,
                 chain |-> chain, records_sha256 |-> << >>,
                 chain_sha256 |-> << >>, bundle_sha256 |-> << >>])

\* What the record hash of a proof covers, but for the previous hash.
ProofEnvelope(c) ==
    [decision_id |-> c.id, payload |-> c.proof.payload_hash,
     created_at |-> c.proof.created_at, project |-> c.proof.project,
     sequence_number |-> c.proof.sequence_number]

\* calculate_integrity_proof_record_hash
ProofHash(c) == Append(c.proof.previous_hash, ProofEnvelope(c))

DigestsMatch(b) ==
    /\ b.record_count = Len(b.records) /\ b.chain_record_count = Len(b.chain)
    /\ b.records_sha256 = b.records /\ b.chain_sha256 = b.chain
    /\ b.bundle_sha256 = BundleDigest(b)

ChainIsLinked(b) ==
    /\ \A k \in DOMAIN b.chain :
         LET c == b.chain[k] IN
         /\ c.proof.project = b.project /\ c.proof.sequence_number = k
         /\ c.proof.previous_hash = LastHash(SubSeq(b.chain, 1, k - 1))
         /\ c.proof.record_hash = ProofHash(c)
         /\ \A l \in 1..(k - 1) : b.chain[l].id # c.id
    /\ b.head = LastHash(b.chain)

\* Mutant: only the checkpoint in the manifest is looked for.
CheckpointsOfManifest(b, expected) ==
    b.expected \in {<< >>} \cup {b.chain[k].proof.record_hash : k \in DOMAIN b.chain}

CheckpointsPresent(b, expected) ==
    {b.expected, expected} \subseteq
      {<< >>} \cup {b.chain[k].proof.record_hash : k \in DOMAIN b.chain}

RecordsProved(b) ==
    \A k \in DOMAIN b.records :
      LET r == b.records[k] IN
      /\ r.row.project = b.project /\ r.proof.project = b.project
      /\ \E l \in DOMAIN b.chain : b.chain[l] = [id |-> r.id, proof |-> r.proof]
      /\ \A l \in 1..(k - 1) : b.records[l].id # r.id
      /\ r.proof.payload_hash = PayloadHash(r.id, r.row)

\* verify_evidence_bundle
VerifyBundle(b, expected) ==
    /\ DigestsMatch(b) /\ ChainIsLinked(b)
    /\ CheckpointsPresent(b, expected) /\ RecordsProved(b)

-----------------------------------------------------------------------------
(* The archive and the offline verifier                                    *)

EVIDENCE_BUNDLE_FILES == {"manifest.json", "records.ndjson", "chain.ndjson"}

\* The text of a record.  canonical_json escapes nothing outside ASCII, so a
\* line separator of Unicode stands in it as it is.
CanonicalJson(r) ==
    [value |-> r, separated |-> {r.row.body, r.row.outcome} \cap Separated # {}]

\* build_evidence_bundle_archive: chain.ndjson holds ids, hashes and instants only.
Archive(b) ==
    [names |-> <<"manifest.json", "records.ndjson", "chain.ndjson">>,
     manifest |-> [b EXCEPT !.records = << >>, !.chain = << >>],
     records |-> [k \in DOMAIN b.records |-> CanonicalJson(b.records[k])],
     chain |-> b.chain]

\* splitlines() cuts a text at its separators too, and no piece is JSON.
NdjsonParses(lines) == \A k \in DOMAIN lines : ~lines[k].separated

\* load_evidence_bundle_archive: each file once and no other.
Loads(archive) ==
    /\ IsInjective(archive.names) /\ Range(archive.names) = EVIDENCE_BUNDLE_FILES
    /\ NdjsonParses(archive.records)

\* The bundle an archive is read as.
Loaded(archive) ==
    [archive.manifest EXCEPT
       !.records = [k \in DOMAIN archive.records |-> archive.records[k].value],
       !.chain = archive.chain]

\* The exit status of python -m app.evidence_verifier.
EvidenceVerifier(archive, expected) ==
    IF ~Loads(archive) THEN 2
    ELSE IF VerifyBundle(Loaded(archive), expected) THEN 0 ELSE 1

-----------------------------------------------------------------------------
(* prepare_evidence_export and create_evidence_bundle                      *)

Ends(x, code) ==
    [x EXCEPT !.pc = "done", !.code = code,
              !.records = IF code = "ok" THEN @ ELSE << >>]

\* The records, the chain or the archive exceed a limit.
TooLarge == [NotExporting EXCEPT !.pc = "done", !.code = "too_large"]

\* _search_where and the captured head
Selected(p, filter, max) ==
    {i \in RecordsOf(p, record) \cap DecisionsOf(p, decision) :
       /\ filter \in {None, decision[i].outcome}
       /\ record[i].sequence_number <= max}

\* capture_records: head and selected records in one read transaction.
Snapshot(x) ==
    LET ids == RecordsOf(x.project, record)
        max == IF ids = {} THEN 0 ELSE Max(Sequences(x.project, record))
        order == Oldest(Selected(x.project, x.filter, max), decision)
    IN [x EXCEPT
          !.pc = "captured", !.max = max,
          !.head = IF ids = {} THEN << >>
                   ELSE record[CHOOSE i \in ids :
                                 record[i].sequence_number = max].record_hash,
          !.records = [k \in DOMAIN order |->
            [id |-> order[k], row |-> decision[order[k]],
             proof |-> record[order[k]]]]]

Capture(v) ==
    /\ exporter[v].pc = "idle" /\ verifier[v].pc = "idle" /\ Serving
    /\ \E p \in Projects, filter \in Outcomes \cup {None},
          format \in {"stream", "bundle"} : \E h \in Checkpoints(p) :
         LET x == Snapshot([NotExporting EXCEPT !.format = format, !.project = p,
                              !.filter = filter, !.expected = h])
         IN \/ exporter' = [exporter EXCEPT ![v] = x]
            \/ /\ x.records # << >> \/ (format = "bundle" /\ x.max > 0)
               /\ exporter' = [exporter EXCEPT ![v] = TooLarge]
    /\ UNCHANGED vars

\* The ledger is verified against the captured head ...
VerifySnapshot(v) ==
    /\ exporter[v].pc = "captured"
    /\ StartVerify(v, exporter[v].project, exporter[v].head)
    /\ exporter' = [exporter EXCEPT ![v].pc = "verify"]

Prepared(x) == IF x.format = "stream" THEN Ends(x, "ok") ELSE [x EXCEPT !.pc = "chain"]

\* ... and against the checkpoint of the request if that is another one.
VerifyCheckpoint(v) ==
    LET x == exporter[v] IN
    /\ x.pc = "verify" /\ verifier[v].pc = "done" /\ verifier[v].report.verified
    /\ x.expected \notin {<< >>, x.head}
    /\ StartVerify(v, x.project, x.expected)
    /\ exporter' = [exporter EXCEPT ![v].pc = "checkpoint"]

VerificationEnds(v) ==
    LET x == exporter[v] IN
    /\ x.pc \in {"verify", "checkpoint"} /\ verifier[v].pc = "done"
    /\ \/ /\ ~verifier[v].report.verified
          /\ exporter' = [exporter EXCEPT ![v] = Ends(@, "integrity_conflict")]
       \/ /\ verifier[v].report.verified
          /\ x.pc = "verify" => x.expected \in {<< >>, x.head}
          /\ exporter' = [exporter EXCEPT ![v] = Prepared(@)]
    /\ UNCHANGED vars

\* Mutant: the bundle is returned as it was built.
CreateBundleUnverified(v) ==
    LET x == exporter[v]
        b == BuildBundle(x, ListChain(x.project, x.max))
    IN /\ x.pc = "chain"
       /\ exporter' = [exporter EXCEPT ![v] =
            IF b = None THEN Ends(@, "error")
            ELSE [Ends(@, "ok") EXCEPT !.bundle = b]]
       /\ UNCHANGED vars

\* create_evidence_bundle: the chain is read, the bundle built and verified,
\* then the archive made of it.
CreateBundle(v) ==
    LET x == exporter[v]
        b == BuildBundle(x, ListChain(x.project, x.max))
    IN /\ x.pc = "chain"
       /\ \/ exporter' = [exporter EXCEPT ![v] =
               IF b = None THEN Ends(@, "error")
               ELSE IF ~VerifyBundle(b, x.expected) THEN Ends(@, "error")
               ELSE [Ends(@, "ok") EXCEPT !.bundle = b]]
          \/ x.max > 0 /\ exporter' = [exporter EXCEPT ![v] = TooLarge]
       /\ UNCHANGED vars

-----------------------------------------------------------------------------
ExportInit == Init /\ exporter = [v \in Verifiers |-> NotExporting]

Export(v) ==
    \/ Capture(v) \/ VerifySnapshot(v) \/ VerifyCheckpoint(v)
    \/ VerificationEnds(v) \/ CreateBundle(v)

\* The verify route, or a step of the verification an export has started.
Verify(v) ==
    \/ exporter[v].pc = "idle" /\ VerifyCounts(v)
    \/ VerifyMatching(v)
    \/ VerifyChain(v)

ExportNext ==
    \/ \E v \in Verifiers : Export(v)
    \/ \E v \in Verifiers : Verify(v) /\ UNCHANGED exporter
    \/ /\ \/ \E s \in Starters :
               CountDecisions(s) \/ CountRecords(s) \/ Backfill(s) \/ Stop(s)
          \/ \E c \in Calls :
               Receive(c) \/ Fetch(c) \/ Evaluate(c) \/ Save(c) \/ Recover(c) \/ Fail(c)
          \/ \E n \in 1..MaxWrites : DatabaseWrite(n)
       /\ UNCHANGED exporter

ExportSpec == ExportInit /\ [][ExportNext]_exportVars

-----------------------------------------------------------------------------
(* Properties                                                              *)

Exported(v) == exporter[v].code = "ok"

\* An export of a ledger that only the application has written succeeds, or is
\* refused for its size, although decisions commit between its transactions;
\* it holds exactly the matching decisions up to a head that was issued.
ExportIsComplete ==
    Genuine => \A v \in Verifiers :
      LET x == exporter[v] IN
      x.pc = "done" =>
        /\ x.code \in {"ok", "too_large"}
        /\ Exported(v) =>
             /\ x.head \in Checkpoints(x.project)
             /\ {r.id : r \in Range(x.records)} =
                  {i \in DecisionsOf(x.project, decision) :
                     /\ x.filter \in {None, decision[i].outcome}
                     /\ \E k \in DOMAIN x.head : x.head[k].decision_id = i}
             /\ \A k \in DOMAIN x.records :
                  x.records[k].row = decision[x.records[k].id]

\* The decisions of a bundle are those issued with the trusted head h: each
\* one up to h reads as it did then.
ReadsAsIssued(b, h) ==
    \A k \in DOMAIN b.records :
      LET r == b.records[k] IN
      r.proof.sequence_number <= Len(h) =>
        PayloadHash(r.id, r.row) = h[r.proof.sequence_number].payload

\* Whatever is written around the application while an export runs, a bundle
\* is returned only if its decisions up to the request's checkpoint read as
\* issued and, unless a chain was recomputed, all of them do and its head was
\* issued.
BundleIsGenuine ==
    \A v \in Verifiers :
      LET x == exporter[v] IN
      x.bundle # None =>
        /\ ReadsAsIssued(x.bundle, x.expected)
        /\ ~rebuilt => x.head \in Checkpoints(x.project)
                         /\ ReadsAsIssued(x.bundle, x.head)

\* What may happen to a bundle outside: a record changed or left out, the
\* chain cut, its hashes computed afresh, and the digests too.
Rechained(b) ==
    LET Payload2(c) ==
          LET own == {k \in DOMAIN b.records : b.records[k].id = c.id}
          IN IF own = {} THEN c.proof.payload_hash
             ELSE PayloadHash(c.id, b.records[CHOOSE k \in own : TRUE].row)
        paid == [k \in DOMAIN b.chain |->
                   [b.chain[k] EXCEPT !.proof.payload_hash = Payload2(b.chain[k])]]
        hash == [k \in DOMAIN paid |-> ProofEnvelope(paid[k])]
        chain == [k \in DOMAIN paid |->
                   [paid[k] EXCEPT !.proof.previous_hash = SubSeq(hash, 1, k - 1),
                                   !.proof.record_hash = SubSeq(hash, 1, k)]]
    IN [b EXCEPT !.chain = chain, !.head = LastHash(chain),
          !.records = [k \in DOMAIN b.records |->
             LET l == {m \in DOMAIN chain : chain[m].id = b.records[k].id}
             IN IF l = {} THEN b.records[k]
                ELSE [b.records[k] EXCEPT !.proof = chain[CHOOSE m \in l : TRUE].proof]]]

Altered(b) ==
    {[b EXCEPT !.records[k].row.body = body] : k \in DOMAIN b.records, body \in Bodies}
      \cup {[b EXCEPT !.records = RemoveAt(b.records, k)] : k \in DOMAIN b.records}
      \cup {[b EXCEPT !.chain = SubSeq(b.chain, 1, k),
                      !.head = LastHash(SubSeq(b.chain, 1, k))] :
              k \in 0..Len(b.chain)}

Forgeries(b) ==
    LET edited == Altered(b) \cup {Rechained(c) : c \in Altered(b)}
    IN edited \cup {Sealed(c) : c \in edited}

\* An archive written with its separators as JSON escapes, as any program
\* outside may write it.
Escaped(archive) ==
    [archive EXCEPT !.records =
       [k \in DOMAIN @ |-> [archive.records[k] EXCEPT !.separated = FALSE]]]

SeparatedRecord(b) ==
    \E k \in DOMAIN b.records : CanonicalJson(b.records[k]).separated

\* The offline verifier accepts every bundle the service returned, unless a
\* record holds a line separator: that archive it cannot read until the
\* separator is escaped.  It rejects an archive with a file missing or twice; an
\* altered bundle it accepts only if the digests were made anew and its
\* decisions up to the given trusted head still read as issued.
OfflineVerifierIsSound ==
    \A v \in Verifiers :
      LET b == exporter[v].bundle IN
      b # None =>
        /\ EvidenceVerifier(Archive(b), b.expected) = IF SeparatedRecord(b) THEN 2 ELSE 0
        /\ EvidenceVerifier(Escaped(Archive(b)), b.expected) = 0
        /\ \A k \in 1..3 : \A names \in {RemoveAt(Archive(b).names, k),
                                       Append(Archive(b).names, Archive(b).names[k])} :
             EvidenceVerifier([Archive(b) EXCEPT !.names = names], b.expected) = 2
        /\ \A f \in Forgeries(b), h \in Checkpoints(exporter[v].project) :
             EvidenceVerifier(Escaped(Archive(f)), h) = 0 =>
               /\ f = b \/ f.bundle_sha256 # b.bundle_sha256
               /\ Len(h) <= Len(f.chain)
               /\ ReadsAsIssued(f, h)
=============================================================================

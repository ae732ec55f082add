--------------------------- MODULE LedgerTypeProofs ---------------------------
(***************************************************************************)
(* Lemmas about the operators of the decision ledger (ORDER BY, the head   *)
(* of a chain, the proofs that a transaction or the startup adds) and the  *)
(* type correctness of the ledger, whatever is written around the          *)
(* application.                                                            *)
(***************************************************************************)
EXTENDS DecisionLedgerProofs, WellFoundedInduction

-----------------------------------------------------------------------------
(* Least and greatest                                                      *)

\* A nonempty set of naturals has a least element.  The proofs below that
\* would go by induction take the least counterexample.
LEMMA LeastNumber ==
    ASSUME NEW T \in SUBSET Nat, T # {}
    PROVE  \E x \in T : \A y \in T : x <= y
<1> DEFINE Less == {pair \in Nat \X Nat : pair[1] < pair[2]}
<1>1. IsWellFoundedOn(Less, Nat)
  BY NatLessThanWellFounded, Zenon DEF OpToRel
<1>2. PICK x \in T : \A y \in T : ~(<<y, x>> \in Less)
  <2> HIDE DEF Less
  <2>1. QED
    BY <1>1, WFMin
<1>3. ASSUME NEW y \in T PROVE x <= y
  <2>1. x \in Nat /\ y \in Nat
    OBVIOUS
  <2>2. y < x => <<y, x>> \in Less
    BY <2>1
  <2>3. QED
    BY <1>2, <2>1, <2>2
<1>4. QED
  BY <1>3

\* The rows of a finite set have a last one by any numeric key.
LEMMA LastByKey ==
    ASSUME NEW S, IsFiniteSet(S), S # {}, NEW key, \A i \in S : key[i] \in Nat
    PROVE  \E m \in S : \A i \in S : key[i] <= key[m]
<1> DEFINE HasLast(U) == \E m \in U : \A i \in U : key[i] <= key[m]
           Bad == {n \in Nat : \E U \in SUBSET S :
                     U # {} /\ Cardinality(U) = n /\ ~HasLast(U)}
<1>1. SUFFICES Bad = {}
  <2>1. Cardinality(S) \in Nat
    BY FS_CardinalityType
  <2>2. QED
    BY <1>1, <2>1
<1>2. SUFFICES ASSUME Bad # {} PROVE FALSE
  OBVIOUS
<1>3. PICK n \in Bad : \A k \in Bad : n <= k
  BY <1>2, LeastNumber
<1>4. PICK U \in SUBSET S : U # {} /\ Cardinality(U) = n /\ ~HasLast(U)
  BY <1>3
<1>5. PICK x : x \in U
  BY <1>4
<1> DEFINE V == U \ {x}
<1>6. /\ IsFiniteSet(U) /\ IsFiniteSet(V)
      /\ Cardinality(V) = n - 1 /\ Cardinality(V) \in Nat
  BY <1>4, <1>5, FS_Subset, FS_RemoveElement, FS_CardinalityType
<1>7. V # {}
  <2>1. ASSUME V = {} PROVE HasLast(U)
    <3>1. \A i \in U : i = x
      BY <2>1
    <3>2. key[x] <= key[x]
      BY <1>5
    <3>3. QED
      BY <1>5, <3>1, <3>2
  <2>2. QED
    BY <1>4, <2>1
<1>8. HasLast(V)
  <2>1. n \in Nat /\ V \in SUBSET S
    BY <1>3
  <2>2. Cardinality(V) \notin Bad
    <3> HIDE DEF Bad, V
    <3>1. QED
      BY <1>3, <1>6, <2>1
  <2>3. QED
    BY <1>6, <1>7, <2>1, <2>2
<1>9. PICK m \in V : \A i \in V : key[i] <= key[m]
  BY <1>8
<1>10. HasLast(U)
  <2>1. CASE key[m] <= key[x]
    <3>1. \A i \in U : key[i] <= key[x]
      BY <1>5, <1>9, <2>1
    <3>2. QED
      BY <1>5, <3>1
  <2>2. CASE key[x] <= key[m]
    <3>1. \A i \in U : key[i] <= key[m]
      BY <1>5, <1>9, <2>2
    <3>2. QED
      BY <1>9, <3>1
  <2>3. QED
    BY <1>5, <1>9, <2>1, <2>2
<1>11. QED
  BY <1>4, <1>10

-----------------------------------------------------------------------------
(* ORDER BY                                                                *)

SortedBy(s, n, key) ==
    \A k, l \in 1..n : k < l => s[k] # s[l] /\ key[s[k]] <= key[s[l]]

\* Every finite set of rows can be listed by a numeric column.
LEMMA OrderExists ==
    ASSUME NEW S, IsFiniteSet(S), NEW key, \A i \in S : key[i] \in Nat
    PROVE  \E s \in [1..Cardinality(S) -> S] : SortedBy(s, Cardinality(S), key)
<1> DEFINE Listed(U) == \E s \in [1..Cardinality(U) -> U] : SortedBy(s, Cardinality(U), key)
           Bad == {n \in Nat : \E U \in SUBSET S : Cardinality(U) = n /\ ~Listed(U)}
<1>1. SUFFICES Bad = {}
  <2>1. Cardinality(S) \in Nat
    BY FS_CardinalityType
  <2>2. QED
    BY <1>1, <2>1
<1>2. SUFFICES ASSUME Bad # {} PROVE FALSE
  OBVIOUS
<1>3. PICK n \in Bad : \A k \in Bad : n <= k
  BY <1>2, LeastNumber
<1>4. PICK U \in SUBSET S : Cardinality(U) = n /\ ~Listed(U)
  BY <1>3
<1>5. IsFiniteSet(U) /\ n \in Nat
  BY <1>3, FS_Subset
<1>6. U # {}
  <2>1. ASSUME U = {} PROVE Listed(U)
    <3>1. Cardinality(U) = 0
      BY <2>1, FS_EmptySet
    <3>2. [k \in 1..0 |-> 0] \in [1..0 -> U]
      OBVIOUS
    <3>3. SortedBy([k \in 1..0 |-> 0], 0, key)
      BY DEF SortedBy
    <3>4. QED
      BY <3>1, <3>2, <3>3
  <2>2. QED
    BY <1>4, <2>1
<1>7. PICK m \in U : \A i \in U : key[i] <= key[m]
  BY <1>5, <1>6, LastByKey
<1> DEFINE V == U \ {m}
<1>8. /\ IsFiniteSet(V)
      /\ Cardinality(V) = n - 1 /\ Cardinality(V) \in Nat
  BY <1>4, <1>5, FS_RemoveElement, FS_CardinalityType
<1>9. Listed(V)
  <2>1. Cardinality(V) \notin Bad
    <3> HIDE DEF Bad, V
    <3>1. QED
      BY <1>3, <1>5, <1>8
  <2>2. V \in SUBSET S
    OBVIOUS
  <2>3. QED
    BY <1>8, <2>1, <2>2
<1>10. PICK s \in [1..(n - 1) -> V] : SortedBy(s, n - 1, key)
  BY <1>8, <1>9
<1> DEFINE t == [k \in 1..n |-> IF k = n THEN m ELSE s[k]]
<1>11. /\ t[n] = m
       /\ \A k \in 1..n : k # n => k \in 1..(n - 1) /\ t[k] = s[k] /\ s[k] \in V
  BY <1>5, <1>8
<1>12. t \in [1..n -> U]
  BY <1>7, <1>11
<1>13. SortedBy(t, n, key)
  <2> SUFFICES ASSUME NEW k \in 1..n, NEW l \in 1..n, k < l
               PROVE  t[k] # t[l] /\ key[t[k]] <= key[t[l]]
    BY DEF SortedBy
  <2>1. k # n
    BY <1>5
  <2>2. k \in 1..(n - 1) /\ t[k] = s[k] /\ s[k] \in V
    BY <1>11, <2>1
  <2>3. CASE l = n
    BY <1>7, <1>11, <2>2, <2>3
  <2>4. CASE l # n
    BY <1>10, <1>11, <2>2, <2>4 DEF SortedBy
  <2>5. QED
    BY <2>3, <2>4
<1> HIDE DEF t
<1>14. Listed(U)
  BY <1>4, <1>12, <1>13
<1>15. QED
  BY <1>4, <1>14

\* What ORDER BY returns: every row of the set once, the keys never falling.
LEMMA OrderedLists ==
    ASSUME NEW S, IsFiniteSet(S), NEW key, \A i \in S : key[i] \in Nat
    PROVE  LET s == Ordered(S, key)
               n == Cardinality(S)
           IN /\ n \in Nat
              /\ s \in [1..n -> S]
              /\ \A k, l \in 1..n : k # l => s[k] # s[l]
              /\ \A k, l \in 1..n : k < l => key[s[k]] <= key[s[l]]
              /\ \A i \in S : \E k \in 1..n : s[k] = i
<1> DEFINE s == Ordered(S, key)
           n == Cardinality(S)
<1>1. n \in Nat
  BY FS_CardinalityType
<1>2. s \in [1..n -> S] /\ SortedBy(s, n, key)
  BY OrderExists DEF Ordered, SortedBy
<1> HIDE DEF s
<1>3. \A k, l \in 1..n : k # l => s[k] # s[l]
  BY <1>1, <1>2 DEF SortedBy
<1>4. \A i \in S : \E k \in 1..n : s[k] = i
  <2>1. s \in Injection(1..n, S)
    BY <1>2, <1>3 DEF Injection, IsInjective
  <2>2. Cardinality(1..n) = n
    BY <1>1, FS_Interval
  <2>3. s \in Surjection(1..n, S)
    BY <2>1, <2>2, FS_Injection
  <2>4. QED
    BY <2>3 DEF Surjection
<1>5. QED
  BY <1>1, <1>2, <1>3, <1>4 DEF SortedBy, s

-----------------------------------------------------------------------------
(* Records                                                                 *)

\* What the columns of a computed record hold.
LEMMA ProofShape ==
    ASSUME NEW i \in Ids, NEW row \in Decision, NEW seq \in Nat \ {0},
           NEW prev \in Hash
    PROVE  LET r == Proof(i, row, seq, prev)
               env == RecordEnvelope(i, row, seq, PayloadHash(i, row))
           IN /\ r \in Record /\ r # None
              /\ env \in Envelope
              /\ r.project = row.project
              /\ r.sequence_number = seq
              /\ r.previous_hash = prev
              /\ r.payload_hash = PayloadHash(i, row)
              /\ r.created_at = row.at
              /\ r.record_hash = RecordHash(i, row, seq, prev, PayloadHash(i, row))
              /\ r.record_hash = Append(prev, env)
              /\ r.record_hash \in Hash
<1> DEFINE env == RecordEnvelope(i, row, seq, PayloadHash(i, row))
<1>1. PayloadHash(i, row) \in Payload
  BY DEF PayloadHash, Payload
<1>2. env \in Envelope
  BY <1>1 DEF RecordEnvelope, Envelope, Decision
<1>3. RecordHash(i, row, seq, prev, PayloadHash(i, row)) = Append(prev, env)
  BY DEF RecordHash
<1>4. Append(prev, env) \in Hash
  <2> HIDE DEF env
  <2>1. QED
    BY <1>2 DEF Hash
<1> HIDE DEF env
<1>5. row.project \in Projects /\ row.at \in Nat
  BY DEF Decision
<1>6. Proof(i, row, seq, prev) \in Record
  BY <1>1, <1>3, <1>4, <1>5 DEF Proof, Record
<1>7. QED
  BY <1>2, <1>3, <1>4, <1>6, LedgerAssumption DEF Proof, env

\* A table of records: every row is a record or absent.
Rows == [Ids -> Record \cup {None}]

\* The rows of a project are finitely many, and their columns have their types.
LEMMA RecordsTyped ==
    ASSUME NEW rec \in Rows, NEW p
    PROVE  /\ RecordsOf(p, rec) \subseteq Ids
           /\ IsFiniteSet(RecordsOf(p, rec))
           /\ Cardinality(RecordsOf(p, rec)) \in Nat
           /\ \A i \in RecordsOf(p, rec) :
                /\ rec[i] \in Record /\ rec[i].project = p
                /\ rec[i].sequence_number \in Nat \ {0}
                /\ rec[i].previous_hash \in Hash
                /\ rec[i].record_hash \in Hash
<1>1. RecordsOf(p, rec) \in SUBSET Ids
  BY DEF RecordsOf
<1>2. IsFiniteSet(RecordsOf(p, rec))
  BY <1>1, LedgerAssumption, FS_Subset
<1>3. \A i \in RecordsOf(p, rec) : rec[i] \in Record /\ rec[i].project = p
  BY DEF RecordsOf, Rows
<1>4. QED
  BY <1>1, <1>2, <1>3, FS_CardinalityType DEF Record

\* The decisions of a project are finitely many.
LEMMA DecisionsTyped ==
    ASSUME NEW dec \in [Ids -> Decision \cup {None}], NEW p
    PROVE  /\ DecisionsOf(p, dec) \subseteq Ids
           /\ IsFiniteSet(DecisionsOf(p, dec))
           /\ Cardinality(DecisionsOf(p, dec)) \in Nat
           /\ \A i \in DecisionsOf(p, dec) :
                dec[i] \in Decision /\ dec[i].project = p /\ dec[i].at \in Nat
<1>1. DecisionsOf(p, dec) \in SUBSET Ids
  BY DEF DecisionsOf
<1>2. IsFiniteSet(DecisionsOf(p, dec))
  BY <1>1, LedgerAssumption, FS_Subset
<1>3. QED
  BY <1>1, <1>2, FS_CardinalityType DEF DecisionsOf, Decision

\* The head of a nonempty chain: the sequence numbers have a greatest one.
LEMMA HeadExists ==
    ASSUME NEW rec \in Rows, NEW p, RecordsOf(p, rec) # {}
    PROVE  \E h \in RecordsOf(p, rec) :
             /\ Max(Sequences(p, rec)) = rec[h].sequence_number
             /\ \A j \in RecordsOf(p, rec) :
                  rec[j].sequence_number <= rec[h].sequence_number
<1> DEFINE ids == RecordsOf(p, rec)
           key == [i \in ids |-> rec[i].sequence_number]
<1>1. /\ IsFiniteSet(ids)
      /\ \A i \in ids : key[i] = rec[i].sequence_number /\ key[i] \in Nat
  BY RecordsTyped
<1> HIDE DEF key
<1>2. PICK h \in ids : \A j \in ids : key[j] <= key[h]
  BY <1>1, LastByKey
<1>3. \A j \in ids : rec[j].sequence_number <= rec[h].sequence_number
  BY <1>1, <1>2
<1> DEFINE n == rec[h].sequence_number
<1>4. /\ n \in Sequences(p, rec) /\ n \in Nat
      /\ \A k \in Sequences(p, rec) : k \in Nat /\ n >= k
  BY <1>1, <1>2, <1>3 DEF Sequences
<1>5. \A m \in Sequences(p, rec) :
        (\A k \in Sequences(p, rec) : m >= k) => m = n
  <2> HIDE DEF n
  <2>1. QED
    BY <1>4
<1>6. Max(Sequences(p, rec)) = n
  <2> HIDE DEF n
  <2>1. QED
    BY <1>4, <1>5 DEF Max
<1>7. QED
  BY <1>2, <1>3, <1>6

\* NextProof starts a chain at 1, or follows the record with the greatest
\* sequence number.
LEMMA NextProofAppends ==
    ASSUME NEW i \in Ids, NEW row \in Decision, NEW rec \in Rows
    PROVE  LET ids == RecordsOf(row.project, rec)
               r == NextProof(i, row, rec)
           IN /\ r \in Record
              /\ \/ ids = {} /\ r = Proof(i, row, 1, << >>)
                 \/ \E h \in ids :
                      /\ \A j \in ids :
                           rec[j].sequence_number <= rec[h].sequence_number
                      /\ r = Proof(i, row, rec[h].sequence_number + 1,
                                   rec[h].record_hash)
<1> DEFINE ids == RecordsOf(row.project, rec)
           r == NextProof(i, row, rec)
<1>1. CASE ids = {}
  <2>1. r = Proof(i, row, 1, << >>)
    BY <1>1 DEF NextProof
  <2>2. << >> \in Hash
    BY DEF Hash
  <2>3. QED
    BY <1>1, <2>1, <2>2, ProofShape
<1>2. CASE ids # {}
  <2> DEFINE last == Max(Sequences(row.project, rec))
             h == CHOOSE j \in ids : rec[j].sequence_number = last
  <2>1. \E j \in ids : /\ rec[j].sequence_number = last
                       /\ \A k \in ids :
                            rec[k].sequence_number <= rec[j].sequence_number
    BY <1>2, HeadExists
  <2>2. h \in ids /\ rec[h].sequence_number = last
    <3> HIDE DEF ids, last
    <3>1. QED
      BY <2>1
  <2>3. \A k \in ids : rec[k].sequence_number <= rec[h].sequence_number
    <3> HIDE DEF ids, last, h
    <3>1. QED
      BY <2>1, <2>2
  <2>4. r = Proof(i, row, last + 1, rec[h].record_hash)
    BY <1>2 DEF NextProof
  <2> HIDE DEF h, last, r
  <2>5. /\ rec[h].sequence_number \in Nat \ {0} /\ rec[h].record_hash \in Hash
    BY <2>2, RecordsTyped
  <2>6. r \in Record
    BY <2>2, <2>4, <2>5, ProofShape
  <2>7. QED
    BY <1>2, <2>2, <2>3, <2>4, <2>6 DEF r
<1>3. QED
  BY <1>1, <1>2

-----------------------------------------------------------------------------
(* Chains                                                                  *)

\* The records rec of the rows ids are one chain over the decisions dec: each
\* is computed from its decision, is numbered within 1..n unlike any other, and
\* covers the envelopes of all records numbered below it.
ChainOf(ids, dec, rec) ==
    /\ \A i \in ids :
         /\ rec[i] = Proof(i, dec[i], rec[i].sequence_number, rec[i].previous_hash)
         /\ rec[i].sequence_number \in 1..Cardinality(ids)
         /\ Len(rec[i].previous_hash) = rec[i].sequence_number - 1
    /\ \A i, j \in ids : i # j => rec[i].sequence_number # rec[j].sequence_number
    /\ \A i, j \in ids :
         rec[i].sequence_number < rec[j].sequence_number =>
           rec[j].previous_hash[rec[i].sequence_number] =
             RecordEnvelope(i, dec[i], rec[i].sequence_number,
                            PayloadHash(i, dec[i]))

\* The backfill gives the decisions of its projects a chain in the order of
\* evaluated_at and leaves every other row as it was.
LEMMA BackfillChains ==
    ASSUME NEW dec \in [Ids -> Decision \cup {None}], NEW rec \in Rows,
           NEW ps \in SUBSET Projects
    PROVE  LET new == BackfillProofs(ps, dec, rec) IN
           /\ new \in Rows
           /\ \A i \in Ids : dec[i] = None \/ dec[i].project \notin ps =>
                               new[i] = rec[i]
           /\ \A p \in ps : LET ids == DecisionsOf(p, dec) IN
                /\ \A i \in ids : new[i] # None /\ new[i].project = p
                /\ ChainOf(ids, dec, new)
                /\ \A i, j \in ids :
                     new[i].sequence_number < new[j].sequence_number =>
                       dec[i].at <= dec[j].at
<1> DEFINE Order(p) == Oldest(DecisionsOf(p, dec), dec)
           Previous(p, k) == [l \in 1..(k - 1) |->
             LET i == Order(p)[l] IN
             RecordEnvelope(i, dec[i], l, PayloadHash(i, dec[i]))]
           Place(p, i) == CHOOSE k \in DOMAIN Order(p) : Order(p)[k] = i
           new == BackfillProofs(ps, dec, rec)
<1>1. \A i \in Ids : dec[i] = None \/ dec[i].project \notin ps => new[i] = rec[i]
  BY DEF BackfillProofs
<1>2. \A i \in Ids : dec[i] # None /\ dec[i].project \in ps =>
        new[i] = Proof(i, dec[i], Place(dec[i].project, i),
                       Previous(dec[i].project, Place(dec[i].project, i)))
  BY DEF BackfillProofs
<1>3. DOMAIN new = Ids
  BY DEF BackfillProofs
<1> HIDE DEF new
<1>4. ASSUME NEW p \in ps
      PROVE  LET ids == DecisionsOf(p, dec) IN
             /\ \A i \in ids : new[i] \in Record /\ new[i] # None
                                 /\ new[i].project = p
             /\ ChainOf(ids, dec, new)
             /\ \A i, j \in ids :
                  new[i].sequence_number < new[j].sequence_number =>
                    dec[i].at <= dec[j].at
  <2> DEFINE ids == DecisionsOf(p, dec)
             n == Cardinality(ids)
             key == [i \in ids |-> dec[i].at]
             s == Order(p)
             place(i) == Place(p, i)
  <2>1. /\ ids \subseteq Ids /\ IsFiniteSet(ids) /\ n \in Nat
        /\ \A i \in ids : dec[i] \in Decision /\ dec[i].project = p
                            /\ key[i] = dec[i].at /\ key[i] \in Nat
    BY DecisionsTyped
  <2> HIDE DEF key
  <2>2. s = Ordered(ids, key)
    BY DEF Oldest, key
  <2> HIDE DEF s
  <2>3. /\ s \in [1..n -> ids]
        /\ \A k, l \in 1..n : k # l => s[k] # s[l]
        /\ \A k, l \in 1..n : k < l => key[s[k]] <= key[s[l]]
        /\ \A i \in ids : \E k \in 1..n : s[k] = i
    BY <2>1, <2>2, OrderedLists
  <2>4. \A i \in ids : place(i) \in 1..n /\ s[place(i)] = i
    BY <2>3 DEF s
  <2>5. \A i \in ids : new[i] = Proof(i, dec[i], place(i), Previous(p, place(i)))
    <3> SUFFICES ASSUME NEW i \in ids
                 PROVE  new[i] = Proof(i, dec[i], place(i), Previous(p, place(i)))
      OBVIOUS
    <3>1. i \in Ids /\ dec[i] # None /\ dec[i].project = p
      BY DEF DecisionsOf
    <3> HIDE DEF ids, Previous, Place
    <3>2. QED
      BY <1>2, <3>1
  <2> HIDE DEF place
  <2>6. ASSUME NEW k \in 1..n
        PROVE  /\ Previous(p, k) \in Hash
               /\ Len(Previous(p, k)) = k - 1
               /\ \A l \in 1..(k - 1) : Previous(p, k)[l] =
                    RecordEnvelope(s[l], dec[s[l]], l, PayloadHash(s[l], dec[s[l]]))
    <3>1. k - 1 \in Nat /\ 1..(k - 1) \subseteq 1..n
      BY <2>1
    <3>2. ASSUME NEW l \in 1..(k - 1)
          PROVE  RecordEnvelope(s[l], dec[s[l]], l, PayloadHash(s[l], dec[s[l]]))
                   \in Envelope
      <4>1. s[l] \in ids /\ l \in Nat \ {0}
        BY <2>3, <3>1
      <4>2. s[l] \in Ids /\ dec[s[l]] \in Decision
        BY <2>1, <4>1
      <4>3. << >> \in Hash
        BY DEF Hash
      <4>4. QED
        BY <4>1, <4>2, <4>3, ProofShape
    <3>3. /\ Previous(p, k) \in [1..(k - 1) -> Envelope]
          /\ \A l \in 1..(k - 1) : Previous(p, k)[l] =
               RecordEnvelope(s[l], dec[s[l]], l, PayloadHash(s[l], dec[s[l]]))
      BY <3>2 DEF s
    <3> HIDE DEF Previous
    <3>4. Previous(p, k) \in Hash /\ Len(Previous(p, k)) = k - 1
      BY <3>1, <3>3 DEF Hash
    <3>5. QED
      BY <3>3, <3>4
  <2> HIDE DEF ids, n, Previous
  <2>7. ASSUME NEW i \in ids
        PROVE  /\ new[i] \in Record /\ new[i] # None /\ new[i].project = p
               /\ new[i].sequence_number = place(i)
               /\ new[i].previous_hash = Previous(p, place(i))
               /\ new[i] = Proof(i, dec[i], new[i].sequence_number,
                                 new[i].previous_hash)
    <3>1. /\ place(i) \in Nat \ {0} /\ Previous(p, place(i)) \in Hash
          /\ i \in Ids /\ dec[i] \in Decision /\ dec[i].project = p
      BY <2>1, <2>4, <2>6
    <3>2. QED
      BY <2>5, <3>1, ProofShape
  <2>8. \A i, j \in ids : i # j => new[i].sequence_number # new[j].sequence_number
    BY <2>4, <2>7
  <2>9. ASSUME NEW i \in ids, NEW j \in ids,
               new[i].sequence_number < new[j].sequence_number
        PROVE  /\ dec[i].at <= dec[j].at
               /\ new[j].previous_hash[new[i].sequence_number] =
                    RecordEnvelope(i, dec[i], new[i].sequence_number,
                                   PayloadHash(i, dec[i]))
    <3>1. /\ place(i) \in 1..n /\ place(j) \in 1..n /\ place(i) < place(j)
          /\ s[place(i)] = i /\ s[place(j)] = j
      BY <2>4, <2>7, <2>9
    <3>2. key[i] <= key[j]
      BY <2>3, <3>1
    <3>3. place(i) \in 1..(place(j) - 1)
      BY <2>1, <3>1
    <3>4. QED
      BY <2>1, <2>6, <2>7, <3>1, <3>2, <3>3
  <2>10. \A i \in ids : /\ new[i].sequence_number \in 1..n
                        /\ Len(new[i].previous_hash) = new[i].sequence_number - 1
    BY <2>4, <2>6, <2>7
  <2>11. ChainOf(ids, dec, new)
    BY <2>7, <2>8, <2>9, <2>10 DEF ChainOf, n
  <2>12. QED
    BY <2>7, <2>9, <2>11 DEF ids
<1>5. new \in Rows
  <2>1. ASSUME NEW i \in Ids PROVE new[i] \in Record \cup {None}
    <3>1. CASE dec[i] = None \/ dec[i].project \notin ps
      BY <1>1, <3>1 DEF Rows
    <3>2. CASE dec[i] # None /\ dec[i].project \in ps
      <4>1. i \in DecisionsOf(dec[i].project, dec)
        BY <3>2 DEF DecisionsOf
      <4>2. QED
        BY <1>4, <3>2, <4>1
    <3>3. QED
      BY <3>1, <3>2
  <2>2. QED
    BY <1>3, <2>1, Zenon DEF Rows, BackfillProofs, new
<1>6. QED
  BY <1>1, <1>4, <1>5 DEF new

-----------------------------------------------------------------------------
(* The typing invariant                                                    *)

\* What a call carries at each of its steps.
CallTyped(cl) ==
    /\ cl.pc # "idle" => cl.project \in Projects /\ cl.body \in Bodies
    /\ cl.pc = "fetch" => cl.found \in Ids
    /\ cl.pc = "save" => cl.row \in Decision
    /\ cl.pc = "recover" => cl.key \in Keys

TypeInv == TypeOK /\ \A c \in Calls : CallTyped(call[c])

\* The hashes stored by a transaction that replaces rows by records only.
LEMMA IssueTyped ==
    ASSUME issued \subseteq Projects \X Hash, NEW rec,
           \A j \in Ids : rec[j] = record[j] \/ rec[j] \in Record
    PROVE  Issue(rec) \subseteq Projects \X Hash
<1>1. \A j \in Ids : rec[j] # record[j] =>
        <<rec[j].project, rec[j].record_hash>> \in Projects \X Hash
  BY DEF Record
<1>2. QED
  BY <1>1 DEF Issue

\* The initial state is typed.
LEMMA InitTyped == Init => TypeInv
<1> SUFFICES ASSUME Init PROVE TypeInv
  OBVIOUS
<1>1. AuthTypes
  <2>1. AuthInv
    BY InitCore
  <2>2. Genuine
    BY DEF Init, Genuine
  <2>3. QED
    BY <2>1, <2>2 DEF AuthInv, Core
<1>2. record \in [Ids -> Record \cup {None}]
  BY DEF Init
<1>3. verifier \in [Verifiers -> Verifier]
  <2>1. << >> \in Hash
    BY DEF Hash
  <2>2. NotVerifying \in Verifier
    BY <2>1 DEF NotVerifying, Verifier
  <2>3. QED
    BY <2>2 DEF Init
<1>4. starter \in [Starters -> Starter]
  <2>1. Idle \in Starter
    BY DEF Idle, Starter
  <2>2. QED
    BY <2>1 DEF Init
<1>5. writes \in 0..MaxWrites
  BY LedgerAssumption DEF Init
<1>6. TypeOK
  BY <1>1, <1>2, <1>3, <1>4, <1>5 DEF TypeOK, AuthTypes, Init
<1>7. \A c \in Calls : CallTyped(call[c])
  BY DEF Init, NotCalled, CallTyped
<1>8. QED
  BY <1>6, <1>7 DEF TypeInv

-----------------------------------------------------------------------------
(* Steps of the startup                                                    *)

LEMMA StarterTyped ==
    ASSUME TypeInv, NEW s \in Starters, NEW new \in Starter,
           starter' = [starter EXCEPT ![s] = new],
           UNCHANGED <<db, clock, call, verifier, issued, faults>>
    PROVE  TypeInv'
<1>1. starter' \in [Starters -> Starter]
  BY DEF TypeInv, TypeOK
<1>2. TypeOK'
  BY <1>1 DEF TypeInv, TypeOK, db, faults
<1>3. QED
  BY <1>2 DEF TypeInv, CallTyped

LEMMA CountDecisionsTyped ==
    ASSUME TypeInv, NEW s \in Starters, CountDecisions(s)
    PROVE  TypeInv'
<1> DEFINE counted == [p \in Projects |-> Cardinality(DecisionsOf(p, decision))]
           todo == {p \in Projects : counted[p] > 0}
           new == [pc |-> IF todo = {} THEN "up" ELSE "count",
                   counted |-> counted, todo |-> todo, cur |-> None]
<1>1. counted \in [Projects -> Nat]
  <2>1. decision \in [Ids -> Decision \cup {None}]
    BY DEF TypeInv, TypeOK
  <2>2. QED
    BY <2>1, DecisionsTyped
<1>2. starter' = [starter EXCEPT ![s] = new]
  BY DEF CountDecisions
<1> HIDE DEF counted
<1>3. new \in Starter
  BY <1>1 DEF Starter
<1>4. UNCHANGED <<db, clock, call, verifier, issued, faults>>
  BY DEF CountDecisions
<1> HIDE DEF new
<1>5. QED
  BY <1>2, <1>3, <1>4, StarterTyped

LEMMA CountRecordsTyped ==
    ASSUME TypeInv, NEW s \in Starters, CountRecords(s)
    PROVE  TypeInv'
<1>1. starter[s] \in Starter
  BY DEF TypeInv, TypeOK
<1>2. PICK p \in starter[s].todo :
        LET verdict == Judge(starter[s].counted[p],
                             Cardinality(RecordsOf(p, record)))
            rest == starter[s].todo \ {p}
        IN starter' = [starter EXCEPT ![s] =
             CASE verdict = "complete" ->
                    IF rest = {} THEN [Idle EXCEPT !.pc = "up"]
                    ELSE [@ EXCEPT !.todo = rest]
               [] verdict = "partial" -> [Idle EXCEPT !.pc = "refused"]
               [] verdict = "absent" -> [@ EXCEPT !.pc = "insert", !.cur = p]]
  BY DEF CountRecords
<1> DEFINE verdict == Judge(starter[s].counted[p], Cardinality(RecordsOf(p, record)))
           rest == starter[s].todo \ {p}
           new == CASE verdict = "complete" ->
                         IF rest = {} THEN [Idle EXCEPT !.pc = "up"]
                         ELSE [starter[s] EXCEPT !.todo = rest]
                    [] verdict = "partial" -> [Idle EXCEPT !.pc = "refused"]
                    [] verdict = "absent" ->
                         [starter[s] EXCEPT !.pc = "insert", !.cur = p]
<1>3. starter' = [starter EXCEPT ![s] = new]
  BY <1>2
<1>4. verdict \in {"complete", "partial", "absent"}
  BY DEF Judge
<1> HIDE DEF verdict
<1>5. new \in Starter
  <2>1. /\ [Idle EXCEPT !.pc = "up"] \in Starter
        /\ [Idle EXCEPT !.pc = "refused"] \in Starter
    BY DEF Idle, Starter
  <2>2. p \in Projects /\ rest \in SUBSET Projects
    BY <1>1 DEF Starter
  <2>3. /\ [starter[s] EXCEPT !.todo = rest] \in Starter
        /\ [starter[s] EXCEPT !.pc = "insert", !.cur = p] \in Starter
    <3> HIDE DEF rest
    <3>1. QED
      BY <1>1, <2>2 DEF Starter
  <2>4. QED
    BY <1>4, <2>1, <2>3
<1>6. UNCHANGED <<db, clock, call, verifier, issued, faults>>
  BY DEF CountRecords
<1> HIDE DEF new
<1>7. QED
  BY <1>3, <1>5, <1>6, StarterTyped

LEMMA BackfillTyped ==
    ASSUME TypeInv, NEW s \in Starters, Backfill(s)
    PROVE  TypeInv'
<1>1. /\ starter[s] \in Starter /\ record \in Rows
      /\ decision \in [Ids -> Decision \cup {None}]
      /\ issued \subseteq Projects \X Hash
  BY DEF TypeInv, TypeOK, Rows
<1> DEFINE p == starter[s].cur
           verdict(q) == Judge(starter[s].counted[q], Cardinality(RecordsOf(q, record)))
           rest == starter[s].todo \ {p}
           absent == {p} \cup {q \in rest : verdict(q) = "absent"}
           ends == IF RecordsOf(p, record) # {} THEN "down"
                   ELSE IF \E q \in rest : verdict(q) = "partial" THEN "refused"
                   ELSE "up"
<1>2. /\ starter' = [starter EXCEPT ![s] = [Idle EXCEPT !.pc = ends]]
      /\ record' = IF ends # "up" THEN record
                   ELSE BackfillProofs(absent, decision, record)
      /\ issued' = Issue(record')
  BY DEF Backfill
<1>3. ends \in {"down", "refused", "up"}
  OBVIOUS
<1>4. starter' \in [Starters -> Starter]
  <2> HIDE DEF ends
  <2>1. [Idle EXCEPT !.pc = ends] \in Starter
    BY <1>3 DEF Idle, Starter
  <2>2. QED
    BY <1>2, <2>1 DEF TypeInv, TypeOK
<1>5. absent \in SUBSET (Projects \cup {None})
  <2> HIDE DEF verdict
  <2>1. QED
    BY <1>1 DEF Starter
<1>6. record' \in Rows /\ \A j \in Ids : record'[j] = record[j] \/ record'[j] \in Record
  <2> HIDE DEF ends, absent
  <2>1. CASE ends # "up"
    BY <1>1, <1>2, <2>1
  <2>2. CASE ends = "up"
    <3> DEFINE ps == absent \ {None}
    <3>1. ps \in SUBSET Projects
      BY <1>5
    <3>2. BackfillProofs(absent, decision, record)
            = BackfillProofs(ps, decision, record)
      <4>1. \A i \in Ids : decision[i] # None =>
              (decision[i].project \in absent <=> decision[i].project \in ps)
        BY <1>1, LedgerAssumption DEF Decision
      <4> HIDE DEF ps
      <4>2. QED
        BY <4>1 DEF BackfillProofs
    <3> HIDE DEF ps
    <3>3. record' = BackfillProofs(ps, decision, record)
      BY <1>2, <2>2, <3>2
    <3>4. /\ record' \in Rows
          /\ \A i \in Ids : decision[i] = None \/ decision[i].project \notin ps =>
                              record'[i] = record[i]
          /\ \A q \in ps : \A i \in DecisionsOf(q, decision) : record'[i] # None
      BY <1>1, <3>1, <3>3, BackfillChains
    <3>5. ASSUME NEW j \in Ids PROVE record'[j] = record[j] \/ record'[j] \in Record
      <4>1. CASE decision[j] = None \/ decision[j].project \notin ps
        BY <3>4, <4>1
      <4>2. CASE decision[j] # None /\ decision[j].project \in ps
        <5>1. j \in DecisionsOf(decision[j].project, decision)
          BY <4>2 DEF DecisionsOf
        <5>2. QED
          BY <3>4, <4>2, <5>1 DEF Rows
      <4>3. QED
        BY <4>1, <4>2
    <3>6. QED
      BY <3>4, <3>5
  <2>3. QED
    BY <2>1, <2>2
<1>7. issued' \subseteq Projects \X Hash
  BY <1>1, <1>2, <1>6, IssueTyped
<1>8. UNCHANGED <<decision, idem, approvals, events, clock, call, verifier, faults>>
  BY DEF Backfill
<1>9. TypeOK'
  BY <1>4, <1>6, <1>7, <1>8 DEF TypeInv, TypeOK, Rows, faults
<1>10. QED
  BY <1>8, <1>9 DEF TypeInv, CallTyped

LEMMA StopTyped ==
    ASSUME TypeInv, NEW s \in Starters, Stop(s)
    PROVE  TypeInv'
<1>1. Idle \in Starter
  BY DEF Idle, Starter
<1>2. QED
  BY <1>1, StarterTyped DEF Stop

-----------------------------------------------------------------------------
(* Steps of the authorize calls                                            *)

LEMMA CallStepTyped ==
    ASSUME TypeInv, NEW c \in Calls, NEW new \in Call, CallTyped(new),
           call' = [call EXCEPT ![c] = new], clock' \in Nat,
           UNCHANGED <<db, verifier, starter, issued, faults>>
    PROVE  TypeInv'
<1>1. /\ call' \in [Calls -> Call]
      /\ \A d \in Calls : call'[d] = new \/ call'[d] = call[d]
  BY DEF TypeInv, TypeOK
<1>2. TypeOK'
  BY <1>1 DEF TypeInv, TypeOK, db, faults
<1>3. QED
  BY <1>1, <1>2 DEF TypeInv, CallTyped

\* A refused call keeps its request.
LEMMA RefusedTyped ==
    ASSUME NEW cl \in Call, NEW code \in Codes,
           cl.project \in Projects, cl.body \in Bodies
    PROVE  Refused(cl, code) \in Call /\ CallTyped(Refused(cl, code))
BY RefusedType DEF CallTyped

\* A lookup ends in a refusal, at the record it found, or as it was told to.
LEMMA LookupTyped ==
    ASSUME TypeInv, NEW cl \in Call, NEW absent \in Call, CallTyped(absent),
           cl.project \in Projects, cl.body \in Bodies, cl.key \in Keys
    PROVE  Lookup(cl, absent) \in Call /\ CallTyped(Lookup(cl, absent))
<1> DEFINE rec == idem[<<cl.project, cl.key>>]
<1>1. rec \in IdempotencyRecord \cup {None}
  BY DEF TypeInv, TypeOK
<1>2. CASE rec = None
  BY <1>2 DEF Lookup
<1>3. CASE rec # None /\ rec.body # cl.body
  <2>1. Lookup(cl, absent) = Refused(cl, "conflict")
    BY <1>3 DEF Lookup
  <2>2. QED
    BY <2>1, RefusedTyped DEF Codes
<1>4. CASE rec # None /\ rec.body = cl.body
  <2>1. Lookup(cl, absent) = [cl EXCEPT !.pc = "fetch", !.found = rec.decision_id]
    BY <1>4 DEF Lookup
  <2>2. rec.decision_id \in Ids
    BY <1>1, <1>4 DEF IdempotencyRecord
  <2> HIDE DEF rec
  <2>3. QED
    BY <2>1, <2>2 DEF Call, CallTyped
<1>5. QED
  BY <1>2, <1>3, <1>4

LEMMA ReceiveTyped ==
    ASSUME TypeInv, NEW c \in Calls, Receive(c)
    PROVE  TypeInv'
<1>1. PICK p \in Projects, k \in Key, b \in Bodies :
        LET cl == [NotCalled EXCEPT !.pc = "evaluate", !.project = p,
                                    !.key = k, !.body = b]
        IN call' = [call EXCEPT ![c] = IF k = None THEN cl ELSE Lookup(cl, cl)]
  BY DEF Receive
<1> DEFINE cl == [NotCalled EXCEPT !.pc = "evaluate", !.project = p,
                                   !.key = k, !.body = b]
           new == IF k = None THEN cl ELSE Lookup(cl, cl)
<1>2. /\ cl \in Call /\ cl.pc = "evaluate" /\ cl.project = p /\ cl.key = k
      /\ cl.body = b
  BY DEF NotCalled, Call, Key
<1>3. call' = [call EXCEPT ![c] = new]
  BY <1>1
<1> HIDE DEF cl
<1>4. CallTyped(cl)
  BY <1>2 DEF CallTyped
<1>5. new \in Call /\ CallTyped(new)
  BY <1>2, <1>4, LookupTyped DEF Key
<1>6. clock' \in Nat /\ UNCHANGED <<db, verifier, starter, issued, faults>>
  BY DEF Receive, TypeInv, TypeOK
<1> HIDE DEF new
<1>7. QED
  BY <1>3, <1>5, <1>6, CallStepTyped

LEMMA FetchTyped ==
    ASSUME TypeInv, NEW c \in Calls, Fetch(c)
    PROVE  TypeInv'
<1> DEFINE i == call[c].found
           new == IF decision[i] = None \/ decision[i].project # call[c].project
                  THEN Refused(call[c], "missing_decision")
                  ELSE Ended(call[c], "ok", i, decision[i])
<1>1. /\ call[c] \in Call /\ i \in Ids
      /\ call[c].project \in Projects /\ call[c].body \in Bodies
      /\ decision[i] \in Decision \cup {None}
  BY DEF TypeInv, TypeOK, CallTyped, Fetch
<1>2. call' = [call EXCEPT ![c] = new]
  BY DEF Fetch
<1> HIDE DEF i
<1>3. new \in Call /\ CallTyped(new)
  <2>1. CASE decision[i] = None \/ decision[i].project # call[c].project
    BY <1>1, <2>1, RefusedTyped DEF Codes
  <2>2. CASE ~(decision[i] = None \/ decision[i].project # call[c].project)
    <3>1. [code |-> "ok", id |-> i, row |-> decision[i]] \in Answer
      BY <1>1, <2>2 DEF Answer, Codes
    <3>2. Ended(call[c], "ok", i, decision[i]) \in Call
      BY <1>1, <3>1 DEF Ended, Call
    <3>3. CallTyped(Ended(call[c], "ok", i, decision[i]))
      BY <1>1 DEF Ended, Call, CallTyped
    <3>4. QED
      BY <2>2, <3>2, <3>3
  <2>3. QED
    BY <2>1, <2>2
<1>4. clock' \in Nat /\ UNCHANGED <<db, verifier, starter, issued, faults>>
  BY DEF Fetch, TypeInv, TypeOK
<1> HIDE DEF new
<1>5. QED
  BY <1>2, <1>3, <1>4, CallStepTyped

LEMMA EvaluateTyped ==
    ASSUME TypeInv, NEW c \in Calls, Evaluate(c)
    PROVE  TypeInv'
<1>1. /\ call[c] \in Call /\ clock \in Nat
      /\ call[c].project \in Projects /\ call[c].body \in Bodies
  BY DEF TypeInv, TypeOK, CallTyped, Evaluate
<1>2. UNCHANGED <<db, verifier, starter, issued, faults>>
  BY DEF Evaluate
<1>3. CASE call' = [call EXCEPT ![c] = Refused(@, "invalid_context")] /\ UNCHANGED clock
  BY <1>1, <1>2, <1>3, RefusedTyped, CallStepTyped DEF Codes
<1>4. ASSUME NEW o \in Outcomes, clock' = clock + 1,
             call' = [call EXCEPT ![c] =
                 [@ EXCEPT !.pc = "save",
                           !.row = [project |-> call[c].project,
                                    body |-> call[c].body,
                                    outcome |-> o, at |-> clock + 1]]]
      PROVE  TypeInv'
  <2> DEFINE row == [project |-> call[c].project, body |-> call[c].body,
                     outcome |-> o, at |-> clock + 1]
             new == [call[c] EXCEPT !.pc = "save", !.row = row]
  <2>1. row \in Decision
    BY <1>1 DEF Decision
  <2> HIDE DEF row
  <2>2. new \in Call /\ CallTyped(new)
    BY <1>1, <2>1 DEF Call, CallTyped
  <2>3. call' = [call EXCEPT ![c] = new]
    BY <1>4 DEF row
  <2>4. clock' \in Nat
    BY <1>1, <1>4
  <2> HIDE DEF new
  <2>5. QED
    BY <1>2, <2>2, <2>3, <2>4, CallStepTyped
<1>5. QED
  BY <1>3, <1>4 DEF Evaluate

\* A committed decision adds one typed record.
LEMMA SaveTyped ==
    ASSUME TypeInv, NEW c \in Calls, Save(c)
    PROVE  TypeInv'
<1> DEFINE cl == call[c]
<1>1. /\ cl \in Call /\ cl.row \in Decision /\ c \in Ids
      /\ cl.project \in Projects /\ cl.body \in Bodies
      /\ record \in Rows /\ issued \subseteq Projects \X Hash
      /\ clock \in Nat
  BY DEF TypeInv, TypeOK, CallTyped, Save, Ids, Rows
<1>2. CASE KeyTaken(cl) /\ call' = [call EXCEPT ![c] = [@ EXCEPT !.pc = "recover"]]
             /\ UNCHANGED <<db, issued>>
  <2> DEFINE new == [cl EXCEPT !.pc = "recover"]
  <2>1. new \in Call /\ CallTyped(new)
    BY <1>1, <1>2 DEF Call, CallTyped, KeyTaken, Key
  <2>2. call' = [call EXCEPT ![c] = new]
    BY <1>2
  <2>3. clock' \in Nat /\ UNCHANGED <<db, verifier, starter, issued, faults>>
    BY <1>1, <1>2 DEF Save
  <2> HIDE DEF new
  <2>4. QED
    BY <2>1, <2>2, <2>3, CallStepTyped
<1>3. CASE Commit(c) /\ call' = [call EXCEPT ![c] = Ended(@, "ok", c, call[c].row)]
  <2> DEFINE row == cl.row
             new == Ended(cl, "ok", c, row)
             r == NextProof(c, row, record)
  <2>1. r \in Record
    BY <1>1, NextProofAppends
  <2>2. new \in Call /\ CallTyped(new)
    <3>1. [code |-> "ok", id |-> c, row |-> row] \in Answer
      BY <1>1 DEF Answer, Codes
    <3>2. QED
      BY <1>1, <3>1 DEF Ended, Call, CallTyped
  <2>3. /\ decision' = [decision EXCEPT ![c] = row]
        /\ record' = [record EXCEPT ![c] = r]
        /\ issued' = Issue(record')
        /\ call' = [call EXCEPT ![c] = new]
    BY <1>3 DEF Commit
  <2> HIDE DEF new, r
  <2>4. decision' \in [Ids -> Decision \cup {None}] /\ call' \in [Calls -> Call]
    BY <1>1, <2>2, <2>3 DEF TypeInv, TypeOK
  <2>5. record' \in Rows /\ \A j \in Ids : record'[j] = record[j] \/ record'[j] \in Record
    BY <1>1, <2>1, <2>3 DEF Rows
  <2>6. issued' \subseteq Projects \X Hash
    BY <1>1, <2>3, <2>5, IssueTyped
  <2>7. idem' \in [Projects \X Keys -> IdempotencyRecord \cup {None}]
    <3>1. [body |-> cl.body, decision_id |-> c] \in IdempotencyRecord
      BY <1>1 DEF IdempotencyRecord
    <3>2. QED
      BY <1>3, <3>1 DEF Commit, TypeInv, TypeOK
  <2>8. /\ approvals' \subseteq Ids
        /\ events' \subseteq {"authorization.created", "approval.requested"} \X Ids
    BY <1>1, <1>3 DEF Commit, TypeInv, TypeOK
  <2>9. UNCHANGED <<clock, verifier, starter, faults>>
    BY DEF Save
  <2>10. TypeOK'
    BY <2>4, <2>5, <2>6, <2>7, <2>8, <2>9 DEF TypeInv, TypeOK, Rows, faults
  <2>11. \A d \in Calls : CallTyped(call'[d])
    BY <2>2, <2>3 DEF TypeInv, TypeOK
  <2>12. QED
    BY <2>10, <2>11 DEF TypeInv, CallTyped
<1>4. QED
  BY <1>2, <1>3 DEF Save

LEMMA RecoverTyped ==
    ASSUME TypeInv, NEW c \in Calls, Recover(c)
    PROVE  TypeInv'
<1> DEFINE absent == Refused(call[c], "integrity_error")
           new == Lookup(call[c], absent)
<1>1. /\ call[c] \in Call /\ call[c].key \in Keys
      /\ call[c].project \in Projects /\ call[c].body \in Bodies
  BY DEF TypeInv, TypeOK, CallTyped, Recover
<1>2. absent \in Call /\ CallTyped(absent)
  BY <1>1, RefusedTyped DEF Codes
<1> HIDE DEF absent
<1>3. new \in Call /\ CallTyped(new)
  BY <1>1, <1>2, LookupTyped
<1>4. /\ call' = [call EXCEPT ![c] = new] /\ clock' \in Nat
      /\ UNCHANGED <<db, verifier, starter, issued, faults>>
  BY DEF Recover, absent, TypeInv, TypeOK
<1> HIDE DEF new
<1>5. QED
  BY <1>3, <1>4, CallStepTyped

LEMMA FailTyped ==
    ASSUME TypeInv, NEW c \in Calls, Fail(c)
    PROVE  TypeInv'
<1> DEFINE new == Refused(call[c], "failed")
<1>1. /\ call[c] \in Call
      /\ call[c].project \in Projects /\ call[c].body \in Bodies
  BY DEF TypeInv, TypeOK, CallTyped, Fail
<1>2. new \in Call /\ CallTyped(new)
  BY <1>1, RefusedTyped DEF Codes
<1>3. /\ call' = [call EXCEPT ![c] = new] /\ clock' \in Nat
      /\ UNCHANGED <<db, verifier, starter, issued, faults>>
  BY DEF Fail, TypeInv, TypeOK
<1> HIDE DEF new
<1>4. QED
  BY <1>2, <1>3, CallStepTyped

-----------------------------------------------------------------------------
(* Steps of the verification                                               *)

LEMMA VerifierTyped ==
    ASSUME TypeInv, NEW v \in Verifiers, NEW new \in Verifier,
           verifier' = [verifier EXCEPT ![v] = new],
           UNCHANGED <<db, clock, call, starter, issued, faults>>
    PROVE  TypeInv'
<1>1. verifier' \in [Verifiers -> Verifier]
  BY DEF TypeInv, TypeOK
<1>2. TypeOK'
  BY <1>1 DEF TypeInv, TypeOK, db, faults
<1>3. QED
  BY <1>2 DEF TypeInv, CallTyped

\* The rows a scan reads: those of the project with both a record and a
\* decision, up to a sequence number.
Scanned(p, max) ==
    {i \in RecordsOf(p, record) \cap DecisionsOf(p, decision) :
       record[i].sequence_number <= max}

\* A scan reads every such row once, by rising sequence number.
LEMMA ScanReads ==
    ASSUME TypeOK, NEW p, NEW max
    PROVE  LET rows == VerificationRows(p, max)
               ids == Scanned(p, max)
               n == Cardinality(ids)
           IN /\ n \in Nat /\ rows \in [1..n -> ids] /\ rows \in Seq(Ids)
              /\ Len(rows) = n /\ DOMAIN rows = 1..n
              /\ \A i \in ids :
                   /\ i \in Ids /\ decision[i] \in Decision
                   /\ record[i] \in Record /\ record[i].project = p
                   /\ record[i].sequence_number \in Nat \ {0}
                   /\ record[i].record_hash \in Hash
              /\ \A k, l \in 1..n : k # l => rows[k] # rows[l]
              /\ \A k, l \in 1..n : k < l =>
                   record[rows[k]].sequence_number <= record[rows[l]].sequence_number
              /\ \A i \in ids : \E k \in 1..n : rows[k] = i
<1> DEFINE rows == VerificationRows(p, max)
           ids == Scanned(p, max)
           n == Cardinality(ids)
           key == [i \in ids |-> record[i].sequence_number]
<1>1. record \in Rows /\ decision \in [Ids -> Decision \cup {None}]
  BY DEF TypeOK, Rows
<1>2. ids \in SUBSET RecordsOf(p, record) /\ ids \in SUBSET DecisionsOf(p, decision)
  BY DEF Scanned
<1>3. IsFiniteSet(ids)
  BY <1>1, <1>2, RecordsTyped, FS_Subset
<1>4. \A i \in ids : /\ i \in Ids /\ decision[i] \in Decision
                     /\ record[i] \in Record /\ record[i].project = p
                     /\ record[i].sequence_number \in Nat \ {0}
                     /\ record[i].record_hash \in Hash
                     /\ key[i] = record[i].sequence_number /\ key[i] \in Nat
  BY <1>1, <1>2, RecordsTyped, DecisionsTyped
<1>5. rows = Ordered(ids, key)
  BY DEF VerificationRows, ByNumber, Scanned
<1> HIDE DEF rows, key, ids
<1>6. /\ n \in Nat
      /\ rows \in [1..n -> ids]
      /\ \A k, l \in 1..n : k # l => rows[k] # rows[l]
      /\ \A k, l \in 1..n : k < l => key[rows[k]] <= key[rows[l]]
      /\ \A i \in ids : \E k \in 1..n : rows[k] = i
  BY <1>3, <1>4, <1>5, OrderedLists
<1>7. \A k, l \in 1..n : k < l =>
        record[rows[k]].sequence_number <= record[rows[l]].sequence_number
  BY <1>4, <1>6
<1>8. rows \in Seq(Ids) /\ Len(rows) = n /\ DOMAIN rows = 1..n
  <2>1. rows \in [1..n -> Ids]
    BY <1>4, <1>6
  <2> HIDE DEF n
  <2>2. QED
    BY <1>6, <2>1
<1>9. QED
  BY <1>4, <1>6, <1>7, <1>8 DEF rows, ids

\* Where a scan stops: after its last row if all are good, and otherwise
\* before the first that is not.
LEMMA ScanStops ==
    ASSUME TypeOK, NEW vf
    PROVE  LET rows == VerificationRows(vf.project, vf.max)
               good(k) == RowIsGood(rows[k], k, PreviousHash(rows, k))
               r == Scan(vf)
           IN /\ r.verified \in BOOLEAN
              /\ r.total = vf.total
              /\ r.checked \in Nat /\ r.checked <= Len(rows)
              /\ r.head \in Hash
              /\ r.seen = [k \in DOMAIN rows |-> PayloadHash(rows[k], decision[rows[k]])]
              /\ r.seen \in Seq(Payload) /\ Len(r.seen) = Len(rows)
              /\ r.verified <=>
                   /\ \A k \in 1..Len(rows) : good(k)
                   /\ vf.expected = << >> \/ \E k \in 1..Len(rows) :
                                         record[rows[k]].record_hash = vf.expected
              /\ (\A k \in 1..Len(rows) : good(k)) =>
                   r.checked = Len(rows) /\ r.head = PreviousHash(rows, Len(rows) + 1)
<1> DEFINE rows == VerificationRows(vf.project, vf.max)
           ids == Scanned(vf.project, vf.max)
           n == Len(rows)
           bad == {k \in DOMAIN rows : ~RowIsGood(rows[k], k, PreviousHash(rows, k))}
           checked == IF bad = {} THEN n ELSE Min(bad) - 1
           passed == {record[rows[k]].record_hash : k \in 1..checked}
           head == IF bad = {} THEN PreviousHash(rows, checked + 1) ELSE << >>
           seen == [k \in DOMAIN rows |-> PayloadHash(rows[k], decision[rows[k]])]
           r == Scan(vf)
<1>1. /\ r.verified = (bad = {} /\ vf.expected \in passed \cup {<< >>})
      /\ r.total = vf.total /\ r.checked = checked
      /\ r.head = head /\ r.seen = seen
  BY DEF Scan
<1> HIDE DEF r
<1>2. /\ n \in Nat /\ DOMAIN rows = 1..n /\ rows \in [1..n -> ids]
      /\ \A k \in 1..n : /\ rows[k] \in Ids /\ decision[rows[k]] \in Decision
                         /\ record[rows[k]].record_hash \in Hash
  BY ScanReads
<1> HIDE DEF rows
<1>3. bad = {} <=> \A k \in 1..n : RowIsGood(rows[k], k, PreviousHash(rows, k))
  BY <1>2
<1>4. checked \in 0..n
  <2>1. CASE bad = {}
    BY <1>2, <2>1
  <2>2. CASE bad # {}
    <3>1. bad \in SUBSET Nat /\ \A k \in bad : k \in 1..n
      BY <1>2
    <3> HIDE DEF bad
    <3>2. \E k \in bad : \A l \in bad : k <= l
      BY <2>2, <3>1, LeastNumber
    <3>3. Min(bad) \in bad
      BY <3>2 DEF Min
    <3>4. checked = Min(bad) - 1 /\ Min(bad) \in 1..n
      BY <2>2, <3>1, <3>3
    <3> HIDE DEF checked, n
    <3>5. QED
      BY <1>2, <3>4 DEF n
  <2>3. QED
    BY <2>1, <2>2
<1>5. head \in Hash
  <2>1. << >> \in Hash
    BY DEF Hash
  <2>2. CASE bad = {}
    <3>1. head = PreviousHash(rows, n + 1)
      BY <2>2
    <3>2. n = 0 => PreviousHash(rows, n + 1) = << >>
      BY DEF PreviousHash
    <3>3. n # 0 => PreviousHash(rows, n + 1) = record[rows[n]].record_hash
      BY <1>2 DEF PreviousHash
    <3>4. QED
      BY <1>2, <2>1, <3>1, <3>2, <3>3
  <2>3. QED
    BY <2>1, <2>2
<1>6. seen \in Seq(Payload) /\ Len(seen) = n
  <2>1. \A k \in 1..n : PayloadHash(rows[k], decision[rows[k]]) \in Payload
    BY <1>2 DEF PayloadHash, Payload
  <2>2. seen \in [1..n -> Payload]
    BY <1>2, <2>1
  <2> HIDE DEF seen
  <2>3. QED
    BY <1>2, <2>2
<1>7. r.verified <=>
        /\ \A k \in 1..n : RowIsGood(rows[k], k, PreviousHash(rows, k))
        /\ vf.expected = << >> \/ \E k \in 1..n : record[rows[k]].record_hash = vf.expected
  <2>1. CASE bad # {}
    BY <1>1, <1>3, <2>1
  <2>2. CASE bad = {}
    <3>1. passed = {record[rows[k]].record_hash : k \in 1..n}
      BY <2>2
    <3>2. vf.expected \in passed <=>
            \E k \in 1..n : record[rows[k]].record_hash = vf.expected
      BY <3>1
    <3> HIDE DEF bad, passed
    <3>3. QED
      BY <1>1, <1>3, <2>2, <3>2
  <2>3. QED
    BY <2>1, <2>2
<1>8. r.verified \in BOOLEAN
  <2> HIDE DEF bad, passed
  <2>1. QED
    BY <1>1
<1>9. bad = {} => checked = n /\ head = PreviousHash(rows, n + 1)
  OBVIOUS
<1>10. checked \in Nat /\ checked <= n
  <2> HIDE DEF checked
  <2>1. QED
    BY <1>2, <1>4
<1> HIDE DEF bad, checked, passed, head
<1>11. QED
  BY <1>1, <1>3, <1>10, <1>5, <1>6, <1>7, <1>8, <1>9 DEF r, rows

LEMMA StartsVerifyTyped ==
    ASSUME TypeInv, NEW v \in Verifiers, StartsVerify(v)
    PROVE  TypeInv'
<1>1. PICK p \in Projects : \E h \in Hash \cup Checkpoints(p) : StartVerify(v, p, h)
  BY DEF StartsVerify
<1>2. PICK h \in Hash \cup Checkpoints(p) : StartVerify(v, p, h)
  BY <1>1
<1>3. /\ record \in Rows /\ decision \in [Ids -> Decision \cup {None}]
      /\ issued \subseteq Projects \X Hash
  BY DEF TypeInv, TypeOK, Rows
<1>4. h \in Hash
  <2>1. << >> \in Hash
    BY DEF Hash
  <2>2. QED
    BY <1>3, <2>1 DEF Checkpoints
<1> DEFINE total == Cardinality(DecisionsOf(p, decision))
           records == Cardinality(RecordsOf(p, record))
           max == IF RecordsOf(p, record) = {} THEN 0 ELSE Max(Sequences(p, record))
           new == [NotVerifying EXCEPT
                     !.pc = "unmatched", !.project = p, !.expected = h,
                     !.total = total, !.records = records, !.max = max]
<1>5. total \in Nat /\ records \in Nat
  BY <1>3, RecordsTyped, DecisionsTyped
<1>6. max \in Nat
  <2>1. RecordsOf(p, record) # {} => Max(Sequences(p, record)) \in Nat
    BY <1>3, HeadExists, RecordsTyped
  <2>2. QED
    BY <2>1
<1>7. verifier' = [verifier EXCEPT ![v] = new]
  BY <1>2 DEF StartVerify
<1> HIDE DEF total, records, max
<1>8. new \in Verifier
  BY <1>4, <1>5, <1>6 DEF NotVerifying, Verifier
<1>9. UNCHANGED <<db, clock, call, starter, issued, faults>>
  BY <1>2 DEF StartVerify
<1> HIDE DEF new
<1>10. QED
  BY <1>7, <1>8, <1>9, VerifierTyped

LEMMA VerifyMatchingTyped ==
    ASSUME TypeInv, NEW v \in Verifiers, VerifyMatching(v)
    PROVE  TypeInv'
<1> DEFINE vf == verifier[v]
           report == [verified |-> FALSE, total |-> vf.total, checked |-> 0,
                      head |-> << >>, seen |-> << >>]
           new == IF vf.records # vf.total \/ Unmatched(vf.project) # {}
                  THEN [vf EXCEPT !.pc = "done", !.max = 0, !.records = 0,
                                  !.total = 0, !.report = report]
                  ELSE [vf EXCEPT !.pc = "scan"]
<1>1. vf \in Verifier
  BY DEF TypeInv, TypeOK
<1>2. report \in Report
  <2>1. << >> \in Hash /\ << >> \in Seq(Payload)
    BY DEF Hash
  <2>2. QED
    BY <1>1, <2>1 DEF Report, Verifier
<1>3. verifier' = [verifier EXCEPT ![v] = new]
  BY DEF VerifyMatching
<1> HIDE DEF report
<1>4. new \in Verifier
  BY <1>1, <1>2 DEF Verifier
<1>5. UNCHANGED <<db, clock, call, starter, issued, faults>>
  BY DEF VerifyMatching
<1> HIDE DEF new
<1>6. QED
  BY <1>3, <1>4, <1>5, VerifierTyped

LEMMA VerifyChainTyped ==
    ASSUME TypeInv, NEW v \in Verifiers, VerifyChain(v)
    PROVE  TypeInv'
<1> DEFINE vf == verifier[v]
           report == Scan(vf)
           new == [vf EXCEPT !.pc = "done", !.max = 0, !.records = 0, !.total = 0,
                             !.report = report]
<1>1. vf \in Verifier /\ TypeOK
  BY DEF TypeInv, TypeOK
<1>2. report \in Report
  <2>1. /\ report.verified \in BOOLEAN /\ report.total = vf.total
        /\ report.checked \in Nat /\ report.head \in Hash
        /\ report.seen \in Seq(Payload)
    <3> HIDE DEF vf
    <3>1. QED
      BY <1>1, ScanStops
  <2>2. report = [verified |-> report.verified, total |-> report.total,
                  checked |-> report.checked, head |-> report.head,
                  seen |-> report.seen]
    BY DEF Scan
  <2>3. vf.total \in Nat
    BY <1>1 DEF Verifier
  <2> HIDE DEF report
  <2>4. QED
    BY <2>1, <2>2, <2>3 DEF Report
<1>3. verifier' = [verifier EXCEPT ![v] = new]
  BY DEF VerifyChain
<1> HIDE DEF report
<1>4. new \in Verifier
  BY <1>1, <1>2 DEF Verifier
<1>5. UNCHANGED <<db, clock, call, starter, issued, faults>>
  BY DEF VerifyChain
<1> HIDE DEF new
<1>6. QED
  BY <1>3, <1>4, <1>5, VerifierTyped

-----------------------------------------------------------------------------
(* Writes outside the application                                          *)

\* Whatever is written around the application is still a row of its table.
LEMMA DatabaseWriteTyped ==
    ASSUME TypeInv, NEW n \in 1..MaxWrites, DatabaseWrite(n)
    PROVE  TypeInv'
<1>1. /\ record \in Rows /\ decision \in [Ids -> Decision \cup {None}]
      /\ rebuilt \in BOOLEAN
  BY DEF TypeInv, TypeOK, Rows
<1>2. /\ writes' = n
      /\ UNCHANGED <<idem, approvals, events, clock, call, verifier, starter, issued>>
  BY DEF DatabaseWrite
<1>3. /\ decision' \in [Ids -> Decision \cup {None}] /\ record' \in Rows
      /\ rebuilt' \in BOOLEAN
  <2>1. CASE AlterDecision
    <3>1. PICK i \in Ids, b \in Bodies :
            /\ decision[i] # None
            /\ decision' = [decision EXCEPT ![i].body = b]
      BY <2>1 DEF AlterDecision
    <3>2. [decision[i] EXCEPT !.body = b] \in Decision
      BY <1>1, <3>1 DEF Decision
    <3>3. decision' = [decision EXCEPT ![i] = [decision[i] EXCEPT !.body = b]]
      BY <3>1
    <3>4. decision' \in [Ids -> Decision \cup {None}]
      BY <1>1, <3>2, <3>3
    <3>5. QED
      BY <1>1, <2>1, <3>4 DEF AlterDecision
  <2>2. CASE DeleteRows
    <3>1. PICK i \in Ids :
            /\ decision' \in {decision, [decision EXCEPT ![i] = None]}
            /\ record' \in {record, [record EXCEPT ![i] = None]}
      BY <2>2 DEF DeleteRows
    <3>2. QED
      BY <1>1, <2>2, <3>1 DEF DeleteRows, Rows
  <2>3. CASE ReorderRecords
    <3>1. PICK i \in Ids, j \in Ids :
            /\ record[i] # None /\ record[j] # None /\ i # j
            /\ record' = [record EXCEPT
                 ![i].sequence_number = record[j].sequence_number,
                 ![j].sequence_number = record[i].sequence_number]
      BY <2>3 DEF ReorderRecords
    <3> DEFINE ri == [record[i] EXCEPT !.sequence_number = record[j].sequence_number]
               rj == [record[j] EXCEPT !.sequence_number = record[i].sequence_number]
    <3>2. ri \in Record /\ rj \in Record
      BY <1>1, <3>1 DEF Record, Rows
    <3>3. record' = [record EXCEPT ![i] = ri, ![j] = rj]
      BY <3>1
    <3>4. record' \in Rows
      BY <1>1, <3>2, <3>3 DEF Rows
    <3>5. QED
      BY <1>1, <2>3, <3>4 DEF ReorderRecords
  <2>4. CASE RebuildChain
    <3>1. PICK p \in Projects :
            record' = BackfillProofs({p}, decision,
              [i \in Ids |-> IF i \in RecordsOf(p, record) THEN None ELSE record[i]])
      BY <2>4 DEF RebuildChain
    <3> DEFINE rest == [i \in Ids |-> IF i \in RecordsOf(p, record) THEN None
                                      ELSE record[i]]
    <3>2. rest \in Rows
      BY <1>1 DEF Rows
    <3>3. record' = BackfillProofs({p}, decision, rest)
      BY <3>1
    <3> HIDE DEF rest
    <3>4. record' \in Rows
      BY <1>1, <3>2, <3>3, BackfillChains
    <3>5. QED
      BY <1>1, <2>4, <3>4 DEF RebuildChain
  <2>5. QED
    BY <2>1, <2>2, <2>3, <2>4 DEF DatabaseWrite
<1>4. writes' \in 0..MaxWrites
  BY <1>2, LedgerAssumption
<1>5. TypeOK'
  BY <1>2, <1>3, <1>4 DEF TypeInv, TypeOK, Rows
<1>6. QED
  BY <1>2, <1>5 DEF TypeInv, CallTyped

-----------------------------------------------------------------------------
(* The theorem                                                             *)

\* Every step preserves the types.
LEMMA StepTyped == TypeInv /\ [LedgerStep]_vars => TypeInv'
<1> SUFFICES ASSUME TypeInv, [LedgerStep]_vars PROVE TypeInv'
  OBVIOUS
<1>1. ASSUME NEW s \in Starters,
             CountDecisions(s) \/ CountRecords(s) \/ Backfill(s) \/ Stop(s)
      PROVE  TypeInv'
  BY <1>1, CountDecisionsTyped, CountRecordsTyped, BackfillTyped, StopTyped
<1>2. ASSUME NEW c \in Calls,
             Receive(c) \/ Fetch(c) \/ Evaluate(c) \/ Save(c) \/ Recover(c)
               \/ Fail(c)
      PROVE  TypeInv'
  BY <1>2, ReceiveTyped, FetchTyped, EvaluateTyped, SaveTyped, RecoverTyped,
     FailTyped
<1>3. ASSUME NEW v \in Verifiers,
             StartsVerify(v) \/ VerifyMatching(v) \/ VerifyChain(v)
      PROVE  TypeInv'
  BY <1>3, StartsVerifyTyped, VerifyMatchingTyped, VerifyChainTyped
<1>4. ASSUME NEW n \in 1..MaxWrites, DatabaseWrite(n) PROVE TypeInv'
  BY <1>4, DatabaseWriteTyped
<1>5. CASE UNCHANGED vars
  BY <1>5 DEF vars, db, faults, TypeInv, TypeOK, CallTyped
<1>6. QED
  BY <1>1, <1>2, <1>3, <1>4, <1>5 DEF LedgerStep

\* Types hold in every reachable state.
THEOREM TypeInvariance == Spec => []TypeInv
BY InitTyped, StepTyped, NextIsLedgerStep, PTL DEF Spec

\* Every row, call, verification and startup holds values of its type: in
\* particular a call that saves has a decision to save, a lookup that found a
\* record has a decision to fetch, and sequence numbers and the counts of a
\* report are natural numbers, whatever is written around the application.
THEOREM TypeCorrect == Spec => []TypeOK
<1>1. TypeInv => TypeOK
  BY DEF TypeInv
<1>2. QED
  BY <1>1, TypeInvariance, PTL

=============================================================================

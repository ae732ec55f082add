------------------------ MODULE DecisionLedgerProofs ------------------------
(***************************************************************************)
(* Proofs, for any sets of projects, calls, keys and requests, of what     *)
(* POST /v1/authorize promises about Idempotency-Key and about what one    *)
(* call stores.  The three properties rest on one inductive invariant,     *)
(* Core, which says what a call knows at each of its steps: the record it  *)
(* found, or collided with, is still there and still names a stored        *)
(* decision on the same request.                                           *)
(*                                                                         *)
(* The hash chain plays no part in it: the startup and verification steps  *)
(* leave the tables of Core alone.  The chain itself is model-checked.     *)
(***************************************************************************)
EXTENDS DecisionLedger, FiniteSetTheorems, TLAPS

-----------------------------------------------------------------------------
(* The inductive invariant                                                 *)

\* The tables and calls of the authorization path have their types.
AuthTypes ==
    /\ decision \in [Ids -> Decision \cup {None}]
    /\ idem \in [Projects \X Keys -> IdempotencyRecord \cup {None}]
    /\ call \in [Calls -> Call]
    /\ clock \in Nat

\* An idempotency record names a stored decision of its project on its request.
KeyNamesDecision ==
    \A p \in Projects, k \in Keys :
      LET rec == idem[<<p, k>>] IN
      rec # None => /\ decision[rec.decision_id] # None
                    /\ decision[rec.decision_id].project = p
                    /\ decision[rec.decision_id].body = rec.body

\* What a given answer says about the stored rows.
AnswerIsTrue(cl) ==
    LET rec == idem[<<cl.project, cl.key>>] IN
    /\ cl.answer.code \notin {"integrity_error", "missing_decision"}
    /\ cl.answer.code # "ok" => cl.answer.id = None
    /\ cl.answer.code = "ok" =>
         /\ cl.answer.id \in Ids
         /\ cl.answer.row # None
         /\ decision[cl.answer.id] = cl.answer.row
         /\ cl.answer.row.project = cl.project
         /\ cl.answer.row.body = cl.body
         /\ cl.key # None => rec # None /\ rec.decision_id = cl.answer.id
    /\ cl.answer.code = "conflict" =>
         cl.key # None /\ rec # None /\ rec.body # cl.body

\* What a call knows at each of its steps.
CallKnows(cl) ==
    LET rec == idem[<<cl.project, cl.key>>] IN
    /\ cl.pc # "idle" => cl.project \in Projects /\ cl.body \in Bodies
    /\ cl.pc = "done" <=> cl.answer # None
    /\ cl.pc = "fetch" => /\ cl.key # None /\ rec # None
                          /\ rec.decision_id = cl.found /\ rec.body = cl.body
    /\ cl.pc = "recover" => cl.key # None /\ rec # None
    /\ cl.pc = "save" => /\ cl.row # None
                         /\ cl.row.project = cl.project
                         /\ cl.row.body = cl.body
    /\ cl.answer # None => AnswerIsTrue(cl)

\* What call c has stored: all of it if its own decision is its answer, and
\* otherwise nothing.
Stored(c) ==
    LET cl == call[c]
        asks == decision[c] # None /\ decision[c].outcome = "REQUIRE_APPROVAL"
    IN /\ decision[c] # None <=> cl.answer # None /\ cl.answer.id = c
       /\ <<"authorization.created", c>> \in events <=> decision[c] # None
       /\ c \in approvals <=> asks
       /\ <<"approval.requested", c>> \in events <=> asks
       /\ decision[c] # None /\ cl.key # None =>
            idem[<<cl.project, cl.key>>] =
              [body |-> decision[c].body, decision_id |-> c]

Core ==
    /\ AuthTypes
    /\ KeyNamesDecision
    /\ \A c \in Calls : CallKnows(call[c])
    /\ \A c \in Calls : Stored(c)

AuthInv == writes \in Nat /\ (Genuine => Core)

-----------------------------------------------------------------------------
(* The initial state                                                       *)

\* No call has been made and no key used: the invariant holds initially.
LEMMA InitCore == Init => AuthInv
<1> SUFFICES ASSUME Init PROVE AuthInv
    OBVIOUS
<1>1. PICK old \in SUBSET Legacy, p \in Projects, b \in Bodies, o \in Outcomes :
        \E at \in [old -> 1..Cardinality(old)] :
           /\ decision = [i \in Ids |->
                IF i \in old
                THEN [project |-> p, body |-> b, outcome |-> o, at |-> at[i]]
                ELSE None]
           /\ clock = Cardinality(old)
    BY DEF Init
<1>2. PICK at \in [old -> 1..Cardinality(old)] :
           /\ decision = [i \in Ids |->
                IF i \in old
                THEN [project |-> p, body |-> b, outcome |-> o, at |-> at[i]]
                ELSE None]
           /\ clock = Cardinality(old)
    BY <1>1
<1>3. IsFiniteSet(old) /\ Cardinality(old) \in Nat
  <2>1. old \subseteq Ids
    BY DEF Ids
  <2> QED
    BY <2>1, LedgerAssumption, FS_Subset, FS_CardinalityType
<1>4. decision \in [Ids -> Decision \cup {None}]
    BY <1>2, <1>3 DEF Decision
<1>5. \A c \in Calls : decision[c] = None
    BY <1>2, LedgerAssumption DEF Ids
<1>6. AuthTypes
    BY <1>2, <1>3, <1>4 DEF Init, AuthTypes, NotCalled, Call, Key
<1>7. KeyNamesDecision
    BY DEF Init, KeyNamesDecision
<1>8. \A c \in Calls : CallKnows(call[c])
    BY DEF Init, CallKnows, NotCalled
<1>9. \A c \in Calls : Stored(c)
    BY <1>5 DEF Init, Stored, NotCalled
<1> QED
    BY <1>6, <1>7, <1>8, <1>9 DEF Init, AuthInv, Core

-----------------------------------------------------------------------------
(* Steps that change one call and no table                                 *)

\* A step that only moves call c to a state in which what it knows is true, and
\* does not answer with c's own decision, preserves Core.
LEMMA CallStep ==
    ASSUME Core, NEW c \in Calls, NEW new \in Call, CallKnows(new),
           decision[c] = None,
           new.answer # None => new.answer.id # c,
           call' = [call EXCEPT ![c] = new],
           clock' \in Nat,
           UNCHANGED <<decision, idem, approvals, events>>
    PROVE  Core'
<1>1. AuthTypes'
    BY DEF Core, AuthTypes
<1>2. KeyNamesDecision'
    BY DEF Core, KeyNamesDecision
<1>3. ASSUME NEW d \in Calls PROVE CallKnows(call[d])'
  <2>1. call'[d] = IF d = c THEN new ELSE call[d]
    BY DEF Core, AuthTypes
  <2>2. CallKnows(call'[d])
    BY <2>1 DEF Core
  <2> QED
    BY <2>2 DEF CallKnows, AnswerIsTrue
<1>4. ASSUME NEW d \in Calls PROVE Stored(d)'
  <2>1. call'[d] = IF d = c THEN new ELSE call[d]
    BY DEF Core, AuthTypes
  <2>2. Stored(d)
    BY DEF Core
  <2>3. CASE d = c
    <3>1. call'[c] = new
      BY <2>1, <2>3
    <3> QED
      BY <2>2, <2>3, <3>1 DEF Stored
  <2>4. CASE d # c
    <3>1. call'[d] = call[d]
      BY <2>1, <2>4
    <3> QED
      BY <2>2, <3>1 DEF Stored
  <2> QED
    BY <2>3, <2>4
<1> QED
    BY <1>1, <1>2, <1>3, <1>4 DEF Core

\* A call that has not been answered has stored nothing.
LEMMA UnansweredStoresNothing ==
    ASSUME Core, NEW c \in Calls, call[c].pc # "done"
    PROVE  decision[c] = None
<1>1. call[c].answer = None
    BY DEF Core, CallKnows
<1> QED
    BY <1>1 DEF Core, Stored

\* A call ended without a decision is well formed.
LEMMA RefusedType ==
    ASSUME NEW cl \in Call, NEW code \in Codes
    PROVE  /\ Refused(cl, code) \in Call
           /\ Refused(cl, code).pc = "done"
           /\ Refused(cl, code).answer =
                [code |-> code, id |-> None, row |-> None]
           /\ Refused(cl, code).answer # None
           /\ Refused(cl, code).project = cl.project
           /\ Refused(cl, code).key = cl.key
           /\ Refused(cl, code).body = cl.body
<1>1. [code |-> code, id |-> None, row |-> None] \in Answer
    BY DEF Answer
<1> QED
    BY <1>1, LedgerAssumption DEF Refused, Ended, Call

\* What the lookup of a key establishes: with no record the call is the one
\* given, and otherwise the call knows the record it found.
LEMMA LookupKnows ==
    ASSUME Core, NEW cl \in Call, NEW absent,
           cl.project \in Projects, cl.body \in Bodies, cl.key \in Keys,
           cl.answer = None,
           idem[<<cl.project, cl.key>>] # None
    PROVE  /\ Lookup(cl, absent) \in Call
           /\ CallKnows(Lookup(cl, absent))
           /\ Lookup(cl, absent).answer # None => Lookup(cl, absent).answer.id = None
<1> DEFINE rec == idem[<<cl.project, cl.key>>]
<1>1. rec \in IdempotencyRecord
    BY DEF Core, AuthTypes
<1>2. cl.key # None
    BY LedgerAssumption
<1>3. CASE rec.body # cl.body
  <2>1. Lookup(cl, absent) = Refused(cl, "conflict")
    BY <1>3 DEF Lookup
  <2> DEFINE r == Refused(cl, "conflict")
  <2>2. /\ r \in Call /\ r.pc = "done" /\ r.answer # None
        /\ r.answer = [code |-> "conflict", id |-> None, row |-> None]
        /\ r.project = cl.project /\ r.key = cl.key /\ r.body = cl.body
    BY RefusedType, "conflict" \in Codes DEF Codes
  <2>3. CallKnows(r)
    <3> HIDE DEF r
    <3> QED
      BY <1>2, <1>3, <2>2 DEF CallKnows, AnswerIsTrue
  <2> QED
    BY <2>1, <2>2, <2>3
<1>4. CASE rec.body = cl.body
  <2>1. Lookup(cl, absent) = [cl EXCEPT !.pc = "fetch", !.found = rec.decision_id]
    BY <1>4 DEF Lookup
  <2>2. [cl EXCEPT !.pc = "fetch", !.found = rec.decision_id] \in Call
    BY <1>1 DEF Call, IdempotencyRecord
  <2>3. CallKnows([cl EXCEPT !.pc = "fetch", !.found = rec.decision_id])
    BY <1>1, <1>2, <1>4 DEF CallKnows, Call
  <2> QED
    BY <2>1, <2>2, <2>3 DEF Call
<1> QED
    BY <1>3, <1>4

\* Ending a call without a decision preserves Core, for every refusal other
\* than a conflict and the two that must not happen.
LEMMA RefusalStep ==
    ASSUME Core, NEW c \in Calls, NEW code \in {"invalid_context", "failed"},
           call[c].pc \in {"evaluate", "save"},
           call' = [call EXCEPT ![c] = Refused(@, code)],
           UNCHANGED <<decision, idem, approvals, events, clock>>
    PROVE  Core'
<1> DEFINE r == Refused(call[c], code)
<1>1. call[c] \in Call /\ CallKnows(call[c])
    BY DEF Core, AuthTypes
<1>2. /\ r \in Call /\ r.pc = "done" /\ r.answer # None
      /\ r.answer = [code |-> code, id |-> None, row |-> None]
      /\ r.project = call[c].project /\ r.key = call[c].key
      /\ r.body = call[c].body
    BY <1>1, RefusedType, code \in Codes DEF Codes
<1>3. call' = [call EXCEPT ![c] = r]
    OBVIOUS
<1>4. decision[c] = None
    BY UnansweredStoresNothing
<1>5. r.answer.id # c
    BY <1>2, LedgerAssumption DEF Ids
<1> HIDE DEF r
<1>6. CallKnows(r)
    BY <1>1, <1>2 DEF CallKnows, AnswerIsTrue
<1>7. clock' \in Nat
    BY DEF Core, AuthTypes
<1> QED
    BY <1>2, <1>3, <1>4, <1>5, <1>6, <1>7, CallStep

\* Receive: the first lookup, or none without a key.
LEMMA ReceiveStep ==
    ASSUME Core, NEW c \in Calls, Receive(c)
    PROVE  Core'
<1>1. PICK p \in Projects, k \in Key, b \in Bodies :
        LET cl == [NotCalled EXCEPT !.pc = "evaluate", !.project = p,
                                    !.key = k, !.body = b]
        IN call' = [call EXCEPT ![c] = IF k = None THEN cl ELSE Lookup(cl, cl)]
    BY DEF Receive
<1> DEFINE cl == [NotCalled EXCEPT !.pc = "evaluate", !.project = p,
                                   !.key = k, !.body = b]
           new == IF k = None THEN cl ELSE Lookup(cl, cl)
<1>2. /\ cl \in Call /\ cl.pc = "evaluate" /\ cl.project = p /\ cl.key = k
      /\ cl.body = b /\ cl.answer = None
    BY DEF NotCalled, Call, Key
<1>3. call' = [call EXCEPT ![c] = new]
    BY <1>1
<1>4. decision[c] = None
  <2>1. call[c].pc # "done"
    BY DEF Receive
  <2> QED
    BY <2>1, UnansweredStoresNothing
<1> HIDE DEF cl
<1>5. CallKnows(cl)
    BY <1>2 DEF CallKnows
<1>6. new \in Call /\ CallKnows(new) /\ (new.answer # None => new.answer.id = None)
  <2>1. CASE k = None \/ idem[<<p, k>>] = None
    <3>1. new = cl
      BY <1>2, <2>1 DEF Lookup
    <3> QED
      BY <1>2, <1>5, <3>1
  <2>2. CASE k # None /\ idem[<<p, k>>] # None
    <3>1. cl.key \in Keys
      BY <1>2, <2>2 DEF Key
    <3>2. new = Lookup(cl, cl)
      BY <2>2
    <3> HIDE DEF new
    <3> QED
      BY <1>2, <2>2, <3>1, <3>2, LookupKnows
  <2> QED
    BY <2>1, <2>2
<1>7. new.answer # None => new.answer.id # c
    BY <1>6, LedgerAssumption DEF Ids
<1>8. clock' \in Nat /\ UNCHANGED <<decision, idem, approvals, events>>
    BY DEF Receive, db, Core, AuthTypes
<1> HIDE DEF new
<1> QED
    BY <1>3, <1>4, <1>6, <1>7, <1>8, CallStep

\* Recover: the record a call collided with is still there.
LEMMA RecoverStep ==
    ASSUME Core, NEW c \in Calls, Recover(c)
    PROVE  Core'
<1> DEFINE new == Lookup(call[c], Refused(call[c], "integrity_error"))
<1>1. /\ call[c] \in Call /\ CallKnows(call[c]) /\ call[c].pc = "recover"
    BY DEF Core, AuthTypes, Recover
<1>2. /\ call[c].project \in Projects /\ call[c].body \in Bodies
      /\ call[c].answer = None
      /\ call[c].key # None /\ idem[<<call[c].project, call[c].key>>] # None
    BY <1>1 DEF CallKnows
<1>3. call[c].key \in Keys
    BY <1>1, <1>2 DEF Call, Key
<1>4. new \in Call /\ CallKnows(new) /\ (new.answer # None => new.answer.id = None)
    BY <1>1, <1>2, <1>3, LookupKnows
<1>5. call' = [call EXCEPT ![c] = new]
    BY DEF Recover
<1>6. decision[c] = None
    BY <1>1, UnansweredStoresNothing
<1>7. new.answer # None => new.answer.id # c
    BY <1>4, LedgerAssumption DEF Ids
<1>8. clock' \in Nat /\ UNCHANGED <<decision, idem, approvals, events>>
    BY DEF Recover, db, Core, AuthTypes
<1> HIDE DEF new
<1> QED
    BY <1>4, <1>5, <1>6, <1>7, <1>8, CallStep

\* Fetch: the decision of the record found is stored, and it is another call's.
LEMMA FetchStep ==
    ASSUME Core, NEW c \in Calls, Fetch(c)
    PROVE  Core'
<1> DEFINE i == call[c].found
           new == Ended(call[c], "ok", i, decision[i])
           rec == idem[<<call[c].project, call[c].key>>]
<1>1. call[c] \in Call /\ CallKnows(call[c]) /\ call[c].pc = "fetch"
    BY DEF Core, AuthTypes, Fetch
<1>2. /\ call[c].project \in Projects /\ call[c].body \in Bodies
      /\ call[c].key # None /\ rec # None
      /\ rec.decision_id = i /\ rec.body = call[c].body
    BY <1>1 DEF CallKnows
<1>3. call[c].key \in Keys
    BY <1>1, <1>2 DEF Call, Key
<1>4. i \in Ids
  <2>1. rec \in IdempotencyRecord
    BY <1>2, <1>3 DEF Core, AuthTypes
  <2> QED
    BY <1>2, <2>1 DEF IdempotencyRecord
<1>5. /\ decision[i] # None /\ decision[i].project = call[c].project
      /\ decision[i].body = call[c].body
    BY <1>2, <1>3 DEF Core, KeyNamesDecision
<1>6. decision[i] \in Decision
    BY <1>4, <1>5 DEF Core, AuthTypes
<1>7. call' = [call EXCEPT ![c] = new]
    BY <1>5 DEF Fetch
<1>8. decision[c] = None
    BY <1>1, UnansweredStoresNothing
<1>9. i # c
    BY <1>5, <1>8
<1>10. [code |-> "ok", id |-> i, row |-> decision[i]] \in Answer
    BY <1>4, <1>6 DEF Answer, Codes
<1>11. /\ new \in Call /\ new.pc = "done" /\ new.answer # None
       /\ new.answer = [code |-> "ok", id |-> i, row |-> decision[i]]
       /\ new.project = call[c].project /\ new.key = call[c].key
       /\ new.body = call[c].body
    BY <1>1, <1>10, LedgerAssumption DEF Ended, Call
<1> HIDE DEF new
<1>12. CallKnows(new)
    BY <1>2, <1>4, <1>5, <1>11 DEF CallKnows, AnswerIsTrue
<1>13. clock' \in Nat /\ UNCHANGED <<decision, idem, approvals, events>>
    BY DEF Fetch, db, Core, AuthTypes
<1>14. new.answer.id # c
    BY <1>9, <1>11
<1> HIDE DEF i, rec
<1> QED
    BY <1>7, <1>8, <1>11, <1>12, <1>13, <1>14, CallStep

\* Evaluate: a refusal, or a decision on the call's own request to be saved.
LEMMA EvaluateStep ==
    ASSUME Core, NEW c \in Calls, Evaluate(c)
    PROVE  Core'
<1>1. call[c] \in Call /\ CallKnows(call[c]) /\ call[c].pc = "evaluate"
    BY DEF Core, AuthTypes, Evaluate
<1>2. UNCHANGED <<decision, idem, approvals, events>>
    BY DEF Evaluate, db
<1>3. CASE call' = [call EXCEPT ![c] = Refused(@, "invalid_context")] /\ UNCHANGED clock
    BY <1>1, <1>2, <1>3, RefusalStep
<1>4. ASSUME NEW o \in Outcomes, clock' = clock + 1,
             call' = [call EXCEPT ![c] =
                 [@ EXCEPT !.pc = "save",
                           !.row = [project |-> call[c].project,
                                    body |-> call[c].body,
                                    outcome |-> o, at |-> clock + 1]]]
      PROVE  Core'
  <2> DEFINE row == [project |-> call[c].project, body |-> call[c].body,
                     outcome |-> o, at |-> clock + 1]
             new == [call[c] EXCEPT !.pc = "save", !.row = row]
  <2>1. /\ call[c].project \in Projects /\ call[c].body \in Bodies
        /\ call[c].answer = None
    BY <1>1 DEF CallKnows
  <2>2. clock' \in Nat /\ clock + 1 \in Nat
    BY <1>4 DEF Core, AuthTypes
  <2>3. row \in Decision /\ row # None
    BY <2>1, <2>2, LedgerAssumption DEF Decision
  <2>4. /\ new \in Call /\ new.pc = "save" /\ new.row = row
        /\ new.project = call[c].project /\ new.key = call[c].key
        /\ new.body = call[c].body /\ new.answer = None
    BY <1>1, <2>1, <2>3 DEF Call
  <2>5. call' = [call EXCEPT ![c] = new]
    BY <1>4
  <2>6. decision[c] = None
    BY <1>1, UnansweredStoresNothing
  <2>7. row.project = call[c].project /\ row.body = call[c].body
    OBVIOUS
  <2> HIDE DEF new, row
  <2>8. CallKnows(new)
    BY <2>1, <2>3, <2>4, <2>7 DEF CallKnows
  <2> QED
    BY <1>2, <2>2, <2>4, <2>5, <2>6, <2>8, CallStep
<1> QED
    BY <1>3, <1>4 DEF Evaluate

\* Storing a decision changes no stored decision and no taken key, so what the
\* other calls know stays true; the call itself has stored all it answers for.
LEMMA CommitStep ==
    ASSUME Core, NEW c \in Calls, call[c].pc = "save", ~KeyTaken(call[c]),
           Commit(c), clock' = clock,
           call' = [call EXCEPT ![c] = Ended(@, "ok", c, call[c].row)]
    PROVE  Core'
<1> DEFINE cl == call[c]
           row == call[c].row
           new == Ended(call[c], "ok", c, row)
           pk == <<call[c].project, call[c].key>>
           mine == [body |-> call[c].body, decision_id |-> c]
<1>1. cl \in Call /\ CallKnows(cl)
    BY DEF Core, AuthTypes
<1>2. /\ cl.project \in Projects /\ cl.body \in Bodies /\ cl.answer = None
      /\ row # None /\ row.project = cl.project /\ row.body = cl.body
    BY <1>1 DEF CallKnows
<1>3. row \in Decision /\ c \in Ids
    BY <1>1, <1>2 DEF Call, Ids
<1>4. decision[c] = None
    BY UnansweredStoresNothing
<1>5. mine \in IdempotencyRecord /\ mine # None
    BY <1>2, <1>3, LedgerAssumption DEF IdempotencyRecord
<1>6. cl.key # None => pk \in Projects \X Keys /\ idem[pk] = None
    BY <1>1, <1>2 DEF Call, Key, KeyTaken
<1>7. [code |-> "ok", id |-> c, row |-> row] \in Answer
    BY <1>3 DEF Answer, Codes
<1>8. /\ new \in Call /\ new.pc = "done" /\ new.answer # None
      /\ new.answer = [code |-> "ok", id |-> c, row |-> row]
      /\ new.project = cl.project /\ new.key = cl.key /\ new.body = cl.body
    BY <1>1, <1>7, LedgerAssumption DEF Ended, Call
<1>9. /\ decision' = [decision EXCEPT ![c] = row]
      /\ idem' = IF cl.key = None THEN idem ELSE [idem EXCEPT ![pk] = mine]
      /\ call' = [call EXCEPT ![c] = new]
      /\ clock' = clock
    BY DEF Commit
<1> HIDE DEF new, mine
<1>10. AuthTypes'
    BY <1>3, <1>5, <1>6, <1>8, <1>9 DEF Core, AuthTypes
<1>11. /\ decision'[c] = row
       /\ \A j \in Ids : j # c => decision'[j] = decision[j]
       /\ \A j \in Ids : decision[j] # None => decision'[j] = decision[j]
    BY <1>3, <1>4, <1>9 DEF Core, AuthTypes
<1>12. /\ cl.key # None => idem'[pk] = mine
       /\ \A q \in Projects \X Keys : idem[q] # None => idem'[q] = idem[q]
       /\ \A q \in Projects \X Keys :
            idem'[q] = idem[q] \/ (cl.key # None /\ q = pk /\ idem'[q] = mine)
    BY <1>6, <1>9 DEF Core, AuthTypes
<1>13. call'[c] = new /\ \A d \in Calls : d # c => call'[d] = call[d]
    BY <1>9 DEF Core, AuthTypes
<1>14. mine.decision_id = c /\ mine.body = cl.body
    BY DEF mine
<1>15. KeyNamesDecision'
  <2> SUFFICES ASSUME NEW p \in Projects, NEW k \in Keys, idem'[<<p, k>>] # None
               PROVE  /\ decision'[idem'[<<p, k>>].decision_id] # None
                      /\ decision'[idem'[<<p, k>>].decision_id].project = p
                      /\ decision'[idem'[<<p, k>>].decision_id].body
                           = idem'[<<p, k>>].body
    BY DEF KeyNamesDecision
  <2>1. CASE idem'[<<p, k>>] = idem[<<p, k>>]
    <3>1. idem[<<p, k>>] \in IdempotencyRecord
      BY <2>1 DEF Core, AuthTypes
    <3>2. idem[<<p, k>>].decision_id \in Ids
      BY <3>1 DEF IdempotencyRecord
    <3> QED
      BY <1>11, <2>1, <3>2 DEF Core, KeyNamesDecision
  <2>2. CASE <<p, k>> = pk /\ idem'[<<p, k>>] = mine
    BY <1>2, <1>11, <1>14, <2>2
  <2> QED
    BY <1>12, <2>1, <2>2
<1>16. ASSUME NEW d \in Calls, d # c PROVE CallKnows(call[d])' /\ Stored(d)'
  <2> DEFINE qk == <<call[d].project, call[d].key>>
  <2>1. call'[d] = call[d] /\ call[d] \in Call /\ CallKnows(call[d]) /\ Stored(d)
    BY <1>13, <1>16 DEF Core, AuthTypes
  <2>2. call[d].pc # "idle" /\ call[d].key # None => qk \in Projects \X Keys
    BY <2>1 DEF Call, Key, CallKnows
  <2>3. call[d].pc # "idle" /\ call[d].key # None /\ idem[qk] # None
          => idem'[qk] = idem[qk]
    BY <1>12, <2>2
  <2>4. CallKnows(call[d])'
    <3>1. call[d].answer # None => AnswerIsTrue(call[d])'
      <4>1. SUFFICES ASSUME call[d].answer # None
                     PROVE  AnswerIsTrue(call[d])'
        OBVIOUS
      <4>2. call[d].pc = "done" /\ AnswerIsTrue(call[d])
        BY <2>1, <4>1 DEF CallKnows
      <4> QED
        BY <1>11, <2>1, <2>3, <4>2 DEF AnswerIsTrue
    <3> QED
      BY <2>1, <2>3, <3>1 DEF CallKnows
  <2>5. decision'[d] = decision[d]
    BY <1>11, <1>16 DEF Ids
  <2>6. /\ <<"authorization.created", d>> \in events'
             <=> <<"authorization.created", d>> \in events
        /\ <<"approval.requested", d>> \in events'
             <=> <<"approval.requested", d>> \in events
        /\ d \in approvals' <=> d \in approvals
    BY <1>16 DEF Commit
  <2>7. decision[d] # None /\ call[d].key # None => idem'[qk] = idem[qk]
    <3>1. SUFFICES ASSUME decision[d] # None, call[d].key # None
                   PROVE  idem'[qk] = idem[qk]
      OBVIOUS
    <3>2. call[d].answer # None /\ call[d].answer.id = d
      BY <2>1, <3>1 DEF Stored
    <3>3. call[d].pc = "done" /\ AnswerIsTrue(call[d]) /\ d # None
      BY <2>1, <3>2, LedgerAssumption DEF CallKnows, Ids
    <3>4. idem[qk] # None
      BY <3>1, <3>2, <3>3, <2>1 DEF AnswerIsTrue, Answer, Call, Codes
    <3> QED
      BY <2>3, <3>1, <3>3, <3>4
  <2>8. Stored(d)'
    BY <2>1, <2>5, <2>6, <2>7 DEF Stored
  <2> QED
    BY <2>4, <2>8
<1>17. CallKnows(call[c])'
  <2>1. AnswerIsTrue(call[c])'
    BY <1>2, <1>3, <1>5, <1>8, <1>11, <1>12, <1>13, <1>14 DEF AnswerIsTrue
  <2> QED
    BY <1>2, <1>8, <1>13, <2>1 DEF CallKnows
<1>18. Stored(c)'
  <2>1. c \notin approvals /\ <<"approval.requested", c>> \notin events
    BY <1>4 DEF Core, Stored
  <2>2. /\ <<"authorization.created", c>> \in events'
        /\ c \in approvals' <=> row.outcome = "REQUIRE_APPROVAL"
        /\ <<"approval.requested", c>> \in events'
             <=> row.outcome = "REQUIRE_APPROVAL"
    BY <2>1 DEF Commit
  <2>3. mine = [body |-> row.body, decision_id |-> c]
    BY <1>2 DEF mine
  <2> QED
    BY <1>2, <1>8, <1>11, <1>12, <1>13, <2>2, <2>3 DEF Stored
<1> QED
    BY <1>10, <1>15, <1>16, <1>17, <1>18 DEF Core

\* Save: the transaction commits, or the UNIQUE key sends the call to recover.
LEMMA SaveStep ==
    ASSUME Core, NEW c \in Calls, Save(c)
    PROVE  Core'
<1>1. call[c] \in Call /\ CallKnows(call[c]) /\ call[c].pc = "save"
    BY DEF Core, AuthTypes, Save
<1>2. CASE ~KeyTaken(call[c])
  <2>1. /\ Commit(c) /\ clock' = clock
        /\ call' = [call EXCEPT ![c] = Ended(@, "ok", c, call[c].row)]
    BY <1>2 DEF Save
  <2> QED
    BY <1>1, <1>2, <2>1, CommitStep
<1>3. CASE KeyTaken(call[c])
  <2> DEFINE new == [call[c] EXCEPT !.pc = "recover"]
  <2>1. /\ call' = [call EXCEPT ![c] = new]
        /\ UNCHANGED <<decision, idem, approvals, events, clock>>
    BY <1>3 DEF Save, db
  <2>2. /\ call[c].project \in Projects /\ call[c].body \in Bodies
        /\ call[c].answer = None
    BY <1>1 DEF CallKnows
  <2>3. /\ new \in Call /\ new.pc = "recover" /\ new.answer = None
        /\ new.project = call[c].project /\ new.key = call[c].key
        /\ new.body = call[c].body
    BY <1>1, <2>2 DEF Call
  <2> HIDE DEF new
  <2>4. CallKnows(new)
    BY <1>3, <2>2, <2>3 DEF CallKnows, KeyTaken
  <2>5. decision[c] = None
    BY <1>1, UnansweredStoresNothing
  <2>6. clock' \in Nat
    BY <2>1 DEF Core, AuthTypes
  <2> QED
    BY <2>1, <2>3, <2>4, <2>5, <2>6, CallStep
<1> QED
    BY <1>2, <1>3

-----------------------------------------------------------------------------
(* The invariant and the theorems                                          *)

\* Startup and verification leave the authorization path alone.
LEMMA OtherStep ==
    ASSUME Core, UNCHANGED <<decision, idem, approvals, events, clock, call>>
    PROVE  Core'
<1>1. AuthTypes' /\ KeyNamesDecision'
    BY DEF Core, AuthTypes, KeyNamesDecision
<1>2. ASSUME NEW c \in Calls PROVE CallKnows(call[c])' /\ Stored(c)'
  <2>1. CallKnows(call[c]) /\ Stored(c) /\ call'[c] = call[c]
    BY DEF Core
  <2>2. CallKnows(call[c])'
    BY <2>1 DEF CallKnows, AnswerIsTrue
  <2> QED
    BY <2>1, <2>2 DEF Stored
<1> QED
    BY <1>1, <1>2 DEF Core

\* A verification may be started for any hash, as an export does for a head it
\* has read: it is one the application returned if nobody else wrote.
StartsVerify(v) ==
    \E p \in Projects : \E h \in Hash \cup Checkpoints(p) :
      Serving /\ (Genuine => h \in Checkpoints(p)) /\ StartVerify(v, p, h)

\* A step of the ledger, whoever starts the verifications.
LedgerStep ==
    \/ \E s \in Starters :
         CountDecisions(s) \/ CountRecords(s) \/ Backfill(s) \/ Stop(s)
    \/ \E c \in Calls :
         Receive(c) \/ Fetch(c) \/ Evaluate(c) \/ Save(c) \/ Recover(c) \/ Fail(c)
    \/ \E v \in Verifiers :
         StartsVerify(v) \/ VerifyMatching(v) \/ VerifyChain(v)
    \/ \E n \in 1..MaxWrites : DatabaseWrite(n)

\* The verify route is one way to start a verification.
LEMMA NextIsLedgerStep == [Next]_vars => [LedgerStep]_vars
<1>1. ASSUME NEW v \in Verifiers, VerifyCounts(v) PROVE StartsVerify(v)
    BY <1>1 DEF VerifyCounts, StartsVerify
<1> QED
    BY <1>1 DEF Next, LedgerStep

\* Every step of the application preserves the invariant; a write outside it
\* ends the assumption the invariant is stated under.
LEMMA StepCore == AuthInv /\ [LedgerStep]_vars => AuthInv'
<1> SUFFICES ASSUME AuthInv, [LedgerStep]_vars PROVE AuthInv'
    OBVIOUS
<1>1. CASE \E n \in 1..MaxWrites : DatabaseWrite(n)
    BY <1>1 DEF DatabaseWrite, AuthInv, Genuine
<1>2. ASSUME writes' = writes, Core => Core' PROVE AuthInv'
    BY <1>2 DEF AuthInv, Genuine
<1>3. ASSUME NEW s \in Starters,
             CountDecisions(s) \/ CountRecords(s) \/ Backfill(s) \/ Stop(s)
      PROVE  AuthInv'
  <2>1. UNCHANGED <<decision, idem, approvals, events, clock, call, writes>>
    BY <1>3 DEF CountDecisions, CountRecords, Backfill, Stop, db, faults
  <2> QED
    BY <1>2, <2>1, OtherStep
<1>4. ASSUME NEW v \in Verifiers,
             StartsVerify(v) \/ VerifyMatching(v) \/ VerifyChain(v)
      PROVE  AuthInv'
  <2>1. UNCHANGED <<decision, idem, approvals, events, clock, call, writes>>
    BY <1>4 DEF StartsVerify, StartVerify, VerifyMatching, VerifyChain, db, faults
  <2> QED
    BY <1>2, <2>1, OtherStep
<1>5. ASSUME NEW c \in Calls,
             Receive(c) \/ Fetch(c) \/ Evaluate(c) \/ Save(c) \/ Recover(c)
               \/ Fail(c)
      PROVE  AuthInv'
  <2>1. writes' = writes
    BY <1>5 DEF Receive, Fetch, Evaluate, Save, Recover, Fail, faults
  <2>2. ASSUME Core, Fail(c) PROVE Core'
    <3>1. /\ call[c].pc = "save"
          /\ call' = [call EXCEPT ![c] = Refused(@, "failed")]
          /\ UNCHANGED <<decision, idem, approvals, events, clock>>
      BY <2>2 DEF Fail, db
    <3> QED
      BY <2>2, <3>1, RefusalStep
  <2> QED
    BY <1>2, <1>5, <2>1, <2>2, ReceiveStep, FetchStep, EvaluateStep, SaveStep,
       RecoverStep
<1>6. CASE UNCHANGED vars
    BY <1>2, <1>6, OtherStep DEF vars, db, faults
<1> QED
    BY <1>1, <1>3, <1>4, <1>5, <1>6 DEF LedgerStep

\* The invariant holds in every reachable state.
THEOREM AuthInvariance == Spec => []AuthInv
<1> QED
    BY InitCore, StepCore, NextIsLedgerStep, PTL DEF Spec

\* What the invariant says.
LEMMA AuthPromises ==
    AuthInv => IdempotentAnswers /\ OneTransaction /\ RefusalsAreReal
<1>1. AuthInv => IdempotentAnswers
  <2> SUFFICES ASSUME Core, NEW c \in Calls, NEW d \in Calls, Answered(c)
               PROVE  /\ call[c].answer.row.body = call[c].body
                      /\ call[c].answer.row.project = call[c].project
                      /\ (Answered(d) /\ call[c].key # None
                            /\ call[d].key = call[c].key
                            /\ call[d].project = call[c].project)
                           => call[d].answer = call[c].answer
    BY DEF AuthInv, IdempotentAnswers
  <2>1. AnswerIsTrue(call[c]) /\ (Answered(d) => AnswerIsTrue(call[d]))
    BY DEF Core, CallKnows, Answered
  <2>2. /\ call[c].answer \in Answer
        /\ Answered(d) => call[d].answer \in Answer
    BY DEF Core, AuthTypes, Call, Answered
  <2>3. ASSUME Answered(d), call[c].key # None, call[d].key = call[c].key,
               call[d].project = call[c].project
        PROVE  call[d].answer = call[c].answer
    <3>1. /\ call[d].answer.id = call[c].answer.id
          /\ call[d].answer.code = call[c].answer.code
          /\ call[d].answer.row = call[c].answer.row
      BY <2>1, <2>3 DEF AnswerIsTrue, Answered
    <3> QED
      BY <2>2, <2>3, <3>1 DEF Answer
  <2> QED
    BY <2>1, <2>3 DEF AnswerIsTrue, Answered
<1>2. AuthInv => OneTransaction
    BY DEF AuthInv, Core, Stored, OneTransaction
<1>3. AuthInv => RefusalsAreReal
  <2> SUFFICES ASSUME Core, NEW c \in Calls, call[c].answer # None
               PROVE  /\ call[c].answer.code
                           \notin {"integrity_error", "missing_decision"}
                      /\ call[c].answer.code = "conflict" =>
                           /\ call[c].key # None
                           /\ idem[<<call[c].project, call[c].key>>] # None
                           /\ decision[idem[<<call[c].project, call[c].key>>]
                                         .decision_id].body # call[c].body
    BY DEF AuthInv, RefusalsAreReal
  <2>1. /\ AnswerIsTrue(call[c]) /\ call[c].project \in Projects
        /\ call[c].key \in Keys \cup {None}
    BY DEF Core, AuthTypes, Call, Key, CallKnows
  <2> QED
    BY <2>1 DEF AnswerIsTrue, Core, KeyNamesDecision
<1> QED
    BY <1>1, <1>2, <1>3

\* Idempotency: for any number of concurrent calls, retries and keys, every 200
\* answer decides the request that was made, and all 200 answers of a project
\* for one key carry the same decision.
THEOREM IdempotencyCorrect == Spec => []IdempotentAnswers
BY AuthPromises, AuthInvariance, PTL

\* Atomicity: a call's decision, approval, events and idempotency record are
\* stored together, by the call whose own decision is its answer, and a call
\* that lost the race for its key has stored none of them.
THEOREM TransactionCorrect == Spec => []OneTransaction
BY AuthPromises, AuthInvariance, PTL

\* Refusals: a 409 is given only for a key that a stored decision on another
\* request has taken, and the loser of a race always finds that decision.
THEOREM RefusalsCorrect == Spec => []RefusalsAreReal
BY AuthPromises, AuthInvariance, PTL

=============================================================================

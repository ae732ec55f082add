------------------------ MODULE ControlPlaneProofs ------------------------
(***************************************************************************)
(* Proofs about ControlPlane, for any projects, policies, keys, requests   *)
(* and processes.                                                          *)
(***************************************************************************)
EXTENDS ControlPlane, PolicyEngineProofs

\* The types of the tables, of the administrative requests and of the starting
\* processes.
TableTypes ==
    /\ PolicyTypeOK
    /\ key \in [Keys -> KeyRow \cup {None}]
    /\ starter \in [Starters -> Starter]

\* The version of an update or a rollback that was answered with 200.
Landed(a) ==
    \E r \in VersionsOf(admin[a].slot) :
      /\ r.version = admin[a].version /\ r.by = a /\ r.def = admin[a].def
      /\ r.change = "ROLLBACK" <=> admin[a].op = "rollback"

\* What an administrative request carries when it reaches a step.
AdminOK(a) ==
    LET req == admin[a] IN
    /\ req.slot # None <=> req.op \in {"configure", "rollback", "disable"}
    /\ req.op = "configure" => req.def \in Definitions /\ req.version > 0
    /\ req.op \in {"issue", "status", "revoke"} => req.project \in Projects
    /\ req.op = "status" => req.status \in {"ACTIVE", "DISABLED"}
    /\ req.op = "revoke" => req.key \in Keys
    /\ req.pc \in {"historical", "current"} => req.op = "rollback"
    /\ req.pc = "version" => req.op \in {"configure", "rollback"}
    /\ req.pc = "existing" => req.op = "disable"
    /\ req.code # None => req.pc = "done"
    /\ req.code # "integrity_error"
    /\ (req.op \in {"configure", "rollback"} /\ req.code = "ok") => Landed(a)
    /\ (req.op = "rollback" /\ req.pc \in {"version", "write", "done"}) =>
         req.version > 1
    /\ (req.op = "rollback" /\ req.pc \in {"current", "version", "write", "done"}) =>
         \E q \in VersionsOf(req.slot) : q.version = req.source /\ q.def = req.def
    /\ (req.op \in {"configure", "rollback"} /\ req.pc = "write") =>
         req.version = req.base + 1
    /\ (req.op = "disable" /\ req.pc = "write") => policy[req.slot] # None

AdminsOK == \A a \in Admins : AdminOK(a)

\* The history of a policy is gapless and reaches the configured version.
Complete(s) ==
    Gapless(s) /\ (policy[s] # None => HasVersion(s, policy[s].version))

\* Before the first process has initialized the database there is no history.
Historied ==
    \/ \A s \in Slots : Complete(s)
    \/ versions = {} /\ \A s \in Starters : starter[s].pc = "down"

\* A seed that still finds no row of the first template found none before.
SeedsOK ==
    \A s \in Starters :
      starter[s].pc = "seed_write" =>
        /\ DOMAIN Templates # {}
        /\ policy[<<Default, FirstTemplate>>] = None => starter[s].absent

\* A request that verified a revoked key holds a key that is revoked.
RequestOK(r) ==
    LET q == request[r] IN
    /\ DOMAIN q = DOMAIN NotSent /\ q.late \in BOOLEAN
    /\ q.pc \in {"idle", "kdf", "recheck"} => q.project = None
    /\ q.pc \in {"kdf", "recheck"} => q.key \in Keys /\ key[q.key] # None
    /\ (q.pc = "recheck" /\ q.late) => key[q.key].revoked
    /\ q.pc = "evaluate" => ~q.late
    /\ q.project # None => ~q.late

RequestsOK == DOMAIN request = Requests /\ \A r \in Requests : RequestOK(r)

Inv ==
    /\ TableTypes /\ AdminsOK /\ Historied /\ SeedsOK /\ EveryVersionAudited
    /\ RequestsOK

-----------------------------------------------------------------------------
(* Records                                                                 *)

LEMMA NoRequestType == NoRequest \in Admin
BY PolicyAssumption DEF NoRequest, Admin

\* An answer is well typed whatever it forgets.
LEMMA AnswerType ==
    ASSUME NEW req \in Admin, NEW code \in Codes
    PROVE  Answer(req, code) \in Admin
<1> DEFINE r1 == [req EXCEPT !.pc = "done", !.code = code, !.base = 0]
           r2 == [r1 EXCEPT !.previous = None, !.was = None]
<1>1. r1 \in Admin
  BY DEF Admin
<1>2. r2 \in Admin
  <2> HIDE DEF r1
  <2>1. QED
    BY <1>1 DEF Admin
<1>3. [NoRequest EXCEPT !.pc = "done", !.code = code] \in Admin
  BY DEF NoRequest, Admin
<1>4. QED
  BY <1>2, <1>3 DEF Answer

\* A smallest template exists.
LEMMA FirstIsTemplate == DOMAIN Templates # {} => FirstTemplate \in DOMAIN Templates
<1> SUFFICES ASSUME DOMAIN Templates # {}
             PROVE  FirstTemplate \in DOMAIN Templates
  OBVIOUS
<1>1. DOMAIN Templates \in SUBSET Nat
  BY PolicyAssumption
<1>2. QED
  BY <1>1, MinIsLeast DEF FirstTemplate

LEMMA ResourceTypes ==
    /\ \A s \in Slots : PolicyResource(s) \in Resources
    /\ \A p \in Projects : ProjectResource(p) \in Resources
    /\ \A k \in Keys : KeyResource(k) \in Resources
BY DEF Resources

LEMMA EventType ==
    ASSUME NEW by \in Admins \cup Starters, NEW action \in AuditActions,
           NEW resource \in Resources, NEW v \in Nat
    PROVE  Event(by, action, resource, v) \in AuditEvent
BY DEF Event, AuditEvent

LEMMA VersionType ==
    ASSUME NEW s \in Slots, NEW v \in Nat \ {0}, NEW def \in Definitions,
           NEW change \in {"CREATED", "UPDATED", "ROLLBACK", "MIGRATED"},
           NEW source \in Nat, NEW by \in Admins \cup Starters
    PROVE  VersionEntry(s, v, def, change, source, by) \in VersionRow
BY DEF VersionEntry, VersionRow

LEMMA TemplateSlots ==
    /\ \A p \in Projects, i \in DOMAIN Templates :
         <<p, i>> \in Slots /\ Templates[i] \in Definitions
    /\ Default \in Projects /\ ConfiguredKey \in Keys
BY PolicyAssumption, ControlPlaneAssumption DEF Slots

-----------------------------------------------------------------------------
(* Types                                                                   *)

LEMMA InitTypes == Init => TableTypes
<1> SUFFICES ASSUME Init PROVE TableTypes
  OBVIOUS
<1>1. project \in [Projects -> {None, "ACTIVE", "DISABLED"}]
  BY DEF Init
<1>2. policy \in [Slots -> Row \cup {None}]
  BY ControlPlaneAssumption DEF Init
<1>3. key \in [Keys -> KeyRow \cup {None}]
  BY ControlPlaneAssumption DEF Init, KeyRow
<1>4. admin \in [Admins -> Admin]
  BY NoRequestType DEF Init
<1>5. starter \in [Starters -> Starter]
  BY DEF Init, Down, Starter
<1>6. versions \subseteq VersionRow /\ audit \subseteq AuditEvent
        /\ changes \subseteq (Admins \cup Starters) \X Resources
  BY DEF Init
<1>7. QED
  BY <1>1, <1>2, <1>3, <1>4, <1>5, <1>6 DEF TableTypes, PolicyTypeOK

\* insert_seed creates well typed rows and versions.
LEMMA SeedTypes ==
    ASSUME PolicyTypeOK, NEW p \in Projects, NEW by \in Admins \cup Starters,
           SeedTemplates(p, DOMAIN Templates, by)
    PROVE  policy' \in [Slots -> Row \cup {None}] /\ versions' \subseteq VersionRow
<1>1. \A i \in DOMAIN Templates :
        /\ [version |-> 1, def |-> Templates[i], enabled |-> TRUE] \in Row
        /\ VersionEntry(<<p, i>>, 1, Templates[i], "CREATED", 0, by) \in VersionRow
  BY TemplateSlots, VersionType DEF Row
<1>2. Seeded(p, DOMAIN Templates) \subseteq DOMAIN Templates
  BY DEF Seeded
<1>3. policy' \in [Slots -> Row \cup {None}]
  BY <1>1, <1>2 DEF SeedTemplates, PolicyTypeOK
<1>4. QED
  BY <1>1, <1>2, <1>3 DEF SeedTemplates, PolicyTypeOK

LEMMA GotoType ==
    ASSUME TableTypes, NEW s \in Starters, NEW pc \in {"down", "lookup", "recheck",
             "project", "create", "enroll", "seed", "seed_write", "up", "failed"},
           Goto(s, pc)
    PROVE  starter' \in [Starters -> Starter] /\ starter'[s].pc = pc
BY DEF TableTypes, Goto, Down, Starter

LEMMA InsertKeyType ==
    ASSUME TableTypes, NEW k \in Keys, NEW p \in Projects,
           NEW role \in {"RUNTIME", "REVIEWER"}, InsertKey(k, p, role)
    PROVE  key' \in [Keys -> KeyRow \cup {None}]
<1>1. [project |-> p, role |-> role, revoked |-> FALSE] \in KeyRow
  BY DEF KeyRow
<1>2. QED
  BY <1>1 DEF TableTypes, InsertKey

LEMMA StartupTypes ==
    ASSUME TableTypes, SeedsOK, NEW s \in Starters, Startup(s)
    PROVE  TableTypes'
<1> USE DEF TableTypes, PolicyTypeOK
<1>1. CASE Initialize(s)
  <2>1. starter' \in [Starters -> Starter]
    BY <1>1, GotoType DEF Initialize
  <2>2. Backfilled(s) \subseteq VersionRow
    <3>1. \A t \in Slots : policy[t] # None =>
            VersionEntry(t, policy[t].version, policy[t].def, "MIGRATED", 0, s) \in VersionRow
      BY VersionType DEF Row
    <3>2. QED
      BY <3>1 DEF Backfilled
  <2>3. QED
    BY <1>1, <2>1, <2>2 DEF Initialize
<1>2. CASE BootLookup(s)
  <2>1. starter' \in [Starters -> Starter]
    BY <1>2, GotoType DEF BootLookup
  <2>2. QED
    BY <1>2, <2>1 DEF BootLookup, policyVars
<1>3. CASE BootProject(s)
  <2>1. project[Default] \in {None, "ACTIVE", "DISABLED"}
    BY TemplateSlots
  <2>2. starter' \in [Starters -> Starter]
    BY <1>3, <2>1, GotoType DEF BootProject
  <2>3. QED
    BY <1>3, <2>2 DEF BootProject, policyVars
<1>4. CASE Enroll(s)
  <2>1. starter' \in [Starters -> Starter]
    BY <1>4, GotoType DEF Enroll
  <2>2. UNCHANGED <<policy, versions, admin>>
    BY <1>4 DEF Enroll, policyVars
  <2>3. project' \in [Projects -> {None, "ACTIVE", "DISABLED"}]
    BY <1>4, TemplateSlots DEF Enroll
  <2>4. key' \in [Keys -> KeyRow \cup {None}]
    BY <1>4, TemplateSlots, InsertKeyType DEF Enroll
  <2>5. /\ Event(s, "API_KEY_CREATED", KeyResource(ConfiguredKey), 0) \in AuditEvent
        /\ Event(s, "PROJECT_CREATED", ProjectResource(Default), 0) \in AuditEvent
    BY TemplateSlots, ResourceTypes, EventType DEF AuditActions
  <2>6. audit' \subseteq AuditEvent
    BY <1>4, <2>5 DEF Enroll
  <2>7. changes' \subseteq (Admins \cup Starters) \X Resources
    BY <1>4, <2>5 DEF Enroll, AuditEvent
  <2>8. QED
    BY <2>1, <2>2, <2>3, <2>4, <2>6, <2>7
<1>5. CASE SeedRead(s)
  <2>1. starter' \in [Starters -> Starter]
    BY <1>5 DEF SeedRead, Starter
  <2>2. QED
    BY <1>5, <2>1 DEF SeedRead, policyVars
<1>6. CASE SeedWrite(s)
  <2>1. starter' \in [Starters -> Starter]
    BY <1>6, GotoType DEF SeedWrite
  <2>2. policy' \in [Slots -> Row \cup {None}] /\ versions' \subseteq VersionRow
    BY <1>6, SeedTypes, TemplateSlots DEF SeedWrite
  <2> DEFINE new == Seeded(Default, DOMAIN Templates)
             V(i) == IF i \in new THEN 1 ELSE policy[<<Default, i>>].version
  <2>3. new \subseteq DOMAIN Templates /\ FirstTemplate \in DOMAIN Templates
    BY <1>6, FirstIsTemplate DEF Seeded, SeedWrite, SeedsOK
  <2>4. \A i \in DOMAIN Templates : V(i) \in Nat
    BY TemplateSlots DEF Seeded, Row
  <2>5. \A i \in DOMAIN Templates :
          /\ Event(s, "POLICY_CREATED", PolicyResource(<<Default, i>>), V(i)) \in AuditEvent
          /\ PolicyResource(<<Default, i>>) \in Resources
    BY <2>4, TemplateSlots, ResourceTypes, EventType DEF AuditActions
  <2>6. audit' \subseteq AuditEvent
    BY <1>6, <2>3, <2>5 DEF SeedWrite
  <2>7. changes' \subseteq (Admins \cup Starters) \X Resources
    <3>1. \A i \in new : <<s, PolicyResource(<<Default, i>>)>>
                           \in (Admins \cup Starters) \X Resources
      BY <2>3, <2>5
    <3>2. QED
      BY <1>6, <3>1 DEF SeedWrite
  <2>8. QED
    BY <1>6, <2>1, <2>2, <2>6, <2>7 DEF SeedWrite
<1>7. CASE Stop(s)
  <2>1. starter' \in [Starters -> Starter]
    BY <1>7, GotoType DEF Stop
  <2>2. QED
    BY <1>7, <2>1 DEF Stop, policyVars
<1>8. QED
  BY <1>1, <1>2, <1>3, <1>4, <1>5, <1>6, <1>7 DEF Startup

\* An answered request is well typed.
LEMMA ReplyType ==
    ASSUME TableTypes, NEW a \in Admins, NEW code \in Codes, Reply(a, code)
    PROVE  admin' \in [Admins -> Admin]
BY AnswerType DEF TableTypes, PolicyTypeOK, Reply

LEMMA AccessTypes ==
    ASSUME TableTypes, AdminsOK, NEW a \in Admins, AccessStep(a)
    PROVE  TableTypes'
<1> USE DEF TableTypes, PolicyTypeOK
<1>0. admin[a] \in Admin /\ AdminOK(a)
  BY DEF AdminsOK
<1>1. CASE CreateProject(a)
  <2>1. PICK p \in Projects \ {Default}, k \in Keys \ {ConfiguredKey} :
          LET events ==
                {Event(a, "PROJECT_CREATED", ProjectResource(p), 0),
                 Event(a, "API_KEY_CREATED", KeyResource(k), 0)} \cup
                {Event(a, "POLICY_CREATED", PolicyResource(<<p, i>>), 1) :
                   i \in DOMAIN Templates}
          IN /\ project' = [project EXCEPT ![p] = "ACTIVE"]
             /\ InsertKey(k, p, "RUNTIME")
             /\ SeedTemplates(p, DOMAIN Templates, a)
             /\ audit' = audit \cup events
             /\ changes' = changes \cup {<<a, e.resource>> : e \in events}
             /\ admin' = [admin EXCEPT ![a] =
                  Answer([NoRequest EXCEPT !.op = "create", !.project = p], "ok")]
    BY <1>1 DEF CreateProject
  <2> DEFINE events ==
               {Event(a, "PROJECT_CREATED", ProjectResource(p), 0),
                Event(a, "API_KEY_CREATED", KeyResource(k), 0)} \cup
               {Event(a, "POLICY_CREATED", PolicyResource(<<p, i>>), 1) :
                  i \in DOMAIN Templates}
  <2>2. events \subseteq AuditEvent
    <3>1. /\ Event(a, "PROJECT_CREATED", ProjectResource(p), 0) \in AuditEvent
          /\ Event(a, "API_KEY_CREATED", KeyResource(k), 0) \in AuditEvent
      BY ResourceTypes, EventType DEF AuditActions
    <3>2. \A i \in DOMAIN Templates :
            Event(a, "POLICY_CREATED", PolicyResource(<<p, i>>), 1) \in AuditEvent
      BY TemplateSlots, ResourceTypes, EventType DEF AuditActions
    <3>3. QED
      BY <3>1, <3>2
  <2>3. \A e \in events : <<a, e.resource>> \in (Admins \cup Starters) \X Resources
    BY <2>2 DEF AuditEvent
  <2>4. audit' \subseteq AuditEvent /\ changes' \subseteq (Admins \cup Starters) \X Resources
    BY <2>1, <2>2, <2>3
  <2>5. [NoRequest EXCEPT !.op = "create", !.project = p] \in Admin
    BY DEF NoRequest, Admin, Operations
  <2>6. admin' \in [Admins -> Admin]
    BY <2>1, <2>5, AnswerType DEF Codes
  <2>7. policy' \in [Slots -> Row \cup {None}] /\ versions' \subseteq VersionRow
    BY <2>1, SeedTypes
  <2>8. key' \in [Keys -> KeyRow \cup {None}]
    BY <2>1, InsertKeyType
  <2>9. QED
    BY <1>1, <2>1, <2>4, <2>6, <2>7, <2>8 DEF CreateProject
<1>2. CASE ReceiveIssue(a)
  <2>1. PICK p \in Projects :
          LET req == [NoRequest EXCEPT !.op = "issue", !.project = p]
          IN admin' = [admin EXCEPT ![a] =
               CASE project[p] = None -> Answer(req, "not_found")
                 [] project[p] = "DISABLED" -> Answer(req, "project_disabled")
                 [] project[p] = "ACTIVE" -> [req EXCEPT !.pc = "write"]]
    BY <1>2 DEF ReceiveIssue
  <2> DEFINE req == [NoRequest EXCEPT !.op = "issue", !.project = p]
  <2>2. req \in Admin /\ [req EXCEPT !.pc = "write"] \in Admin
    BY DEF NoRequest, Admin, Operations
  <2>3. Answer(req, "not_found") \in Admin /\ Answer(req, "project_disabled") \in Admin
    BY <2>2, AnswerType DEF Codes
  <2>4. admin' \in [Admins -> Admin]
    <3> HIDE DEF req
    <3>1. QED
      BY <2>1, <2>2, <2>3 DEF req
  <2>5. QED
    BY <1>2, <2>4 DEF ReceiveIssue, policyVars
<1>3. CASE ReceiveStatus(a)
  <2>1. PICK p \in Projects, status \in {"ACTIVE", "DISABLED"} :
          LET req == [NoRequest EXCEPT !.op = "status", !.project = p, !.status = status]
          IN admin' = [admin EXCEPT ![a] =
               IF p = Default /\ status = "DISABLED"
               THEN Answer(req, "default_project_protected")
               ELSE [req EXCEPT !.pc = "previous"]]
    BY <1>3 DEF ReceiveStatus
  <2> DEFINE req == [NoRequest EXCEPT !.op = "status", !.project = p, !.status = status]
  <2>2. req \in Admin /\ [req EXCEPT !.pc = "previous"] \in Admin
    BY DEF NoRequest, Admin, Operations
  <2>3. Answer(req, "default_project_protected") \in Admin
    BY <2>2, AnswerType DEF Codes
  <2>4. admin' \in [Admins -> Admin]
    BY <2>1, <2>2, <2>3
  <2>5. QED
    BY <1>3, <2>4 DEF ReceiveStatus, policyVars
<1>4. CASE ReceiveRevoke(a)
  <2>1. PICK p \in Projects, k \in Keys :
          LET req == [NoRequest EXCEPT !.op = "revoke", !.project = p, !.key = k]
          IN admin' = [admin EXCEPT ![a] =
               IF project[p] = None THEN Answer(req, "not_found")
               ELSE [req EXCEPT !.pc = "previous"]]
    BY <1>4 DEF ReceiveRevoke
  <2> DEFINE req == [NoRequest EXCEPT !.op = "revoke", !.project = p, !.key = k]
  <2>2. req \in Admin /\ [req EXCEPT !.pc = "previous"] \in Admin
    BY DEF NoRequest, Admin, Operations
  <2>3. Answer(req, "not_found") \in Admin
    BY <2>2, AnswerType DEF Codes
  <2>4. admin' \in [Admins -> Admin]
    BY <2>1, <2>2, <2>3
  <2>5. QED
    BY <1>4, <2>4 DEF ReceiveRevoke, policyVars
<1>5. CASE ReadStanding(a)
  <2>1. Standing(admin[a]) \in {None, "ACTIVE", "DISABLED", "REVOKED"}
    BY <1>0, <1>5 DEF Standing, ReadStanding, AdminOK
  <2>2. [admin[a] EXCEPT !.was = Standing(admin[a]), !.pc = "write"] \in Admin
    BY <1>0, <2>1 DEF Admin
  <2>3. admin' \in [Admins -> Admin]
    BY <1>5, <2>2 DEF ReadStanding
  <2>4. QED
    BY <1>5, <2>3 DEF ReadStanding, policyVars
<1>6. CASE IssueKey(a)
  <2>1. PICK k \in Keys \ {ConfiguredKey}, role \in {"RUNTIME", "REVIEWER"} :
          /\ InsertKey(k, admin[a].project, role)
          /\ audit' = audit \cup {Event(a, "API_KEY_CREATED", KeyResource(k), 0)}
          /\ changes' = changes \cup {<<a, KeyResource(k)>>}
    BY <1>6 DEF IssueKey
  <2>2. admin[a].project \in Projects
    BY <1>0, <1>6 DEF IssueKey, AdminOK
  <2>3. key' \in [Keys -> KeyRow \cup {None}]
    BY <2>1, <2>2, InsertKeyType
  <2>4. audit' \subseteq AuditEvent /\ changes' \subseteq (Admins \cup Starters) \X Resources
    BY <2>1, ResourceTypes, EventType DEF AuditActions
  <2>5. admin' \in [Admins -> Admin]
    BY <1>6, ReplyType DEF IssueKey, Codes
  <2>6. QED
    BY <1>6, <2>3, <2>4, <2>5 DEF IssueKey, policyVars
<1>7. CASE ChangeStatus(a)
  <2>1. admin[a].project \in Projects /\ admin[a].status \in {"ACTIVE", "DISABLED"}
    BY <1>0, <1>7 DEF ChangeStatus, AdminOK
  <2>2. admin' \in [Admins -> Admin]
    BY <1>7, ReplyType DEF ChangeStatus, Codes
  <2>3. /\ Event(a, "PROJECT_STATUS_CHANGED", ProjectResource(admin[a].project), 0) \in AuditEvent
        /\ ProjectResource(admin[a].project) \in Resources
    BY <2>1, ResourceTypes, EventType DEF AuditActions
  <2>4. audit' \subseteq AuditEvent /\ changes' \subseteq (Admins \cup Starters) \X Resources
    BY <1>7, <2>3 DEF ChangeStatus
  <2>5. project' \in [Projects -> {None, "ACTIVE", "DISABLED"}]
    BY <1>7, <2>1 DEF ChangeStatus
  <2>6. QED
    BY <1>7, <2>2, <2>4, <2>5 DEF ChangeStatus, policyVars
<1>8. CASE RevokeKey(a)
  <2>1. admin[a].key \in Keys
    BY <1>0, <1>8 DEF RevokeKey, AdminOK
  <2>2. admin' \in [Admins -> Admin]
    BY <1>8, ReplyType DEF RevokeKey, Codes
  <2>3. /\ Event(a, "API_KEY_REVOKED", KeyResource(admin[a].key), 0) \in AuditEvent
        /\ KeyResource(admin[a].key) \in Resources
    BY <2>1, ResourceTypes, EventType DEF AuditActions
  <2>4. audit' \subseteq AuditEvent /\ changes' \subseteq (Admins \cup Starters) \X Resources
    BY <1>8, <2>3 DEF RevokeKey
  <2>5. key' \in [Keys -> KeyRow \cup {None}]
    <3>1. Standing(admin[a]) # None => key[admin[a].key] \in KeyRow
      BY <1>8, <2>1 DEF Standing, RevokeKey
    <3>2. Standing(admin[a]) # None =>
            [key[admin[a].key] EXCEPT !.revoked = TRUE] \in KeyRow
      BY <3>1 DEF KeyRow
    <3>3. \/ UNCHANGED key
          \/ /\ Standing(admin[a]) # None
             /\ key' = [key EXCEPT ![admin[a].key] = [@ EXCEPT !.revoked = TRUE]]
      BY <1>8 DEF RevokeKey
    <3>4. QED
      BY <2>1, <3>2, <3>3
  <2>6. QED
    BY <1>8, <2>2, <2>4, <2>5 DEF RevokeKey, policyVars
<1>9. QED
  BY <1>1, <1>2, <1>3, <1>4, <1>5, <1>6, <1>7, <1>8 DEF AccessStep

LEMMA RequestTypes ==
    ASSUME TableTypes, NEW a \in Admins, PolicyRequest(a),
           UNCHANGED <<key, starter, request>>
    PROVE  TableTypes'
<1> USE DEF TableTypes, PolicyTypeOK
<1>1. UNCHANGED <<project, policy, versions, audit, changes>>
  BY DEF PolicyRequest, ReceiveConfigure, ReceiveRollback, ReceiveDisable, policyVars
<1>2. CASE ReceiveConfigure(a)
  <2>1. PICK s \in Slots, other \in PolicyIds, def \in Definitions, v \in 1..MaxVersion :
          LET req == [NoRequest EXCEPT !.op = "configure", !.slot = s, !.def = def,
                                       !.version = v]
          IN admin' = [admin EXCEPT ![a] =
               IF project[s[1]] = None THEN Answer(req, "not_found")
               ELSE IF other # s[2] THEN Answer(req, "policy_id_mismatch")
               ELSE [req EXCEPT !.pc = "previous"]]
    BY <1>2 DEF ReceiveConfigure
  <2> DEFINE req == [NoRequest EXCEPT !.op = "configure", !.slot = s, !.def = def,
                                      !.version = v]
  <2>2. v \in Nat
    BY PolicyAssumption
  <2>3. req \in Admin /\ [req EXCEPT !.pc = "previous"] \in Admin
    BY <2>2 DEF NoRequest, Admin, Operations
  <2>4. Answer(req, "not_found") \in Admin /\ Answer(req, "policy_id_mismatch") \in Admin
    BY <2>3, AnswerType DEF Codes
  <2>5. admin' \in [Admins -> Admin]
    BY <2>1, <2>3, <2>4
  <2>6. QED
    BY <1>1, <2>5
<1>3. CASE ReceiveRollback(a)
  <2>1. PICK s \in Slots, v \in 1..MaxVersion :
          LET req == [NoRequest EXCEPT !.op = "rollback", !.slot = s, !.source = v]
          IN admin' = [admin EXCEPT ![a] =
               IF project[s[1]] = None \/ policy[s] = None
               THEN Answer(req, "not_found") ELSE [req EXCEPT !.pc = "previous"]]
    BY <1>3 DEF ReceiveRollback
  <2> DEFINE req == [NoRequest EXCEPT !.op = "rollback", !.slot = s, !.source = v]
  <2>2. v \in Nat
    BY PolicyAssumption
  <2>3. req \in Admin /\ [req EXCEPT !.pc = "previous"] \in Admin
    BY <2>2 DEF NoRequest, Admin, Operations
  <2>4. Answer(req, "not_found") \in Admin
    BY <2>3, AnswerType DEF Codes
  <2>5. admin' \in [Admins -> Admin]
    BY <2>1, <2>3, <2>4
  <2>6. QED
    BY <1>1, <2>5
<1>4. CASE ReceiveDisable(a)
  <2>1. PICK s \in Slots :
          LET req == [NoRequest EXCEPT !.op = "disable", !.slot = s]
          IN admin' = [admin EXCEPT ![a] =
               IF project[s[1]] = None THEN Answer(req, "not_found")
               ELSE [req EXCEPT !.pc = "previous"]]
    BY <1>4 DEF ReceiveDisable
  <2> DEFINE req == [NoRequest EXCEPT !.op = "disable", !.slot = s]
  <2>3. req \in Admin /\ [req EXCEPT !.pc = "previous"] \in Admin
    BY DEF NoRequest, Admin, Operations
  <2>4. Answer(req, "not_found") \in Admin
    BY <2>3, AnswerType DEF Codes
  <2>5. admin' \in [Admins -> Admin]
    BY <2>1, <2>3, <2>4
  <2>6. QED
    BY <1>1, <2>5
<1>5. QED
  BY <1>2, <1>3, <1>4 DEF PolicyRequest

\* The version of a policy is a number, positive if the policy exists.
LEMMA CurrentVersionType ==
    ASSUME PolicyTypeOK, NEW s \in Slots
    PROVE  /\ CurrentVersion(s) \in Nat
           /\ CurrentVersion(s) = 0 <=> policy[s] = None
           /\ policy[s] # None => policy[s] \in Row /\ CurrentVersion(s) = policy[s].version
<1>1. policy[s] # None => policy[s] \in Row
  BY DEF PolicyTypeOK
<1>2. QED
  BY <1>1 DEF CurrentVersion, Row

\* What a configuration or a rollback writes is a version.
LEMMA WriterTypes ==
    ASSUME TableTypes, AdminsOK, NEW a \in Admins, SavePolicy(a)
    PROVE  /\ admin[a].slot \in Slots /\ admin[a].def \in Definitions
           /\ admin[a].version \in Nat \ {0} /\ admin[a].source \in Nat
           /\ admin[a].base \in Nat /\ admin[a].version = admin[a].base + 1
<1>0. admin[a] \in Admin /\ AdminOK(a)
  BY DEF AdminsOK, TableTypes, PolicyTypeOK
<1>1. /\ admin[a].slot \in Slots /\ admin[a].version \in Nat
      /\ admin[a].source \in Nat /\ admin[a].base \in Nat
  BY <1>0 DEF SavePolicy, AdminOK, Admin
<1>2. admin[a].def \in Definitions
  BY <1>0 DEF SavePolicy, AdminOK, VersionsOf, VersionRow, TableTypes, PolicyTypeOK
<1>3. QED
  BY <1>0, <1>1, <1>2 DEF SavePolicy, AdminOK

LEMMA PolicyStepTypes ==
    ASSUME TableTypes, AdminsOK, NEW a \in Admins, PolicyStep(a),
           UNCHANGED <<key, starter, request>>
    PROVE  TableTypes'
<1> USE DEF TableTypes, PolicyTypeOK
<1>0. admin[a] \in Admin /\ AdminOK(a)
  BY DEF AdminsOK
<1>1. CASE ReadPrevious(a)
  <2>1. admin[a].slot \in Slots /\ admin[a].op \in {"configure", "rollback", "disable"}
    BY <1>0, <1>1 DEF ReadPrevious, AdminOK, Admin
  <2>2. PICK pc \in {"version", "historical", "existing"} :
          admin' = [admin EXCEPT ![a] =
            [@ EXCEPT !.previous = policy[admin[a].slot], !.pc = pc]]
    BY <1>1, <2>1 DEF ReadPrevious
  <2>3. [admin[a] EXCEPT !.previous = policy[admin[a].slot], !.pc = pc] \in Admin
    BY <1>0, <2>1 DEF Admin
  <2>4. admin' \in [Admins -> Admin]
    BY <2>2, <2>3
  <2>5. QED
    BY <1>1, <2>4 DEF ReadPrevious, policyVars
<1>2. CASE ReadHistorical(a)
  <2>1. admin' \in [Admins -> Admin]
    <3>1. CASE Reply(a, "not_found")
      BY <3>1, ReplyType DEF Codes
    <3>2. CASE \E r \in VersionsOf(admin[a].slot) :
                 admin' = [admin EXCEPT ![a] = [@ EXCEPT !.def = r.def, !.pc = "current"]]
      <4>1. PICK r \in VersionRow :
              admin' = [admin EXCEPT ![a] = [@ EXCEPT !.def = r.def, !.pc = "current"]]
        BY <3>2 DEF VersionsOf
      <4>2. [admin[a] EXCEPT !.def = r.def, !.pc = "current"] \in Admin
        BY <1>0 DEF Admin, VersionRow
      <4>3. QED
        BY <4>1, <4>2
    <3>3. QED
      BY <1>2, <3>1, <3>2 DEF ReadHistorical
  <2>2. QED
    BY <1>2, <2>1 DEF ReadHistorical, policyVars
<1>3. CASE ReadCurrent(a)
  <2>1. admin[a].slot \in Slots
    BY <1>0, <1>3 DEF ReadCurrent, AdminOK, Admin
  <2> DEFINE next == CurrentVersion(admin[a].slot) + 1
  <2>2. next \in Nat
    BY <2>1, CurrentVersionType
  <2>3. [admin[a] EXCEPT !.version = next, !.pc = "version"] \in Admin
    <3> HIDE DEF next
    <3>1. QED
      BY <1>0, <2>2 DEF Admin
  <2>4. \A c \in Codes : Answer(admin[a], c) \in Admin
    BY <1>0, AnswerType
  <2>5. admin' \in [Admins -> Admin]
    BY <1>3, <2>3, <2>4 DEF ReadCurrent, Codes
  <2>6. QED
    BY <1>3, <2>5 DEF ReadCurrent, policyVars
<1>4. CASE ReadVersion(a)
  <2>1. admin[a].slot \in Slots
    BY <1>0, <1>4 DEF ReadVersion, AdminOK, Admin
  <2> DEFINE current == CurrentVersion(admin[a].slot)
  <2>2. current \in Nat
    BY <2>1, CurrentVersionType
  <2>3. [admin[a] EXCEPT !.base = current, !.pc = "write"] \in Admin
    <3> HIDE DEF current
    <3>1. QED
      BY <1>0, <2>2 DEF Admin
  <2>4. \A c \in Codes : Answer(admin[a], c) \in Admin
    BY <1>0, AnswerType
  <2>5. admin' \in [Admins -> Admin]
    BY <1>4, <2>3, <2>4 DEF ReadVersion, Codes
  <2>6. QED
    BY <1>4, <2>5 DEF ReadVersion, policyVars
<1>5. CASE ReadExisting(a)
  <2>1. [admin[a] EXCEPT !.pc = "write"] \in Admin
    BY <1>0 DEF Admin
  <2>2. \A c \in Codes : Answer(admin[a], c) \in Admin
    BY <1>0, AnswerType
  <2>3. admin' \in [Admins -> Admin]
    BY <1>5, <2>1, <2>2 DEF ReadExisting, Codes
  <2>4. QED
    BY <1>5, <2>3 DEF ReadExisting, policyVars
<1>6. CASE SavePolicy(a)
  <2>1. admin' \in [Admins -> Admin]
    BY <1>6, ReplyType DEF SavePolicy, Codes
  <2>2. CASE UNCHANGED <<policyVars, audit, changes>>
    BY <1>6, <2>1, <2>2 DEF SavePolicy, policyVars
  <2>3. CASE StoreVersion(a)
    <3>1. /\ admin[a].slot \in Slots /\ admin[a].def \in Definitions
          /\ admin[a].version \in Nat \ {0} /\ admin[a].source \in Nat
      BY <1>6, WriterTypes
    <3>2. [version |-> admin[a].version, def |-> admin[a].def, enabled |-> TRUE] \in Row
      BY <3>1 DEF Row
    <3>3. policy' \in [Slots -> Row \cup {None}]
      BY <2>3, <3>1, <3>2 DEF StoreVersion
    <3>4. versions' \subseteq VersionRow
      BY <2>3, <3>1, VersionType DEF StoreVersion
    <3>5. audit' \subseteq AuditEvent /\ changes' \subseteq (Admins \cup Starters) \X Resources
      <4>1. PolicyResource(admin[a].slot) \in Resources
        BY <3>1, ResourceTypes
      <4>2. SaveEvents(a) \subseteq AuditEvent
        BY <3>1, <4>1, EventType DEF SaveEvents, AuditActions
      <4>3. QED
        BY <2>3, <4>1, <4>2 DEF StoreVersion
    <3>6. QED
      BY <1>6, <2>1, <3>3, <3>4, <3>5 DEF SavePolicy
  <2>4. QED
    BY <1>6, <2>2, <2>3 DEF SavePolicy
<1>7. CASE DisablePolicy(a)
  <2>1. admin' \in [Admins -> Admin]
    BY <1>7, ReplyType DEF DisablePolicy, Codes
  <2>2. admin[a].slot \in Slots /\ policy[admin[a].slot] \in Row
    BY <1>0, <1>7 DEF DisablePolicy, AdminOK, Admin
  <2>3. [policy[admin[a].slot] EXCEPT !.enabled = FALSE] \in Row
    BY <2>2 DEF Row
  <2>4. policy' \in [Slots -> Row \cup {None}]
    BY <1>7, <2>2, <2>3 DEF DisablePolicy
  <2>5. audit' \subseteq AuditEvent /\ changes' \subseteq (Admins \cup Starters) \X Resources
    <3>1. PolicyResource(admin[a].slot) \in Resources
      BY <2>2, ResourceTypes
    <3>2. Event(a, "POLICY_DISABLED", PolicyResource(admin[a].slot),
                policy[admin[a].slot].version) \in AuditEvent
      BY <2>2, <3>1, EventType DEF AuditActions, Row
    <3>3. QED
      BY <1>7, <3>1, <3>2 DEF DisablePolicy
  <2>6. QED
    BY <1>7, <2>1, <2>4, <2>5 DEF DisablePolicy
<1>8. CASE AdminFails(a)
  <2>1. admin' \in [Admins -> Admin]
    BY <1>8, ReplyType DEF AdminFails, Codes
  <2>2. QED
    BY <1>8, <2>1 DEF AdminFails, policyVars
<1>9. QED
  BY <1>1, <1>2, <1>3, <1>4, <1>5, <1>6, <1>7, <1>8 DEF PolicyStep

\* A request in the data plane changes nothing but itself.
LEMMA RequestsOnly ==
    ASSUME NEW r \in Requests,
           Lookup(r) \/ VerifyKey(r) \/ Recheck(r) \/ Evaluate(r)
    PROVE  UNCHANGED <<project, policy, versions, audit, changes, admin, key, starter>>
BY DEF Lookup, VerifyKey, Recheck, Evaluate, policyVars

\* Every step preserves the types.
LEMMA NextTypes == TableTypes /\ AdminsOK /\ SeedsOK /\ [Next]_vars => TableTypes'
<1> SUFFICES ASSUME TableTypes, AdminsOK, SeedsOK, [Next]_vars
             PROVE  TableTypes'
  OBVIOUS
<1>1. CASE \E s \in Starters : Startup(s)
  BY <1>1, StartupTypes
<1>2. CASE \E a \in Admins : AccessStep(a)
  BY <1>2, AccessTypes
<1>3. CASE \E a \in Admins :
             (PolicyRequest(a) \/ PolicyStep(a)) /\ UNCHANGED <<key, starter, request>>
  BY <1>3, RequestTypes, PolicyStepTypes
<1>4. CASE UNCHANGED <<project, policy, versions, audit, changes, admin, key, starter>>
  BY <1>4 DEF TableTypes, PolicyTypeOK
<1>5. QED
  BY <1>1, <1>2, <1>3, <1>4, RequestsOnly DEF Next, vars, policyVars

-----------------------------------------------------------------------------
(* Nothing is taken back: versions, audit events and policies stay.        *)

Kept ==
    /\ versions \subseteq versions' /\ audit \subseteq audit'
    /\ \A s \in Slots : policy[s] # None => policy'[s] # None

LEMMA NothingTakenBack ==
    ASSUME TableTypes, AdminsOK, [Next]_vars
    PROVE  Kept
<1> USE DEF Kept
<1>0. \A row \in Row : row # None
  BY PolicyAssumption
<1>1. ASSUME NEW p \in Projects, NEW by \in Admins \cup Starters,
             SeedTemplates(p, DOMAIN Templates, by)
      PROVE  versions \subseteq versions' /\ \A s \in Slots : policy[s] # None => policy'[s] # None
  BY <1>1, TemplateSlots DEF SeedTemplates, Seeded, Slots
<1>2. CASE \E s \in Starters : Startup(s)
  <2>1. PICK s \in Starters : Startup(s)
    BY <1>2
  <2>2. CASE SeedWrite(s)
    BY <1>1, <2>2, TemplateSlots DEF SeedWrite
  <2>3. CASE ~SeedWrite(s)
    BY <2>1, <2>3 DEF Startup, Initialize, BootLookup, BootProject, Enroll, SeedRead,
         Stop, policyVars
  <2>4. QED
    BY <2>2, <2>3
<1>3. CASE \E a \in Admins : AccessStep(a)
  <2>1. PICK a \in Admins : AccessStep(a)
    BY <1>3
  <2>2. CASE CreateProject(a)
    BY <1>1, <2>2 DEF CreateProject
  <2>3. CASE ~CreateProject(a)
    BY <2>1, <2>3 DEF AccessStep, ReceiveIssue, ReceiveStatus, ReceiveRevoke,
         ReadStanding, IssueKey, ChangeStatus, RevokeKey, policyVars
  <2>4. QED
    BY <2>2, <2>3
<1>4. CASE \E a \in Admins : PolicyRequest(a) \/ PolicyStep(a)
  <2>1. PICK a \in Admins : PolicyRequest(a) \/ PolicyStep(a)
    BY <1>4
  <2>2. CASE SavePolicy(a) /\ StoreVersion(a)
    <3>1. [version |-> admin[a].version, def |-> admin[a].def, enabled |-> TRUE] \in Row
      BY <2>2, WriterTypes DEF Row
    <3>2. QED
      BY <2>2, <3>1, <1>0 DEF StoreVersion, TableTypes, PolicyTypeOK
  <2>3. CASE DisablePolicy(a)
    <3>1. admin[a].slot \in Slots /\ policy[admin[a].slot] \in Row
      BY <2>3 DEF DisablePolicy, AdminsOK, AdminOK, Admin, TableTypes, PolicyTypeOK
    <3>2. [policy[admin[a].slot] EXCEPT !.enabled = FALSE] \in Row
      BY <3>1 DEF Row
    <3>3. policy' = [policy EXCEPT ![admin[a].slot] = [@ EXCEPT !.enabled = FALSE]]
      BY <2>3 DEF DisablePolicy
    <3>4. QED
      BY <2>3, <3>1, <3>2, <3>3, <1>0 DEF DisablePolicy, TableTypes, PolicyTypeOK
  <2>4. CASE UNCHANGED <<policy, versions, audit>>
    BY <2>4
  <2>5. QED
    BY <2>1, <2>2, <2>3, <2>4 DEF PolicyRequest, PolicyStep, ReceiveConfigure,
         ReceiveRollback, ReceiveDisable, ReadPrevious, ReadHistorical, ReadCurrent,
         ReadVersion, ReadExisting, SavePolicy, AdminFails, policyVars
<1>5. CASE UNCHANGED <<policy, versions, audit>>
  BY <1>5
<1>6. QED
  BY <1>2, <1>3, <1>4, <1>5, RequestsOnly DEF Next, vars, policyVars

-----------------------------------------------------------------------------
(* Administrative requests                                                 *)

\* A version beyond the configured one is never in the history, so that the
\* write of a request whose version still matches meets no IntegrityError.
LEMMA VersionIsNew ==
    ASSUME TableTypes, AdminsOK, NEW a \in Admins, SavePolicy(a), RowMatches(admin[a]),
           Complete(admin[a].slot)
    PROVE  ~HasVersion(admin[a].slot, admin[a].version)
<1>1. /\ admin[a].slot \in Slots /\ admin[a].base \in Nat
      /\ admin[a].version = admin[a].base + 1
  BY WriterTypes
<1>2. CurrentVersion(admin[a].slot) = admin[a].base
  BY DEF RowMatches
<1>3. SUFFICES ASSUME NEW r \in VersionsOf(admin[a].slot), r.version = admin[a].version
               PROVE  FALSE
  BY DEF HasVersion
<1>4. policy[admin[a].slot] # None /\ r.version <= policy[admin[a].slot].version
  BY <1>3 DEF Complete, Gapless
<1>5. QED
  BY <1>1, <1>2, <1>3, <1>4 DEF CurrentVersion

\* A refused request forgets everything.
LEMMA RefusedOK ==
    ASSUME NEW a \in Admins, NEW req, NEW code, code \notin {"ok", "integrity_error"},
           admin'[a] = Answer(req, code)
    PROVE  AdminOK(a)'
<1>1. admin'[a] = [NoRequest EXCEPT !.pc = "done", !.code = code]
  BY DEF Answer
<1>2. /\ admin'[a].op = None /\ admin'[a].slot = None /\ admin'[a].pc = "done"
      /\ admin'[a].code = code
  BY <1>1 DEF NoRequest
<1>3. None \notin {"configure", "rollback", "disable", "issue", "status", "revoke"}
  BY PolicyAssumption DEF Operations
<1>4. QED
  BY <1>2, <1>3 DEF AdminOK

\* A granted request keeps what it asked for.
LEMMA GrantedKeeps ==
    ASSUME NEW a \in Admins, NEW req \in Admin, admin'[a] = Answer(req, "ok")
    PROVE  /\ admin'[a].op = req.op /\ admin'[a].slot = req.slot
           /\ admin'[a].def = req.def /\ admin'[a].version = req.version
           /\ admin'[a].source = req.source /\ admin'[a].project = req.project
           /\ admin'[a].status = req.status /\ admin'[a].key = req.key
           /\ admin'[a].pc = "done" /\ admin'[a].code = "ok"
BY DEF Answer, Admin

LEMMA GrantedOK ==
    ASSUME TableTypes, Kept, NEW a \in Admins, AdminOK(a), admin[a].pc = "write",
           admin'[a] = Answer(admin[a], "ok"),
           admin[a].op \in {"configure", "rollback"} => Landed(a)'
    PROVE  AdminOK(a)'
<1>1. admin[a] \in Admin
  BY DEF TableTypes, PolicyTypeOK
<1>2. QED
  BY <1>1, GrantedKeeps DEF AdminOK, VersionsOf, Kept

\* The steps of others do not disturb a request.
LEMMA OthersOK ==
    ASSUME TableTypes, Kept, NEW a \in Admins, AdminOK(a), admin'[a] = admin[a]
    PROVE  AdminOK(a)'
<1>1. admin[a] \in Admin
  BY DEF TableTypes, PolicyTypeOK
<1>2. admin[a].op = "disable" => admin[a].slot \in Slots
  BY <1>1 DEF AdminOK, Admin
<1>3. Landed(a) => Landed(a)'
  BY DEF Landed, VersionsOf, Kept
<1>4. QED
  BY <1>1, <1>2, <1>3 DEF AdminOK, VersionsOf, Kept

\* A step of a changes no other request.
LEMMA OneAtATime ==
    ASSUME TableTypes, AdminsOK, Kept, NEW a \in Admins, NEW next,
           admin' = [admin EXCEPT ![a] = next], AdminOK(a)'
    PROVE  AdminsOK'
<1>1. ASSUME NEW b \in Admins, b # a PROVE AdminOK(b)'
  <2>1. admin'[b] = admin[b] /\ AdminOK(b)
    BY <1>1 DEF AdminsOK, TableTypes, PolicyTypeOK
  <2>2. QED
    BY <2>1, OthersOK
<1>2. QED
  BY <1>1 DEF AdminsOK

\* The answer of a request that has reached its write.
LEMMA AnsweredOK ==
    ASSUME TableTypes, AdminsOK, Kept, NEW a \in Admins, NEW code, Reply(a, code),
           code # "integrity_error",
           code = "ok" => /\ admin[a].pc = "write"
                          /\ admin[a].op \in {"configure", "rollback"} => Landed(a)'
    PROVE  AdminsOK'
<1>1. admin' = [admin EXCEPT ![a] = Answer(admin[a], code)] /\ AdminOK(a)
  BY DEF Reply, AdminsOK
<1>2. admin'[a] = Answer(admin[a], code)
  BY <1>1 DEF TableTypes, PolicyTypeOK
<1>3. AdminOK(a)'
  BY <1>1, <1>2, RefusedOK, GrantedOK
<1>4. QED
  BY <1>1, <1>3, OneAtATime

\* No request has a code before it is answered.
LEMMA NoneIsNoCode == None # "ok" /\ None # "integrity_error"
BY PolicyAssumption DEF Codes

LEMMA AccessAdmins ==
    ASSUME TableTypes, AdminsOK, Kept, NEW a \in Admins, AccessStep(a)
    PROVE  AdminsOK'
<1>0. /\ admin \in [Admins -> Admin] /\ admin[a] \in Admin /\ AdminOK(a)
      /\ None \notin Projects /\ None \notin Keys
  BY PolicyAssumption, ControlPlaneAssumption DEF AdminsOK, TableTypes, PolicyTypeOK
<1>1. CASE CreateProject(a)
  <2>1. PICK p \in Projects :
          admin' = [admin EXCEPT ![a] =
            Answer([NoRequest EXCEPT !.op = "create", !.project = p], "ok")]
    BY <1>1 DEF CreateProject
  <2> DEFINE req == [NoRequest EXCEPT !.op = "create", !.project = p]
  <2>2. req \in Admin /\ req.op = "create" /\ req.slot = None
    BY DEF NoRequest, Admin, Operations
  <2>3. /\ admin'[a].op = "create" /\ admin'[a].slot = None
        /\ admin'[a].pc = "done" /\ admin'[a].code = "ok"
    <3> HIDE DEF req
    <3>1. admin'[a] = Answer(req, "ok")
      BY <1>0, <2>1 DEF req
    <3>2. QED
      BY <2>2, <3>1, GrantedKeeps
  <2>4. AdminOK(a)'
    BY <2>3 DEF AdminOK
  <2>5. QED
    BY <2>1, <2>4, OneAtATime
<1>2. CASE ReceiveIssue(a)
  <2>1. PICK p \in Projects :
          LET req == [NoRequest EXCEPT !.op = "issue", !.project = p]
          IN admin' = [admin EXCEPT ![a] =
               CASE project[p] = None -> Answer(req, "not_found")
                 [] project[p] = "DISABLED" -> Answer(req, "project_disabled")
                 [] project[p] = "ACTIVE" -> [req EXCEPT !.pc = "write"]]
    BY <1>2 DEF ReceiveIssue
  <2> DEFINE req == [NoRequest EXCEPT !.op = "issue", !.project = p]
  <2>2. \/ admin'[a] = Answer(req, "not_found")
        \/ admin'[a] = Answer(req, "project_disabled")
        \/ admin'[a] = [req EXCEPT !.pc = "write"]
    BY <1>0, <2>1 DEF TableTypes, PolicyTypeOK
  <2>3. ASSUME admin'[a] = [req EXCEPT !.pc = "write"] PROVE AdminOK(a)'
    <3>1. /\ admin'[a].op = "issue" /\ admin'[a].slot = None /\ admin'[a].pc = "write"
          /\ admin'[a].project = p /\ admin'[a].code = None
      BY <2>3 DEF NoRequest
    <3>2. QED
      BY <3>1, NoneIsNoCode DEF AdminOK
  <2>4. AdminOK(a)'
    BY <2>2, <2>3, RefusedOK
  <2>5. QED
    BY <2>1, <2>4, OneAtATime
<1>3. CASE ReceiveStatus(a)
  <2>1. PICK p \in Projects, status \in {"ACTIVE", "DISABLED"} :
          LET req == [NoRequest EXCEPT !.op = "status", !.project = p, !.status = status]
          IN admin' = [admin EXCEPT ![a] =
               IF p = Default /\ status = "DISABLED"
               THEN Answer(req, "default_project_protected")
               ELSE [req EXCEPT !.pc = "previous"]]
    BY <1>3 DEF ReceiveStatus
  <2> DEFINE req == [NoRequest EXCEPT !.op = "status", !.project = p, !.status = status]
  <2>2. \/ admin'[a] = Answer(req, "default_project_protected")
        \/ admin'[a] = [req EXCEPT !.pc = "previous"]
    BY <1>0, <2>1
  <2>3. ASSUME admin'[a] = [req EXCEPT !.pc = "previous"] PROVE AdminOK(a)'
    <3>1. /\ admin'[a].op = "status" /\ admin'[a].slot = None
          /\ admin'[a].pc = "previous" /\ admin'[a].project = p
          /\ admin'[a].status = status /\ admin'[a].code = None
      BY <2>3 DEF NoRequest
    <3>2. QED
      BY <3>1, NoneIsNoCode DEF AdminOK
  <2>4. AdminOK(a)'
    BY <2>2, <2>3, RefusedOK
  <2>5. QED
    BY <2>1, <2>4, OneAtATime
<1>4. CASE ReceiveRevoke(a)
  <2>1. PICK p \in Projects, k \in Keys :
          LET req == [NoRequest EXCEPT !.op = "revoke", !.project = p, !.key = k]
          IN admin' = [admin EXCEPT ![a] =
               IF project[p] = None THEN Answer(req, "not_found")
               ELSE [req EXCEPT !.pc = "previous"]]
    BY <1>4 DEF ReceiveRevoke
  <2> DEFINE req == [NoRequest EXCEPT !.op = "revoke", !.project = p, !.key = k]
  <2>2. \/ admin'[a] = Answer(req, "not_found")
        \/ admin'[a] = [req EXCEPT !.pc = "previous"]
    BY <1>0, <2>1
  <2>3. ASSUME admin'[a] = [req EXCEPT !.pc = "previous"] PROVE AdminOK(a)'
    <3>1. /\ admin'[a].op = "revoke" /\ admin'[a].slot = None
          /\ admin'[a].pc = "previous" /\ admin'[a].project = p
          /\ admin'[a].key = k /\ admin'[a].code = None
      BY <2>3 DEF NoRequest
    <3>2. QED
      BY <3>1, NoneIsNoCode DEF AdminOK
  <2>4. AdminOK(a)'
    BY <2>2, <2>3, RefusedOK
  <2>5. QED
    BY <2>1, <2>4, OneAtATime
<1>5. CASE ReadStanding(a)
  <2> DEFINE was == Standing(admin[a])
  <2>1. admin' = [admin EXCEPT ![a] = [admin[a] EXCEPT !.was = was, !.pc = "write"]]
    BY <1>5 DEF ReadStanding
  <2> HIDE DEF was
  <2>2. admin[a].op \in {"status", "revoke"} /\ admin[a].pc = "previous"
    BY <1>5 DEF ReadStanding
  <2>3. /\ admin'[a].op = admin[a].op /\ admin'[a].slot = admin[a].slot
        /\ admin'[a].project = admin[a].project /\ admin'[a].status = admin[a].status
        /\ admin'[a].key = admin[a].key /\ admin'[a].code = admin[a].code
        /\ admin'[a].pc = "write"
    BY <1>0, <2>1 DEF Admin
  <2>4. AdminOK(a)'
    BY <1>0, <2>2, <2>3 DEF AdminOK
  <2>5. QED
    BY <2>1, <2>4, OneAtATime
<1>6. CASE IssueKey(a) \/ ChangeStatus(a) \/ RevokeKey(a)
  BY <1>6, AnsweredOK DEF IssueKey, ChangeStatus, RevokeKey
<1>7. QED
  BY <1>1, <1>2, <1>3, <1>4, <1>5, <1>6 DEF AccessStep

LEMMA RequestAdmins ==
    ASSUME TableTypes, AdminsOK, Kept, NEW a \in Admins, PolicyRequest(a)
    PROVE  AdminsOK'
<1>0. admin \in [Admins -> Admin] /\ None \notin Slots
  BY PolicyAssumption DEF TableTypes, PolicyTypeOK
<1>1. CASE ReceiveConfigure(a)
  <2>1. PICK s \in Slots, other \in PolicyIds, def \in Definitions, v \in 1..MaxVersion :
          LET req == [NoRequest EXCEPT !.op = "configure", !.slot = s, !.def = def,
                                       !.version = v]
          IN admin' = [admin EXCEPT ![a] =
               IF project[s[1]] = None THEN Answer(req, "not_found")
               ELSE IF other # s[2] THEN Answer(req, "policy_id_mismatch")
               ELSE [req EXCEPT !.pc = "previous"]]
    BY <1>1 DEF ReceiveConfigure
  <2> DEFINE req == [NoRequest EXCEPT !.op = "configure", !.slot = s, !.def = def,
                                      !.version = v]
  <2>2. \/ admin'[a] = Answer(req, "not_found")
        \/ admin'[a] = Answer(req, "policy_id_mismatch")
        \/ admin'[a] = [req EXCEPT !.pc = "previous"]
    BY <1>0, <2>1
  <2>3. ASSUME admin'[a] = [req EXCEPT !.pc = "previous"] PROVE AdminOK(a)'
    <3>1. /\ admin'[a].op = "configure" /\ admin'[a].slot = s /\ admin'[a].def = def
          /\ admin'[a].version = v /\ admin'[a].pc = "previous"
          /\ admin'[a].code = None
      BY <2>3 DEF NoRequest
    <3>2. v > 0
      BY PolicyAssumption
    <3>3. QED
      BY <1>0, <3>1, <3>2, NoneIsNoCode DEF AdminOK
  <2>4. AdminOK(a)'
    BY <2>2, <2>3, RefusedOK
  <2>5. QED
    BY <2>1, <2>4, OneAtATime
<1>2. CASE ReceiveRollback(a)
  <2>1. PICK s \in Slots, v \in 1..MaxVersion :
          LET req == [NoRequest EXCEPT !.op = "rollback", !.slot = s, !.source = v]
          IN admin' = [admin EXCEPT ![a] =
               IF project[s[1]] = None \/ policy[s] = None
               THEN Answer(req, "not_found") ELSE [req EXCEPT !.pc = "previous"]]
    BY <1>2 DEF ReceiveRollback
  <2> DEFINE req == [NoRequest EXCEPT !.op = "rollback", !.slot = s, !.source = v]
  <2>2. \/ admin'[a] = Answer(req, "not_found")
        \/ admin'[a] = [req EXCEPT !.pc = "previous"]
    BY <1>0, <2>1
  <2>3. ASSUME admin'[a] = [req EXCEPT !.pc = "previous"] PROVE AdminOK(a)'
    <3>1. /\ admin'[a].op = "rollback" /\ admin'[a].slot = s
          /\ admin'[a].pc = "previous" /\ admin'[a].code = None
      BY <2>3 DEF NoRequest
    <3>2. QED
      BY <1>0, <3>1, NoneIsNoCode DEF AdminOK
  <2>4. AdminOK(a)'
    BY <2>2, <2>3, RefusedOK
  <2>5. QED
    BY <2>1, <2>4, OneAtATime
<1>3. CASE ReceiveDisable(a)
  <2>1. PICK s \in Slots :
          LET req == [NoRequest EXCEPT !.op = "disable", !.slot = s]
          IN admin' = [admin EXCEPT ![a] =
               IF project[s[1]] = None THEN Answer(req, "not_found")
               ELSE [req EXCEPT !.pc = "previous"]]
    BY <1>3 DEF ReceiveDisable
  <2> DEFINE req == [NoRequest EXCEPT !.op = "disable", !.slot = s]
  <2>2. \/ admin'[a] = Answer(req, "not_found")
        \/ admin'[a] = [req EXCEPT !.pc = "previous"]
    BY <1>0, <2>1
  <2>3. ASSUME admin'[a] = [req EXCEPT !.pc = "previous"] PROVE AdminOK(a)'
    <3>1. /\ admin'[a].op = "disable" /\ admin'[a].slot = s
          /\ admin'[a].pc = "previous" /\ admin'[a].code = None
      BY <2>3 DEF NoRequest
    <3>2. QED
      BY <1>0, <3>1, NoneIsNoCode DEF AdminOK
  <2>4. AdminOK(a)'
    BY <2>2, <2>3, RefusedOK
  <2>5. QED
    BY <2>1, <2>4, OneAtATime
<1>4. QED
  BY <1>1, <1>2, <1>3 DEF PolicyRequest

LEMMA StepAdmins ==
    ASSUME TableTypes, AdminsOK, Kept, \A s \in Slots : Complete(s),
           NEW a \in Admins, PolicyStep(a)
    PROVE  AdminsOK'
<1>0. admin \in [Admins -> Admin] /\ admin[a] \in Admin /\ AdminOK(a)
  BY DEF AdminsOK, TableTypes, PolicyTypeOK
<1>1. CASE ReadPrevious(a)
  <2>1. /\ admin[a].op \in {"configure", "rollback", "disable"}
        /\ admin[a].pc = "previous"
    BY <1>0, <1>1 DEF ReadPrevious, AdminOK
  <2>2. PICK pc :
          /\ admin[a].op = "configure" => pc = "version"
          /\ admin[a].op = "rollback" => pc = "historical"
          /\ admin[a].op = "disable" => pc = "existing"
          /\ admin' = [admin EXCEPT ![a] =
               [@ EXCEPT !.previous = policy[admin[a].slot], !.pc = pc]]
    BY <1>1, <2>1 DEF ReadPrevious
  <2>3. /\ admin'[a].op = admin[a].op /\ admin'[a].slot = admin[a].slot
        /\ admin'[a].def = admin[a].def /\ admin'[a].version = admin[a].version
        /\ admin'[a].code = admin[a].code /\ admin'[a].pc = pc
    BY <1>0, <2>2 DEF Admin
  <2>4. AdminOK(a)'
    BY <1>0, <2>1, <2>2, <2>3, NoneIsNoCode DEF AdminOK
  <2>5. QED
    BY <2>2, <2>4, OneAtATime
<1>2. CASE ReadHistorical(a)
  <2>1. CASE Reply(a, "not_found")
    BY <2>1, AnsweredOK
  <2>2. CASE ~Reply(a, "not_found")
    <3>1. PICK r \in VersionsOf(admin[a].slot) :
            /\ r.version = admin[a].source
            /\ admin' = [admin EXCEPT ![a] = [@ EXCEPT !.def = r.def, !.pc = "current"]]
      BY <1>2, <2>2 DEF ReadHistorical
    <3>2. /\ admin'[a].op = admin[a].op /\ admin'[a].slot = admin[a].slot
          /\ admin'[a].source = admin[a].source /\ admin'[a].def = r.def
          /\ admin'[a].code = admin[a].code /\ admin'[a].pc = "current"
      BY <1>0, <3>1 DEF Admin
    <3>3. admin[a].op = "rollback" /\ admin[a].pc = "historical"
      BY <1>0, <1>2 DEF AdminOK, ReadHistorical
    <3>4. r \in VersionsOf(admin[a].slot)'
      BY <3>1, <3>2 DEF VersionsOf, Kept
    <3>5. AdminOK(a)'
      BY <1>0, <3>1, <3>2, <3>3, <3>4, NoneIsNoCode DEF AdminOK, VersionsOf
    <3>6. QED
      BY <3>1, <3>5, OneAtATime
  <2>3. QED
    BY <2>1, <2>2
<1>3. CASE ReadCurrent(a)
  <2> DEFINE current == CurrentVersion(admin[a].slot)
  <2>1. admin[a].op = "rollback" /\ admin[a].pc = "current" /\ admin[a].slot \in Slots
    BY <1>0, <1>3 DEF AdminOK, ReadCurrent, Admin
  <2>2. current \in Nat
    BY <2>1, CurrentVersionType DEF TableTypes
  <2>3. \/ Reply(a, "not_found") \/ Reply(a, "policy_version_already_current")
        \/ /\ current # 0
           /\ admin' = [admin EXCEPT ![a] =
                [@ EXCEPT !.version = current + 1, !.pc = "version"]]
    BY <1>3 DEF ReadCurrent, Reply
  <2> HIDE DEF current
  <2>4. ASSUME current # 0,
               admin' = [admin EXCEPT ![a] =
                 [@ EXCEPT !.version = current + 1, !.pc = "version"]]
        PROVE  AdminsOK'
    <3>1. /\ admin'[a].op = admin[a].op /\ admin'[a].slot = admin[a].slot
          /\ admin'[a].source = admin[a].source /\ admin'[a].def = admin[a].def
          /\ admin'[a].code = admin[a].code /\ admin'[a].pc = "version"
          /\ admin'[a].version = current + 1
      BY <1>0, <2>4 DEF Admin
    <3>2. current + 1 > 1
      BY <2>2, <2>4
    <3>3. AdminOK(a)'
      BY <1>0, <2>1, <3>1, <3>2, NoneIsNoCode DEF AdminOK, VersionsOf, Kept
    <3>4. QED
      BY <2>4, <3>3, OneAtATime
  <2>5. QED
    BY <2>3, <2>4, AnsweredOK
<1>4. CASE ReadVersion(a)
  <2> DEFINE current == CurrentVersion(admin[a].slot)
  <2>1. admin[a].op \in {"configure", "rollback"} /\ admin[a].pc = "version"
    BY <1>0, <1>4 DEF AdminOK, ReadVersion
  <2>2. \/ Reply(a, "policy_version_conflict")
        \/ /\ admin[a].version = current + 1
           /\ admin' = [admin EXCEPT ![a] = [@ EXCEPT !.base = current, !.pc = "write"]]
    BY <1>4 DEF ReadVersion, Reply
  <2> HIDE DEF current
  <2>3. ASSUME admin[a].version = current + 1,
               admin' = [admin EXCEPT ![a] = [@ EXCEPT !.base = current, !.pc = "write"]]
        PROVE  AdminsOK'
    <3>1. /\ admin'[a].op = admin[a].op /\ admin'[a].slot = admin[a].slot
          /\ admin'[a].source = admin[a].source /\ admin'[a].def = admin[a].def
          /\ admin'[a].code = admin[a].code /\ admin'[a].pc = "write"
          /\ admin'[a].version = admin[a].version /\ admin'[a].base = current
      BY <1>0, <2>3 DEF Admin
    <3>2. AdminOK(a)'
      BY <1>0, <2>1, <2>3, <3>1, NoneIsNoCode DEF AdminOK, VersionsOf, Kept
    <3>3. QED
      BY <2>3, <3>2, OneAtATime
  <2>4. QED
    BY <2>2, <2>3, AnsweredOK
<1>5. CASE ReadExisting(a)
  <2>1. admin[a].op = "disable" /\ admin[a].pc = "existing" /\ admin[a].slot \in Slots
    BY <1>0, <1>5 DEF AdminOK, ReadExisting, Admin
  <2>2. \/ Reply(a, "not_found")
        \/ /\ policy[admin[a].slot] # None
           /\ admin' = [admin EXCEPT ![a] = [@ EXCEPT !.pc = "write"]]
    BY <1>5 DEF ReadExisting, Reply
  <2>3. ASSUME policy[admin[a].slot] # None,
               admin' = [admin EXCEPT ![a] = [@ EXCEPT !.pc = "write"]]
        PROVE  AdminsOK'
    <3>1. /\ admin'[a].op = admin[a].op /\ admin'[a].slot = admin[a].slot
          /\ admin'[a].code = admin[a].code /\ admin'[a].pc = "write"
      BY <1>0, <2>3 DEF Admin
    <3>2. AdminOK(a)'
      BY <1>0, <2>1, <2>3, <3>1 DEF AdminOK, Kept
    <3>3. QED
      BY <2>3, <3>2, OneAtATime
  <2>4. QED
    BY <2>2, <2>3, AnsweredOK
<1>6. CASE SavePolicy(a)
  <2>1. CASE Reply(a, "policy_version_conflict")
    BY <2>1, AnsweredOK
  <2>2. CASE RowMatches(admin[a])
    <3>1. /\ admin[a].slot \in Slots /\ admin[a].base \in Nat
          /\ admin[a].version = admin[a].base + 1
      BY <1>6, WriterTypes
    <3>2. StoreVersion(a) /\ Reply(a, "ok")
      BY <1>6, <2>2, <3>1, VersionIsNew DEF SavePolicy
    <3>3. PICK change, source :
            /\ VersionEntry(admin[a].slot, admin[a].version, admin[a].def, change,
                            source, a) \in versions'
            /\ change = IF admin[a].base = 0 THEN "CREATED"
                        ELSE IF admin[a].op = "rollback" THEN "ROLLBACK" ELSE "UPDATED"
      BY <3>2 DEF StoreVersion
    <3>4. change = "ROLLBACK" <=> admin[a].op = "rollback"
      BY <1>0, <1>6, <3>1, <3>3 DEF AdminOK, SavePolicy
    <3>5. admin'[a] = Answer(admin[a], "ok")
      BY <1>0, <3>2 DEF Reply
    <3>6. Landed(a)'
      BY <1>0, <3>3, <3>4, <3>5, GrantedKeeps DEF Landed, VersionsOf, VersionEntry
    <3>7. QED
      BY <1>6, <3>2, <3>6, AnsweredOK DEF SavePolicy
  <2>3. QED
    BY <1>6, <2>1, <2>2 DEF SavePolicy
<1>7. CASE DisablePolicy(a) \/ AdminFails(a)
  BY <1>7, AnsweredOK DEF DisablePolicy, AdminFails
<1>8. QED
  BY <1>1, <1>2, <1>3, <1>4, <1>5, <1>6, <1>7 DEF PolicyStep

\* Once a process serves, every policy has a history.
LEMMA ServingHistory == Historied /\ Serving => \A s \in Slots : Complete(s)
BY DEF Historied, Serving

\* Every step keeps the requests consistent.
LEMMA NextAdmins ==
    ASSUME TableTypes, AdminsOK, Historied, Kept, [Next]_vars
    PROVE  AdminsOK'
<1>1. CASE \E a \in Admins : AccessStep(a)
  BY <1>1, AccessAdmins
<1>2. CASE \E a \in Admins : Serving /\ (PolicyRequest(a) \/ PolicyStep(a))
  BY <1>2, RequestAdmins, StepAdmins, ServingHistory
<1>3. CASE UNCHANGED admin
  BY <1>3, OthersOK DEF AdminsOK
<1>4. ASSUME NEW s \in Starters, Startup(s) PROVE UNCHANGED admin
  BY <1>4 DEF Startup, Initialize, BootLookup, BootProject, Enroll, SeedRead,
       SeedWrite, Stop
<1>5. QED
  BY <1>1, <1>2, <1>3, <1>4, RequestsOnly DEF Next, vars

-----------------------------------------------------------------------------
(* Starting processes                                                      *)

\* The row of the first template never disappears after SeedRead looked for it.
LEMMA NextSeeds ==
    ASSUME TableTypes, SeedsOK, Kept, [Next]_vars
    PROVE  SeedsOK'
<1>1. ASSUME NEW t \in Starters, starter'[t] = starter[t],
             starter'[t].pc = "seed_write",
             policy'[<<Default, FirstTemplate>>] = None
      PROVE  starter'[t].absent
  <2>1. DOMAIN Templates # {}
    BY <1>1 DEF SeedsOK
  <2>2. <<Default, FirstTemplate>> \in Slots
    BY <2>1, FirstIsTemplate, TemplateSlots
  <2>3. QED
    BY <1>1, <2>2 DEF SeedsOK, Kept
<1>2. ASSUME NEW s \in Starters, Startup(s), NEW t \in Starters,
             starter'[t].pc = "seed_write"
      PROVE  \/ starter'[t] = starter[t]
             \/ /\ DOMAIN Templates # {}
                /\ policy'[<<Default, FirstTemplate>>] = None => starter'[t].absent
  <2>1. CASE SeedRead(s)
    BY <1>2, <2>1 DEF SeedRead, TableTypes, policyVars
  <2>2. CASE ~SeedRead(s)
    <3>0. project[Default] \in {None, "ACTIVE", "DISABLED"}
      BY TemplateSlots DEF TableTypes, PolicyTypeOK
    <3>1. PICK pc \in {"down", "lookup", "recheck", "project", "create", "enroll",
                        "seed", "up", "failed"} : Goto(s, pc)
      <4>1. CASE BootProject(s)
        BY <3>0, <4>1 DEF BootProject
      <4>2. CASE BootLookup(s)
        BY <4>2 DEF BootLookup
      <4>3. QED
        BY <1>2, <2>2, <4>1, <4>2 DEF Startup, Initialize, Enroll, SeedWrite, Stop
    <3>2. starter'[s].pc = pc /\ (t # s => starter'[t] = starter[t])
      BY <3>1 DEF Goto, Down, TableTypes
    <3>3. QED
      BY <1>2, <3>1, <3>2
  <2>3. QED
    BY <2>1, <2>2
<1>3. ASSUME ~(\E s \in Starters : Startup(s)) PROVE UNCHANGED starter
  BY <1>3, RequestsOnly DEF Next, vars, AccessStep, CreateProject, ReceiveIssue,
       ReceiveStatus, ReceiveRevoke, ReadStanding, IssueKey, ChangeStatus, RevokeKey
<1>4. QED
  BY <1>1, <1>2, <1>3 DEF SeedsOK

-----------------------------------------------------------------------------
(* The audit trail of versions                                             *)

\* The audit event of a version.
Audited(r) == \E e \in audit : /\ e.by = r.by /\ e.version = r.version
                               /\ e.resource = PolicyResource(r.slot)

\* Every step that adds a version, a backfill excepted, adds its event.
LEMMA NextAudited ==
    ASSUME TableTypes, AdminsOK, SeedsOK, EveryVersionAudited, Kept, [Next]_vars
    PROVE  EveryVersionAudited'
<1>1. ASSUME NEW r \in versions' \ versions, r.change # "MIGRATED"
      PROVE  Audited(r)'
  <2>1. CASE \E s \in Starters : Startup(s)
    <3>1. PICK s \in Starters : Startup(s)
      BY <2>1
    <3>2. CASE Initialize(s)
      BY <1>1, <3>2 DEF Initialize, Backfilled, VersionEntry
    <3>3. CASE SeedWrite(s)
      <4> DEFINE new == Seeded(Default, DOMAIN Templates)
      <4>1. PICK i \in new :
              r = VersionEntry(<<Default, i>>, 1, Templates[i], "CREATED", 0, s)
        BY <1>1, <3>3 DEF SeedWrite, SeedTemplates
      <4>2. i = FirstTemplate => starter[s].absent
        BY <3>3, <4>1 DEF SeedWrite, Seeded, SeedsOK
      <4>3. i \in (new \ {FirstTemplate})
                   \cup (IF starter[s].absent THEN {FirstTemplate} ELSE {})
        BY <4>1, <4>2
      <4>4. Event(s, "POLICY_CREATED", PolicyResource(<<Default, i>>), 1) \in audit'
        <5> HIDE DEF new
        <5>1. QED
          BY <3>3, <4>1, <4>3 DEF SeedWrite, new
      <4>5. QED
        BY <4>1, <4>4 DEF Audited, VersionEntry, Event
    <3>4. CASE UNCHANGED versions
      BY <1>1, <3>4
    <3>5. QED
      BY <3>1, <3>2, <3>3, <3>4 DEF Startup, BootLookup, BootProject, Enroll,
           SeedRead, Stop, policyVars
  <2>2. CASE \E a \in Admins : AccessStep(a)
    <3>1. PICK a \in Admins : AccessStep(a)
      BY <2>2
    <3>2. CASE CreateProject(a)
      <4>1. PICK p \in Projects, k \in Keys :
              /\ SeedTemplates(p, DOMAIN Templates, a)
              /\ {Event(a, "POLICY_CREATED", PolicyResource(<<p, i>>), 1) :
                    i \in DOMAIN Templates} \subseteq audit'
        BY <3>2 DEF CreateProject
      <4>2. PICK i \in DOMAIN Templates :
              r = VersionEntry(<<p, i>>, 1, Templates[i], "CREATED", 0, a)
        BY <1>1, <4>1 DEF SeedTemplates, Seeded
      <4>3. Event(a, "POLICY_CREATED", PolicyResource(<<p, i>>), 1) \in audit'
        BY <4>1, <4>2
      <4>4. QED
        BY <4>2, <4>3 DEF Audited, VersionEntry, Event
    <3>3. CASE UNCHANGED versions
      BY <1>1, <3>3
    <3>4. QED
      BY <3>1, <3>2, <3>3 DEF AccessStep, ReceiveIssue, ReceiveStatus, ReceiveRevoke,
           ReadStanding, IssueKey, ChangeStatus, RevokeKey, policyVars
  <2>3. CASE \E a \in Admins : PolicyRequest(a) \/ PolicyStep(a)
    <3>1. PICK a \in Admins : PolicyRequest(a) \/ PolicyStep(a)
      BY <2>3
    <3>2. CASE StoreVersion(a)
      <4>1. PICK change, source :
              r = VersionEntry(admin[a].slot, admin[a].version, admin[a].def,
                               change, source, a)
        BY <1>1, <3>2 DEF StoreVersion
      <4>2. PICK action :
              Event(a, action, PolicyResource(admin[a].slot), admin[a].version) \in audit'
        BY <3>2 DEF StoreVersion, SaveEvents
      <4>3. QED
        BY <4>1, <4>2 DEF Audited, VersionEntry, Event
    <3>3. CASE UNCHANGED versions
      BY <1>1, <3>3
    <3>4. QED
      BY <3>1, <3>2, <3>3 DEF PolicyRequest, PolicyStep, ReceiveConfigure,
           ReceiveRollback, ReceiveDisable, ReadPrevious, ReadHistorical, ReadCurrent,
           ReadVersion, ReadExisting, SavePolicy, DisablePolicy, AdminFails, policyVars
  <2>4. CASE UNCHANGED versions
    BY <1>1, <2>4
  <2>5. QED
    BY <2>1, <2>2, <2>3, <2>4, RequestsOnly DEF Next, vars, policyVars
<1>2. ASSUME NEW r \in versions, r.change # "MIGRATED" PROVE Audited(r)'
  BY <1>2 DEF EveryVersionAudited, Audited, Kept
<1>3. QED
  BY <1>1, <1>2 DEF EveryVersionAudited, Audited

-----------------------------------------------------------------------------
(* Keys                                                                    *)

\* A key is never deleted, and a revocation never undone.
KeysKept ==
    \A k \in Keys : key[k] # None =>
      key'[k] # None /\ (key[k].revoked => key'[k].revoked)

LEMMA NextKeys ==
    ASSUME TableTypes, AdminsOK, [Next]_vars
    PROVE  KeysKept
<1>0. \A row \in KeyRow : row # None
  BY ControlPlaneAssumption
<1>1. ASSUME NEW k \in Keys, key[k] = None, NEW p, NEW role, InsertKey(k, p, role)
      PROVE  KeysKept
  BY <1>1 DEF KeysKept, InsertKey, TableTypes
<1>2. CASE \E s \in Starters : Startup(s)
  <2>1. PICK s \in Starters : Startup(s)
    BY <1>2
  <2>2. CASE Enroll(s)
    <3>1. CASE key[ConfiguredKey] = None /\ InsertKey(ConfiguredKey, Default, "RUNTIME")
      BY <1>1, <3>1, TemplateSlots
    <3>2. QED
      BY <2>2, <3>1 DEF Enroll, KeysKept
  <2>3. QED
    BY <2>1, <2>2 DEF Startup, Initialize, BootLookup, BootProject, SeedRead,
         SeedWrite, Stop, KeysKept
<1>3. CASE \E a \in Admins : AccessStep(a)
  <2>1. PICK a \in Admins : AccessStep(a)
    BY <1>3
  <2>2. CASE CreateProject(a) \/ IssueKey(a)
    <3>1. PICK k \in Keys : key[k] = None /\ \E p, role : InsertKey(k, p, role)
      BY <2>2 DEF CreateProject, IssueKey
    <3>2. QED
      BY <1>1, <3>1
  <2>3. CASE RevokeKey(a)
    <3>1. admin[a].key \in Keys
      BY <2>3 DEF AdminsOK, AdminOK, RevokeKey
    <3>2. CASE UNCHANGED key
      BY <3>2 DEF KeysKept
    <3>3. CASE ~UNCHANGED key
      <4>1. /\ Standing(admin[a]) # None
            /\ key' = [key EXCEPT ![admin[a].key] = [@ EXCEPT !.revoked = TRUE]]
        BY <2>3, <3>3 DEF RevokeKey
      <4>2. key[admin[a].key] \in KeyRow
        BY <2>3, <3>1, <4>1 DEF Standing, RevokeKey, TableTypes
      <4>3. /\ [key[admin[a].key] EXCEPT !.revoked = TRUE] \in KeyRow
            /\ [key[admin[a].key] EXCEPT !.revoked = TRUE].revoked
        BY <4>2 DEF KeyRow
      <4>4. QED
        BY <1>0, <3>1, <4>1, <4>3 DEF KeysKept, TableTypes
    <3>4. QED
      BY <3>2, <3>3
  <2>4. QED
    BY <2>1, <2>2, <2>3 DEF AccessStep, ReceiveIssue, ReceiveStatus, ReceiveRevoke,
         ReadStanding, ChangeStatus, KeysKept
<1>4. CASE UNCHANGED key
  BY <1>4 DEF KeysKept
<1>5. QED
  BY <1>2, <1>3, <1>4, RequestsOnly DEF Next, vars

\* A step of r changes no other request.
LEMMA OneRequest ==
    ASSUME RequestsOK, KeysKept, NEW r \in Requests, NEW next,
           request' = [request EXCEPT ![r] = next], RequestOK(r)'
    PROVE  RequestsOK'
<1>1. DOMAIN request' = Requests
  BY DEF RequestsOK
<1>2. ASSUME NEW q \in Requests, q # r PROVE RequestOK(q)'
  <2>1. request'[q] = request[q] /\ RequestOK(q)
    BY <1>2 DEF RequestsOK
  <2>2. QED
    BY <2>1 DEF RequestOK, KeysKept
<1>3. QED
  BY <1>1, <1>2 DEF RequestsOK

\* A refused request names no project.
LEMMA RefusalOK ==
    ASSUME RequestsOK, KeysKept, NEW r \in Requests, NEW code, Refuse(r, code)
    PROVE  RequestsOK'
<1>1. request'[r] = [NotSent EXCEPT !.pc = "done", !.code = code]
  BY DEF RequestsOK, Refuse
<1>2. /\ request'[r].pc = "done" /\ request'[r].project = None
      /\ request'[r].late = FALSE /\ DOMAIN request'[r] = DOMAIN NotSent
  BY <1>1 DEF NotSent
<1>3. RequestOK(r)'
  BY <1>2 DEF RequestOK
<1>4. QED
  BY <1>3, OneRequest DEF Refuse

LEMMA NextRequests ==
    ASSUME TableTypes, AdminsOK, RequestsOK, KeysKept, [Next]_vars
    PROVE  RequestsOK'
<1>0. ASSUME NEW r \in Requests
      PROVE  {"pc", "key", "late", "project", "code", "call", "decision", "policy",
              "version", "trace"} = DOMAIN request[r]
  BY DEF RequestsOK, RequestOK, NotSent
<1>1. ASSUME NEW r \in Requests, Lookup(r) PROVE RequestsOK'
  <2>1. PICK k \in Keys :
          \/ Refuse(r, "unauthorized")
          \/ /\ Active(k)
             /\ request' = [request EXCEPT ![r] = [@ EXCEPT !.pc = "kdf", !.key = k]]
    BY <1>1 DEF Lookup, Refuse
  <2>2. ASSUME Active(k),
               request' = [request EXCEPT ![r] = [@ EXCEPT !.pc = "kdf", !.key = k]]
        PROVE  RequestsOK'
    <3>1. request'[r] = [request[r] EXCEPT !.pc = "kdf", !.key = k]
      BY <2>2 DEF RequestsOK
    <3>2. /\ request'[r].pc = "kdf" /\ request'[r].key = k
          /\ request'[r].project = request[r].project
          /\ request'[r].late = request[r].late
          /\ DOMAIN request'[r] = DOMAIN request[r]
      BY <1>0, <3>1
    <3>3. key'[k] # None /\ request[r].pc = "idle" /\ RequestOK(r)
      BY <1>1, <2>2 DEF Active, KeysKept, Lookup, RequestsOK
    <3>4. RequestOK(r)'
      BY <3>2, <3>3 DEF RequestOK
    <3>5. QED
      BY <2>2, <3>4, OneRequest
  <2>3. QED
    BY <2>1, <2>2, RefusalOK
<1>2. ASSUME NEW r \in Requests, VerifyKey(r) PROVE RequestsOK'
  <2> DEFINE late == key[request[r].key].revoked
  <2>1. \/ Refuse(r, "unauthorized")
        \/ request' = [request EXCEPT ![r] = [@ EXCEPT !.pc = "recheck", !.late = late]]
    BY <1>2 DEF VerifyKey
  <2>2. /\ request[r].pc = "kdf" /\ RequestOK(r) /\ request[r].key \in Keys
        /\ late \in BOOLEAN /\ UNCHANGED key
    BY <1>2 DEF VerifyKey, RequestsOK, RequestOK, TableTypes, KeyRow
  <2>3. late => key[request[r].key].revoked
    OBVIOUS
  <2> HIDE DEF late
  <2>4. ASSUME request' = [request EXCEPT ![r] =
                 [@ EXCEPT !.pc = "recheck", !.late = late]]
        PROVE  RequestsOK'
    <3>1. request'[r] = [request[r] EXCEPT !.pc = "recheck", !.late = late]
      BY <2>4 DEF RequestsOK
    <3>2. /\ request'[r].pc = "recheck" /\ request'[r].key = request[r].key
          /\ request'[r].project = request[r].project /\ request'[r].late = late
          /\ DOMAIN request'[r] = DOMAIN request[r]
      BY <1>0, <3>1
    <3>3. RequestOK(r)'
      BY <2>2, <2>3, <3>2 DEF RequestOK
    <3>4. QED
      BY <2>4, <3>3, OneRequest
  <2>5. QED
    BY <2>1, <2>4, RefusalOK
<1>3. ASSUME NEW r \in Requests, Recheck(r) PROVE RequestsOK'
  <2> DEFINE p == key[request[r].key].project
  <2>1. \/ Refuse(r, "unauthorized") \/ Refuse(r, "forbidden")
        \/ /\ Active(request[r].key)
           /\ request' = [request EXCEPT ![r] = [@ EXCEPT !.pc = "evaluate", !.project = p]]
    BY <1>3 DEF Recheck
  <2>2. request[r].pc = "recheck" /\ RequestOK(r)
    BY <1>3 DEF Recheck, RequestsOK
  <2> HIDE DEF p
  <2>3. ASSUME Active(request[r].key),
               request' = [request EXCEPT ![r] =
                 [@ EXCEPT !.pc = "evaluate", !.project = p]]
        PROVE  RequestsOK'
    <3>1. request'[r] = [request[r] EXCEPT !.pc = "evaluate", !.project = p]
      BY <2>3 DEF RequestsOK
    <3>2. /\ request'[r].pc = "evaluate" /\ request'[r].late = request[r].late
          /\ DOMAIN request'[r] = DOMAIN request[r]
      BY <1>0, <3>1
    <3>3. ~request[r].late
      BY <2>2, <2>3 DEF RequestOK, Active
    <3>4. RequestOK(r)'
      BY <2>2, <3>2, <3>3 DEF RequestOK
    <3>5. QED
      BY <2>3, <3>4, OneRequest
  <2>4. QED
    BY <2>1, <2>3, RefusalOK
<1>4. ASSUME NEW r \in Requests, Evaluate(r) PROVE RequestsOK'
  <2>1. request[r].pc = "evaluate" /\ RequestOK(r)
    BY <1>4 DEF Evaluate, RequestsOK
  <2>2. PICK c \in Calls :
          LET e == EvaluatePolicy(c[1], c[2], ActivePolicies(request[r].project))
          IN request' = [request EXCEPT ![r] =
               [@ EXCEPT !.pc = "done", !.code = e.code, !.call = c,
                         !.decision = e.decision, !.policy = e.policy,
                         !.version = e.version, !.trace = e.trace]]
    BY <1>4 DEF Evaluate
  <2> DEFINE e == EvaluatePolicy(c[1], c[2], ActivePolicies(request[r].project))
             answer == [request[r] EXCEPT !.pc = "done", !.code = e.code, !.call = c,
                          !.decision = e.decision, !.policy = e.policy,
                          !.version = e.version, !.trace = e.trace]
  <2>3. request' = [request EXCEPT ![r] = answer]
    BY <2>2
  <2>4. request'[r] = answer
    BY <2>3 DEF RequestsOK
  <2> HIDE DEF e
  <2>5. /\ request'[r].pc = "done" /\ request'[r].late = request[r].late
        /\ request'[r].project = request[r].project
        /\ DOMAIN request'[r] = DOMAIN request[r]
    BY <1>0, <2>4
  <2>6. RequestOK(r)'
    BY <2>1, <2>5 DEF RequestOK
  <2>7. QED
    BY <2>3, <2>6, OneRequest
<1>5. ASSUME UNCHANGED request PROVE RequestsOK'
  BY <1>5 DEF RequestsOK, RequestOK, KeysKept
<1>6. ASSUME ~(\E r \in Requests : Lookup(r) \/ VerifyKey(r) \/ Recheck(r) \/ Evaluate(r))
      PROVE  UNCHANGED request
  BY <1>6 DEF Next, vars, Startup, Initialize, BootLookup, BootProject, Enroll,
       SeedRead, SeedWrite, Stop, AccessStep, CreateProject, ReceiveIssue,
       ReceiveStatus, ReceiveRevoke, ReadStanding, IssueKey, ChangeStatus, RevokeKey
<1>7. QED
  BY <1>1, <1>2, <1>3, <1>4, <1>5, <1>6

-----------------------------------------------------------------------------
(* Histories                                                               *)

\* A policy whose rows, version and content stay keeps its history.
LEMMA SameHistory ==
    ASSUME NEW s \in Slots, Complete(s), VersionsOf(s)' = VersionsOf(s),
           policy'[s] = None <=> policy[s] = None,
           policy[s] # None => /\ policy'[s].version = policy[s].version
                               /\ policy'[s].def = policy[s].def
    PROVE  Complete(s)'
<1>1. Gapless(s)'
  BY DEF Complete, Gapless
<1>2. QED
  BY <1>1 DEF Complete, HasVersion

\* One row is the whole history of a policy that had none.
LEMMA FirstRow ==
    ASSUME NEW s \in Slots, NEW r, policy'[s] # None, VersionsOf(s)' = {r},
           r.version \in Nat, r.version = policy'[s].version, r.def = policy'[s].def,
           r.change \in {"CREATED", "MIGRATED"}
    PROVE  Complete(s)'
<1>1. Gapless(s)'
  BY DEF Gapless
<1>2. QED
  BY <1>1 DEF Complete, HasVersion

\* A row for the next version, which an update creates from the configured
\* one or a rollback copies from an older one.
LEMMA NextRow ==
    ASSUME TableTypes, NEW s \in Slots, Complete(s), policy[s] # None, NEW r \in VersionRow,
           VersionsOf(s)' = VersionsOf(s) \cup {r}, policy'[s] # None,
           r.version = policy[s].version + 1,
           policy'[s].version = r.version, policy'[s].def = r.def,
           r.change \in {"UPDATED", "ROLLBACK"},
           r.change = "ROLLBACK" =>
             \E q \in VersionsOf(s) : q.version = r.source /\ q.def = r.def
    PROVE  Complete(s)'
<1> DEFINE rows == VersionsOf(s)
<1>1. policy[s].version \in Nat /\ r.version \in Nat
  BY DEF TableTypes, PolicyTypeOK, Row, VersionRow
<1>2. \A q \in rows : /\ q.version \in Nat /\ q.version <= policy[s].version
                      /\ q.version < r.version
  BY <1>1 DEF Complete, Gapless, VersionsOf, TableTypes, PolicyTypeOK, VersionRow
<1>3. \E q \in rows : q.version = policy[s].version
  BY DEF Complete, HasVersion
<1>4. Gapless(s)
  BY DEF Complete
<1>5. \A q, p \in rows \cup {r} : q.version = p.version => q = p
  BY <1>2, <1>4 DEF Gapless
<1>6. ASSUME NEW q \in rows \cup {r}
      PROVE  /\ q.version <= r.version
             /\ q.version < r.version =>
                  \E p \in rows \cup {r} : p.version = q.version + 1
             /\ q.version = r.version => q = r
  <2>1. CASE q = r
    BY <1>1, <2>1
  <2>2. CASE q \in rows /\ q.version = policy[s].version
    BY <1>1, <2>2
  <2>3. CASE q \in rows /\ q.version < policy[s].version
    BY <1>1, <1>2, <1>4, <2>3 DEF Gapless
  <2>4. QED
    BY <1>2, <1>1, <2>1, <2>2, <2>3
<1>7. ASSUME NEW q \in rows \cup {r}, q.change \in {"CREATED", "MIGRATED"},
             NEW p \in rows \cup {r}
      PROVE  q.version <= p.version
  BY <1>1, <1>2, <1>4, <1>7 DEF Gapless
<1>8. ASSUME NEW q \in rows \cup {r}, q.change = "ROLLBACK"
      PROVE  \E p \in rows \cup {r} :
               p.version = q.source /\ p.version < q.version /\ p.def = q.def
  BY <1>1, <1>2, <1>4, <1>8 DEF Gapless
<1>9. Gapless(s)'
  <2> HIDE DEF rows
  <2>1. VersionsOf(s)' = rows \cup {r}
    BY DEF rows
  <2>2. QED
    BY <1>5, <1>6, <1>7, <1>8, <2>1 DEF Gapless
<1>10. QED
  BY <1>9 DEF Complete, HasVersion

\* insert_seed starts the history of every policy it creates.
LEMMA SeedHistory ==
    ASSUME TableTypes, NEW p \in Projects, NEW by,
           SeedTemplates(p, DOMAIN Templates, by), \A s \in Slots : Complete(s)
    PROVE  \A s \in Slots : Complete(s)'
<1>1. SUFFICES ASSUME NEW s \in Slots PROVE Complete(s)'
  OBVIOUS
<1> DEFINE new == Seeded(p, DOMAIN Templates)
           Entry(i) == VersionEntry(<<p, i>>, 1, Templates[i], "CREATED", 0, by)
<1>2. \A i \in new : /\ Entry(i).slot = <<p, i>> /\ Entry(i).version = 1
                     /\ Entry(i).def = Templates[i] /\ Entry(i).change = "CREATED"
  BY DEF VersionEntry
<1>3. versions' = versions \cup {Entry(i) : i \in new}
  BY DEF SeedTemplates
<1>4. policy'[s] = IF s[1] = p /\ s[2] \in new
        THEN [version |-> 1, def |-> Templates[s[2]], enabled |-> TRUE] ELSE policy[s]
  BY DEF SeedTemplates
<1>5. new \subseteq DOMAIN Templates /\ \A i \in new : policy[<<p, i>>] = None
  BY DEF Seeded
<1>6. s = <<s[1], s[2]>>
  BY DEF Slots
<1> HIDE DEF new, Entry
<1>7. CASE s[1] = p /\ s[2] \in new
  <2>1. policy[s] = None /\ s = <<p, s[2]>>
    BY <1>5, <1>6, <1>7
  <2>2. VersionsOf(s) = {}
    BY <2>1 DEF Complete, Gapless
  <2>3. \A i \in new : Entry(i).slot = s <=> i = s[2]
    BY <1>2, <1>7, <2>1
  <2>4. VersionsOf(s)' = {Entry(s[2])}
    BY <1>3, <1>7, <2>2, <2>3 DEF VersionsOf
  <2> DEFINE i == s[2]
             row == [version |-> 1, def |-> Templates[i], enabled |-> TRUE]
  <2>5. policy'[s] = row /\ Templates[i] \in Definitions
    BY <1>4, <1>5, <1>7, TemplateSlots
  <2>6. row \in Row /\ row.version = 1 /\ row.def = Templates[i]
    <3> HIDE DEF i
    <3>1. QED
      BY <2>5 DEF Row
  <2>7. policy'[s] # None /\ policy'[s].version = 1 /\ policy'[s].def = Templates[i]
    <3> HIDE DEF row, i
    <3>1. QED
      BY <2>5, <2>6, PolicyAssumption
  <2>8. QED
    BY <1>2, <1>7, <2>4, <2>7, FirstRow
<1>8. CASE ~(s[1] = p /\ s[2] \in new)
  <2>1. policy'[s] = policy[s]
    BY <1>4, <1>8
  <2>2. \A i \in new : Entry(i).slot # s
    BY <1>2, <1>8
  <2>3. VersionsOf(s)' = VersionsOf(s)
    BY <1>3, <2>2 DEF VersionsOf
  <2>4. QED
    BY <2>1, <2>3, SameHistory
<1>9. QED
  BY <1>7, <1>8

\* The first initialize of a database without history starts it, a later one
\* finds nothing to backfill.
LEMMA InitializeHistory ==
    ASSUME TableTypes, Historied, NEW t \in Starters, Initialize(t)
    PROVE  \A s \in Slots : Complete(s)'
<1>1. SUFFICES ASSUME NEW s \in Slots PROVE Complete(s)'
  OBVIOUS
<1> DEFINE Entry(u) == VersionEntry(u, policy[u].version, policy[u].def, "MIGRATED", 0, t)
<1>2. policy' = policy /\ versions' = versions \cup Backfilled(t)
  BY DEF Initialize
<1>3. CASE \A u \in Slots : Complete(u)
  <2>1. Backfilled(t) = {}
    BY <1>3 DEF Backfilled, Complete
  <2>2. VersionsOf(s)' = VersionsOf(s)
    BY <1>2, <2>1 DEF VersionsOf
  <2>3. QED
    BY <1>2, <1>3, <2>2, SameHistory
<1>4. CASE versions = {}
  <2>1. \A u \in Slots : ~HasVersion(u, policy[u].version)
    BY <1>4 DEF HasVersion, VersionsOf
  <2>2. Backfilled(t) = {Entry(u) : u \in {v \in Slots : policy[v] # None}}
    BY <2>1 DEF Backfilled
  <2>3. \A u \in Slots : Entry(u).slot = u
    BY DEF VersionEntry
  <2>4. CASE policy[s] = None
    <3>1. VersionsOf(s)' = {}
      BY <1>2, <1>4, <2>2, <2>3, <2>4 DEF VersionsOf
    <3>2. QED
      BY <1>2, <2>4, <3>1 DEF Complete, Gapless
  <2>5. CASE policy[s] # None
    <3>1. VersionsOf(s)' = {Entry(s)}
      BY <1>2, <1>4, <2>2, <2>3, <2>5 DEF VersionsOf
    <3>2. policy[s].version \in Nat
      BY <2>5 DEF TableTypes, PolicyTypeOK, Row
    <3>3. QED
      BY <1>2, <2>5, <3>1, <3>2, FirstRow DEF VersionEntry
  <2>6. QED
    BY <2>4, <2>5
<1>5. QED
  BY <1>3, <1>4 DEF Historied

\* An update or a rollback extends the history of its policy only.
LEMMA SaveHistory ==
    ASSUME TableTypes, AdminsOK, NEW a \in Admins, SavePolicy(a), RowMatches(admin[a]),
           StoreVersion(a), \A s \in Slots : Complete(s)
    PROVE  \A s \in Slots : Complete(s)'
<1>0. PICK slot \in Slots : slot = admin[a].slot
  BY WriterTypes
<1> DEFINE base == admin[a].base
           change == IF base = 0 THEN "CREATED"
                     ELSE IF admin[a].op = "rollback" THEN "ROLLBACK" ELSE "UPDATED"
           source == IF change = "ROLLBACK" THEN admin[a].source ELSE 0
           r == VersionEntry(slot, admin[a].version, admin[a].def, change, source, a)
           row == [version |-> admin[a].version, def |-> admin[a].def, enabled |-> TRUE]
<1>1. /\ admin[a].def \in Definitions
      /\ admin[a].version \in Nat \ {0} /\ admin[a].source \in Nat
      /\ base \in Nat /\ admin[a].version = base + 1 /\ AdminOK(a)
  BY WriterTypes DEF AdminsOK
<1>2. policy' = [policy EXCEPT ![slot] = row] /\ versions' = versions \cup {r}
  BY <1>0 DEF StoreVersion
<1>3. r \in VersionRow /\ row \in Row
  BY <1>1, VersionType DEF Row
<1>4. /\ r.slot = slot /\ r.version = admin[a].version /\ r.def = admin[a].def
      /\ r.change = change /\ r.source = source
      /\ row.version = admin[a].version /\ row.def = admin[a].def
  BY DEF VersionEntry
<1>5. /\ base = 0 => change = "CREATED"
      /\ base # 0 => change \in {"UPDATED", "ROLLBACK"}
      /\ change = "ROLLBACK" => admin[a].op = "rollback" /\ source = admin[a].source
  OBVIOUS
<1>6. /\ CurrentVersion(slot) = base
      /\ base = 0 <=> policy[slot] = None
      /\ policy[slot] # None => policy[slot].version = base
  BY <1>0, CurrentVersionType DEF RowMatches, TableTypes
<1>7. admin[a].op = "rollback" =>
        \E q \in VersionsOf(slot) : q.version = admin[a].source /\ q.def = admin[a].def
  BY <1>0, <1>1 DEF AdminOK, SavePolicy
<1> HIDE DEF base, change, source, r, row
<1>8. policy'[slot] = row /\ row # None
  BY <1>1, <1>2, <1>3, PolicyAssumption DEF TableTypes, PolicyTypeOK
<1>9. VersionsOf(slot)' = VersionsOf(slot) \cup {r}
  BY <1>2, <1>4 DEF VersionsOf
<1>10. Complete(slot)'
  <2>1. CASE base = 0
    <3>1. VersionsOf(slot)' = {r}
      <4>1. Gapless(slot) /\ policy[slot] = None
        BY <1>6, <2>1 DEF Complete
      <4>2. VersionsOf(slot) = {}
        BY <4>1 DEF Gapless
      <4>3. QED
        BY <1>9, <4>2
    <3>2. QED
      BY <1>1, <1>4, <1>5, <1>8, <2>1, <3>1, FirstRow
  <2>2. CASE base # 0
    <3>1. /\ policy[slot] # None /\ r.version = policy[slot].version + 1
          /\ r.change \in {"UPDATED", "ROLLBACK"}
      BY <1>1, <1>4, <1>5, <1>6, <2>2
    <3>2. r.change = "ROLLBACK" =>
            \E q \in VersionsOf(slot) : q.version = r.source /\ q.def = r.def
      BY <1>4, <1>5, <1>7
    <3>3. QED
      BY <1>1, <1>3, <1>4, <1>8, <1>9, <3>1, <3>2, NextRow
  <2>3. QED
    BY <2>1, <2>2
<1>11. ASSUME NEW s \in Slots, s # slot PROVE Complete(s)'
  <2>1. policy'[s] = policy[s]
    BY <1>2, <1>11 DEF TableTypes, PolicyTypeOK
  <2>2. VersionsOf(s)' = VersionsOf(s)
    BY <1>2, <1>4, <1>11 DEF VersionsOf
  <2>3. QED
    BY <2>1, <2>2, SameHistory
<1>12. QED
  BY <1>10, <1>11

\* Disabling a policy leaves its version and content alone.
LEMMA DisableHistory ==
    ASSUME TableTypes, AdminsOK, NEW a \in Admins, DisablePolicy(a),
           \A s \in Slots : Complete(s)
    PROVE  \A s \in Slots : Complete(s)'
<1>0. PICK slot \in Slots : slot = admin[a].slot
  BY DEF DisablePolicy, AdminsOK, AdminOK, Admin, TableTypes, PolicyTypeOK
<1> DEFINE row == [policy[slot] EXCEPT !.enabled = FALSE]
<1>1. policy[slot] \in Row
  BY <1>0 DEF DisablePolicy, AdminsOK, AdminOK, Admin, TableTypes, PolicyTypeOK
<1>2. policy' = [policy EXCEPT ![slot] = row] /\ versions' = versions
  BY <1>0 DEF DisablePolicy
<1>3. row \in Row /\ row.version = policy[slot].version /\ row.def = policy[slot].def
  BY <1>1 DEF Row
<1>4. \A s \in Slots : VersionsOf(s)' = VersionsOf(s)
  BY <1>2 DEF VersionsOf
<1> HIDE DEF row
<1>5. policy'[slot] = row /\ \A s \in Slots : s # slot => policy'[s] = policy[s]
  BY <1>1, <1>2 DEF TableTypes, PolicyTypeOK
<1>6. policy'[slot] # None /\ policy[slot] # None
  BY <1>1, <1>3, <1>5, PolicyAssumption
<1>7. Complete(slot)'
  BY <1>1, <1>3, <1>4, <1>5, <1>6, SameHistory
<1>8. ASSUME NEW s \in Slots, s # slot PROVE Complete(s)'
  BY <1>4, <1>5, <1>8, SameHistory
<1>9. QED
  BY <1>7, <1>8

\* Every step keeps the histories complete.
LEMMA NextHistory ==
    ASSUME TableTypes, AdminsOK, Historied, [Next]_vars
    PROVE  Historied'
<1>0. ASSUME \A s \in Slots : Complete(s), UNCHANGED <<policy, versions>>
      PROVE  Historied'
  <2>1. \A s \in Slots : VersionsOf(s)' = VersionsOf(s)
    BY <1>0 DEF VersionsOf
  <2>2. QED
    BY <1>0, <2>1, SameHistory DEF Historied
<1>1. CASE \E s \in Starters : Startup(s)
  <2>1. PICK s \in Starters : Startup(s)
    BY <1>1
  <2>2. CASE Initialize(s)
    BY <2>2, InitializeHistory DEF Historied
  <2>3. CASE starter[s].pc # "down"
    <3>1. \A u \in Slots : Complete(u)
      BY <2>3 DEF Historied
    <3>2. CASE SeedWrite(s)
      BY <3>1, <3>2, SeedHistory, TemplateSlots DEF SeedWrite, Historied
    <3>3. CASE UNCHANGED <<policy, versions>>
      BY <1>0, <3>1, <3>3
    <3>4. QED
      BY <2>1, <2>2, <3>2, <3>3 DEF Startup, BootLookup, BootProject, Enroll,
           SeedRead, Stop, policyVars
  <2>4. QED
    BY <2>1, <2>2, <2>3 DEF Startup, BootLookup, BootProject, Enroll, SeedRead,
         SeedWrite, Stop
<1>2. CASE \E a \in Admins : Serving /\ AccessStep(a)
  <2>1. PICK a \in Admins : AccessStep(a)
    BY <1>2
  <2>2. \A u \in Slots : Complete(u)
    BY <1>2, ServingHistory
  <2>3. CASE CreateProject(a)
    <3>1. PICK p \in Projects : SeedTemplates(p, DOMAIN Templates, a)
      BY <2>3 DEF CreateProject
    <3>2. QED
      BY <2>2, <3>1, SeedHistory DEF Historied
  <2>4. CASE ~CreateProject(a)
    <3>1. UNCHANGED <<policy, versions>>
      BY <2>1, <2>4 DEF AccessStep, ReceiveIssue, ReceiveStatus, ReceiveRevoke,
           ReadStanding, IssueKey, ChangeStatus, RevokeKey, policyVars
    <3>2. QED
      BY <1>0, <2>2, <3>1
  <2>5. QED
    BY <2>3, <2>4
<1>3. CASE \E a \in Admins : Serving /\ (PolicyRequest(a) \/ PolicyStep(a))
  <2>1. PICK a \in Admins : PolicyRequest(a) \/ PolicyStep(a)
    BY <1>3
  <2>2. \A u \in Slots : Complete(u)
    BY <1>3, ServingHistory
  <2>3. CASE SavePolicy(a) /\ RowMatches(admin[a]) /\ StoreVersion(a)
    BY <2>2, <2>3, SaveHistory DEF Historied
  <2>4. CASE DisablePolicy(a)
    BY <2>2, <2>4, DisableHistory DEF Historied
  <2>5. CASE UNCHANGED <<policy, versions>>
    BY <1>0, <2>2, <2>5
  <2>6. QED
    BY <2>1, <2>3, <2>4, <2>5 DEF PolicyRequest, PolicyStep, ReceiveConfigure,
         ReceiveRollback, ReceiveDisable, ReadPrevious, ReadHistorical, ReadCurrent,
         ReadVersion, ReadExisting, SavePolicy, AdminFails, policyVars
<1>4. CASE UNCHANGED <<policy, versions, starter>>
  <2>1. CASE \A s \in Slots : Complete(s)
    BY <1>0, <1>4, <2>1
  <2>2. CASE versions = {} /\ \A s \in Starters : starter[s].pc = "down"
    BY <1>4, <2>2 DEF Historied
  <2>3. QED
    BY <2>1, <2>2 DEF Historied
<1>5. QED
  BY <1>1, <1>2, <1>3, <1>4, RequestsOnly DEF Next, vars, policyVars

-----------------------------------------------------------------------------
(* The inductive invariant and the theorems                                *)

LEMMA InitInv == Init => Inv
<1> SUFFICES ASSUME Init PROVE Inv
  OBVIOUS
<1>1. TableTypes
  BY InitTypes
<1>2. ASSUME NEW a \in Admins PROVE AdminOK(a)
  <2>1. /\ admin[a].op = None /\ admin[a].slot = None /\ admin[a].pc = "idle"
        /\ admin[a].code = None
    BY DEF Init, NoRequest
  <2>2. None \notin Operations
    BY PolicyAssumption
  <2>3. QED
    BY <2>1, <2>2, NoneIsNoCode DEF AdminOK, Operations
<1>3. Historied /\ SeedsOK
  BY DEF Init, Historied, SeedsOK, Down
<1>4. EveryVersionAudited
  BY DEF Init, EveryVersionAudited
<1>5. RequestsOK
  <2>1. DOMAIN request = Requests /\ \A r \in Requests : request[r] = NotSent
    BY DEF Init
  <2>2. NotSent.late = FALSE /\ NotSent.project = None /\ NotSent.pc = "idle"
    BY DEF NotSent
  <2>3. QED
    BY <2>1, <2>2 DEF RequestsOK, RequestOK
<1>6. QED
  BY <1>1, <1>2, <1>3, <1>4, <1>5 DEF Inv, AdminsOK

LEMMA NextInv == Inv /\ [Next]_vars => Inv'
<1> SUFFICES ASSUME Inv, [Next]_vars PROVE Inv'
  OBVIOUS
<1>1. /\ TableTypes /\ AdminsOK /\ Historied /\ SeedsOK /\ EveryVersionAudited
      /\ RequestsOK
  BY DEF Inv
<1>2. Kept /\ KeysKept
  BY <1>1, NothingTakenBack, NextKeys
<1>3. TableTypes' /\ AdminsOK' /\ SeedsOK'
  BY <1>1, <1>2, NextTypes, NextAdmins, NextSeeds
<1>4. Historied' /\ EveryVersionAudited' /\ RequestsOK'
  BY <1>1, <1>2, NextHistory, NextAudited, NextRequests
<1>5. QED
  BY <1>3, <1>4 DEF Inv

\* The conjunction of what follows is an invariant: the tables are well typed
\* and each part of the control plane keeps its share of the bookkeeping.
THEOREM ControlPlaneInvariant == Spec => []Inv
BY InitInv, NextInv, PTL DEF Spec

\* Once a process serves, the history of every policy is gapless and ends
\* with the configured version and content (project_policy_versions against
\* project_policies), for any number of concurrent updates, rollbacks, seeds,
\* project creations and backfills.
THEOREM HistoryGapless == Spec => []HistoryIsGapless
<1>1. Inv => HistoryIsGapless
  BY ServingHistory DEF Inv, HistoryIsGapless, Complete
<1>2. QED
  BY <1>1, ControlPlaneInvariant, PTL

\* Of the concurrent updates and rollbacks of one version one wins: each 200
\* answer owns the version it asked for, and save_with_connection never meets
\* an IntegrityError.
THEOREM UpdatesLand == Spec => []NoLostUpdate
<1>1. ASSUME Inv PROVE NoLostUpdate
  <2>1. SUFFICES ASSUME NEW a \in Admins
                 PROVE  /\ admin[a].code # "integrity_error"
                        /\ (admin[a].op \in {"configure", "rollback"}
                              /\ admin[a].code = "ok") =>
                             \E r \in VersionsOf(admin[a].slot) :
                               /\ r.version = admin[a].version /\ r.by = a
                               /\ r.def = admin[a].def
                               /\ \A q \in VersionsOf(admin[a].slot) :
                                    q.version = r.version => q = r
                               /\ r.change = "ROLLBACK" <=> admin[a].op = "rollback"
    BY DEF NoLostUpdate
  <2>2. AdminOK(a) /\ admin[a] \in Admin
    BY <1>1 DEF Inv, AdminsOK, TableTypes, PolicyTypeOK
  <2>3. ASSUME admin[a].op \in {"configure", "rollback"}, admin[a].code = "ok"
        PROVE  Landed(a) /\ Gapless(admin[a].slot)
    <3>1. Landed(a) /\ admin[a].slot \in Slots
      BY <2>2, <2>3 DEF AdminOK, Admin
    <3>2. versions # {}
      BY <3>1 DEF Landed, VersionsOf
    <3>3. QED
      BY <1>1, <3>1, <3>2 DEF Inv, Historied, Complete
  <2>4. QED
    BY <2>2, <2>3 DEF AdminOK, Landed, Gapless
<1>2. QED
  BY <1>1, ControlPlaneInvariant, PTL

\* Every version that an update, a rollback, a seed or a new project creates
\* has an audit event of its author, although seed_project_policies decides on
\* one event from a row read before its transaction.
THEOREM VersionsAudited == Spec => []EveryVersionAudited
<1>1. Inv => EveryVersionAudited
  BY DEF Inv
<1>2. QED
  BY <1>1, ControlPlaneInvariant, PTL

\* A request whose key was revoked before its verification ended is never
\* given a project, whatever starts, enrolments and administrative requests
\* interleave with it (get_active_project_by_api_key).
THEOREM RevocationFinal == Spec => []RevocationIsFinal
<1>1. Inv => RevocationIsFinal
  BY DEF Inv, RequestsOK, RequestOK, RevocationIsFinal
<1>2. QED
  BY <1>1, ControlPlaneInvariant, PTL

-----------------------------------------------------------------------------
(* Decisions                                                               *)

\* A project has finitely many policies.
FiniteRows ==
    \A p \in Projects : IsFiniteSet({i \in PolicyIds : policy[<<p, i>>] # None})

\* The decision of a request is explained by policies that are all in the
\* history of its project.
Recorded(q) ==
    \E n \in Nat : \E list \in [1..n -> ListedPolicy(PolicyIds)] :
      /\ Explains(list, q.call[2], q)
      /\ \A k \in 1..n :
           /\ list[k].def.action = q.call[1]
           /\ \E v \in versions : /\ v.slot = <<q.project, list[k].id>>
                                  /\ v.version = list[k].version
                                  /\ v.def = list[k].def

QueryOK(r) ==
    LET q == request[r] IN
    /\ q \in Request
    /\ q.pc # "idle" => Serving
    /\ q.pc # "done" => q.code = None
    /\ q.pc = "evaluate" => q.project \in Projects
    /\ q.code = "ok" => q.project \in Projects /\ Recorded(q)

QueriesOK == request \in [Requests -> Request] /\ \A r \in Requests : QueryOK(r)

\* A step adds to the policies of a project at most the templates and one more.
LEMMA NextFinite ==
    ASSUME TableTypes, AdminsOK, FiniteRows, [Next]_vars
    PROVE  FiniteRows'
<1>1. ASSUME NEW F, IsFiniteSet(F),
             \A p \in Projects, i \in PolicyIds :
               policy'[<<p, i>>] # None => policy[<<p, i>>] # None \/ i \in F
      PROVE  FiniteRows'
  <2> SUFFICES ASSUME NEW p \in Projects
               PROVE  IsFiniteSet({i \in PolicyIds : policy'[<<p, i>>] # None})
    BY DEF FiniteRows
  <2> DEFINE rows == {i \in PolicyIds : policy[<<p, i>>] # None}
             next == {i \in PolicyIds : policy'[<<p, i>>] # None}
  <2>1. IsFiniteSet(rows \cup F)
    BY <1>1, FS_Union DEF FiniteRows
  <2>2. next \in SUBSET (rows \cup F)
    BY <1>1
  <2> HIDE DEF next, rows
  <2>3. QED
    BY <2>1, <2>2, FS_Subset DEF next
<1>2. ASSUME UNCHANGED policy PROVE FiniteRows'
  BY <1>2 DEF FiniteRows
<1>3. ASSUME NEW p \in Projects, NEW by, SeedTemplates(p, DOMAIN Templates, by)
      PROVE  FiniteRows'
  <2>1. \A q \in Projects, i \in PolicyIds :
          policy'[<<q, i>>] # None => policy[<<q, i>>] # None \/ i \in DOMAIN Templates
    BY <1>3 DEF SeedTemplates, Seeded, Slots
  <2>2. QED
    BY <1>1, <2>1, PolicyAssumption
<1>4. ASSUME NEW s \in Slots, NEW row, policy' = [policy EXCEPT ![s] = row]
      PROVE  FiniteRows'
  <2>1. \A q \in Projects, i \in PolicyIds :
          policy'[<<q, i>>] # None => policy[<<q, i>>] # None \/ i \in {s[2]}
    BY <1>4 DEF Slots, TableTypes, PolicyTypeOK
  <2>2. IsFiniteSet({s[2]})
    BY FS_Singleton
  <2>3. QED
    BY <1>1, <2>1, <2>2
<1>5. CASE \E s \in Starters : Startup(s)
  <2>1. PICK s \in Starters : Startup(s)
    BY <1>5
  <2>2. CASE SeedWrite(s)
    BY <1>3, <2>2, TemplateSlots DEF SeedWrite
  <2>3. CASE ~SeedWrite(s)
    BY <1>2, <2>1, <2>3 DEF Startup, Initialize, BootLookup, BootProject, Enroll,
         SeedRead, Stop, policyVars
  <2>4. QED
    BY <2>2, <2>3
<1>6. CASE \E a \in Admins : AccessStep(a)
  <2>1. PICK a \in Admins : AccessStep(a)
    BY <1>6
  <2>2. CASE CreateProject(a)
    BY <1>3, <2>2 DEF CreateProject
  <2>3. CASE ~CreateProject(a)
    BY <1>2, <2>1, <2>3 DEF AccessStep, ReceiveIssue, ReceiveStatus, ReceiveRevoke,
         ReadStanding, IssueKey, ChangeStatus, RevokeKey, policyVars
  <2>4. QED
    BY <2>2, <2>3
<1>7. CASE \E a \in Admins : PolicyRequest(a) \/ PolicyStep(a)
  <2>1. PICK a \in Admins : PolicyRequest(a) \/ PolicyStep(a)
    BY <1>7
  <2>2. CASE SavePolicy(a) /\ StoreVersion(a)
    BY <1>4, <2>2, WriterTypes DEF StoreVersion
  <2>3. CASE DisablePolicy(a)
    <3>1. admin[a].slot \in Slots
      BY <2>3 DEF DisablePolicy, AdminsOK, AdminOK, Admin, TableTypes, PolicyTypeOK
    <3>2. QED
      BY <1>4, <2>3, <3>1 DEF DisablePolicy
  <2>4. CASE UNCHANGED policy
    BY <1>2, <2>4
  <2>5. QED
    BY <2>1, <2>2, <2>3, <2>4 DEF PolicyRequest, PolicyStep, ReceiveConfigure,
         ReceiveRollback, ReceiveDisable, ReadPrevious, ReadHistorical, ReadCurrent,
         ReadVersion, ReadExisting, SavePolicy, AdminFails, policyVars
<1>8. QED
  BY <1>2, <1>5, <1>6, <1>7, RequestsOnly DEF Next, vars, policyVars

\* A process that serves goes on serving.
LEMMA NextServing ==
    ASSUME TableTypes, Serving, [Next]_vars
    PROVE  Serving'
<1>1. PICK t \in Starters : starter[t].pc = "up"
  BY DEF Serving
<1>2. ASSUME NEW s \in Starters, Startup(s) PROVE Serving'
  <2>1. starter[s].pc # "up" \/ UNCHANGED starter
    BY <1>2 DEF Startup, Initialize, BootLookup, BootProject, Enroll, SeedRead,
         SeedWrite, Stop
  <2>2. \A q \in Starters : q # s => starter'[q] = starter[q]
    BY <1>2 DEF Startup, Initialize, BootLookup, BootProject, Enroll, SeedRead,
         SeedWrite, Stop, Goto, TableTypes
  <2>3. QED
    BY <1>1, <2>1, <2>2 DEF Serving
<1>3. ASSUME ~(\E s \in Starters : Startup(s)) PROVE UNCHANGED starter
  BY <1>3, RequestsOnly DEF Next, vars, AccessStep, CreateProject, ReceiveIssue,
       ReceiveStatus, ReceiveRevoke, ReadStanding, IssueKey, ChangeStatus, RevokeKey
<1>4. QED
  BY <1>1, <1>2, <1>3 DEF Serving

\* list_active: the listed policies are well typed and stand in the history.
LEMMA ActiveListed ==
    ASSUME TableTypes, FiniteRows, NEW p \in Projects, \A s \in Slots : Complete(s)
    PROVE  LET active == ActivePolicies(p) IN
           /\ active \in Seq(ListedPolicy(PolicyIds))
           /\ \A k \in DOMAIN active :
                \E v \in versions : /\ v.slot = <<p, active[k].id>>
                                    /\ v.version = active[k].version
                                    /\ v.def = active[k].def
<1> DEFINE rows == {i \in PolicyIds : policy[<<p, i>>] # None}
           ids == {i \in PolicyIds : policy[<<p, i>>] # None /\ policy[<<p, i>>].enabled}
           order == InOrder(ids)
           n == Cardinality(ids)
           active == ActivePolicies(p)
<1>1. IsFiniteSet(ids) /\ ids \in SUBSET Nat
  <2>1. IsFiniteSet(rows) /\ ids \in SUBSET rows
    BY DEF FiniteRows
  <2>2. QED
    BY <2>1, FS_Subset, PolicyAssumption
<1> HIDE DEF ids
<1>2. n \in Nat /\ order \in [1..n -> ids]
  BY <1>1, InOrderLists
<1>3. active = [k \in 1..n |->
        [id |-> order[k], version |-> policy[<<p, order[k]>>].version,
         def |-> policy[<<p, order[k]>>].def]]
  BY <1>2 DEF ActivePolicies, ids
<1> HIDE DEF order, n, active
<1>4. ASSUME NEW k \in 1..n
      PROVE  /\ active[k] \in ListedPolicy(PolicyIds)
             /\ \E v \in versions : /\ v.slot = <<p, active[k].id>>
                                    /\ v.version = active[k].version
                                    /\ v.def = active[k].def
  <2> DEFINE i == order[k]
             row == policy[<<p, i>>]
  <2>1. i \in PolicyIds /\ <<p, i>> \in Slots /\ row # None
    BY <1>2 DEF ids, Slots
  <2> HIDE DEF i
  <2>2. row \in Row
    BY <2>1 DEF TableTypes, PolicyTypeOK
  <2> HIDE DEF row
  <2>3. active[k] = [id |-> i, version |-> row.version, def |-> row.def]
    BY <1>3 DEF i, row
  <2>4. row.version \in Nat /\ row.def \in Definition
    BY <2>2, PolicyAssumption DEF Row
  <2>5. Complete(<<p, i>>)
    BY <2>1
  <2>6. PICK v \in VersionsOf(<<p, i>>) : v.version = row.version
    BY <2>1, <2>5 DEF Complete, HasVersion, row
  <2>7. v.def = row.def
    BY <2>5, <2>6 DEF Complete, Gapless, row
  <2>8. active[k] \in ListedPolicy(PolicyIds)
    BY <2>1, <2>3, <2>4 DEF ListedPolicy
  <2>9. QED
    BY <2>3, <2>6, <2>7, <2>8 DEF VersionsOf
<1>5. active \in Seq(ListedPolicy(PolicyIds))
  BY <1>2, <1>3, <1>4
<1>6. DOMAIN active = 1..n
  BY <1>3
<1>7. QED
  BY <1>4, <1>5, <1>6 DEF active

\* An explained evaluation is well typed.
LEMMA ExplainedType ==
    ASSUME NEW n \in Nat, NEW list \in [1..n -> ListedPolicy(PolicyIds)],
           NEW context, NEW e, Explains(list, context, e)
    PROVE  /\ e.decision \in Decisions
           /\ e.policy \in PolicyIds \cup {None}
           /\ e.version \in Nat \cup {None}
           /\ e.trace \in Seq([id: PolicyIds, version: Nat, matched: BOOLEAN])
<1> DEFINE Entry(k) == [id |-> list[k].id, version |-> list[k].version,
                        matched |-> Matches(list[k], context)]
           demands == Demanding(list, context, e.decision)
<1>1. \A k \in 1..n : list[k].id \in PolicyIds /\ list[k].version \in Nat
  BY DEF ListedPolicy
<1>2. e.decision \in Decisions
  BY DEF Explains, Strictest, Decisions
<1>3. demands \in SUBSET Nat /\ demands \in SUBSET (1..n)
  BY DEF Demanding
<1>4. demands # {} => Min(demands) \in 1..n
  <2> HIDE DEF demands
  <2>1. QED
    BY <1>3, MinIsLeast
<1>5. e.policy \in PolicyIds \cup {None} /\ e.version \in Nat \cup {None}
  BY <1>1, <1>4 DEF Explains, Cites
<1>6. \A k \in 1..n : Matches(list[k], context) \in BOOLEAN
  BY DEF Matches
<1>7. \A k \in 1..n : Entry(k) \in [id: PolicyIds, version: Nat, matched: BOOLEAN]
  BY <1>1, <1>6
<1>8. e.trace = [k \in 1..n |-> Entry(k)]
  BY DEF Explains
<1> HIDE DEF Entry
<1>9. e.trace \in Seq([id: PolicyIds, version: Nat, matched: BOOLEAN])
  BY <1>7, <1>8
<1>10. QED
  BY <1>2, <1>5, <1>9

\* What a request that is not answered with a decision keeps.
LEMMA OtherQueries ==
    ASSUME TableTypes, Kept, NEW r, QueryOK(r), request'[r] = request[r],
           Serving => Serving'
    PROVE  QueryOK(r)'
<1>1. ASSUME Recorded(request[r]) PROVE Recorded(request[r])'
  <2>1. PICK n \in Nat : \E list \in [1..n -> ListedPolicy(PolicyIds)] :
          /\ Explains(list, request[r].call[2], request[r])
          /\ \A k \in 1..n :
               /\ list[k].def.action = request[r].call[1]
               /\ \E v \in versions : /\ v.slot = <<request[r].project, list[k].id>>
                                      /\ v.version = list[k].version
                                      /\ v.def = list[k].def
    BY <1>1 DEF Recorded
  <2>2. PICK list \in [1..n -> ListedPolicy(PolicyIds)] :
          /\ Explains(list, request[r].call[2], request[r])
          /\ \A k \in 1..n :
               /\ list[k].def.action = request[r].call[1]
               /\ \E v \in versions : /\ v.slot = <<request[r].project, list[k].id>>
                                      /\ v.version = list[k].version
                                      /\ v.def = list[k].def
    BY <2>1
  <2>3. Explains(list, request'[r].call[2], request'[r])
    BY <2>2
  <2>4. \A k \in 1..n :
          /\ list[k].def.action = request'[r].call[1]
          /\ \E v \in versions' : /\ v.slot = <<request'[r].project, list[k].id>>
                                  /\ v.version = list[k].version
                                  /\ v.def = list[k].def
    BY <2>2 DEF Kept
  <2>5. QED
    BY <2>3, <2>4 DEF Recorded
<1>2. QED
  BY <1>1 DEF QueryOK

LEMMA QueryType ==
    NotSent \in Request /\ \A code \in {"unauthorized", "forbidden"} :
      [NotSent EXCEPT !.pc = "done", !.code = code] \in Request
BY EmptySeq DEF NotSent, Request

LEMMA OneQuery ==
    ASSUME TableTypes, QueriesOK, Kept, NEW r \in Requests, NEW next \in Request,
           request' = [request EXCEPT ![r] = next], QueryOK(r)', Serving => Serving'
    PROVE  QueriesOK'
<1>1. request' \in [Requests -> Request]
  BY DEF QueriesOK
<1>2. ASSUME NEW q \in Requests, q # r PROVE QueryOK(q)'
  <2>1. request'[q] = request[q] /\ QueryOK(q)
    BY <1>2 DEF QueriesOK
  <2>2. QED
    BY <2>1, OtherQueries
<1>3. QED
  BY <1>1, <1>2 DEF QueriesOK

LEMMA RefusedQuery ==
    ASSUME TableTypes, QueriesOK, Kept, NEW r \in Requests, Serving => Serving',
           NEW code \in {"unauthorized", "forbidden"}, Refuse(r, code), Serving'
    PROVE  QueriesOK'
<1> DEFINE next == [NotSent EXCEPT !.pc = "done", !.code = code]
<1>1. next \in Request /\ next.pc = "done" /\ next.code = code
  BY QueryType DEF NotSent
<1> HIDE DEF next
<1>2. request' = [request EXCEPT ![r] = next] /\ request'[r] = next
  BY DEF Refuse, next, QueriesOK
<1>3. QueryOK(r)'
  BY <1>1, <1>2 DEF QueryOK
<1>4. QED
  BY <1>1, <1>2, <1>3, OneQuery

\* The evaluation of a request is explained by the policies it has read, all of
\* which stand in the history of its project.
LEMMA EvaluateQuery ==
    ASSUME TableTypes, FiniteRows, QueriesOK, Historied, RequestsOK, Kept,
           Serving => Serving', NEW r \in Requests, Evaluate(r)
    PROVE  QueriesOK'
<1> DEFINE p == request[r].project
           active == ActivePolicies(p)
<1>1. PICK c \in Calls :
        LET e == EvaluatePolicy(c[1], c[2], active)
        IN request' = [request EXCEPT ![r] =
             [@ EXCEPT !.pc = "done", !.code = e.code, !.call = c,
                       !.decision = e.decision, !.policy = e.policy,
                       !.version = e.version, !.trace = e.trace]]
  BY DEF Evaluate
<1> DEFINE e == EvaluatePolicy(c[1], c[2], active)
           next == [request[r] EXCEPT !.pc = "done", !.code = e.code, !.call = c,
                      !.decision = e.decision, !.policy = e.policy,
                      !.version = e.version, !.trace = e.trace]
<1>2. /\ request[r] \in Request /\ request[r].pc = "evaluate"
      /\ p \in Projects /\ Serving /\ UNCHANGED <<versions, starter>>
  BY DEF QueriesOK, QueryOK, Evaluate, policyVars
<1>3. /\ active \in Seq(ListedPolicy(PolicyIds))
      /\ \A k \in DOMAIN active :
           \E v \in versions : /\ v.slot = <<p, active[k].id>>
                               /\ v.version = active[k].version
                               /\ v.def = active[k].def
  BY <1>2, ActiveListed, ServingHistory
<1>4. c[2] \in Contexts
  BY ControlPlaneAssumption DEF Contexts
<1>5. request' = [request EXCEPT ![r] = next]
  BY <1>1
<1> HIDE DEF active, e, p
<1>6. PICK n \in Nat : \E list \in [1..n -> ListedPolicy(PolicyIds)] :
        ListsApplicable(list, n, active, c[1]) /\ Evaluated(list, c[2], e)
  BY <1>3, <1>4, DecidesStrictest DEF e
<1>7. PICK list \in [1..n -> ListedPolicy(PolicyIds)] :
        ListsApplicable(list, n, active, c[1]) /\ Evaluated(list, c[2], e)
  BY <1>6
<1>8. ASSUME NEW k \in 1..n
      PROVE  /\ list[k].def.action = c[1]
             /\ \E v \in versions : /\ v.slot = <<p, list[k].id>>
                                    /\ v.version = list[k].version
                                    /\ v.def = list[k].def
  <2>1. PICK i \in DOMAIN active : active[i].def.action = c[1] /\ list[k] = active[i]
    BY <1>7 DEF ListsApplicable
  <2>2. QED
    BY <1>3, <2>1
<1>9. \/ e.code = "ok" /\ Explains(list, c[2], e)
      \/ e.code \in {"missing", "invalid"} /\ e = Raised(e.code)
  BY <1>7 DEF Evaluated
<1>10. /\ e.code \in {"ok", "missing", "invalid"}
       /\ e.decision \in Decisions \cup {None} /\ e.policy \in PolicyIds \cup {None}
       /\ e.version \in Nat \cup {None}
       /\ e.trace \in Seq([id: PolicyIds, version: Nat, matched: BOOLEAN])
  <2>1. CASE e.code = "ok" /\ Explains(list, c[2], e)
    BY <1>7, <2>1, ExplainedType
  <2>2. CASE e.code \in {"missing", "invalid"} /\ e = Raised(e.code)
    <3>1. /\ e.decision = None /\ e.policy = None /\ e.version = None
          /\ e.trace = << >>
      BY <2>2 DEF Raised
    <3>2. QED
      BY <2>2, <3>1, EmptySeq
  <2>3. QED
    BY <1>9, <2>1, <2>2
<1>11. next \in Request
  BY <1>2, <1>10 DEF Request
<1>12. /\ next.pc = "done" /\ next.code = e.code /\ next.call = c
       /\ next.project = p /\ next.decision = e.decision /\ next.policy = e.policy
       /\ next.version = e.version /\ next.trace = e.trace
  BY <1>2 DEF Request, p
<1> HIDE DEF next
<1>13. request'[r] = next
  BY <1>5 DEF QueriesOK
<1>14. e.code = "ok" => Recorded(request[r])'
  <2> SUFFICES ASSUME e.code = "ok" PROVE Recorded(request[r])'
    OBVIOUS
  <2>1. Explains(list, c[2], e)
    BY <1>9
  <2> DEFINE q == request'[r]
  <2>2. /\ q.call = c /\ q.project = p /\ q.decision = e.decision
        /\ q.policy = e.policy /\ q.version = e.version /\ q.trace = e.trace
    BY <1>12, <1>13
  <2> HIDE DEF q
  <2>3. Explains(list, q.call[2], q)
    BY <2>1, <2>2 DEF Explains, Cites
  <2>4. \A k \in 1..n :
          /\ list[k].def.action = q.call[1]
          /\ \E v \in versions' : /\ v.slot = <<q.project, list[k].id>>
                                  /\ v.version = list[k].version
                                  /\ v.def = list[k].def
    BY <1>2, <1>8, <2>2
  <2>5. QED
    BY <2>3, <2>4 DEF Recorded, q
<1>15. QueryOK(r)'
  <2>1. Serving'
    BY <1>2
  <2>2. next.pc = "done" /\ next.project \in Projects
    BY <1>2, <1>12
  <2>3. QED
    BY <1>11, <1>12, <1>13, <1>14, <2>1, <2>2 DEF QueryOK
<1>16. QED
  BY <1>5, <1>11, <1>15, OneQuery

\* Every step keeps the requests explained: a step that does not decide leaves
\* no decision.
LEMMA NextQueries ==
    ASSUME TableTypes, AdminsOK, FiniteRows, QueriesOK, Historied, RequestsOK, Kept,
           [Next]_vars
    PROVE  QueriesOK'
<1>1. Serving => Serving'
  BY NextServing
<1>2. None # "ok"
  BY NoneIsNoCode
<1>3. ASSUME NEW r \in Requests, NEW next \in Request, next.pc # "done",
             next.code = None, request' = [request EXCEPT ![r] = next], Serving',
             next.pc = "evaluate" => next.project \in Projects
      PROVE  QueriesOK'
  <2>1. request'[r] = next
    BY <1>3 DEF QueriesOK
  <2>2. QueryOK(r)'
    BY <1>2, <1>3, <2>1 DEF QueryOK
  <2>3. QED
    BY <1>1, <1>3, <2>2, OneQuery
<1>4. ASSUME NEW r \in Requests, Lookup(r) PROVE QueriesOK'
  <2>1. PICK k \in Keys :
          \/ Refuse(r, "unauthorized")
          \/ request' = [request EXCEPT ![r] = [@ EXCEPT !.pc = "kdf", !.key = k]]
    BY <1>4 DEF Lookup, Refuse
  <2> DEFINE next == [request[r] EXCEPT !.pc = "kdf", !.key = k]
  <2>2. request[r] \in Request /\ QueryOK(r) /\ request[r].pc = "idle" /\ Serving
    BY <1>4 DEF QueriesOK, Lookup
  <2>3. next \in Request /\ next.pc = "kdf" /\ next.code = None
    BY <2>2 DEF Request, QueryOK
  <2> HIDE DEF next
  <2>4. ASSUME request' = [request EXCEPT ![r] = next] PROVE QueriesOK'
    BY <1>1, <1>3, <2>2, <2>3, <2>4
  <2>5. CASE Refuse(r, "unauthorized")
    BY <1>1, <2>2, <2>5, RefusedQuery
  <2>6. QED
    BY <2>1, <2>4, <2>5 DEF next
<1>5. ASSUME NEW r \in Requests, VerifyKey(r) PROVE QueriesOK'
  <2> DEFINE late == key[request[r].key].revoked
             next == [request[r] EXCEPT !.pc = "recheck", !.late = late]
  <2>1. \/ Refuse(r, "unauthorized")
        \/ request' = [request EXCEPT ![r] = next]
    BY <1>5 DEF VerifyKey
  <2>2. request[r] \in Request /\ QueryOK(r) /\ request[r].pc = "kdf" /\ Serving
    BY <1>5 DEF QueriesOK, QueryOK, VerifyKey
  <2>3. late \in BOOLEAN
    BY <1>5, <2>2 DEF RequestsOK, RequestOK, TableTypes, KeyRow
  <2> HIDE DEF late
  <2>4. next \in Request /\ next.pc = "recheck" /\ next.code = None
    BY <2>2, <2>3 DEF Request, QueryOK
  <2> HIDE DEF next
  <2>5. ASSUME request' = [request EXCEPT ![r] = next] PROVE QueriesOK'
    BY <1>1, <1>3, <2>2, <2>4, <2>5
  <2>6. CASE Refuse(r, "unauthorized")
    BY <1>1, <2>2, <2>6, RefusedQuery
  <2>7. QED
    BY <2>1, <2>5, <2>6
<1>6. ASSUME NEW r \in Requests, Recheck(r) PROVE QueriesOK'
  <2> DEFINE p == key[request[r].key].project
             next == [request[r] EXCEPT !.pc = "evaluate", !.project = p]
  <2>1. \/ Refuse(r, "unauthorized") \/ Refuse(r, "forbidden")
        \/ request' = [request EXCEPT ![r] = next]
    BY <1>6 DEF Recheck
  <2>2. request[r] \in Request /\ QueryOK(r) /\ request[r].pc = "recheck" /\ Serving
    BY <1>6 DEF QueriesOK, QueryOK, Recheck
  <2>3. p \in Projects
    BY <1>6, <2>2 DEF RequestsOK, RequestOK, TableTypes, KeyRow
  <2> HIDE DEF p
  <2>4. /\ next \in Request /\ next.pc = "evaluate" /\ next.code = None
        /\ next.project \in Projects
    BY <2>2, <2>3 DEF Request, QueryOK
  <2> HIDE DEF next
  <2>5. ASSUME request' = [request EXCEPT ![r] = next] PROVE QueriesOK'
    BY <1>1, <1>3, <2>2, <2>4, <2>5
  <2>6. CASE Refuse(r, "unauthorized") \/ Refuse(r, "forbidden")
    BY <1>1, <2>2, <2>6, RefusedQuery
  <2>7. QED
    BY <2>1, <2>5, <2>6
<1>7. ASSUME NEW r \in Requests, Evaluate(r) PROVE QueriesOK'
  BY <1>1, <1>7, EvaluateQuery
<1>8. ASSUME UNCHANGED request PROVE QueriesOK'
  BY <1>1, <1>8, OtherQueries DEF QueriesOK
<1>9. ASSUME ~(\E r \in Requests : Lookup(r) \/ VerifyKey(r) \/ Recheck(r) \/ Evaluate(r))
      PROVE  UNCHANGED request
  BY <1>9 DEF Next, vars, Startup, Initialize, BootLookup, BootProject, Enroll,
       SeedRead, SeedWrite, Stop, AccessStep, CreateProject, ReceiveIssue,
       ReceiveStatus, ReceiveRevoke, ReadStanding, IssueKey, ChangeStatus, RevokeKey
<1>10. QED
  BY <1>4, <1>5, <1>6, <1>7, <1>8, <1>9

LEMMA InitQueries == Init => FiniteRows /\ QueriesOK
<1> SUFFICES ASSUME Init PROVE FiniteRows /\ QueriesOK
  OBVIOUS
<1>1. ASSUME NEW p \in Projects
      PROVE  IsFiniteSet({i \in PolicyIds : policy[<<p, i>>] # None})
  <2> DEFINE rows == {i \in PolicyIds : policy[<<p, i>>] # None}
  <2>1. \A i \in PolicyIds : <<p, i>> \in Slots
    BY DEF Slots
  <2>2. CASE policy = [s \in Slots |-> None]
    <3>1. rows = {}
      BY <2>1, <2>2
    <3>2. QED
      BY <3>1, FS_EmptySet
  <2>3. CASE \E old \in Legacy : policy =
               [s \in Slots |-> IF s = <<Default, old[1]>> THEN old[2] ELSE None]
    <3>1. PICK old \in Legacy : policy =
               [s \in Slots |-> IF s = <<Default, old[1]>> THEN old[2] ELSE None]
      BY <2>3
    <3>2. rows \in SUBSET {old[1]}
      BY <2>1, <3>1
    <3>3. IsFiniteSet({old[1]})
      BY FS_Singleton
    <3> HIDE DEF rows
    <3>4. IsFiniteSet(rows)
      BY <3>2, <3>3, FS_Subset
    <3>5. QED
      BY <3>4 DEF rows
  <2>4. QED
    BY <2>2, <2>3 DEF Init
<1>2. request \in [Requests -> Request] /\ \A r \in Requests : request[r] = NotSent
  BY QueryType DEF Init
<1>3. NotSent.pc = "idle" /\ NotSent.code = None /\ None # "ok"
  BY NoneIsNoCode DEF NotSent
<1>4. \A r \in Requests : QueryOK(r)
  BY <1>2, <1>3, QueryType DEF QueryOK
<1>5. QED
  BY <1>1, <1>2, <1>4 DEF FiniteRows, QueriesOK

\* Every decision is explained by versions that are in the history.
THEOREM DecisionsExplained == Spec => [](FiniteRows /\ QueriesOK)
<1>1. Inv /\ FiniteRows /\ QueriesOK /\ [Next]_vars => (FiniteRows /\ QueriesOK)'
  BY NothingTakenBack, NextFinite, NextQueries DEF Inv
<1>2. QED
  BY <1>1, InitQueries, ControlPlaneInvariant, PTL DEF Spec

\* Every reachable state of the control plane is well typed.
THEOREM TypeCorrect == Spec => []TypeOK
<1>1. Inv /\ QueriesOK => TypeOK
  BY DEF Inv, TableTypes, QueriesOK, TypeOK
<1>2. QED
  BY <1>1, ControlPlaneInvariant, DecisionsExplained, PTL

\* A decision can be reproduced from project_policy_versions, whatever updates,
\* rollbacks and startups follow it: the versions in its trace are stored for
\* its action, it is their strictest, and the policy it cites is the first one
\* that demands it (evaluate_policy on the policies read by list_active).
THEOREM DecisionsReproducible == Spec => []DecisionReproducible
<1>1. ASSUME Inv, QueriesOK PROVE DecisionReproducible
  <2> SUFFICES ASSUME NEW r \in Requests, request[r].code = "ok"
               PROVE  LET q == request[r]
                          Stored(e) == {v \in VersionsOf(<<q.project, e.id>>) :
                                          v.version = e.version}
                          Def(e) == (CHOOSE v \in Stored(e) : TRUE).def
                          demands == {k \in DOMAIN q.trace :
                                        /\ Objects(Def(q.trace[k]), q.call[2])
                                        /\ Def(q.trace[k]).decision = q.decision}
                      IN /\ \A k \in DOMAIN q.trace :
                              /\ Stored(q.trace[k]) # {}
                              /\ Def(q.trace[k]).action = q.call[1]
                         /\ q.decision =
                              Strictest({Def(q.trace[k]) : k \in DOMAIN q.trace},
                                        q.call[2])
                         /\ IF demands = {} THEN q.policy = None
                            ELSE q.policy = q.trace[Min(demands)].id
                                   /\ q.version = q.trace[Min(demands)].version
    BY DEF DecisionReproducible
  <2> DEFINE q == request[r]
             Stored(e) == {v \in VersionsOf(<<q.project, e.id>>) :
                             v.version = e.version}
             Def(e) == (CHOOSE v \in Stored(e) : TRUE).def
             demands == {k \in DOMAIN q.trace :
                           /\ Objects(Def(q.trace[k]), q.call[2])
                           /\ Def(q.trace[k]).decision = q.decision}
  <2>1. q.project \in Projects /\ Recorded(q)
    BY <1>1 DEF QueriesOK, QueryOK
  <2>2. PICK n \in Nat : \E list \in [1..n -> ListedPolicy(PolicyIds)] :
          /\ Explains(list, q.call[2], q)
          /\ \A k \in 1..n :
               /\ list[k].def.action = q.call[1]
               /\ \E v \in versions : /\ v.slot = <<q.project, list[k].id>>
                                      /\ v.version = list[k].version
                                      /\ v.def = list[k].def
    BY <2>1 DEF Recorded
  <2>3. PICK list \in [1..n -> ListedPolicy(PolicyIds)] :
          /\ Explains(list, q.call[2], q)
          /\ \A k \in 1..n :
               /\ list[k].def.action = q.call[1]
               /\ \E v \in versions : /\ v.slot = <<q.project, list[k].id>>
                                      /\ v.version = list[k].version
                                      /\ v.def = list[k].def
    BY <2>2
  <2> HIDE DEF q
  <2>4. /\ DOMAIN q.trace = 1..n
        /\ \A k \in 1..n : /\ q.trace[k].id = list[k].id
                           /\ q.trace[k].version = list[k].version
    BY <2>3 DEF Explains
  <2>5. ASSUME NEW k \in 1..n
        PROVE  Stored(q.trace[k]) # {} /\ Def(q.trace[k]) = list[k].def
    <3> DEFINE s == <<q.project, list[k].id>>
    <3>1. PICK v \in versions : /\ v.slot = s /\ v.version = list[k].version
                                /\ v.def = list[k].def
      BY <2>3
    <3>2. s \in Slots
      BY <2>1 DEF Slots, ListedPolicy
    <3>3. Gapless(s)
      BY <1>1, <3>1, <3>2 DEF Inv, Historied, Complete
    <3> HIDE DEF s
    <3>4. Stored(q.trace[k]) = {u \in VersionsOf(s) : u.version = list[k].version}
      BY <2>4 DEF s
    <3>5. v \in VersionsOf(s)
      BY <3>1 DEF VersionsOf
    <3>6. \A u \in VersionsOf(s) : u.version = list[k].version => u = v
      BY <3>1, <3>3, <3>5 DEF Gapless
    <3>7. Stored(q.trace[k]) = {v}
      BY <3>1, <3>4, <3>5, <3>6
    <3> HIDE DEF Stored
    <3>8. QED
      BY <3>1, <3>7
  <2> HIDE DEF Stored, Def
  <2>6. {Def(q.trace[k]) : k \in DOMAIN q.trace} = ContentsOf(list)
    BY <2>4, <2>5 DEF ContentsOf
  <2>7. demands = Demanding(list, q.call[2], q.decision)
    BY <2>4, <2>5 DEF Demanding
  <2> HIDE DEF demands
  <2>8. demands # {} => Min(demands) \in 1..n
    <3>1. demands \in SUBSET Nat /\ demands \in SUBSET (1..n)
      BY <2>7 DEF Demanding
    <3>2. QED
      BY <3>1, MinIsLeast
  <2>9. IF demands = {} THEN q.policy = None
        ELSE q.policy = q.trace[Min(demands)].id
               /\ q.version = q.trace[Min(demands)].version
    BY <2>3, <2>4, <2>7, <2>8 DEF Explains, Cites
  <2>10. q.decision = Strictest({Def(q.trace[k]) : k \in DOMAIN q.trace}, q.call[2])
    BY <2>3, <2>6 DEF Explains
  <2>11. \A k \in DOMAIN q.trace :
           Stored(q.trace[k]) # {} /\ Def(q.trace[k]).action = q.call[1]
    BY <2>3, <2>4, <2>5
  <2>12. QED
    BY <2>9, <2>10, <2>11 DEF q, Stored, Def, demands
<1>2. QED
  BY <1>1, ControlPlaneInvariant, DecisionsExplained, PTL

=============================================================================

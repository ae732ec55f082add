---------------------------- MODULE ControlPlane ----------------------------
(***************************************************************************)
(* The control plane and the requests it governs: projects and their API   *)
(* keys, the bootstrap of a starting process, the policies of              *)
(* PolicyHistory, and requests that authenticate with a key and are        *)
(* decided by the policies of their project (PolicyEngine).                *)
(*                                                                         *)
(* Verifying a key is slow and holds no connection, so its row is selected *)
(* before and after.  A key stands for its selector, which is UNIQUE, and  *)
(* its secret; generated ids and keys are new.                             *)
(***************************************************************************)
EXTENDS PolicyHistory, FiniteSetsExt

CONSTANTS
    Default,        \* DEFAULT_PROJECT_ID
    ConfiguredKey,  \* DECAUSTRUM_API_KEY of a development or test process
    Legacy,         \* policies in databases from before the history: <<id, row>>
    Calls,          \* actions and contexts of requests: <<action, context>>
    Requests        \* requests to POST /v1/authorize

VARIABLES
    key,        \* project_api_keys, by selector
    starter,    \* the starting processes
    request     \* the requests

vars == <<project, policyVars, audit, changes, admin, key, starter, request>>

KeyRow == [project: Projects, role: {"RUNTIME", "REVIEWER"}, revoked: BOOLEAN]

Starter ==
    [pc: {"down", "lookup", "recheck", "project", "create", "enroll", "seed",
          "seed_write", "up", "failed"},
     absent: BOOLEAN]

Request ==
    [pc: {"idle", "kdf", "recheck", "evaluate", "done"},
     key: Keys \cup {None}, late: BOOLEAN, project: Projects \cup {None},
     code: {None, "unauthorized", "forbidden", "missing", "invalid", "ok"},
     call: Calls \cup {None},
     decision: Decisions \cup {None}, policy: PolicyIds \cup {None},
     version: Nat \cup {None},
     trace: Seq([id: PolicyIds, version: Nat, matched: BOOLEAN])]

ASSUME ControlPlaneAssumption ==
    /\ Default \in Projects /\ ConfiguredKey \in Keys
    /\ Legacy \subseteq PolicyIds \X Row
    /\ Calls \subseteq Actions \X [Fields -> Value \cup {None}]
    /\ None \notin KeyRow /\ None \notin Keys

TypeOK ==
    /\ PolicyTypeOK
    /\ key \in [Keys -> KeyRow \cup {None}]
    /\ starter \in [Starters -> Starter]
    /\ request \in [Requests -> Request]

Serving == \E s \in Starters : starter[s].pc = "up"

-----------------------------------------------------------------------------
(* Startup: initialize, then outside production bootstrap_default_project  *)
(* and the policy templates                                                *)

Down == [pc |-> "down", absent |-> FALSE]
Goto(s, pc) == starter' = [starter EXCEPT ![s] = [Down EXCEPT !.pc = pc]]

\* The row of a key that is not revoked, in an active project.
Active(k) ==
    key[k] # None /\ ~key[k].revoked /\ project[key[k].project] = "ACTIVE"

\* Mutant: the backfill takes a policy's current content for every version.
BackfillAll(s) ==
    {VersionEntry(t, v, policy[t].def, "MIGRATED", 0, s) :
       t \in {u \in Slots : policy[u] # None}, v \in 1..2}

\* _backfill_project_policy_versions: INSERT OR IGNORE of the current rows.
Backfilled(s) ==
    {VersionEntry(t, policy[t].version, policy[t].def, "MIGRATED", 0, s) :
       t \in {u \in Slots : policy[u] # None /\ ~HasVersion(u, policy[u].version)}}

\* A worker or a production process only initializes the database.
Initialize(s) ==
    /\ starter[s].pc \in {"down", "failed"}
    /\ versions' = versions \cup Backfilled(s)
    /\ Goto(s, "up") \/ Goto(s, "lookup")
    /\ UNCHANGED <<project, policy, audit, changes, admin, key, request>>

\* get_active_project_by_api_key: its two SELECTs.
BootLookup(s) ==
    /\ \/ /\ starter[s].pc = "lookup"
          /\ Goto(s, IF Active(ConfiguredKey) THEN "recheck" ELSE "project")
       \/ /\ starter[s].pc = "recheck"
          /\ Goto(s, IF Active(ConfiguredKey) THEN "seed" ELSE "project")
    /\ UNCHANGED <<project, policyVars, audit, changes, admin, key, request>>

BootProject(s) ==
    /\ starter[s].pc = "project"
    /\ Goto(s, CASE project[Default] = None -> "create"
                 [] project[Default] = "DISABLED" -> "failed"
                 [] project[Default] = "ACTIVE" -> "enroll")
    /\ UNCHANGED <<project, policyVars, audit, changes, admin, key, request>>

\* ProjectApiKeyRepository.insert; the selector is UNIQUE.
InsertKey(k, p, role) ==
    key' = [key EXCEPT ![k] = [project |-> p, role |-> role, revoked |-> FALSE]]

\* The default project with its key, or the key of an existing project.  A
\* primary key or the selector taken by now ends the startup.
Enroll(s) ==
    LET new == starter[s].pc = "create"
        taken == key[ConfiguredKey] # None \/ (new /\ project[Default] # None)
        events == {Event(s, "API_KEY_CREATED", KeyResource(ConfiguredKey), 0)}
          \cup (IF new THEN {Event(s, "PROJECT_CREATED", ProjectResource(Default), 0)}
                ELSE {})
    IN /\ starter[s].pc \in {"create", "enroll"}
       /\ \/ /\ taken
             /\ Goto(s, "failed")
             /\ UNCHANGED <<project, key, audit, changes>>
          \/ /\ ~taken
             /\ project' = [project EXCEPT ![Default] = "ACTIVE"]
             /\ InsertKey(ConfiguredKey, Default, "RUNTIME")
             /\ audit' = audit \cup events
             /\ changes' = changes \cup {<<s, e.resource>> : e \in events}
             /\ Goto(s, "seed")
       /\ UNCHANGED <<policyVars, admin, request>>

FirstTemplate == Min(DOMAIN Templates)

\* seed_project_policies: the row of the first template is read before the
\* transaction starts ...
SeedRead(s) ==
    /\ starter[s].pc = "seed"
    /\ starter' = [starter EXCEPT ![s] =
         [pc |-> IF DOMAIN Templates = {} THEN "up" ELSE "seed_write",
          absent |-> DOMAIN Templates # {}
                       /\ policy[<<Default, FirstTemplate>>] = None]]
    /\ UNCHANGED <<project, policyVars, audit, changes, admin, key, request>>

\* ... and decides on its audit event, whether or not its INSERT is ignored.
SeedWrite(s) ==
    LET new == Seeded(Default, DOMAIN Templates)
        audited == (new \ {FirstTemplate})
                     \cup (IF starter[s].absent THEN {FirstTemplate} ELSE {})
    IN /\ starter[s].pc = "seed_write"
       /\ SeedTemplates(Default, DOMAIN Templates, s)
       /\ audit' = audit \cup
            {Event(s, "POLICY_CREATED", PolicyResource(<<Default, i>>),
                   IF i \in new THEN 1 ELSE policy[<<Default, i>>].version) :
               i \in audited}
       /\ changes' = changes \cup {<<s, PolicyResource(<<Default, i>>)>> : i \in new}
       /\ Goto(s, "up")
       /\ UNCHANGED <<project, admin, key, request>>

\* The process dies before it serves, and can be started again.
Stop(s) ==
    /\ starter[s].pc \notin {"down", "up", "failed"}
    /\ Goto(s, "down")
    /\ UNCHANGED <<project, policyVars, audit, changes, admin, key, request>>

-----------------------------------------------------------------------------
(* Projects and keys: administrative requests                              *)

\* A generated id is new: no request names it yet.
Named(x) == \E b \in Admins : x \in {admin[b].project, admin[b].key}

\* create_project: project, key and templates in one transaction.
CreateProject(a) ==
    /\ admin[a].pc = "idle"
    /\ \E p \in Projects \ {Default}, k \in Keys \ {ConfiguredKey} :
         LET events ==
               {Event(a, "PROJECT_CREATED", ProjectResource(p), 0),
                Event(a, "API_KEY_CREATED", KeyResource(k), 0)} \cup
               {Event(a, "POLICY_CREATED", PolicyResource(<<p, i>>), 1) :
                  i \in DOMAIN Templates}
         IN /\ project[p] = None /\ key[k] = None /\ ~Named(p) /\ ~Named(k)
            /\ project' = [project EXCEPT ![p] = "ACTIVE"]
            /\ InsertKey(k, p, "RUNTIME")
            /\ SeedTemplates(p, DOMAIN Templates, a)
            /\ audit' = audit \cup events
            /\ changes' = changes \cup {<<a, e.resource>> : e \in events}
            /\ admin' = [admin EXCEPT ![a] =
                 Answer([NoRequest EXCEPT !.op = "create", !.project = p], "ok")]
    /\ UNCHANGED <<starter, request>>

\* create_project_api_key, change_project_status and revoke_api_key up to the
\* store operation.
ReceiveIssue(a) ==
    /\ admin[a].pc = "idle"
    /\ \E p \in Projects :
         LET req == [NoRequest EXCEPT !.op = "issue", !.project = p]
         IN admin' = [admin EXCEPT ![a] =
              CASE project[p] = None -> Answer(req, "not_found")
                [] project[p] = "DISABLED" -> Answer(req, "project_disabled")
                [] project[p] = "ACTIVE" -> [req EXCEPT !.pc = "write"]]
    /\ UNCHANGED <<project, policyVars, audit, changes, key, starter, request>>

ReceiveStatus(a) ==
    /\ admin[a].pc = "idle"
    /\ \E p \in Projects, status \in {"ACTIVE", "DISABLED"} :
         LET req == [NoRequest EXCEPT !.op = "status", !.project = p,
                                      !.status = status]
         IN admin' = [admin EXCEPT ![a] =
              IF p = Default /\ status = "DISABLED"
              THEN Answer(req, "default_project_protected")
              ELSE [req EXCEPT !.pc = "previous"]]
    /\ UNCHANGED <<project, policyVars, audit, changes, key, starter, request>>

ReceiveRevoke(a) ==
    /\ admin[a].pc = "idle"
    /\ \E p \in Projects, k \in Keys :
         LET req == [NoRequest EXCEPT !.op = "revoke", !.project = p, !.key = k]
         IN admin' = [admin EXCEPT ![a] =
              IF project[p] = None THEN Answer(req, "not_found")
              ELSE [req EXCEPT !.pc = "previous"]]
    /\ UNCHANGED <<project, policyVars, audit, changes, key, starter, request>>

\* The status the UPDATE of a request finds.
Standing(req) ==
    IF req.op = "status" THEN project[req.project]
    ELSE IF key[req.key] = None \/ key[req.key].project # req.project THEN None
    ELSE IF key[req.key].revoked THEN "REVOKED" ELSE "ACTIVE"

\* The row is read for the audit event.
ReadStanding(a) ==
    /\ admin[a].pc = "previous" /\ admin[a].op \in {"status", "revoke"}
    /\ admin' = [admin EXCEPT ![a] =
         [@ EXCEPT !.was = Standing(admin[a]), !.pc = "write"]]
    /\ UNCHANGED <<project, policyVars, audit, changes, key, starter, request>>

\* The key is inserted although the project may be disabled by now.
IssueKey(a) ==
    /\ admin[a].pc = "write" /\ admin[a].op = "issue"
    /\ \E k \in Keys \ {ConfiguredKey}, role \in {"RUNTIME", "REVIEWER"} :
         /\ key[k] = None /\ ~Named(k)
         /\ InsertKey(k, admin[a].project, role)
         /\ audit' = audit \cup {Event(a, "API_KEY_CREATED", KeyResource(k), 0)}
         /\ changes' = changes \cup {<<a, KeyResource(k)>>}
    /\ Reply(a, "ok")
    /\ UNCHANGED <<project, policyVars, starter, request>>

\* update_project_status: the event compares the row read before with the new
\* status.
ChangeStatus(a) ==
    LET req == admin[a]
        r == ProjectResource(req.project)
    IN /\ req.pc = "write" /\ req.op = "status"
       /\ \/ /\ Standing(req) = None
             /\ Reply(a, "not_found")
             /\ UNCHANGED <<project, audit, changes>>
          \/ /\ Standing(req) # None
             /\ project' = [project EXCEPT ![req.project] = req.status]
             /\ audit' = IF req.was \notin {None, req.status}
                  THEN audit \cup {Event(a, "PROJECT_STATUS_CHANGED", r, 0)}
                  ELSE audit
             /\ changes' = IF Standing(req) # req.status
                  THEN changes \cup {<<a, r>>} ELSE changes
             /\ Reply(a, "ok")
       /\ UNCHANGED <<policyVars, key, starter, request>>

\* revoke_project_api_key: a revocation time once set is kept.
RevokeKey(a) ==
    LET req == admin[a]
        r == KeyResource(req.key)
    IN /\ req.pc = "write" /\ req.op = "revoke"
       /\ \/ /\ Standing(req) = None
             /\ Reply(a, "not_found")
             /\ UNCHANGED <<key, audit, changes>>
          \/ /\ Standing(req) # None
             /\ key' = [key EXCEPT ![req.key].revoked = TRUE]
             /\ audit' = IF req.was = "ACTIVE"
                  THEN audit \cup {Event(a, "API_KEY_REVOKED", r, 0)} ELSE audit
             /\ changes' = IF Standing(req) = "ACTIVE"
                  THEN changes \cup {<<a, r>>} ELSE changes
             /\ Reply(a, "ok")
       /\ UNCHANGED <<project, policyVars, starter, request>>

-----------------------------------------------------------------------------
(* A request: get_runtime_project, then authorize_request                  *)

NotSent ==
    [pc |-> "idle", key |-> None, late |-> FALSE, project |-> None, code |-> None,
     call |-> None, decision |-> None, policy |-> None, version |-> None,
     trace |-> << >>]

Refuse(r, code) ==
    request' = [request EXCEPT ![r] = [NotSent EXCEPT !.pc = "done", !.code = code]]

\* The first SELECT; an unknown selector is refused like an inactive key.
Lookup(r) ==
    /\ request[r].pc = "idle" /\ Serving
    /\ \E k \in Keys :
         request' = [request EXCEPT ![r] =
           IF Active(k) THEN [@ EXCEPT !.pc = "kdf", !.key = k]
           ELSE [NotSent EXCEPT !.pc = "done", !.code = "unauthorized"]]
    /\ UNCHANGED <<project, policyVars, audit, changes, admin, key, starter>>

\* verify_api_key ends.  late: the key was already revoked at that time.
VerifyKey(r) ==
    /\ request[r].pc = "kdf"
    /\ \/ Refuse(r, "unauthorized")
       \/ request' = [request EXCEPT ![r] =
            [@ EXCEPT !.pc = "recheck", !.late = key[request[r].key].revoked]]
    /\ UNCHANGED <<project, policyVars, audit, changes, admin, key, starter>>

\* Mutant: the row read before the verification is trusted.
RecheckNothing(r) ==
    /\ request[r].pc = "recheck"
    /\ request' = [request EXCEPT ![r] =
         [@ EXCEPT !.pc = "evaluate", !.project = key[request[r].key].project]]
    /\ UNCHANGED <<project, policyVars, audit, changes, admin, key, starter>>

\* The second SELECT, and the role the endpoint requires.
Recheck(r) ==
    LET k == request[r].key IN
    /\ request[r].pc = "recheck"
    /\ IF ~Active(k) THEN Refuse(r, "unauthorized")
       ELSE IF key[k].role # "RUNTIME" THEN Refuse(r, "forbidden")
       ELSE request' = [request EXCEPT ![r] =
              [@ EXCEPT !.pc = "evaluate", !.project = key[k].project]]
    /\ UNCHANGED <<project, policyVars, audit, changes, admin, key, starter>>

\* The active policies are read and evaluated; DecisionLedger stores the result.
Evaluate(r) ==
    /\ request[r].pc = "evaluate"
    /\ \E c \in Calls :
         \E e \in {EvaluatePolicy(c[1], c[2], ActivePolicies(request[r].project))} :
            request' = [request EXCEPT ![r] =
              [@ EXCEPT !.pc = "done", !.code = e.code, !.call = c,
                        !.decision = e.decision, !.policy = e.policy,
                        !.version = e.version, !.trace = e.trace]]
    /\ UNCHANGED <<project, policyVars, audit, changes, admin, key, starter>>

-----------------------------------------------------------------------------
\* A new database, or one from before the version history: the default project
\* with a policy and the configured key, in use or revoked.
Init ==
    /\ \/ /\ project = [p \in Projects |-> None]
          /\ policy = [s \in Slots |-> None]
          /\ key = [k \in Keys |-> None]
       \/ \E old \in Legacy, revoked \in BOOLEAN :
            /\ project = [p \in Projects |-> IF p = Default THEN "ACTIVE" ELSE None]
            /\ policy = [s \in Slots |-> IF s = <<Default, old[1]>> THEN old[2] ELSE None]
            /\ key = [k \in Keys |-> IF k = ConfiguredKey
                 THEN [project |-> Default, role |-> "RUNTIME", revoked |-> revoked]
                 ELSE None]
    /\ versions = {} /\ audit = {} /\ changes = {}
    /\ admin = [a \in Admins |-> NoRequest]
    /\ starter = [s \in Starters |-> Down]
    /\ request = [r \in Requests |-> NotSent]

Startup(s) ==
    \/ Initialize(s) \/ BootLookup(s) \/ BootProject(s) \/ Enroll(s)
    \/ SeedRead(s) \/ SeedWrite(s) \/ Stop(s)

AccessStep(a) ==
    \/ CreateProject(a) \/ ReceiveIssue(a) \/ ReceiveStatus(a) \/ ReceiveRevoke(a)
    \/ ReadStanding(a) \/ IssueKey(a) \/ ChangeStatus(a) \/ RevokeKey(a)

Next ==
    \/ \E s \in Starters : Startup(s)
    \/ \E a \in Admins :
         /\ Serving
         /\ \/ AccessStep(a)
            \/ (PolicyRequest(a) \/ PolicyStep(a)) /\ UNCHANGED <<key, starter, request>>
    \/ \E r \in Requests : Lookup(r) \/ VerifyKey(r) \/ Recheck(r) \/ Evaluate(r)

Spec == Init /\ [][Next]_vars

-----------------------------------------------------------------------------
(* Properties                                                              *)

\* The versions of one policy are numbered without a gap up to the configured
\* one, which has the configured content; a rollback copies an older version.
Gapless(s) ==
    LET rows == VersionsOf(s)
        numbers == {r.version : r \in rows}
    IN /\ policy[s] = None <=> rows = {}
       /\ \A r, q \in rows : r.version = q.version => r = q
       /\ \A r \in rows :
            /\ r.version <= policy[s].version
            /\ r.version < policy[s].version => r.version + 1 \in numbers
            /\ r.version = policy[s].version => r.def = policy[s].def
            /\ r.change \in {"CREATED", "MIGRATED"} =>
                 \A q \in rows : r.version <= q.version
            /\ r.change = "ROLLBACK" =>
                 \E q \in rows : q.version = r.source /\ q.version < r.version
                                   /\ q.def = r.def

\* Once a process serves, the history of every policy is gapless and ends with
\* the configured version, whatever updates, rollbacks, seeds and backfills
\* interleave.
HistoryIsGapless == Serving => \A s \in Slots : Gapless(s)

\* Of concurrent updates and rollbacks on one version exactly one wins: a 200
\* answer means that the version the request asked for holds its content, a
\* version belongs to one request, and none of them meets an IntegrityError.
NoLostUpdate ==
    \A a \in Admins :
      /\ admin[a].code # "integrity_error"
      /\ (admin[a].op \in {"configure", "rollback"} /\ admin[a].code = "ok") =>
           \E r \in VersionsOf(admin[a].slot) :
             /\ r.version = admin[a].version /\ r.by = a
             /\ r.def = admin[a].def
             /\ \A q \in VersionsOf(admin[a].slot) : q.version = r.version => q = r
             /\ r.change = "ROLLBACK" <=> admin[a].op = "rollback"

\* Every version of a policy, migrated ones excepted, has an audit event of
\* the request or process that made it.
EveryVersionAudited ==
    \A r \in versions :
      r.change # "MIGRATED" =>
        \E e \in audit : /\ e.by = r.by /\ e.version = r.version
                         /\ e.resource = PolicyResource(r.slot)

\* A decision can be reproduced from the history: the versions in its trace
\* are stored under its project and for its action, the decision is their
\* strictest, and the policy it cites is the first that demands it.
DecisionReproducible ==
    \A r \in Requests :
      LET q == request[r]
          Stored(e) == {v \in VersionsOf(<<q.project, e.id>>) : v.version = e.version}
          Def(e) == (CHOOSE v \in Stored(e) : TRUE).def
          demands == {k \in DOMAIN q.trace :
                        /\ Objects(Def(q.trace[k]), q.call[2])
                        /\ Def(q.trace[k]).decision = q.decision}
      IN q.code = "ok" =>
           /\ \A k \in DOMAIN q.trace :
                Stored(q.trace[k]) # {} /\ Def(q.trace[k]).action = q.call[1]
           /\ q.decision =
                Strictest({Def(q.trace[k]) : k \in DOMAIN q.trace}, q.call[2])
           /\ IF demands = {} THEN q.policy = None
              ELSE q.policy = q.trace[Min(demands)].id
                     /\ q.version = q.trace[Min(demands)].version

\* A key that is revoked, even while it is being verified, never authenticates
\* a request again, and no restart enrols it anew.
RevocationIsFinal ==
    \A r \in Requests : request[r].project # None => ~request[r].late

\* Every change of a row is audited by the request that made it.
EveryChangeAudited ==
    \A c \in changes : \E e \in audit : e.by = c[1] /\ e.resource = c[2]

=============================================================================

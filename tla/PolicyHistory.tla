--------------------------- MODULE PolicyHistory ---------------------------
(***************************************************************************)
(* The policies of the projects: project_policies, the immutable           *)
(* project_policy_versions, and the administrative requests that configure,*)
(* roll back and disable a policy, with the audit event each one records.  *)
(*                                                                         *)
(* A SELECT before the first write of a connection is a step of its own;   *)
(* the write, the version row, the audit row and its webhook event are one *)
(* transaction and one step.                                               *)
(***************************************************************************)
EXTENDS PolicyEngine, FiniteSets

CONSTANTS
    Projects,       \* project ids
    PolicyIds,      \* policy ids, numbered in the order of their names
    Definitions,    \* contents of policies that occur
    Templates,      \* policies/*.yaml: a definition for some policy ids
    Keys,           \* API keys, each with a public selector of its own
    Admins,         \* administrative requests
    Starters,       \* processes that start
    MaxVersion      \* bound of the model: highest version configured

VARIABLES
    project,    \* projects, by id: a status or None
    policy,     \* project_policies, by project and policy id
    versions,   \* project_policy_versions
    audit,      \* administrative_audit_events
    changes,    \* rows really changed by a commit: <<who, resource>>
    admin       \* the administrative requests

policyVars == <<policy, versions>>

-----------------------------------------------------------------------------
(* Types                                                                   *)

Slots == Projects \X PolicyIds
Row == [version: Nat \ {0}, def: Definitions, enabled: BOOLEAN]
VersionRow ==
    [slot: Slots, version: Nat \ {0}, def: Definitions,
     change: {"CREATED", "UPDATED", "ROLLBACK", "MIGRATED"}, source: Nat,
     by: Admins \cup Starters]

\* resource_type and resource_id
PolicyResource(s) == <<"POLICY", s[1], s[2]>>
ProjectResource(p) == <<"PROJECT", p, None>>
KeyResource(k) == <<"API_KEY", k, None>>

AuditActions == {"PROJECT_CREATED", "PROJECT_STATUS_CHANGED", "API_KEY_CREATED",
                 "API_KEY_REVOKED", "POLICY_CREATED", "POLICY_UPDATED",
                 "POLICY_DISABLED", "POLICY_ROLLED_BACK"}

Resources == {PolicyResource(s) : s \in Slots}
    \cup {ProjectResource(p) : p \in Projects} \cup {KeyResource(k) : k \in Keys}

\* An audit event; the snapshots are kept as the policy version after the
\* change (0 for other resources).
AuditEvent ==
    [by: Admins \cup Starters, action: AuditActions, resource: Resources,
     version: Nat]

Codes == {"ok", "policy_version_conflict", "policy_id_mismatch",
          "policy_version_already_current", "not_found", "project_disabled",
          "default_project_protected", "failed", "integrity_error"}

Operations == {"configure", "rollback", "disable", "create", "issue", "status",
               "revoke"}

\* One administrative request: what it asks for and what it has read so far.
Admin ==
    [pc: {"idle", "previous", "historical", "current", "version", "existing",
          "write", "done"},
     op: Operations \cup {None},
     slot: Slots \cup {None}, def: Definitions \cup {None},
     version: Nat, source: Nat, base: Nat,
     previous: Row \cup {None},
     project: Projects \cup {None}, key: Keys \cup {None},
     status: {None, "ACTIVE", "DISABLED"},
     was: {None, "ACTIVE", "DISABLED", "REVOKED"},
     code: Codes \cup {None}]

\* Template versions are 1 in policies/*.yaml.
ASSUME PolicyAssumption ==
    /\ PolicyIds \subseteq Nat
    /\ MaxVersion \in Nat \ {0}
    /\ Definitions \subseteq Definition
    /\ DOMAIN Templates \subseteq PolicyIds /\ IsFiniteSet(DOMAIN Templates)
    /\ \A i \in DOMAIN Templates : Templates[i] \in Definitions
    /\ Admins \cap Starters = {}
    /\ None \notin Operations /\ None \notin Codes
    /\ None \notin Row /\ None \notin Projects /\ None \notin Slots

PolicyTypeOK ==
    /\ project \in [Projects -> {None, "ACTIVE", "DISABLED"}]
    /\ policy \in [Slots -> Row \cup {None}]
    /\ versions \subseteq VersionRow
    /\ audit \subseteq AuditEvent
    /\ changes \subseteq (Admins \cup Starters) \X Resources
    /\ admin \in [Admins -> Admin]

-----------------------------------------------------------------------------
(* Rows                                                                    *)

VersionsOf(s) == {r \in versions : r.slot = s}
HasVersion(s, v) == \E r \in VersionsOf(s) : r.version = v
CurrentVersion(s) == IF policy[s] = None THEN 0 ELSE policy[s].version

\* Mutant: versions are numbered from zero.
VersionEntryFromZero(s, v, def, change, source, by) ==
    [slot |-> s, version |-> v - 1, def |-> def, change |-> change,
     source |-> source, by |-> by]

\* insert_version
VersionEntry(s, v, def, change, source, by) ==
    [slot |-> s, version |-> v, def |-> def, change |-> change,
     source |-> source, by |-> by]

\* build_audit_event; _record_administrative_change also appends the webhook
\* event and its deliveries (module WebhookDelivery).
Event(by, action, resource, v) ==
    [by |-> by, action |-> action, resource |-> resource, version |-> v]

\* list_active: one SELECT ordered by policy_id, the disabled rows dropped.
ActivePolicies(p) ==
    LET ids == {i \in PolicyIds : policy[<<p, i>>] # None /\ policy[<<p, i>>].enabled}
        order == InOrder(ids)
    IN [k \in DOMAIN order |->
          [id |-> order[k], version |-> policy[<<p, order[k]>>].version,
           def |-> policy[<<p, order[k]>>].def]]

\* insert_seed for the templates ids of a project: INSERT OR IGNORE.
Seeded(p, ids) == {i \in ids : policy[<<p, i>>] = None}

SeedTemplates(p, ids, by) ==
    /\ policy' = [s \in Slots |->
         IF s[1] = p /\ s[2] \in Seeded(p, ids)
         THEN [version |-> 1, def |-> Templates[s[2]], enabled |-> TRUE]
         ELSE policy[s]]
    /\ versions' = versions \cup
         {VersionEntry(<<p, i>>, 1, Templates[i], "CREATED", 0, by) :
            i \in Seeded(p, ids)}

-----------------------------------------------------------------------------
(* Requests                                                                *)

NoRequest ==
    [pc |-> "idle", op |-> None, slot |-> None, def |-> None, version |-> 0,
     source |-> 0, base |-> 0, previous |-> None, project |-> None,
     key |-> None, status |-> None, was |-> None, code |-> None]

\* What a request has read is forgotten when it is answered, and a refused
\* request altogether.
Answer(req, code) ==
    IF code = "ok"
    THEN [req EXCEPT !.pc = "done", !.code = code, !.base = 0, !.previous = None,
                     !.was = None]
    ELSE [NoRequest EXCEPT !.pc = "done", !.code = code]

Reply(a, code) == admin' = [admin EXCEPT ![a] = Answer(@, code)]

\* configure_policy up to save_project_policy; other is the id in the body.
ReceiveConfigure(a) ==
    /\ admin[a].pc = "idle"
    /\ \E s \in Slots, other \in PolicyIds, def \in Definitions, v \in 1..MaxVersion :
         LET req == [NoRequest EXCEPT !.op = "configure", !.slot = s, !.def = def,
                                      !.version = v]
         IN admin' = [admin EXCEPT ![a] =
              IF project[s[1]] = None THEN Answer(req, "not_found")
              ELSE IF other # s[2] THEN Answer(req, "policy_id_mismatch")
              ELSE [req EXCEPT !.pc = "previous"]]
    /\ UNCHANGED <<project, policyVars, audit, changes>>

\* rollback_policy: the project and the policy must exist.
ReceiveRollback(a) ==
    /\ admin[a].pc = "idle"
    /\ \E s \in Slots, v \in 1..MaxVersion :
         LET req == [NoRequest EXCEPT !.op = "rollback", !.slot = s, !.source = v]
         IN admin' = [admin EXCEPT ![a] =
              IF project[s[1]] = None \/ policy[s] = None
              THEN Answer(req, "not_found") ELSE [req EXCEPT !.pc = "previous"]]
    /\ UNCHANGED <<project, policyVars, audit, changes>>

ReceiveDisable(a) ==
    /\ admin[a].pc = "idle"
    /\ \E s \in Slots :
         LET req == [NoRequest EXCEPT !.op = "disable", !.slot = s]
         IN admin' = [admin EXCEPT ![a] =
              IF project[s[1]] = None THEN Answer(req, "not_found")
              ELSE [req EXCEPT !.pc = "previous"]]
    /\ UNCHANGED <<project, policyVars, audit, changes>>

\* The first SELECT of the three store operations: the row for the audit event.
ReadPrevious(a) ==
    /\ admin[a].pc = "previous" /\ admin[a].slot # None
    /\ admin' = [admin EXCEPT ![a] =
         [@ EXCEPT !.previous = policy[admin[a].slot],
                   !.pc = CASE admin[a].op = "configure" -> "version"
                            [] admin[a].op = "rollback" -> "historical"
                            [] admin[a].op = "disable" -> "existing"]]
    /\ UNCHANGED <<project, policyVars, audit, changes>>

\* rollback_with_connection: the version to restore.
ReadHistorical(a) ==
    /\ admin[a].pc = "historical"
    /\ LET found == {r \in VersionsOf(admin[a].slot) : r.version = admin[a].source}
       IN IF found = {} THEN Reply(a, "not_found")
          ELSE \E r \in found :
                 admin' = [admin EXCEPT ![a] =
                   [@ EXCEPT !.def = r.def, !.pc = "current"]]
    /\ UNCHANGED <<project, policyVars, audit, changes>>

\* ... and the version it becomes.
ReadCurrent(a) ==
    LET current == CurrentVersion(admin[a].slot) IN
    /\ admin[a].pc = "current"
    /\ admin' = [admin EXCEPT ![a] =
         IF current = 0 THEN Answer(@, "not_found")
         ELSE IF current = admin[a].source
         THEN Answer(@, "policy_version_already_current")
         ELSE [@ EXCEPT !.version = current + 1, !.pc = "version"]]
    /\ UNCHANGED <<project, policyVars, audit, changes>>

\* save_with_connection: the version the request must have.
ReadVersion(a) ==
    LET current == CurrentVersion(admin[a].slot) IN
    /\ admin[a].pc = "version"
    /\ admin' = [admin EXCEPT ![a] =
         IF admin[a].version # current + 1
         THEN Answer(@, "policy_version_conflict")
         ELSE [@ EXCEPT !.base = current, !.pc = "write"]]
    /\ UNCHANGED <<project, policyVars, audit, changes>>

\* Mutant: the UPDATE is not conditional on the version read before.
RowTouched(req) == req.base = 0 => policy[req.slot] = None

\* The INSERT finds no row, or the UPDATE the version just read.
RowMatches(req) == CurrentVersion(req.slot) = req.base

\* Mutant: only the update of an existing row is audited.
SaveEventsOfUpdates(a) ==
    IF admin[a].previous = None THEN {}
    ELSE {Event(a, "POLICY_UPDATED", PolicyResource(admin[a].slot), admin[a].version)}

\* The audit event of a configuration or a rollback.
SaveEvents(a) ==
    LET req == admin[a]
        action == IF req.op = "rollback" THEN "POLICY_ROLLED_BACK"
                  ELSE IF req.previous = None THEN "POLICY_CREATED"
                  ELSE "POLICY_UPDATED"
    IN {Event(a, action, PolicyResource(req.slot), req.version)}

\* The row, its version row and its audit event.
StoreVersion(a) ==
    LET req == admin[a]
        s == req.slot
        change == IF req.base = 0 THEN "CREATED"
                  ELSE IF req.op = "rollback" THEN "ROLLBACK" ELSE "UPDATED"
        source == IF change = "ROLLBACK" THEN req.source ELSE 0
    IN /\ policy' = [policy EXCEPT ![s] =
            [version |-> req.version, def |-> req.def, enabled |-> TRUE]]
       /\ versions' = versions \cup
            {VersionEntry(s, req.version, req.def, change, source, a)}
       /\ audit' = audit \cup SaveEvents(a)
       /\ changes' = changes \cup {<<a, PolicyResource(s)>>}

\* The write of save_with_connection.  Losing the race for the row is a
\* conflict; a version row that exists already would be an IntegrityError, and
\* roll everything back.
SavePolicy(a) ==
    LET req == admin[a] IN
    /\ req.pc = "write" /\ req.op \in {"configure", "rollback"}
    /\ \/ /\ ~RowMatches(req)
          /\ Reply(a, "policy_version_conflict")
          /\ UNCHANGED <<policyVars, audit, changes>>
       \/ /\ RowMatches(req)
          /\ IF HasVersion(req.slot, req.version)
             THEN /\ Reply(a, "integrity_error")
                  /\ UNCHANGED <<policyVars, audit, changes>>
             ELSE StoreVersion(a) /\ Reply(a, "ok")
    /\ UNCHANGED project

\* disable_with_connection: nothing to disable is a 404.
ReadExisting(a) ==
    /\ admin[a].pc = "existing"
    /\ admin' = [admin EXCEPT ![a] =
         IF policy[admin[a].slot] = None THEN Answer(@, "not_found")
         ELSE [@ EXCEPT !.pc = "write"]]
    /\ UNCHANGED <<project, policyVars, audit, changes>>

\* The unconditional UPDATE; the event depends on the row read first.
DisablePolicy(a) ==
    LET s == admin[a].slot
        before == admin[a].previous
    IN /\ admin[a].pc = "write" /\ admin[a].op = "disable"
       /\ policy' = [policy EXCEPT ![s].enabled = FALSE]
       /\ audit' = IF before # None /\ before.enabled
            THEN audit \cup {Event(a, "POLICY_DISABLED", PolicyResource(s),
                                   policy[s].version)}
            ELSE audit
       /\ changes' = IF policy[s].enabled
            THEN changes \cup {<<a, PolicyResource(s)>>} ELSE changes
       /\ Reply(a, "ok")
       /\ UNCHANGED <<project, versions>>

\* The wait for the write lock times out; nothing is written.
AdminFails(a) ==
    /\ admin[a].pc = "write"
    /\ Reply(a, "failed")
    /\ UNCHANGED <<project, policyVars, audit, changes>>

\* The steps of a request once it is received.
PolicyStep(a) ==
    \/ ReadPrevious(a) \/ ReadHistorical(a) \/ ReadCurrent(a) \/ ReadVersion(a)
    \/ ReadExisting(a) \/ SavePolicy(a) \/ DisablePolicy(a) \/ AdminFails(a)

PolicyRequest(a) == ReceiveConfigure(a) \/ ReceiveRollback(a) \/ ReceiveDisable(a)

=============================================================================

------------------------------- MODULE Schema -------------------------------
(***************************************************************************)
(* The schema of a database: models.metadata, the Alembic revisions, and   *)
(* the three ways a database comes to have it -- create_schema at run      *)
(* time, dbctl upgrade, and a downgrade by hand.                           *)
(*                                                                         *)
(* A schema is a set of facts <<table, item, what>>: a table, a column and *)
(* its type, a nullable column, an index or unique constraint, a foreign   *)
(* key and the table it refers to.                                         *)
(***************************************************************************)
EXTENDS Naturals, Sequences, SequencesExt, TLC

CONSTANT MaxCrashes     \* bound on interruptions, reruns and downgrades

VARIABLES
    dialect,   \* "sqlite" or "postgresql"
    schema,    \* the committed facts
    version,   \* revisions applied according to alembic_version; 0 for no row
    versioned, \* the table alembic_version exists
    mig,       \* dbctl: where it is, and the schema the revision at hand started with
    crashes,   \* history: interruptions so far
    torn       \* history: the revisions that were cut short

vars == <<dialect, schema, version, versioned, mig, crashes, torn>>

-----------------------------------------------------------------------------
(* The metadata.                                                            *)

\* A field a table does not list is empty.
Items(table, field) == IF field \in DOMAIN table THEN table[field] ELSE {}

\* models.metadata, the accounts and the projects of a workspace.
WorkspaceTables ==
   [workspaces |-> [text |-> {"workspace_id", "name"}, int |-> {"retention_days"},
        time |-> {"created_at"}, keys |-> {"idx_workspaces_created_at"}],
    users |-> [text |-> {"user_id", "workspace_id", "username", "password_hash", "role"},
        int |-> {"active"}, time |-> {"created_at"},
        keys |-> {"uq_users_workspace_username", "idx_users_workspace",
        "idx_users_username"}, refs |-> {<<"fk_users_workspace", "workspaces">>}],
    workspace_members |-> [text |-> {"workspace_id", "user_id", "role"},
        time |-> {"created_at"}, keys |-> {"idx_workspace_members_user"},
        refs |-> {<<"fk_members_workspace", "workspaces">>}],
    projects |-> [text |-> {"project_id", "workspace_id", "name", "code"},
        time |-> {"archived_at", "created_at", "updated_at"}, null |-> {"archived_at"},
        keys |-> {"uq_projects_workspace_code", "idx_projects_workspace"},
        refs |-> {<<"fk_projects_workspace", "workspaces">>}]]

\* ...the runs, their jobs and the audit trail;
RunTables ==
   [runs |-> [text |-> {"run_id", "status", "workspace_id", "owner_id", "parent_run_id",
        "job_id", "assignee_id", "reviewer_id", "project_id", "tender_sha256",
        "tender_filename", "tender_path"}, int |-> {"version_number", "favorite",
        "requirement_count", "unresolved_count", "blocker_count", "fatal_risk_count",
        "revision"}, time |-> {"created_at", "updated_at", "archived_at"},
        json |-> {"tags_json", "duplicate_run_ids_json", "evidence_files", "state_json",
        "requirements_json", "review_json", "source_documents_json", "evidence_assets_json",
        "decision_json"}, null |-> {"archived_at", "parent_run_id", "job_id", "assignee_id",
        "reviewer_id", "project_id", "tender_sha256"},
        keys |-> {"idx_runs_workspace_created", "idx_runs_workspace_updated",
        "idx_runs_workspace_archived", "idx_runs_workspace_sha", "idx_runs_project"},
        refs |-> {<<"fk_runs_workspace", "workspaces">>, <<"fk_runs_parent", "runs">>,
        <<"fk_runs_project", "projects">>}],
    scan_jobs |-> [text |-> {"job_id", "workspace_id", "run_id", "status", "error",
        "progress_message", "lease_token"}, int |-> {"attempts", "progress_current",
        "progress_total", "cancel_requested"}, time |-> {"created_at", "updated_at"},
        json |-> {"payload_json"}, null |-> {"run_id", "error", "lease_token"},
        keys |-> {"idx_scan_jobs_workspace_created", "idx_scan_jobs_status_created",
        "idx_scan_jobs_run"}, refs |-> {<<"fk_jobs_workspace", "workspaces">>,
        <<"fk_jobs_run", "runs">>}],
    audit_events |-> [text |-> {"event_id", "workspace_id", "run_id", "user_id",
        "event_type", "actor_ip", "user_agent", "request_id", "outcome", "prev_hash",
        "event_hash"}, time |-> {"created_at"}, json |-> {"payload_json"},
        null |-> {"run_id", "actor_ip", "user_agent", "request_id", "prev_hash",
        "event_hash"}, keys |-> {"idx_audit_workspace_created", "idx_audit_workspace_run",
        "idx_audit_request", "idx_audit_type_created"}]]

\* ...tokens, second factors, federated identities and attempt counts;
IdentityTables ==
   [api_tokens |-> [text |-> {"token_id", "token_hash", "workspace_id", "user_id", "name",
        "role", "token_prefix", "created_by"}, time |-> {"expires_at", "revoked_at",
        "last_used_at", "created_at"}, json |-> {"permissions_json"},
        null |-> {"expires_at", "revoked_at", "last_used_at"}, keys |-> {"uq_token_hash",
        "idx_api_tokens_workspace"}, refs |-> {<<"fk_tokens_workspace", "workspaces">>}],
    user_mfa |-> [text |-> {"user_id", "secret"}, int |-> {"last_counter"},
        time |-> {"confirmed_at", "created_at"}, json |-> {"recovery_codes_json"},
        null |-> {"confirmed_at"}],
    identity_bindings |-> [text |-> {"binding_id", "user_id", "provider", "issuer",
        "subject"}, time |-> {"created_at", "last_seen_at"}, null |-> {"last_seen_at"},
        keys |-> {"uq_identity_binding_subject", "idx_identity_bindings_user"}],
    login_flows |-> [text |-> {"state", "provider", "code_verifier", "redirect_uri",
        "nonce"}, time |-> {"expires_at", "consumed_at", "created_at"},
        null |-> {"consumed_at"}],
    rate_limit_hits |-> [text |-> {"hit_id", "scope", "bucket"}, time |-> {"occurred_at"},
        keys |-> {"idx_rate_limit_scope_bucket"}]]

\* ...what people attach to a run, sessions, links and idempotency keys;
CollaborationTables ==
   [comments |-> [text |-> {"comment_id", "workspace_id", "run_id", "user_id", "body"},
        time |-> {"created_at"}, keys |-> {"idx_comments_workspace_run"},
        refs |-> {<<"fk_comments_workspace", "workspaces">>, <<"fk_comments_run",
        "runs">>}],
    remediations |-> [text |-> {"remediation_id", "workspace_id", "run_id",
        "requirement_id", "title", "owner_id", "due_date", "status", "note"},
        time |-> {"created_at", "updated_at"}, null |-> {"requirement_id", "owner_id",
        "due_date"}, keys |-> {"idx_remediations_workspace_run",
        "idx_remediations_workspace_due"}, refs |-> {<<"fk_remediations_workspace",
        "workspaces">>, <<"fk_remediations_run", "runs">>}],
    accuracy_feedback |-> [text |-> {"feedback_id", "workspace_id", "run_id",
        "requirement_id", "feedback_key", "category", "predicted", "actual",
        "locator_label", "quote", "note", "reviewer_id", "dataset_scope"},
        int |-> {"review_complete"}, time |-> {"created_at"}, null |-> {"requirement_id",
        "locator_label", "quote"}, keys |-> {"idx_accuracy_feedback_key",
        "idx_accuracy_feedback_scope"}, refs |-> {<<"fk_feedback_workspace", "workspaces">>,
        <<"fk_feedback_run", "runs">>}],
    auth_sessions |-> [text |-> {"token_hash", "user_id"}, time |-> {"expires_at",
        "created_at"}, keys |-> {"idx_auth_sessions_user"}],
    auth_action_tokens |-> [text |-> {"token_hash", "workspace_id", "purpose", "username",
        "user_id", "role", "created_by"}, time |-> {"expires_at", "used_at", "created_at"},
        null |-> {"username", "user_id", "role", "used_at"},
        keys |-> {"idx_auth_action_tokens_invite", "idx_auth_action_tokens_reset"},
        refs |-> {<<"fk_action_workspace", "workspaces">>}],
    project_members |-> [text |-> {"project_id", "user_id", "role"},
        time |-> {"created_at"}, keys |-> {"idx_project_members_user"},
        refs |-> {<<"fk_project_members_project", "projects">>}],
    idempotency_keys |-> [text |-> {"record_id", "workspace_id", "idempotency_key",
        "method", "path", "request_hash"}, int |-> {"status_code"}, time |-> {"created_at"},
        json |-> {"response_json"}, keys |-> {"uq_idempotency_workspace_key",
        "idx_idempotency_created"}]]

\* ...and the log-in codes.
PasswordlessTables ==
   [auth_challenges |-> [text |-> {"challenge_id", "channel", "identifier",
        "identifier_digest", "code_digest"}, int |-> {"attempts", "delivered"},
        time |-> {"expires_at", "created_at", "consumed_at"}, null |-> {"consumed_at"},
        keys |-> {"idx_auth_challenges_identifier"}],
    auth_delivery_guards |-> [text |-> {"bucket"}, time |-> {"sent_at"}],
    auth_rate_limits |-> [text |-> {"bucket"}, int |-> {"hits"},
        time |-> {"window_started_at"}]]

\* 50edb6898ab9: the tables it creates, as it spells them out, ...
BaselineTables ==
   [accuracy_feedback |-> [text |-> {"feedback_id", "workspace_id", "run_id",
        "requirement_id", "feedback_key", "category", "predicted", "actual",
        "locator_label", "quote", "note", "reviewer_id", "dataset_scope", "created_at"},
        int |-> {"review_complete"}, null |-> {"requirement_id", "locator_label", "quote"},
        keys |-> {"idx_accuracy_feedback_key", "idx_accuracy_feedback_scope"}],
    audit_events |-> [text |-> {"event_id", "workspace_id", "run_id", "user_id",
        "event_type", "created_at"}, json |-> {"payload_json"}, null |-> {"run_id"},
        keys |-> {"idx_audit_workspace_created", "idx_audit_workspace_run"}],
    auth_action_tokens |-> [text |-> {"token_hash", "workspace_id", "purpose", "username",
        "user_id", "role", "expires_at", "used_at", "created_by", "created_at"},
        null |-> {"username", "user_id", "role", "used_at"},
        keys |-> {"idx_auth_action_tokens_invite", "idx_auth_action_tokens_reset"}],
    auth_sessions |-> [text |-> {"token_hash", "user_id", "expires_at", "created_at"},
        keys |-> {"idx_auth_sessions_user"}],
    comments |-> [text |-> {"comment_id", "workspace_id", "run_id", "user_id", "body",
        "created_at"}, keys |-> {"idx_comments_workspace_run"}],
    projects |-> [text |-> {"project_id", "workspace_id", "name", "code", "archived_at",
        "created_at", "updated_at"}, null |-> {"archived_at"},
        keys |-> {"uq_projects_workspace_code", "idx_projects_workspace"}],
    remediations |-> [text |-> {"remediation_id", "workspace_id", "run_id",
        "requirement_id", "title", "owner_id", "due_date", "status", "note", "created_at",
        "updated_at"}, null |-> {"requirement_id", "owner_id", "due_date"},
        keys |-> {"idx_remediations_workspace_due", "idx_remediations_workspace_run"}]]

\* ...the larger ones among them.
BaselineRunTables ==
   [runs |-> [text |-> {"run_id", "created_at", "updated_at", "status", "archived_at",
        "workspace_id", "owner_id", "parent_run_id", "job_id", "assignee_id", "reviewer_id",
        "project_id", "tender_sha256", "tender_filename", "tender_path"},
        int |-> {"version_number", "favorite"}, json |-> {"tags_json",
        "duplicate_run_ids_json", "evidence_files", "state_json", "requirements_json",
        "review_json", "source_documents_json", "evidence_assets_json", "decision_json"},
        null |-> {"archived_at", "parent_run_id", "job_id", "assignee_id", "reviewer_id",
        "project_id", "tender_sha256"}, keys |-> {"idx_runs_project",
        "idx_runs_workspace_archived", "idx_runs_workspace_created",
        "idx_runs_workspace_sha", "idx_runs_workspace_updated"}],
    scan_jobs |-> [text |-> {"job_id", "workspace_id", "run_id", "status", "error",
        "progress_message", "created_at", "updated_at"}, int |-> {"attempts",
        "progress_current", "progress_total", "cancel_requested"},
        json |-> {"payload_json"}, null |-> {"run_id", "error"},
        keys |-> {"idx_scan_jobs_run", "idx_scan_jobs_status_created",
        "idx_scan_jobs_workspace_created"}],
    users |-> [text |-> {"user_id", "workspace_id", "username", "password_hash", "role",
        "created_at"}, int |-> {"active"}, keys |-> {"idx_users_workspace",
        "users_username_key"}],
    workspace_members |-> [text |-> {"workspace_id", "user_id", "role", "created_at"}],
    workspaces |-> [text |-> {"workspace_id", "name", "created_at"},
        int |-> {"retention_days"}, keys |-> {"idx_workspaces_created_at"}]]

\* 2dbb331b707a: the tables it creates where they are missing.
EnvelopeTables ==
   [api_tokens |-> [text |-> {"token_id", "token_hash", "workspace_id", "user_id", "name",
        "role", "token_prefix", "expires_at", "revoked_at", "last_used_at", "created_by",
        "created_at"}, json |-> {"permissions_json"}, null |-> {"expires_at", "revoked_at",
        "last_used_at"}, keys |-> {"uq_token_hash"}],
    identity_bindings |-> [text |-> {"binding_id", "user_id", "provider", "issuer",
        "subject", "created_at", "last_seen_at"}, null |-> {"last_seen_at"},
        keys |-> {"uq_identity_binding_subject"}],
    login_flows |-> [text |-> {"state", "provider", "code_verifier", "redirect_uri",
        "nonce", "expires_at", "consumed_at", "created_at"}, null |-> {"consumed_at"}],
    rate_limit_hits |-> [text |-> {"hit_id", "scope", "bucket", "occurred_at"}],
    user_mfa |-> [text |-> {"user_id", "secret", "confirmed_at", "created_at"},
        int |-> {"last_counter"}, json |-> {"recovery_codes_json"},
        null |-> {"confirmed_at"}]]

\* b7c8d9e0f1a2: likewise; response_json is sa.JSON, not json_column.
AclTables ==
   [project_members |-> [text |-> {"project_id", "user_id", "role", "created_at"},
        refs |-> {<<"fk_project_members_project", "projects">>}],
    idempotency_keys |-> [text |-> {"record_id", "workspace_id", "idempotency_key",
        "method", "path", "request_hash", "created_at"}, int |-> {"status_code"},
        anyjson |-> {"response_json"}, keys |-> {"uq_idempotency_workspace_key"}]]

\* c9d0e1f2a3b4: the columns it turns into TIMESTAMPTZ.
TIMESTAMP_COLUMNS ==
    {<<t, "created_at">> : t \in {"workspaces", "users", "workspace_members", "projects",
       "runs", "scan_jobs", "audit_events", "api_tokens", "user_mfa", "identity_bindings",
       "login_flows", "comments", "remediations", "accuracy_feedback", "auth_sessions",
       "auth_action_tokens", "project_members", "idempotency_keys"}}
    \cup {<<t, "updated_at">> : t \in {"projects", "runs", "scan_jobs", "remediations"}}
    \cup {<<t, "archived_at">> : t \in {"projects", "runs"}}
    \cup {<<t, "expires_at">> : t \in {"api_tokens", "login_flows", "auth_sessions",
                                       "auth_action_tokens"}}
    \cup {<<"api_tokens", "revoked_at">>, <<"api_tokens", "last_used_at">>,
          <<"user_mfa", "confirmed_at">>, <<"identity_bindings", "last_seen_at">>,
          <<"login_flows", "consumed_at">>, <<"rate_limit_hits", "occurred_at">>,
          <<"auth_action_tokens", "used_at">>}

-----------------------------------------------------------------------------
(* Facts.                                                                   *)

\* IsoTimestamp and json_column: TIMESTAMPTZ and JSONB on PostgreSQL only.
TypeOf(field, d) ==
    CASE field = "time" -> IF d = "postgresql" THEN "timestamptz" ELSE "text"
      [] field = "json" -> IF d = "postgresql" THEN "jsonb" ELSE "json"
      [] field = "anyjson" -> "json"
      [] OTHER -> field

TableFacts(t, table, d) ==
    {<<t, "", "table">>}
    \cup UNION {{<<t, c, TypeOf(f, d)>> : c \in Items(table, f)}
                : f \in {"text", "int", "time", "json", "anyjson"}}
    \cup {<<t, c, "null">> : c \in Items(table, "null")}
    \cup {<<t, k, "key">> : k \in Items(table, "keys")}
    \cup {<<t, r[1], r[2]>> : r \in Items(table, "refs")}

metadata == WorkspaceTables @@ RunTables @@ IdentityTables @@ CollaborationTables
            @@ PasswordlessTables

Facts(tables, d) == UNION {TableFacts(t, tables[t], d) : t \in DOMAIN tables}

Has(s, t, item) == \E f \in s : f[1] = t /\ f[2] = item

\* metadata.create_all(checkfirst=True): a missing table comes with its keys and
\* references; a table that is there is left alone.
CreateAll(s, d) == s \cup Facts([t \in {u \in DOMAIN metadata : ~Has(s, u, "")} |->
                                   metadata[t]], d)

\* _add_columns_missing_from_metadata: columns and nothing else.
AddColumns(s, d) ==
    s \cup {f \in Facts(metadata, d) :
              /\ Has(s, f[1], "") /\ ~Has(s, f[1], f[2])
              /\ f[3] \in {"text", "int", "timestamptz", "json", "jsonb", "null"}}

-----------------------------------------------------------------------------
(* The revisions.  A statement adds the facts of one item of a table, drops *)
(* the item, or retypes columns.  guard says when the revision looks        *)
(* whether look is already there: "start" by the inspection it opens with,  *)
(* "now" just before the statement, "none" never.                           *)

Statement(kind, guard, t, item, adds, look) ==
    [kind |-> kind, guard |-> guard, table |-> t, item |-> item, adds |-> adds, look |-> look]

Create(guard, t, table, d) ==
    Statement("add", guard, t, "", TableFacts(t, table, d), <<t, "">>)
Key(guard, t, k) == Statement("add", guard, t, k, {<<t, k, "key">>}, <<t, k>>)
\* An index created only together with its table.
KeyOfNew(t, k) == Statement("add", "start", t, k, {<<t, k, "key">>}, <<t, "">>)
Column(t, c, whats) ==
    Statement("add", "start", t, c, {<<t, c, w>> : w \in whats}, <<t, c>>)
ForeignKey(t, k, ref) == Statement("add", "start", t, k, {<<t, k, ref>>}, <<t, k>>)
Drop(t, item) == Statement("drop", "start", t, item, {}, <<t, item>>)

head_revision == 8

Baseline(d) ==
    LET tables == BaselineTables @@ BaselineRunTables
        order  == <<"accuracy_feedback", "audit_events", "auth_action_tokens",
                    "auth_sessions", "comments", "projects", "remediations", "runs",
                    "scan_jobs", "users", "workspace_members", "workspaces">>
    IN  [i \in DOMAIN order |-> Create("none", order[i], tables[order[i]], d)]

\* identity_audit_envelope
Envelope(d) ==
    LET new(t) == Create("start", t, EnvelopeTables[t], d)
    IN  <<new("api_tokens"), Key("now", "api_tokens", "idx_api_tokens_workspace"),
          new("identity_bindings"), Key("now", "identity_bindings", "idx_identity_bindings_user"),
          new("login_flows"),
          new("rate_limit_hits"), Key("now", "rate_limit_hits", "idx_rate_limit_scope_bucket"),
          new("user_mfa"),
          Column("audit_events", "actor_ip", {"text", "null"}),
          Column("audit_events", "user_agent", {"text", "null"}),
          Column("audit_events", "request_id", {"text", "null"}),
          Column("audit_events", "outcome", {"text"}),
          Key("start", "audit_events", "idx_audit_request"),
          Key("start", "audit_events", "idx_audit_type_created")>>

\* audit_hash_chain
HashChain ==
    <<Column("audit_events", "prev_hash", {"text", "null"}),
      Column("audit_events", "event_hash", {"text", "null"}),
      Key("now", "workspace_members", "idx_workspace_members_user")>>

\* run_list_counts_and_username_scope
ListCounts ==
    [i \in 1 .. 5 |-> Column("runs", <<"requirement_count", "unresolved_count",
                                       "blocker_count", "fatal_risk_count", "revision">>[i],
                             {"int"})]
    \o <<Drop("users", "users_username_key"),
         Key("start", "users", "idx_users_username"),
         Key("start", "users", "uq_users_workspace_username")>>


\* fk_acl_idempotency
Acl(d) ==
    LET new(t) == Create("start", t, AclTables[t], d)
    IN  <<new("project_members"), KeyOfNew("project_members", "idx_project_members_user"),
          new("idempotency_keys"), KeyOfNew("idempotency_keys", "idx_idempotency_created"),
          ForeignKey("users", "fk_users_workspace", "workspaces"),
          ForeignKey("workspace_members", "fk_members_workspace", "workspaces"),
          ForeignKey("projects", "fk_projects_workspace", "workspaces"),
          ForeignKey("runs", "fk_runs_workspace", "workspaces"),
          ForeignKey("runs", "fk_runs_project", "projects"),
          ForeignKey("runs", "fk_runs_parent", "runs"),
          ForeignKey("scan_jobs", "fk_jobs_workspace", "workspaces"),
          ForeignKey("scan_jobs", "fk_jobs_run", "runs"),
          ForeignKey("comments", "fk_comments_workspace", "workspaces"),
          ForeignKey("comments", "fk_comments_run", "runs"),
          ForeignKey("remediations", "fk_remediations_workspace", "workspaces"),
          ForeignKey("remediations", "fk_remediations_run", "runs"),
          ForeignKey("accuracy_feedback", "fk_feedback_workspace", "workspaces"),
          ForeignKey("accuracy_feedback", "fk_feedback_run", "runs"),
          ForeignKey("api_tokens", "fk_tokens_workspace", "workspaces"),
          ForeignKey("auth_action_tokens", "fk_action_workspace", "workspaces")>>

\* pg_timestamptz
Timestamps(d) ==
    IF d = "postgresql" THEN <<Statement("retype", "none", "", "", {}, <<"", "">>)>> ELSE <<>>

\* passwordless_challenges: Table.create(checkfirst=True) of the metadata's own tables.
Passwordless(d) ==
    LET new(t) == Create("now", t, PasswordlessTables[t], d)
    IN  <<new("auth_rate_limits"), new("auth_delivery_guards"), new("auth_challenges")>>

Revisions(d) ==
    <<Baseline(d), Envelope(d), HashChain, ListCounts, Acl(d), Timestamps(d),
      <<Column("scan_jobs", "lease_token", {"text", "null"})>>, Passwordless(d)>>

\* What each downgrade() removes: tables, and items of tables that stay.
Removed(r) ==
    CASE r = 1 -> [tables |-> DOMAIN BaselineTables \cup DOMAIN BaselineRunTables, items |-> {}]
      [] r = 2 -> [tables |-> DOMAIN EnvelopeTables,
                   items |-> {<<"audit_events", i>> : i \in {"idx_audit_type_created",
                               "idx_audit_request", "outcome", "request_id", "user_agent",
                               "actor_ip"}}]
      [] r = 3 -> [tables |-> {}, items |-> {<<"workspace_members", "idx_workspace_members_user">>,
                                             <<"audit_events", "event_hash">>,
                                             <<"audit_events", "prev_hash">>}]
      [] r = 4 -> [tables |-> {}, items |-> {<<"users", "uq_users_workspace_username">>,
                                             <<"users", "idx_users_username">>}
                     \cup {<<"runs", c>> : c \in {"revision", "fatal_risk_count", "blocker_count",
                                                  "unresolved_count", "requirement_count"}}]
      [] r = 5 -> [tables |-> DOMAIN AclTables, items |-> {}]
      [] r = 6 -> [tables |-> {}, items |-> {}]
      [] r = 7 -> [tables |-> {}, items |-> {<<"scan_jobs", "lease_token">>}]
      [] r = 8 -> [tables |-> DOMAIN PasswordlessTables, items |-> {}]

-----------------------------------------------------------------------------
(* Executing them.                                                          *)

Found(st, seen, s) == Has(IF st.guard = "start" THEN seen ELSE s, st.look[1], st.look[2])

\* An unguarded or outdated look: the database refuses the statement.
Refused(st, seen, s) ==
    /\ st.kind = "add" /\ (st.guard = "none" \/ ~Found(st, seen, s))
    /\ Has(s, st.table, st.item) \/ (st.item # "" /\ ~Has(s, st.table, ""))

Retyped(f) == IF <<f[1], f[2]>> \in TIMESTAMP_COLUMNS /\ f[3] = "text"
              THEN <<f[1], f[2], "timestamptz">> ELSE f

Exec(st, seen, s) ==
    CASE st.kind = "retype" -> {Retyped(f) : f \in s}
      [] st.kind = "drop" -> {f \in s : <<f[1], f[2]>> # <<st.table, st.item>>}
      [] OTHER -> IF st.guard # "none" /\ Found(st, seen, s) THEN s ELSE s \cup st.adds

ExecAll(sts, s) == FoldLeft(LAMBDA acc, st : Exec(st, s, acc), s, sts)

\* A database brought from s at revision v to head in one go.
Upgraded(s, v, d) ==
    FoldLeft(LAMBDA acc, sts : ExecAll(sts, acc), s, SubSeq(Revisions(d), v + 1, head_revision))

\* What create_schema made of an empty database in the release of revision r: the
\* metadata of that release, which the revision was generated from.
Release(r, d) == FoldLeft(LAMBDA acc, sts : ExecAll(sts, acc), {}, SubSeq(Revisions(d), 1, r))

Idle == [at |-> "idle", rev |-> 0, step |-> 0, seen |-> {}]

Running == mig.at \in {"stamp", "begin", "run"}

Init ==
    /\ dialect \in {"sqlite", "postgresql"}
    /\ schema \in {{}} \cup (IF dialect = "sqlite" THEN {Release(r, dialect) : r \in 1 .. head_revision}
                                                   ELSE {})
    /\ version = 0 /\ versioned = FALSE
    /\ mig = Idle
    /\ crashes = 0 /\ torn = {}

TypeOK ==
    /\ version \in 0 .. head_revision /\ versioned \in BOOLEAN
    /\ crashes \in 0 .. MaxCrashes /\ torn \subseteq 1 .. head_revision
    /\ mig.at \in {"idle", "stamp", "begin", "run", "done", "failed"}
    /\ mig.rev \in 0 .. head_revision
    /\ \A f \in schema : Len(f) = 3

Goto(at) == mig' = [mig EXCEPT !.at = at]

\* The revision after r, or the end.
At(r) == [at   |-> IF r = head_revision THEN "done" ELSE "run", rev |-> r, step |-> 0,
          seen |-> IF r = head_revision THEN {} ELSE schema]

\* dbctl.upgrade looks for alembic_version and for the sentinel table runs.
Check ==
    /\ mig.at = "idle"
    /\ Goto(IF ~versioned /\ Has(schema, "runs", "") THEN "stamp" ELSE "begin")
    /\ UNCHANGED <<dialect, schema, version, versioned, crashes, torn>>

\* Mutant: an adopted database is stamped with the head.
StampMutant ==
    /\ mig.at = "stamp"
    /\ version' = head_revision /\ versioned' = TRUE
    /\ Goto("begin")
    /\ UNCHANGED <<dialect, schema, crashes, torn>>

\* command.stamp: adopt what is there at the baseline.
Stamp ==
    /\ mig.at = "stamp"
    /\ version' = 1 /\ versioned' = TRUE
    /\ Goto("begin")
    /\ UNCHANGED <<dialect, schema, crashes, torn>>

\* command.upgrade makes sure of alembic_version and reads the row.
Begin ==
    /\ mig.at = "begin" /\ dialect = "sqlite"
    /\ versioned' = TRUE
    /\ mig' = At(version)
    /\ UNCHANGED <<dialect, schema, version, crashes, torn>>

\* PostgreSQL runs the revisions in one transaction.
UpgradeAtOnce ==
    /\ mig.at = "begin" /\ dialect = "postgresql"
    /\ versioned' = TRUE /\ version' = head_revision
    /\ schema' = Upgraded(schema, version, dialect)
    /\ Goto("done")
    /\ UNCHANGED <<dialect, crashes, torn>>

Steps == Revisions(dialect)[mig.rev + 1]

\* SQLite commits a DDL statement by itself; a refused one ends the command.
Step ==
    /\ mig.at = "run" /\ mig.step < Len(Steps)
    /\ LET st == Steps[mig.step + 1]
       IN  IF Refused(st, mig.seen, schema)
           THEN mig' = [Idle EXCEPT !.at = "failed"] /\ UNCHANGED schema
           ELSE mig' = [mig EXCEPT !.step = @ + 1] /\ schema' = Exec(st, mig.seen, schema)
    /\ UNCHANGED <<dialect, version, versioned, crashes, torn>>

\* The version row moves with the end of the revision.
Finish ==
    /\ mig.at = "run" /\ mig.step = Len(Steps)
    /\ version' = mig.rev + 1
    /\ mig' = At(mig.rev + 1)
    /\ UNCHANGED <<dialect, schema, versioned, crashes, torn>>

\* The process dies; on PostgreSQL its transaction is rolled back.
Crash ==
    /\ Running /\ crashes < MaxCrashes
    /\ crashes' = crashes + 1
    /\ mig' = Idle
    /\ torn' = IF mig.at = "run" THEN torn \cup {mig.rev + 1} ELSE torn
    /\ UNCHANGED <<dialect, schema, version, versioned>>

\* An operator runs dbctl again.
Rerun ==
    /\ mig.at \in {"failed", "done"} /\ crashes < MaxCrashes
    /\ crashes' = crashes + 1
    /\ mig' = Idle
    /\ UNCHANGED <<dialect, schema, version, versioned, torn>>

\* create_schema when the application starts; runtime_ddl_allowed keeps it off a
\* PostgreSQL production database.
CreateSchema ==
    /\ ~Running /\ dialect = "sqlite"
    /\ schema' = AddColumns(CreateAll(schema, dialect), dialect)
    /\ schema' # schema
    /\ UNCHANGED <<dialect, version, versioned, mig, crashes, torn>>

\* alembic downgrade by one revision.  PostgreSQL does not drop a table that others
\* refer to, and no downgrade removes the references b7c8d9e0f1a2 has added.
Downgrade ==
    LET gone == Removed(version)
        kept == {f \in schema : f[1] \notin gone.tables /\ <<f[1], f[2]>> \notin gone.items}
    IN  /\ ~Running /\ version > 0 /\ crashes < MaxCrashes
        /\ dialect = "postgresql" => \A f \in schema : f[3] \notin gone.tables
        /\ schema' = kept
        /\ version' = version - 1
        /\ crashes' = crashes + 1
        /\ mig' = Idle
        /\ UNCHANGED <<dialect, versioned, torn>>

Next ==
    \/ Check \/ Stamp \/ Begin \/ UpgradeAtOnce \/ Step \/ Finish \/ Crash \/ Rerun
    \/ CreateSchema \/ Downgrade

Spec == Init /\ [][Next]_vars

-----------------------------------------------------------------------------
(* Properties.                                                              *)

\* The facts without the difference between JSON and JSONB.
Plain(s) == {IF f[3] = "jsonb" THEN <<f[1], f[2], "json">> ELSE f : f \in s}

AclIndexes == {<<"project_members", "idx_project_members_user">>,
               <<"idempotency_keys", "idx_idempotency_created">>}

\* Whatever a database was -- empty, of an earlier release, left in the middle of
\* a revision, brought up by create_schema or taken back by a downgrade -- a
\* finished dbctl upgrade leaves the metadata's tables, columns, constraints and
\* references.  Only the two indexes b7c8d9e0f1a2 creates together with their
\* tables may be missing, after an interruption of that revision.
HeadIsMetadata ==
    mig.at = "done"
    => LET want == Plain(Facts(metadata, dialect))
           have == Plain(schema)
       IN  /\ have \subseteq want
           /\ \A f \in want \ have : <<f[1], f[2]>> \in AclIndexes /\ 5 \in torn

\* However often it was interrupted before, an upgrade fails on a database whose
\* baseline was cut short (alembic_version is there, without a row) and on no other.
FailsOnTornBaseline == mig.at = "failed" => versioned /\ version = 0

\* Every dbctl upgrade that ends, ends at the metadata or fails where it must.
UpgradeEnds == HeadIsMetadata /\ FailsOnTornBaseline

=============================================================================

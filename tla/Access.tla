------------------------------- MODULE Access -------------------------------
(***************************************************************************)
(* Who may call what: the permissions of the roles, the permission and the *)
(* scope every route asks for, and the principals sessions and API tokens  *)
(* stand for.  Pure operators; Members adds the rows they are read from.   *)
(***************************************************************************)
EXTENDS Naturals, FiniteSets

VIEWER_PERMISSIONS ==
    {"run:read", "job:read", "member:read", "workspace:read", "metrics:read"}

REVIEWER_PERMISSIONS == VIEWER_PERMISSIONS \cup
    {"run:create", "run:update", "run:review", "run:decide", "report:export",
     "evidence:download", "job:manage", "audit:read", "health:detail"}

ADMIN_PERMISSIONS == REVIEWER_PERMISSIONS \cup
    {"run:delete", "report:bulk-export", "member:manage", "project:manage",
     "workspace:manage", "audit:export", "backup:manage", "retention:manage",
     "token:manage"}

Permission == ADMIN_PERMISSIONS

Roles == {"OWNER", "ADMIN", "REVIEWER", "VIEWER"}

PermissionsFor(role) ==
    CASE role = "OWNER"    -> Permission
      [] role = "ADMIN"    -> ADMIN_PERMISSIONS
      [] role = "REVIEWER" -> REVIEWER_PERMISSIONS
      [] role = "VIEWER"   -> VIEWER_PERMISSIONS
      [] OTHER             -> {}

-----------------------------------------------------------------------------
(* Principals.                                                              *)

\* A session stands for the live role of its account.
SessionPrincipal(user, role) == [user |-> user, role |-> role, scope |-> Permission]

\* Mutant: a demotion of the account does not reach its tokens.
TokenPrincipalMutant(user, signed, current, scope) ==
    [user |-> user, role |-> signed, scope |-> scope \cap PermissionsFor(signed)]

\* A token is bounded by its own scope, by the role that signed it and by the
\* live role; the role it carries is the weaker of the two.
TokenPrincipal(user, signed, current, scope) ==
    [user  |-> user,
     role  |-> IF Cardinality(PermissionsFor(current)) < Cardinality(PermissionsFor(signed))
               THEN current ELSE signed,
     scope |-> scope \cap PermissionsFor(signed) \cap PermissionsFor(current)]

HasPermission(p, permission) == permission \in PermissionsFor(p.role) \cap p.scope

\* create_token: what the principal may put into a token.
Grantable(p) == PermissionsFor(p.role) \cap p.scope

\* user_can_access_project: no project and a project without a member list are
\* open to the workspace, administrators pass every list.
CanAccessProject(p, members) ==
    members = {} \/ p.role \in {"OWNER", "ADMIN"} \/ p.user \in members

-----------------------------------------------------------------------------
(* Routes: what each asks for and whether it only reads.                    *)

Route(needs, method, scope) == [needs |-> needs, method |-> method, scope |-> scope]

RunRoutes ==
    [create_run |-> Route("run:create", "POST", "workspace"),
     list_runs |-> Route("run:read", "GET", "listed"),
     bulk_archive |-> Route("run:update", "POST", "workspace"),
     bulk_delete |-> Route("run:delete", "POST", "workspace"),
     get_run |-> Route("run:read", "GET", "run"),
     download_run_file |-> Route("evidence:download", "GET", "run"),
     preview_source_page |-> Route("evidence:download", "GET", "run"),
     rescan_run |-> Route("run:create", "POST", "run"),
     diff_runs |-> Route("run:read", "GET", "run"),
     get_run_audit |-> Route("audit:read", "GET", "run"),
     update_run_metadata |-> Route("run:update", "PATCH", "run")]

WorkRoutes ==
    [create_comment |-> Route("run:update", "POST", "run"),
     get_comments |-> Route("run:read", "GET", "run"),
     create_run_remediation |-> Route("run:update", "POST", "run"),
     get_run_remediations |-> Route("run:read", "GET", "run"),
     create_accuracy_feedback |-> Route("run:review", "POST", "run"),
     list_requirements |-> Route("run:read", "GET", "run"),
     list_run_evidence |-> Route("run:read", "GET", "run"),
     review_run |-> Route("run:review", "POST", "run"),
     save_decision |-> Route("run:decide", "POST", "run"),
     remove_run |-> Route("run:delete", "DELETE", "run"),
     patch_remediation |-> Route("run:update", "PATCH", "workspace")]

ReportRoutes ==
    [bulk_report_zip |-> Route("report:bulk-export", "POST", "workspace"),
     export_report_html |-> Route("report:export", "GET", "run"),
     export_report_csv |-> Route("report:export", "GET", "run"),
     export_report_pdf |-> Route("report:export", "GET", "run"),
     export_audit_csv |-> Route("audit:export", "GET", "workspace")]

AdminRoutes ==
    [workspace_settings |-> Route("workspace:read", "GET", "workspace"),
     save_workspace_settings |-> Route("workspace:manage", "PATCH", "workspace"),
     get_workspace_usage |-> Route("workspace:read", "GET", "workspace"),
     get_workspace_privacy |-> Route("workspace:read", "GET", "workspace"),
     get_notifications |-> Route("workspace:read", "GET", "workspace"),
     get_accuracy_metrics |-> Route("metrics:read", "GET", "workspace"),
     retention_preview |-> Route("workspace:read", "GET", "workspace"),
     purge_retention |-> Route("retention:manage", "POST", "run"),
     list_evidence |-> Route("run:read", "GET", "workspace"),
     get_backups |-> Route("backup:manage", "GET", "workspace"),
     create_project_backup |-> Route("backup:manage", "POST", "workspace"),
     verify_project_backup |-> Route("backup:manage", "POST", "workspace"),
     audit_chain |-> Route("audit:read", "GET", "workspace"),
     export_audit |-> Route("audit:export", "GET", "workspace")]

JobRoutes ==
    [get_scan_jobs |-> Route("job:read", "GET", "workspace"),
     get_scan_job |-> Route("job:read", "GET", "workspace"),
     stream_scan_job |-> Route("job:read", "GET", "workspace"),
     enqueue_scan_job |-> Route("job:manage", "POST", "workspace"),
     retry_scan_job |-> Route("job:manage", "POST", "workspace"),
     cancel_job |-> Route("job:manage", "POST", "workspace")]

MemberRoutes ==
    [get_members |-> Route("member:read", "GET", "workspace"),
     create_member |-> Route("member:manage", "POST", "workspace"),
     update_member |-> Route("member:manage", "PATCH", "workspace"),
     issue_member_password_reset |-> Route("member:manage", "POST", "workspace")]

AuthRoutes ==
    [create_invitation |-> Route("member:manage", "POST", "workspace"),
     list_tokens |-> Route("token:manage", "GET", "workspace"),
     create_token |-> Route("token:manage", "POST", "workspace"),
     revoke_token |-> Route("token:manage", "DELETE", "workspace")]

ProjectRoutes ==
    [get_projects |-> Route("workspace:read", "GET", "workspace"),
     add_project |-> Route("project:manage", "POST", "workspace"),
     patch_project |-> Route("project:manage", "PATCH", "workspace")]

HealthRoutes ==
    [sample_tender |-> Route("run:create", "GET", "workspace"),
     healthz_detail |-> Route("health:detail", "GET", "workspace"),
     metrics |-> Route("metrics:read", "GET", "workspace")]

Routers == <<RunRoutes, WorkRoutes, ReportRoutes, AdminRoutes, JobRoutes,
             MemberRoutes, AuthRoutes, ProjectRoutes, HealthRoutes>>

Routes == UNION {{Routers[i][h] : h \in DOMAIN Routers[i]} : i \in DOMAIN Routers}

\* require, and for a run require_scoped on its project.
MayCall(p, route, members) ==
    /\ HasPermission(p, route.needs)
    /\ route.scope = "run" => CanAccessProject(p, members)

=============================================================================

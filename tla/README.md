# BidProof: a TLA+ verification

BidProof scans a tender document together with supporting evidence, stores the
result as a *run*, and lets a team review it, decide on it and export it. The
back end is a FastAPI application over SQLite or PostgreSQL (`src/app`), a
worker that executes scan jobs, and a browser front end (`src/frontend`).

This directory models the back end: first the parts whose correctness depends
on the order of steps of several processes, then the algorithms a document goes
through. TLC checks small instances. TLAPS proves, for every value of the
constants, all but three of the safety and action properties the passing runs
check, and that the queue implements its contract.

Contents: [Inventory](#inventory), [Plan](#plan), [Modules](#modules),
[How the models correspond to the code](#how-the-models-correspond-to-the-code),
[Runs](#runs), [Findings](#findings), [Proofs](#proofs),
[What is not modelled](#what-is-not-modelled).

## Inventory

| Component | State | Operations | Interacts through | Hard behaviours | Properties that make it correct |
|---|---|---|---|---|---|
| Job queue (`job_leases.py`, `queue.py`, `db.py` 660-858, `repositories/jobs.py`, `api/jobs.py`) | `scan_jobs` rows: status, attempts, cancel flag, lease, run id, updated_at | stage, claim, lease update, fence, retry, cancel, requeue stale, delete | database rows, row locks | claims by several replicas, reclaimed leases, cancellation against publication, attempt limit | at most one run per job; a cancelled job publishes nothing; pending work stays runnable; every job is settled |
| Scan execution (`services/scan_service.py`) | upload directory, staged inputs, publication transaction | `create_run`, `stage_job`, `process_job`, `rescan_run` | calls the queue, run records, audit; files | failure at any step, lost lease, interactive scans without lease | a run has its originals; a job that may run keeps its inputs |
| Worker and supervisor (`worker.py`, `job_runner.py`) | child process, deadline, heartbeat | claim loop, spawn, beat, stop, clean up | processes, queue rows | kill of child or worker, timeout while publishing, late commit | no orphaned directory, no deleted originals, liveness |
| Run records (`services/run_service.py`, `db.save_run`, `services/workspace_service.py`) | `runs` rows: revision, state, review, decision, metadata, archived_at | review, decide, metadata, archive, rescan link, delete, purge | read-modify-write of whole rows | some writers compare the revision, others overwrite | a confirmed review or decision is not lost; the revision only grows |
| Comments, remediations, projects (`db.py` 511-562, 882-976, `api/projects.py`) | rows that hang off a run, projects | add, update, find or insert the DEFAULT project | foreign keys, read-modify-write | two first scans, update against update, insert against delete | no orphan rows; a field changes only to what was sent, or is undone by an update that read before |
| Accuracy feedback (`db.py` 996-1147, `workspace_service.accuracy`) | labels per reviewer and finding | upsert, metrics | run records | resubmission, several reviewers | MEASURABLE only when every detection of the labelled runs is labelled |
| Audit chain (`db.record_audit_event`, `db.verify_audit_chain`) | hash-linked events per workspace | append, verify | every handler | concurrent appends, clocks that go back or differ | a chain appended to in turn and in the order of its timestamps verifies; retyping or removing an event is found |
| Second factor (`auth_service.py` 444-533, `totp.py`) | secret, counter, recovery codes, login flows | enrol, confirm, verify, disable | snapshot comparison | one code presented twice, enrolment against confirmation | codes and flows are one-time |
| Passwords and sessions (`auth_service.py`, `db.py` 1257-1432) | password hash, sessions, reset links | sign in, rehash, change, reset, deactivate, log out, revoke | database rows | revocation against login, session cap, one link presented twice | revoked sessions stay revoked; a link sets one password |
| Passwordless and social sign-in (`passwordless_service.py`, `social_auth_service.py`, `repositories/challenges.py`, `auth_delivery.py`) | codes, cooldowns, windows, login flows, bindings | request, deliver, verify, start, callback, sign up | database rows, providers | late delivery report, guesses in parallel, concurrent sign-up | a proof is used once and leads to its own account |
| Accounts and access (`identity.py`, `authz.py`, `api/*.py`, `db.user_can_access_project`) | roles, members, invitations, API tokens | bootstrap, invite, activate, create, update, mint, revoke | every handler | role change against a live token | a token never exceeds its account, its scope or its minting token |
| Rate limit (`ratelimit.py`) | windows of hits per key | check, record, clear, clean up | guards, log-in | window boundary, stamp before transaction, count before record | the allowance, plus a stated overshoot, is never exceeded |
| Schema and connections (`db.engine`, `database.py`, `models.py`, `dbctl.py`, `migrations`) | tables, version, Events | create, adopt, upgrade, downgrade | all | interruption inside a revision, threads initialising together | an upgrade ends at the metadata; one creator at a time |
| HTTP shell (`http.py`, `request_limits.py`, `csrf.py`) | one request, its body | budget, replay, alias, guards | every handler | chunked bodies, order of guards | the body arrives once; session writes carry the token |
| OCR and privacy gate (`ocr.py`, `ocr_privacy.py`, `extraction.py` 35-336) | one page | read, fall back, tile, redact, escalate, merge | external engines | failure of any engine at any pass | only scrubbed images leave; text never gets worse |
| Documents (`extraction.py` 338-538, `file_safety.py`, `uploads.py`) | one upload | scan, read | scan execution | boundaries of reads, numbering | locators are distinct, no text is lost, tokens are found |
| Rules (`rules.py`) | none | extract, deduplicate, match | scan execution | overlap of patterns, terms across pages | no finding lost, every match can be cited |
| Reports (`reporting.py`, `presenters.py`, `report_service.py`, `quality_gates.py`) | stored counts | review, count, lay out, archive, gate | run records | three definitions of one number, page boundary, equal names | they agree; blocks fit; names differ |
| Directory and OIDC log-in (`directory.py`, `oidc.py`) | none | verify, bind, role | external providers | tokens that are valid elsewhere | accepted means made for us |
| Backup (`src/work/backup_restore.py`) | backup directories | create, verify, list, restore | files, database | the system runs meanwhile, media faults | what is restored is whole |
| Health, observability, licence, crypto, configuration | counters, environment | middleware, read | all | none | wiring |
| Development workflow state (`workflow.py`, `state.py`) | a JSON file of the development process | check | none | none | not part of the running system |
| Evaluation scripts (`src/work/eval`, `src/scripts`) | files | collect, score | file system, web | none | data |
| Front end (`src/frontend`, `src/landing`) | view state | API calls, polling | HTTP | late answers | user interface |
| Deployment (`src/deploy`, `src/.github`) | none | none | none | none | configuration |

## Plan

1. **Scan job queue** (`ScanJobs`, `JobLifecycle`, `ScanJobsInvariant`,
   `ScanJobsProofs`): the behaviour everything else depends on. Done.
2. **Run records** (`RunRecords`, `RunRecordsProofs`) and **second factor**
   (`SecondFactor`, `SecondFactorProofs`). Done.
3. **Accounts**: `Credentials`, `Access`, `Members`, `SignIn`, `Federated`,
   side by side in `MCAccounts`; `SignInProofs`, `MembersProofs`. Done.
4. **Platform**: `Schema`, `SchemaInit`, `AuditChain`, `RateLimit`, `Feedback`,
   `Workbench`, `Backup`, `HttpShell`, side by side in `MCPlatform`;
   `PlatformProofs`. Done; `Schema` is only model-checked.
5. **Document pipeline**: `PageOcr`, `Documents`, `Rules`, `Reports`, side by
   side in `MCPipeline`; `PipelineProofs`, `ReadingProofs`. Done.
6. **Open**: what [Only model-checked](#only-model-checked) lists, and the
   hazards of `PROJECT.json` that no property covers.

## Modules

| Module | What it is |
|---|---|
| `ScanJobs` | the queue, the executors and the files, one action per handler step |
| `JobLifecycle` | the contract of a job seen from the API: open, then failed, cancelled or completed, at most one result |
| `ScanJobsInvariant` | the inductive invariant `IInv` of `ScanJobs`, a conjunction of named parts |
| `ScanJobsProofs` | theorems about `ScanJobs` with TLAPS proofs |
| `MCScanJobs` | the instance TLC checks: symmetry of jobs and attempts |
| `RunRecords` | the record of a run under concurrent requests, one action per transaction of a handler; its inductive invariant `RecordsInv` |
| `RunRecordsProofs` | theorems about `RunRecords` with TLAPS proofs |
| `MCRunRecords` | the instance TLC checks: symmetry of runs and requests |
| `SecondFactor` | the second factor of an account and its login flows under concurrent requests; its inductive invariant `FactorInv` |
| `SecondFactorProofs` | theorems about `SecondFactor` with TLAPS proofs |
| `MCSecondFactor` | the instance TLC checks: symmetry of requests and secrets |
| `Credentials` | password, sessions and reset links of one account |
| `Access`, `Members` | the permission table and the principals (pure operators); the rows they are read from and their writers. `Members` extends `Access` |
| `SignIn` | one-time codes, provider log-ins, bindings and sign-up |
| `Federated` | what is accepted of an ID token and of a directory log-in |
| `Schema` | the metadata and every revision as changes of a set of facts, and the ways a database gets them |
| `SchemaInit` | the first connections of `db.engine` |
| `AuditChain`, `RateLimit`, `Feedback`, `Workbench`, `Backup`, `HttpShell` | the parts the names say |
| `PageOcr`, `Documents`, `Rules`, `Reports` | the stages of a document |
| `MCAccounts`, `MCPlatform`, `MCPipeline` | several components side by side, one of them in focus in each behaviour, and the values TLC gives to the constants |
| `SignInProofs`, `MembersProofs` | theorems about `Credentials`, `SignIn` and `Federated`, and about `Members` |
| `PlatformProofs` | theorems about `SchemaInit`, `HttpShell`, `Backup`, `Workbench`, `RateLimit`, `AuditChain` and `Feedback` |
| `PipelineProofs`, `ReadingProofs` | theorems about `Reports` and `PageOcr`, and about `Documents` and `Rules` |

A variable `focus` of these three modules names the component a behaviour
exercises; the others stay in an initial state. These components share no
variable, so nothing is lost by not interleaving them: a step of one never
enables or disables a step of another. The theorems are about the composed
`Spec`: for each component a lemma (`CredentialsComposed`, `OcrComposed`, ...)
says that the composition implements it, and the rest is about the component.

The inputs of the pure components (pages, files, texts, tokens, settings) are
constants too; the MC modules define the ones TLC tries (`MCPages`,
`MCIdTokens`, ...), the cfg assigns them, and the theorems do not depend on them.

`MCScanJobs` extends `ScanJobsInvariant`, which extends `ScanJobs`, so TLC
evaluates the assumption on the constants. `ScanJobs` instantiates
`JobLifecycle` under the refinement mapping `PhaseOf` / `ResultsOf`.

## How the models correspond to the code

### ScanJobs

*State.* `row` is the `scan_jobs` table (a row that does not exist has status
`ABSENT`), `runs` the ids in the `runs` table, `staging` and `uploads` the two
directory trees. An execution attempt is a *token*: `job_leases.claim` draws a
fresh uuid4 as lease, and `attempt_run_id` derives the run id from job and lease
by uuid5, so one token stands for the lease, the run it would publish and the
directory it writes. Freshness and injectivity of the uuids are assumed. `pc`
follows `process_job`/`create_run`, `sup` follows `supervise`, `stage` follows
the HTTP request that created the job. `ahead` is the `created_at` order.

*Transactions.* A single UPDATE is one step. The publication transaction is
two: `Fence` takes the row lock by the conditional UPDATE, `Commit` or
`Rollback` ends it; every other writer of the row waits (`Unlocked`). When the
client process dies in between, the database server either commits (COMMIT had
reached it) or rolls back: `LateCommit`, `LateRollback`, the only external
definitions. Claims are serialised in commit order.

*Time.* `fresh` says `updated_at` is within `JOB_STALE_SECONDS`; only
`requeue_stale_scan_jobs` reads it and only of RUNNING rows, so it is tracked
there. `Expire` may age any RUNNING row, an attended one too: the process may
be paused. Deadlines and heartbeats may happen in any order. Timeout and
unexpected exit end in the same row status and are one path.

*Deployment.* `production` runs each claim in a supervised child; `worker` calls
`process_job` in the worker itself; `inline` schedules it on the API's event
loop, which `stage_job` does not release between its two row writes, so an
inline claim never falls between them (one API process). Production rejects the
inline runner (`config.py`).

*Interactive scans* (`POST /api/runs`) create a RUNNING row without lease and
with an empty payload, outside production only, and write it through `jobs.update`, which is conditional
only on the row not being CANCELLED and sets `attempts` to 1. They are
`SyncStart`, `RejectSync` and the `leaseOf[t] = None` branches. `requeue_stale`
may reclaim such a row; its later attempt fails for lack of inputs.

*Left out.* Progress counters and messages, audit records, database errors
inside `supervise`, and the `start_scan_job` / `claim_next_scan_job` functions
that nothing calls.

### JobLifecycle

The promise to a caller: a job is opened, it settles as failed, cancelled or
completed; failed may be reopened by a retry, cancelled and completed are final
(completed may be deleted with its run); a result exists exactly when the job
completed and there is at most one. A job claimed before `stage_job`'s second
write is *disowned*: the contract promises nothing about it (see Findings).

### RunRecords

*State.* `row` is the `runs` table; of a row, the revision, the set of reviews,
the decision, the last metadata writer, the archived flag and the rescan link
are kept (`Record`), and revision 0 stands for a row that does not exist. A
review or a decision is named by the request that made it. `files` are the
upload directories. A request is one HTTP call on one run (`bulk_manage` is one
request per run id, which is how its loop commits); `step` says which of its
transactions it has done. `accepted`, `latest` and `stale` are history: they
record answers and overwrites, no guard reads them.

*Handlers.* A submission may start with the user's `View`, whose revision it
then carries, or without a revision. `Load` is `require_scoped`; permissions and
project scope are left out, they only refuse. `SaveReviewed` and `Conflict` are
`save_run` with `expected_revision`: the `UPDATE ... WHERE revision = ?` is
atomic, everything before it works on the copy. `SaveOver` is `save_run`
without it: an upsert of all columns, the revision of the copy included, used by
metadata, archive, restore and the rescan link. `DeleteRow`, `RemoveFiles` and
the four `Purge` actions are the two kinds of delete. A handler that raises
between two steps is a request that takes no further step, so no action is
needed for it; a `remove_tree` that raises is such a request.
`workspace_service.touch` has no caller and is left out.

### SecondFactor

*State.* One account, since no step of these handlers reads another's rows:
`row` is its `user_mfa` row (secret `None` for no row; the recovery codes are
the set of slots left), `flow` its MFA rows in `login_flows`, named by the
sign-in request that created them; expired, consumed and cleaned up are all
`closed`, which the code does not tell apart. `now` is the TOTP counter of the
present moment. Requests are as in `RunRecords`: one HTTP call, `step` says how
far it is, `snap` is the row it loaded, `code` what it submits. `issued`,
`accepted` and `sessions` are history, except that an enrolment draws a secret
that is not in `issued` (`totp.new_secret` takes 160 random bits).

*Handlers.* Every load and every write is a transaction and an action of its
own. `CheckCode` is the load and the comparison of `_accept_mfa_code` and
`confirm_mfa`, with the tolerance of one step either way and the replay check
against the *copy's* counter; `Consume` and `Overtaken` are the two results of
`consume_mfa_snapshot`, whose WHERE clause compares every column of the copy.
A verification consumes the code, then the flow, then issues the session, so a
code can be spent on a flow that is gone: the request is answered 401 and the
code stays spent. `EnrollSave` and `Disable` are the two unconditional writes.

*Left out.* Rate limits, the check that the user is active and a missing token
only refuse. Codes of different counters or secrets are taken to differ; a
collision of six digits is a matter of probability. The first factor of a
sign-in (password, OTP, OIDC) is settled when `LoginLoad` happens.

### Accounts

`Credentials` is one account. A request loads the row, checks what it was given
against that copy, and rehashes, inserts and commits in later transactions:
those are its actions. Issuing a reset link is two: the UPDATE that closes the
links it finds unused (`IssueReset`) and the insert with the commit
(`IssueResetCommit`), between which another issue may come on PostgreSQL; with
`serial`, SQLite, a transaction that has written keeps the others from writing
(`Free`). `issue` holds what an issue closes with its commit and, as history,
whether another one overlapped it. Sessions are named by the request that
issued them; `order` is `created_at`, by which the cap removes the oldest.
`epoch`, `lastSet`, `crowded` and `undone` are history: they record the
revocations, the last accepted password, overlapping insertions and a rehash
that wrote an older password back.

`Access` is `authz.py` and the `require(...)` of every route: who needs which
permission, and whether the route looks up the project of a run. `Members` adds
the rows; a request is admitted with the principal of that moment and carries
it on, so a demotion may overtake it. `update_member` is three actions, the
look at the list of members (`UpdateCheck`), the SELECT of the row
(`UpdateRead`) and the UPDATEs (`UpdateWrite`), which write what the payload
leaves out as it was read; `create_invitation` is three as well (`InviteCheck`,
`InviteIssue`, `InviteCommit`). `raised` and `restored` are history: whom an
owner has made administrator, and whose role an update that gave none has put
back. A user name is an account; the workspace it is created in is its own.

`SignIn` covers codes, provider redirects and directory log-ins up to the
session. Delivery may be reported after the resend that supersedes it;
`consume_limit` and `verify` are single conditional statements and so single
actions. The cooldown and the window end at any time.

`Federated` takes one input through `verify_id_token` or `authenticate`. The
signature check, the JSON of the provider and the LDAP bind are external: a
signature is valid exactly under the key that made it, a bind succeeds exactly
with the right password. Tokens, key sets, directory settings and log-ins are
constants.

### Platform

`Schema` writes a schema as a set of facts (table, column, type, index,
reference). Each revision is a function on such sets, and each statement of a
revision that commits on its own (SQLite, where DDL is not transactional in
this configuration) may be the last before an interruption. `UpgradeAtOnce` is
PostgreSQL, where all revisions run in one transaction. `SchemaInit` is `db.engine`:
the section under the lock is one step, everything outside it is its own.

`AuditChain` cuts an append where its timestamp is taken, where the last event
is read and where the row is inserted. The timestamp is any time: the code
takes the wall clock of the process that appends, which may be set back, and
the web process and the worker have one each. `mixed` and `behind` are history:
whether appends overlapped, and whether an event was inserted that does not
sort after the ones there were.

`RateLimit` is one bucket. `record` and `count` take their moment before they
open a transaction, so `Stamp` is a step of its own and any time may pass before
`Record` or `Check`; of a row, `at` is that moment and `on`, a history field,
the time it was counted. `serial` is where the recording transactions exclude
one another. There is one clock: that the processes which serve requests agree
on the time is assumed of the limiter, and not of the audit chain.

`Feedback` is the upsert, the deletion of a run with its labels, and a report
in two steps, since `accuracy_metrics` reads the labels first (`view`) and the
runs they mention in a second SELECT (`Found`); the metrics are operators of
the two. There are several runs, and a run without a label is in no figure.

`Workbench` are the handlers beside a run. An update of a remediation or a
project is a SELECT and a later UPDATE of whole rows, and another update may
come in between on either database: PostgreSQL does not lock the row for the
SELECT, and SQLite's driver begins a transaction only with the UPDATE.
`since`, history, names the updates that changed the row since a copy was
read. `Backup` runs beside writes and deletes of runs. `HttpShell` is one
request from its first byte to its answer, bodies counted in bytes.

### Document pipeline

`PageOcr` is a page of rows, each blank or with one line of a kind the gate
tells apart. An engine returns any part of what is in view, blank lines
included, or fails; the actions are the passes of `extract_pdf` (native text,
whole page, one strip at a time, decision, cloud attempts). The configuration
of the engines does not change while a page is read. A line carries the `row`
it really is on, the row at the `top` of the image it was read from, and the
row of that image its box is on (`at`): the code uses `at` as a place on the
page, for the blocks and for the mask, whatever image the line came from.

`Documents` gives the readers the nodes they look at: the lines of a text, the
paragraphs and cells of a body, the cells of sheets and the texts of slides, as
cells of rows of numbered parts. `reader` is where the loops are, with their
counters and the blocks of the page that is being read; `output` is the list of
pages. One step passes a node without text (`PassBlank`) or reads one with text
(`ReadParagraph`, `ReadTableCell`, `ReadBlock`), goes to the next row, opens or
closes a part, or ends the extraction (`Refuse`, `Finish`). The scan of a PDF
for active content is a loop of reads (`ScanChunk`), with the bytes it keeps
from one read to the next as state. A column label is the recursive function
`ColumnLabel`, one letter for each turn of the loop of `_column_label`.

`Rules` has texts of characters without case, 0 being white space, and a
pattern is the list of the texts it matches (`\s*` of a pattern stands for the
spellings that occur). `cursor` is where the three loops of
`extract_requirements` are: page, pattern, and the character `finditer` goes on
from. One step makes a requirement of the leftmost match behind it
(`FindMatch`), or goes to the next pattern or page. `at` and `turn` are the
loops that follow: `_deduplicate`, the join of the evidence and its compaction,
`match_evidence` with one requirement in each step. White space is removed and
unified by one recursive function (`Respaced`), and a title has the terms
`_terms_for` cuts from it.

`Reports` is a run and its reviews, and its exports. A PDF grows by one
requirement (`DrawBlock`) and an archive by one run (`AddReport`) in each
step, as the loops do, with the pen's place on the page and the names used so
far as state; names are a stem, a short id and a number.

These modules check algorithms against a statement of their purpose; they keep
the order of the code's passes.

## Runs

| Run | Instance | What it shows |
|---|---|---|
| `production` | 1 job, 3 attempts, limit 3 | `PublishOnce`, `RunHasFiles`, `InputsKept`, the inductive invariant `IInv`, `FencedPublication`, `TerminalIsFinal` and `LeaseHandover` of the supervised deployment. `IInv` contains or implies `CancelledUnpublished`, `CancelFlagAgrees`, `CompletedHasRun`, `PendingIsClaimable` and `NoOrphanUpload` |
| `worker` | 2 jobs, 2 attempts | the unsupervised worker implements `JobLifecycle`; two jobs exercise the claim order, and interactive scans take part |
| `inline` | 2 jobs, 3 attempts | the inline runner satisfies the unrestricted `PublishOnceAlways` and `LeaseHandoverAlways` across API restarts; deadlock is checked |
| `liveness` | 1 job, 3 attempts, limit 2, fair | every open job is eventually settled; the supervised queue implements `JobLifecycle` |
| `records` | 2 runs, 3 requests | what the compare-and-swap guarantees (`AcceptedKept`, `ViewIsCurrent`, `RevisionGrows`), and `RecordsInv`, which contains `FilesMatchRows` and `AuditTruthful` |
| `factor` | 1 account, 5 requests, 2 secrets, 1 recovery code, 2 moments | codes and login flows are one-time, counter and recovery codes never go back, and `FactorInv`, which contains `ConfirmedWasProved` |
| `accounts` | 3 requests; 2 passwords, 2 links, cap 1, 1 revocation, SQLite and PostgreSQL; 2 workspaces, 2 names, 2 invitations, 2 tokens; 2 codes, 1 attempt, 1 send | `CredentialsHold`, `CapRestored`, `RightsAreGranted`, `ProofsHold`, `SignInSteps`, `AcceptedIsProved` |
| `platform` | 2 interruptions; 3 threads; 3 appends, 3 times; 2 clients with 2 requests each, limit 3, window 2, clock up to 5; 2 reviewers, 3 detections in 2 runs, 3 labels; 2 handlers; 2 backups; bodies around a limit of 3 bytes | `UpgradeEnds`, `SchemaInv`, `ChainTells`, `LimitHeld`, `SoleReviewerCovers`, `WorkKept`, `RestoredWhole`, `RequestHeld` |
| `pipeline` | pages of 4 rows, files of up to 10 bytes, texts of two letters and white space, up to 3 requirements, archives of up to 3 runs | `ReadSafely`, `AcceptedIsInert`, `SourcesKept`, `FindingsStand`, `ReviewStands`, `ExportsStand` |
| `early_claim`, `stale_view`, `tile_boxes` | production; 1 run, 4 requests; the OCR part of `pipeline` | violations, see Findings |

Each property of the last three passing runs is a conjunction of named parts,
one for each thing that can go wrong (`CredentialsHold` is `RevokedForGood`,
`PasswordStands` and `LinkOnce`); each part is stated and explained in the
component's module.

*Bounds.* `Tokens` bounds the number of executions; three let a job be claimed,
reclaimed and claimed again up to the limit of three, so an attempt, its
successor and an orphan of the first can be alive together. Jobs interact only
through the claim order, which two jobs exercise. Symmetry over jobs and tokens
is sound for the safety runs: no definition distinguishes them; the liveness
run uses none. Deadlock is not checked where every job may be settled and all
tokens used.

Three requests on a run are two writers and a third that sees the outcome; the
two runs let a purge meet other requests at its second candidate. Only
`stale_view` needs four: two reviews, an overwriting save and the decision.
The records and factor runs do not check deadlock: requests are made once and
end. Five requests are what two verifications of one flow need (enrol,
confirm, sign in, verify twice); two secrets let an enrolment overtake another,
and two moments give four counters, one confirming and one for each
verification.

In `accounts`, two requests compete and the third overtakes one of them
between two of its transactions; two links and two invitations are
what overlapping issues need; a cap, an attempt limit and a send limit of
one are reached by the second request and passed, if they can be, by the
third. In `platform`, the interruptions fall between any two committed
statements of any revision, twice; three threads are an owner, a waiter and a
late comer after a failure, and three Events let the set-up fail twice; three
appends are two that overlap and one that finds the chain broken, and three
times let an event fall before, between and after the others. Four rate-limited
requests, a limit of three and a clock that outruns the window let two old hits
be pruned by a request that was stamped later, while an earlier one still waits
that should count them. Three labels cover a run of two detections and mention
a second run. In `pipeline` the constants of the code are scaled down together
with the inputs: a read of 4 bytes keeps 3, tokens have up to 4 bytes, and files of up to 10
bytes cross two reads; 3 letters make column labels of up to three places
within 14 columns; two strips overlap in one of four rows. A quote takes 2 characters on either
side of a match, a title has 3 and a term 2, so matches whose quotes agree,
matches that overlap and terms cut from a longer run of letters all occur. Pages of up to two
lines contain every pair of kinds. The ID tokens are an accepted one and all
that differ from it in up to two claims, so that each check is the only one
that refuses some token. These three runs do not check deadlock:
requests end and documents are finished.

*Fairness* (`Fairness`). The worker polls for ever (`worker.loop`), so stale
rows are requeued and claimable rows claimed; a transaction ends, the
database's own timeouts guarantee it; a live supervisor takes its next step,
which is a bounded wait (`asyncio.wait_for`) followed by an UPDATE; a row that
nobody refreshes grows old. Nothing is assumed of a scan, which may hang, nor
that any process survives.

## Findings

* `early_claim`: `stage_job` creates the row PENDING and then writes PENDING
  again in a second transaction whose only condition is that the row is not
  CANCELLED. A worker may claim in between; the second write then takes the job
  away from it and another replica claims it, against the comment in
  `queue.py`. The fence still prevents the first attempt from publishing after
  the handover, but a job that had already *completed* is reopened and runs
  again, and at the attempt limit the row is PENDING for ever. `early` records
  such jobs; the properties it breaks are stated for the others.
* `stale_view`: metadata, archive, restore and rescan save the whole copy they
  loaded, revision included, without looking at the row. The revision falls, the
  next review reaches a number that was handed out before, for another content,
  and a decision that carries it is accepted: the compare-and-swap is defeated
  (ABA).
* `tile_boxes`: a page that is read again in strips collects the lines of each
  strip with boxes in the strip's own pixels; they are published as boxes on the
  page, so a highlighted quote of a lower strip is in the wrong place. The
  same boxes tell the redaction before a cloud call where to black out
  (`extraction.py:185`): a line of a lower strip that looks like PII is masked
  elsewhere and leaves the process readable, against the docstring of
  `redact_png_bytes` and the promise of `ocr_privacy.py` that only scrubbed
  tiles leave; the residual check passes, because the line has a box.

What the models show beside these, each stated as the exception of a property of
a passing run rather than in a run of its own; where a comment or text of the
repository is contradicted, the item says so:

* a save without revision that loaded before a review or decision was accepted
  loses it, and one that loaded before a delete inserts the row again;
* a child that ends without a result on the last permitted attempt leaves the
  job FAILED "可重试", but retry refuses a job at the limit;
* an enrolment that looked before a confirmation replaces the confirmed second
  factor by an unconfirmed one;
* a login under way across a reset or a deactivation still ends in a session,
  and its rehash may write the old password back (`undone`);
* overlapping audit appends, and events whose timestamp, or within one instant
  whose random id, sorts before an earlier one, make the verifier report a break
  (`mixed`, `behind`): a clock set back, or one that differs between the web
  process and the worker, is enough;
* an update of a member that names only the active flag writes the role back as
  it was read, so a demotion in between is undone (`restored`), and the other
  way round; updates of remediations and projects lose fields in the same way,
  on SQLite too (`since`);
* a rate-limited request that waits between its stamp and its transaction until
  its window is over may pass beyond the limit, on either database, since one
  stamped later has pruned what it should have counted (`LateOnce`);
* two overlapping issues of a reset link, or of an invitation, leave both open
  on PostgreSQL, although the comment in `create_auth_action_token` says that a
  new link invalidates any outstanding one; `LinkOnce` says that only then are
  two open (`crossed`). The same UPDATE finds the invitations to close by name
  alone (`Superseded`), so one issued in a workspace closes the outstanding
  invitation of the same name in another;
* `accuracy_metrics` counts the detections of those runs only that some label
  mentions, so a workspace with one run labelled completely and another not at
  all is MEASURABLE, although the text beside the figures says that detections
  not covered keep it INSUFFICIENT;
* a run deleted between the two SELECTs of an accuracy report leaves its labels
  in the figures without its detections (`gone`);
* a failed schema set-up does not wake its waiters, which return the engine
  after 60 seconds without a schema;
* an upgrade interrupted in the baseline revision on SQLite leaves a database
  that later upgrades fail on (`FailsOnTornBaseline` says: this one and no
  other);
* two bootstrap requests found two workspaces; overlapping logins exceed the
  session cap until the next one; `enforce(consume=True)` refuses the hit that
  reaches the limit, so one less than the limit passes.

The properties name these cases as their exceptions, so what they show is that
nothing else breaks them.

`stale` records the runs such a save took back; the properties of the records
are stated for all the others, which shows that these saves are the only way to
break them.

## Proofs

Every theorem is about all values of the constants that satisfy the named
assumptions. The proof of an invariant has one lemma per action or group of
actions (`...Keeps`, `...Step`), a lemma that puts them together, and one that
derives the property; an action property follows from the invariant and one
look at each action.

### What is assumed

| Assumption | Says | Why the code justifies it |
|---|---|---|
| `ConstantsAssumption` | the limit of attempts is positive, `None` is no job or attempt | `MAX_JOB_ATTEMPTS` is 5; `NULL` is no uuid |
| `RecordsAssumption`, `FactorAssumption` | `None` is no run, request or secret; the clock is bounded by a number | `NULL` is no id |
| `AccountsAssumption` | limits are numbers, times integers; `None` is no account or address; codes and flows, addresses and provider subjects are different things | separate tables; a subject is an address or a (provider, subject) pair |
| `MembersAssumption` | `None` is no role, name, principal, workspace, invitation or token | `NULL` |
| `FederatedAssumption` | times in an ID token are numbers, its audience is finite | PyJWT refuses other times; the audience is a JSON list |
| `PlatformAssumption` | `None` is no value of a column; sizes are numbers | `NULL` |
| `AuditAssumption` | finitely many writers, with ordered ids | event ids are compared as strings when two events have the same time; of the clocks nothing is assumed |
| `FeedbackAssumption` | finitely many detections | the requirements of the stored runs |
| `LimitAssumption` | there is a client, limit and window are positive, and no window is longer than the age at which rows are cleaned up | the default windows are at most 15 minutes, the clean-up's age is an hour; an operator who sets a longer window leaves the assumption |
| `PipelineAssumption` | a page has its rows; a token fits into the bytes kept and one more; the parts of a document are numbered from 1, its rows and cells are sequences, a text is one row of one part; no text of a pattern is blank, and one that begins inside another match of the pattern ends within `Radius` of that match's end (`RulesFit`); terms are texts; reviews, selections and evaluations have their shapes | a scan keeps 32 bytes, the longest token of `PDF_ACTIVE_TOKENS` has 13; a quote takes 110 characters, the alternatives of `REQUIREMENT_PATTERNS` that can begin inside another match have at most 9 |

The last clause of `LimitAssumption` and, in `PipelineAssumption`, the token's
length and the pattern's `Radius` are where a change of a constant in the code would break a
proof: with a window longer than an hour the limiter forgets hits that still
count, with a token longer than what is kept the scan can miss one, and with an
alternative that reaches further than a quote, a text that was skipped because
it overlaps a match would be quoted nowhere.

### Scan jobs (`ScanJobsProofs`)

| Theorem | States |
|---|---|
| `Invariance` | `Spec => []IInv` |
| `TypeCorrect`, `AtMostOneRun`, `CancellationHolds`, `CancelEncodingsAgree`, `FilesOfRuns`, `RunsOfCompleted`, `InputsSurvive`, `SupervisorCleansUp`, `PendingCanRun` | `[]` of `TypeOK`, `PublishOnce`, `CancelledUnpublished`, `CancelFlagAgrees`, `RunHasFiles`, `CompletedHasRun`, `InputsKept`, `NoOrphanUpload`, `PendingIsClaimable` |
| `PublicationIsFenced`, `LeaseIsHandedOver`, `TerminalStays` | `FencedPublication`, `LeaseHandover`, `TerminalIsFinal` |
| `InlinePublishesOnce`, `InlineLeaseIsHandedOver` | in the inline deployment, `[]PublishOnceAlways` and `LeaseHandoverAlways`, without the exception for early claims |
| `QueueImplementsContract` | `Spec => ImplementsLifecycle` |

*The argument.* None of the properties is inductive. `IInv` adds: a token that
was never drawn appears nowhere (`FreshTokens`); an attempt's lease is its own
token and its job exists in the sense its program counter says
(`AttemptOwner`); an open transaction belongs to the row's current owner and is
the only one on that row (`OpenTransactions`), which is what orders publication
against cancel, requeue and the supervisor's barrier UPDATE; where an attempt
is determines its directory and whether it has published (`AttemptProgress`);
what has been published is linked to a COMPLETED row or deleted
(`PublishedRuns`); an interactive job is written only by its own attempt until
it is reclaimed (`InteractiveJobs`, without which its unguarded FAILED write
could overwrite COMPLETED); and how far staging is determines the row
(`StagedRows`). The step proof has one lemma per action group and one case per
action.

The inline theorems need one more invariant: no job is ever in `early`, since a
claim never falls between the two writes of `stage_job`. `LeaseHandover` rests
on `StagedRows`, because the claim's WHERE clause does not ask for a NULL
lease. The refinement goes action by action: each changes the phase and the
results of at most the jobs it writes, and `IInv` and `IInv'` say from which
phase to which. A requeue may move many jobs in one step, which is why the
contract lets several jobs move together.

### Run records (`RunRecordsProofs`)

| Theorem | States |
|---|---|
| `RecordsInvariance` | `Spec => []RecordsInv` |
| `AcceptedAreKept`, `FilesAgree`, `AuditIsTruthful` | `[]` of `AcceptedKept`, `FilesMatchRows`, `AuditTruthful` |
| `ViewsAreCurrent`, `RevisionsGrow` | `ViewIsCurrent`, `RevisionGrows` |

*The argument.* A copy is never newer than the row, and a copy of the same
revision agrees with it on reviews and decision (`CopiesNotNewer`); a handler
loads its copy after the view whose revision it carries (`ViewBeforeCopy`). So
when the UPDATE finds the expected revision, view, copy and row agree
(`CopyIsCurrent`), and adding one review to the copy adds it to the row.
`OnlyBorn` and `RequestProgress` say what a request may have touched.

### Second factor (`SecondFactorProofs`)

| Theorem | States |
|---|---|
| `FactorInvariance` | `Spec => []FactorInv` |
| `CodesAreOneTime`, `ConfirmedByCode`, `FlowsAreOneTime` | `[]` of `CodeUsedOnce`, `ConfirmedWasProved`, `OneSessionPerFlow` |
| `FactorNeverSlips` | `FactorOnlyAdvances` |

*The argument.* The row remembers every accepted code of its secret: a counter
at or above the code's, or a recovery code struck off (`AcceptedSpent`). A
checked code was unspent in the copy (`CheckedFits`), and consuming it requires
the row to equal the copy, so it was not accepted before, and the counter that
is written is above the one that is there. Secrets are never drawn twice
(`RowIssued`), so replacing the row does not give a code back. A request that
consumed its flow found it open and left it closed, so no other request did
(`FlowsSpent`).

### Accounts (`SignInProofs`, `MembersProofs`)

| Theorem | States |
|---|---|
| `CredentialsSafe`, `CapIsRestored` | `[]CredentialsHold`, `CapRestored` |
| `ProofsAreSafe`, `SignInStepsAreSafe` | `[]ProofsHold`, `SignInSteps` |
| `AcceptedIsSafe` | `[]AcceptedIsProved` |
| `RightsAreSafe` | `[]RightsAreGranted` |

*Credentials* (`CredentialsInv`). That a password is not undone needs to know
that a handler which still may rehash holds the password it compared
(`RehashesCompared`). A link works once because whoever got past the consuming
UPDATE left the link used (`LinksSpentOnce`). Of two links that are being issued
or open, one is closed by the other's issue unless the two overlapped
(`IssuesCross`), and with SQLite's serial writers none do. For the cap, the sessions are
among the insertions (`OrderIsHistory`), and a sign-in that overlaps no other
deletes every session that has `Cap` newer ones, which leaves `Cap`
(`CutSuffices`, by the counting lemma `CapKept`); two insertions that overlap are both
`crowded`.

*SignIn* (`SignInInv`). An open code is the newest of its address
(`OpenIsNewest`), even though a delivery is reported late; what proved a subject
is closed from then on (`ProofsSpent`), so nobody else can use it; the counters
of the rows bound what was compared and sent (`CountersAgree`); and a handler
that looked up or signed up an account holds the one its subject is bound to
(`HandlersFit`), since bindings are inserted and never updated.

*Federated* needs no induction: a decision is made in one step, and the two
lemmas `VerifiedIsOurs` and `BoundIsProved` say what the checks together imply
for any token, key set, settings and log-in. The part that depends on their
interplay is the audience: PyJWT only asks that we are in it, and
`validate_claims` asks for the authorised party exactly where there are others.

*Members* (`MembersInv`). The permissions of the roles form a chain
(`RolesNested`), so a weaker role stays weaker in every use (`FewerIsWeaker`).
A request carries the principal of an earlier moment; `PrincipalsFit` says that
it is still within the token that was shown, `HandlersFit` what its checks
have established, `RowsFit` that an invitation to administer was written by an
owner and that a token's creator token exists, `CopiesFit` that an
administrator in the copy of an update was made one by an owner: an update that
gives no role may put an older role back, but never one no owner gave. `InvitesFit` and `OneActivation`
give `InviteOnce`: the invitation is used up before the account is made.

### Platform (`PlatformProofs`)

| Theorem | States |
|---|---|
| `SchemaIsSafe`, `OneCreatorAtATime`, `WokenHaveSchema` | `[]` of `SchemaInv`, `OneCreator`, `WokenHasSchema` |
| `RequestsAreHeld` | `[]RequestHeld` |
| `RestoreIsWhole` | `[]RestoredWhole` |
| `WorkIsKept` | `WorkKept` |
| `LimitIsHeld` | `[]LimitHeld` |
| `ChainIsTelling` | `[]ChainTells` |
| `CoverageIsTrue` | `[]SoleReviewerCovers` |

*SchemaInit* (`SchemaInv`). A caller becomes the owner when there is no entry,
so whoever is creating holds the entry (`OwnerHoldsEntry`). That an engine is
handed out only with a schema needs that every signal, the ready set, a fired
Event and the owner's later steps, follows the schema (`SignalsFollowSchema`).

*HttpShell* (`ShellInv`). The counter of `replay()` is the number of bytes given
out, with 1 standing for an empty body already replayed, and nobody reads
before the handler (`ReplayAgrees`).

*Backup* (`BackupInv`). While a backup is made, a run of its copy that was not
deleted since still has its row and original, and what was listed is archived
or still to come; a backup that verifies has it (`BackupsHold`). A restore
reads a backup that verifies and no backup is made meanwhile (`RestoreHolds`).
The database is copied before the uploads are listed; in the other order
`BackupsHold` is not kept.

*Workbench* (`WorkbenchInv`). A copy that no update of another request has
overtaken is the row (`CopiesFit`). So a field that was not sent is written as
it is, unless an update came between the read and the write.

*RateLimit* (`LimitInv`). What was let through in the last window is still in
flight or has a row that is at least as recent, however others pruned
(`AdmittedFit`): a row is deleted only by a stamp it is older than by a window,
and no stamp is later than the clock. When one more is let through within the
window it was stamped in, the hits that were counted are below the limit, and
of the others each client has at most one in flight: the sum is the allowance
(`OneMore`, `Crowd`). `RoomHeld` counts, in every window, also those whose
uncommitted count will let them through; with serial transactions there is only
one of these. A client stamps its next request after its last one was counted
(`OneByOne`), so it has at most one late request in a window.

*AuditChain* (`ChainInv`). Appends in turn read the last event of the order the
verifier walks (`InTurn`), so each event that sorts last is linked to the one
before it; once an event has sorted before one that was there, some event links
to one behind it, which no later append mends and no verification passes
(`BrokenIsFound`). That a change is found holds on every chain that verifies, in
turn or not: a hash fixes the previous hash and the event (`HashTells`), a
rewritten event no longer has the hash its place calls for
(`RewritingIsFound`), and the event after a removed one has another predecessor
(`RemovalIsFound`). Rewritten means type or outcome: payload, user and run are
not part of the hash (`db.py:591`), and a change of these is not found. Hashes
are modelled as terms, that is, without collisions.

*Feedback* (`FeedbackInv`). There is one label per key, every label was
accepted, and the labels a report has read are of runs that exist or were
deleted since. If one reviewer labels each detection under its category and no
run with labels was deleted since, labels of detections map one to one to the
detections of the labelled runs (`LabelledCount`), so equal counts mean that all
of these are labelled (`CoverageIsComplete`).

### Document pipeline (`PipelineProofs`, `ReadingProofs`)

| Theorem | States |
|---|---|
| `ReviewIsSound`, `ExportsAreSound` | `[]` of `ReviewStands`, `ExportsStand` |
| `AcceptedPdfIsInert` | `[]AcceptedIsInert` |
| `SourcesAreKept` | `[]SourcesKept` |
| `FindingsAreKept` | `[]FindingsStand` |
| `ReadingIsSafe` | `ReadSafely` |

*Reports* (`ReportsInv`). The stored counts are those of the requirements, so
the three views that count by their own rules agree. The pen is below every
box of its page (`RoomBelow`), and a block is only drawn where it ends above
the footer. The number that makes a name unique exists by the pigeonhole
principle, as there are fewer names than numbers tried (`FreshIsFree`), and a
run asked for twice is skipped.

*Documents* (`ScanInv`). What is kept from one read to the next is the end of
what was read, so the window of a read is a stretch of the file
(`WindowIsStretch`), and a token that ends in this read begins in the window
(`TokenInWindow`): none ends in what has been passed (`InertUpTo`).

`ReadInv` is about the readers. The texts on the pages, with the page that is
being read as the last of them (`SoFar`), are those of the nodes the reader is
past (`Seen`), each once and in their order (`FoundIn`); every step either adds
one node to both or adds none with text (`Adds`, `Same`). On a slide, a second
row is looked at only while the first has given nothing (`NothingYet`). That no
two texts have one locator needs to know what a locator tells: in a text, a
book or a deck it is the place on the page or the coordinate of the node
(`NamedByPlace`), and in a Word document a count, which grows with every
paragraph and belongs to one table (`NamedByCount`). At the end every node has
been seen, and the coordinates of a sheet differ, as two columns with the same
label would be the same column. For that a label must be readable: `ColumnLabel`
and `Number` are recursive functions, and what each of them returns
(`ColumnLabelIs`, `NumberIs`) follows from one lemma on recursion over a size
that shrinks (`RecursionDefines`), proved here from the well-foundedness of the
numbers; `NumberOfLabel` takes the least column whose label is not read back.

*Rules* (`RulesInv`). Every text of a pattern that begins before the cursor is
quoted by an item found under the pattern's label (`PastIsListed`). A match
adds its own text and those it makes `finditer` skip: two texts that overlap on
a page agree where they overlap, so `RulesFit` bounds how far the second
reaches (`OverlapEnds`), and the quote goes that far (`SnippetIs`). What is
found in a stretch of a text is found in it without white space too
(`HasCompact`), because removing white space distributes over concatenation
(`CompactJoined`): these facts about a recursive function hold of the empty
text and of a text with one more character, hence of every text (`NoneBad`,
from the least length at which one could fail). `_deduplicate` keeps one
requirement for each key among the items it has passed (`KeysKept`), and
requirements with one key have the same label, page and quote (`KeyLists`), so
what the items list the requirements list. A page that mentions a term has it
in the joined text as well (`PagesJoined`, `MentionIsJoined`), so the test on
the whole never hides a page; the converse fails, which is why
`match_evidence` looks for a page again (`MatchedIs`).

*PageOcr* (`OcrInv`). Where a page is decides what there is of its result
(`PageProgress`): a text that is handed on from one pass to the next is not
blank and was cleared before the cloud is asked. Two lemmas describe every
engine at once: which adapters a configuration makes (`PageAdapterMade`,
`LocalStaysLocal`) and what an adapter may answer (`PagesAnswer`). An image
with a line to be masked that cannot be located does not leave, and a box of an
image that begins at the top of the page is the line's place on the page
(`LineT`), so the redacted image does not show the line (`RedactedIsScrubbed`).
Of a line read from a lower strip the theorem says only that it has a box: that
its row is blacked out does not hold, for the reason `tile_boxes` shows.

### Only model-checked

* Liveness: `EventuallySettled`, with the fairness it needs, is out of the
  prover's reach.
* `UpgradeEnds`: a statement about the concrete tables of eight revisions and
  folds over lists of migrations. It has no parameter but the number of
  interruptions; TLC computes all of it.
* The findings, which are counterexamples.

## What is not modelled

* Recognition, XML and PDF parsing, signatures, hashing and LDAP: external, or
  taken by what the code relies on.
* Health, observability, licence, encryption and configuration: counters, log
  lines and environment variables, no state several steps share.
* `workflow.py` checks a JSON file about the development of the product;
  `state.py` fills fields that are written with the run.
* The evaluation scripts under `src/work/eval` and `src/scripts` collect and
  score data offline; their results depend on data. The aggregation the
  application reads is in `Reports`.
* Front end, landing page and deployment files: view state and configuration.
* Replacing the members of a project (one transaction over one table), and the
  notification and inbox views, which only read.

The hazards, each at its line with the properties that would catch it, are
listed in `PROJECT.json`.

# Content Relay in TLA+

A verification project for the two programs of this repository that keep state: the
workflow core of Content Relay (Sighthound content ops), in TypeScript and SQL, and the
Deft framework it carries (`deft/`), whose Python scripts keep a project's scope backlog,
triage decisions, releases, installation and issue cache. TLA+ modules translated from
the source, TLC configurations that check them on small instances, and TLAPS proofs of
the main properties for every value of the constants.

Paths below are relative to the repository root.

## 1. The system

Content Relay is a Next.js application over a Supabase (Postgres) database. Nothing
of the workflow lives in one process: a rule may be enforced by an API route
(a serverless function using the service role), by a row-level-security policy, by
a trigger, or by several of them, and browsers write some tables directly. The
state is in Postgres; every operation is one or more transactions on it.

Deft has no server at all. Its state is files of a working tree, a git repository and a
GitHub project; its operations are commands (`task scope:promote`, `task triage:accept`,
`task release`, ...), each a short-lived Python process. Several agents and people run
them at once on the same tree.

| Component | State | Operations | Interacts with |
| --- | --- | --- | --- |
| Social post workflow (`src/lib/social-post-workflow.ts`, `src/app/api/social-posts/**`, `supabase/migrations/20260908*`, `20260321*`) | `social_posts`, `social_post_links`, `social_post_activity_history` | create, transition, edit brief, reassign, reopen brief, delete, write a live link | accounts (who is active or admin), notification sweeps (they update the row), editor pages |
| Notification sweeps (`social-posts/reminders`, `social-posts/overdue-checks`, `blogs/overdue-checks`) | three `last_..._at` columns of a post, one of a blog | read due rows, claim a slot, notify | the workflow, through `updated_at`; event and Slack delivery |
| Accounts (`api/admin/users`, `api/admin/users/inactive`, `api/admin/reassign-assignments`, `api/users/profile`) | `profiles`, the auth users | activate, deactivate, reassign, purge | every table that refers to a profile, through foreign keys and triggers |
| Social editor and board (`src/app/social-posts/**`) | a form in the browser | autosave, save links, assign, call the routes | the workflow |
| Blog workflow (`api/blogs/**`, `src/lib/workflow-rules.ts`, `src/lib/permissions.ts`, blog triggers) | `blogs`, assignment history | writer and publisher status machines, assignment, dates, archive | review tasks, accounts, sweeps |
| Review tasks (`20260318200000_create_task_assignments.sql`) | `task_assignments` | created and reassigned by triggers | blog workflow, accounts |
| Task classification (`src/lib/task-logic.ts`, `src/lib/task-action-state.ts`) | none | pure functions | both workflows |
| Ideas, comments, imports; notifications and Slack; Ask AI, MCP, search, exports | rows of their own, or none | inserts and reads | - |
| Deft scope backlog (`deft/scripts/scope_lifecycle.py`, `scope_demote.py`, `scope_undo.py`, `swarm_complete_cohort.py`, `_project_definition_sync.py`) | the vBRIEF files in the lifecycle folders of `vbrief/`, `PROJECT-DEFINITION`, the lifecycle audit log | nine verbs that move a scope, demote, undo, the sweep of a finished cohort | the files of relatives, which link each other by folder |
| Deft triage (`triage_actions.py`, `triage_bulk.py`, `candidates_log.py`, `issue_ingest.py`) | the decision log `candidates.jsonl` with its lock file, briefs, issues on GitHub | accept, reject, mark duplicate, defer, needs-ac, reset; single and in bulk | GitHub, the scope backlog (a brief appears in `proposed/`) |
| Deft release (`release.py`, `release_publish.py`, `release_rollback.py`, `.github/workflows/release.yml`) | base branch and tags in the clone and on origin, the GitHub release, the changelog | cut, publish, roll back | origin, GitHub and its workflow, those who download |
| Deft relocator (`relocate.py`, `_relocate_snapshot.py`, `_relocate_states.py`) | the framework directories, `AGENTS.md`, `.gitignore`, the snapshots | relocate, roll back | the user's edits and swarms |
| Deft content cache (`cache.py`, `_cache_quota.py`, `_cache_fetch.py`, `_cache_refresh.py`) | an entry of three files per issue | put, get, fetch all, refresh closed, prune, invalidate | GitHub, the readers of the cache |
| Other Deft scripts: queue, policy, doctor, migration, bootstrap, decompose, worktrees, telemetry, validators | files they rewrite alone, or none | read, check, render | - |

What is hard about it:

- *Check, then act.* The routes read a row, decide in TypeScript and write in a later
  statement. The transition route protects itself with a version (`updated_at`) that
  its RPC compares under the row lock; DELETE does not; the reopening RPC compares
  neither version nor account again; the sweeps use a conditional update.
- *Two tables, one rule.* A published post must have a valid live link, and links are
  written by other users in other transactions. Both sides take the lock of the
  parent row before they look at the other table.
- *Rules stated twice.* The route and the triggers each encode the graph, the owners
  and the required fields, and do not agree on what a URL is or when a caption is blank.
- *Writers that do not know the workflow.* Autosave, reassignment, the sweeps and the
  foreign keys that react to a deleted profile all update a post, and all pass through
  its triggers.
- *Failure.* A serverless function may die between any two statements; a purge walks
  over several tables without a transaction.
- *Files shared by processes.* Deft's commands read a file, decide, and write it later.
  `PROJECT-DEFINITION`, the audit log and the decision log have locks; scopes, their
  links and the cache have none, and the lock of the decision log is a file that its
  holders delete.
- *Steps that are not undone.* Every Deft command is a chain of writes to files, git and
  GitHub; it may be killed between two of them, and a remote call may take effect and be
  reported as failed. What is left behind is what the next command finds.
- *Undoing.* A rollback of a decision, of a release, of a relocation and the undo of a
  demote are commands themselves, and race with the ones they undo.

What makes each part correct, in short: the social workflow publishes only what was
approved, with proof, by the people responsible, and leaves no post without an owner
or a status without an explanation; the sweeps do not notify twice; accounts can be
removed without breaking either; the blog workflow keeps writer and publisher in
order; tasks exist exactly for work that is pending. A scope of Deft is in one folder and
the links to it say which; a decision in the log has been carried out and stays; a release
is there completely or withdrawn completely, and what consumers took stays; the relocator
leaves the new layout or the old one and keeps what it wiped; an entry of the cache is one
version of its issue.

## 2. Modules

| Module | What it is |
| --- | --- |
| `SocialStages` | statuses, moves, stage owners and required fields, from the TypeScript and from the SQL |
| `SocialPost` | one post, its links, its history, the accounts and the requests in flight |
| `EditorialContract` | what the workflow promises of a post, without users, requests or triggers |
| `SocialPostProofs` | the inductive invariant of `SocialPost` and the theorems |
| `NotificationSlots` | the reminder and overdue sweeps, with time |
| `NotificationSlotsProofs` | their invariant and theorems |
| `BlogWorkflow` | one blog with its two lanes, those who write it, and the review tasks its triggers hand out |
| `BlogDesk` | what the pipeline promises of a blog, without requests, versions, triggers or transactions |
| `BlogWorkflowProofs` | the inductive invariant of `BlogWorkflow` and the theorems |
| `DeftScopes`, `DeftTriage`, `DeftRelease`, `DeftRelocate`, `DeftCache` | the five parts of Deft that keep state |
| `DeftScopesProofs`, `DeftTriageProofs`, `DeftReleaseProofs`, `DeftRelocateProofs`, `DeftCacheProofs` | their invariants and theorems |
| `MCSocialPost`, `MCNotificationSlots`, `MCBlogWorkflow` | symmetry and an action constraint for TLC |
| `MCDeft` | a session with one of the five parts of Deft, for TLC |

`SocialPost` EXTENDS `SocialStages` and instantiates `EditorialContract` under the
mapping at its end. `NotificationSlots` stands alone: the workflow appears in it as
`Work`, and the claim appears in `SocialPost` as `ClaimNotification`. `BlogWorkflow`
shares accounts only with the posts; it instantiates `BlogDesk`, whose rules of the lanes
are parameters, with its own. The five parts of Deft share no
file that one writes and another decides on (an accepted issue's brief is a new scope,
which is where `DeftScopes` begins), so each has a module of its own and `MCDeft` lets a
behaviour be a session with one of them.

### SocialPost

The variables are the committed row (`post`), the committed links per platform
(`links`), the accounts, the latest status entry of the activity history (`audit`),
the requests in flight (`sess`), and one history variable, `handedOff`, the brief with
which the post entered execution.

**Where a transaction is split.** A statement that only looks at the row it has locked
is one step; it is taken when nobody holds the lock (`~Locked`). A transaction that
reads a second table is two steps, with the lock held between them: the transition RPC
(`ApplyBegin` locks the row, compares the version and runs the checks of the triggers,
among them the link lookup; `ApplyCommit` writes) and a link write (`LinkBegin` locks
the parent in the BEFORE trigger and makes the check of the AFTER trigger;
`LinkCommit` writes). Between routes and RPCs the request is in `sess` and anything may
happen.

**Triggers.** `TriggersAccept` is the conjunction of what the BEFORE UPDATE triggers
demand, one operator per rule, and `Store` is what an accepted update leaves: derived
owner, new version, history entry. `by` carries what the triggers ask of the session:
the service role or a user's token, and the transaction-local settings. All writers go
through the two.

**Operations.** `Create`; `TransitionFetch`, `TransitionReadLinks`, `ApplyBegin`,
`ApplyRefused`, `ApplyCommit` (the route and its RPC); `ReopenRequest`, `ReopenApply`,
`ReopenRefused`; `DeleteRequest`, `DeleteApply`; `LinkBegin`, `LinkCommit`;
`SaveBrief`, `Reassign` (the statements of the two pages); `DirectTransition` (a status
written with a user's token: no page does it, the policies let it through and the
triggers are written to judge it); `ClaimNotification`; `SetActive`, `PurgeProfile`;
`RequestLost`. A request that is refused before it changes anything is not a step.

**Abstractions.**

- A brief is an opaque value, and so is the URL of a stored link. The two statements of
  the required fields are two pairs of sets: `RouteReady` and `RouteComplete` for the
  TypeScript (`transition/route.ts:45,249` take what `z.string().url()` takes, for one),
  `ReviewReady` and `Complete` for the SQL (`20260908140000:61-73`), with `Storable` for the
  checks of the table (`20260313143000:38`). The links the route counts as live
  (`RouteUrls`, `new URL` in `social-post-workflow.ts:156`) and those the database does
  (`ValidUrls`, a regular expression) are two sets as well. Nothing is assumed of how the two
  sides relate; the instances have briefs and links that only the route takes.
  `PreflightSuffices` says that for the briefs on which the database is no stricter
  (`JudgedAlike`) and with a link that the database counts, a request that passed the route
  is refused only because something has changed since. For the others the route lets
  through what the database refuses, and the caller sees an error 500 in place of a message
  about the field; the model has these requests (`ApplyRefused`).
- `updated_at` is the start time of the writing transaction, compared for equality
  only. It is an opaque version; two transactions do not share one.
  `TimeAssumption` gives enough of them that a write always finds a fresh one.
- A reason is recorded when one is demanded; others change nothing.
- The row is reused: a new post starts when no request refers to the old one, and
  always with the same author. A client could also insert a row past the API, at
  another status; no code does, and rows enter only through the route.
- Roles do not change in a run (`Admins`); accounts do. Row-level security does not
  ask whether author, worker or reviewer is active, and neither does `MayWrite`. The
  policies for links let every user with a token write them, and so does `LinkBegin`.
- A purge deletes the auth user and then the profile; deleting the auth user of a
  worker or reviewer fails in the triggers (there is no service role in that
  connection) and the route falls back to a soft deletion followed by a deletion of
  the profile with the service role. `PurgeProfile` is that last statement with the
  actions of the foreign keys. Links go with the user who added them: which ones is a
  choice, as the model does not keep their authors.

**Fault operators.** A definition named `Fault_...` is not part of the specification: it
is a plausible slip in the definition that follows it. Replacing the definition by it
breaks the property named in `PROJECT.json`.

### NotificationSlots

One post with its status (the three that have sweeps, or `elsewhere`), `updated_at`,
the three slots, and a clock. A sweep takes `now` once (`Start`), reads what is due
(`Read`, once for reminders, twice for overdue checks), and for each due slot claims
(`Claim`, an update conditional on status and slot as read) and notifies (`Notify`);
it may `Skip` or `Die`. A claim writes `now` into the slot, but the trigger writes the
current time into `updated_at`. `Tick` does not let a request outlive `MaxRun`, the
platform's limit on a function, assumed shorter than the cooldown (minutes against a
day). `claimedAt` is a history variable. Clocks of the function and the database are
taken as one; the scheduled date of a publication is a choice in `Read`.

### BlogWorkflow

The variables are the committed row (`blog`: both assignees, both statuses, whether
`actual_published_at` is set, and `updated_at`), the transition requests in flight
(`req`: caller, row read, columns to write), one statement that has run and not
committed (`txn`), `profiles.is_active` (`active`), the review tasks (`task`), and two
history variables: `author`, who made the latest write (`NoUser` for a service), and
`steady`, the admins who were never deactivated.

**Who writes.** `TransitionRead` is the route up to its update: what it refuses is not
a step, what it accepts is kept with the row it was decided on, including the automatic
start of publishing (`Jogged`). `TransitionWrite` is the conditional update under the
service role; `TransitionFail` covers the answer 409, an error of the statement and a
lost request. `ClientWrite` is any update a browser sends with the user's token
(dashboard, bulk changes, card board, calendar, and each row moved by the reassignment
route). The pages check before they send, but on the row they show, which may be old:
their checks are left out and only the triggers judge. The older policy "Blogs updatable
by ops roles" is still in force beside the newer one, so every role may send one.
`ServiceTouch` is a write of other columns (the overdue sweep, the dates of an import);
`ImportKnown` is the import of a blog that exists, which names its people and its time of
publication whatever its stages are.

**Triggers.** `Stamped`, `UpdatePermitted` and `Consistent` are the BEFORE triggers in
their order; the permission trigger lets the service role pass, so it is a conjunct of
`ClientWrite` only. `HandedOut` is the AFTER trigger. It reads `profiles`, which the
statement does not lock, and it inserts rows that others do not see before it commits:
a statement that enters a review runs in one step (`Update` fills `txn`) and commits in
another (`CommitUpdate`, or `AbortUpdate`), with the row lock held between them.
`Deactivate` and its trigger may fall in between and see committed tasks only. Any
other statement is one step.

**What it promises.** `BlogDesk` is the blog as a desk that one person uses at a time:
whoever changes it sees it as it is, and the people named, the moves of both lanes and the
handoff are one change that this one person may make; publishing is stamped when it
completes; clerks (imports, sweeps) name people and correct the stamp but move no lane; and
what is left is sound. `ActsAsDesk` is the refinement, with the committed row as the desk.
It says that the optimistic transition (read, decide, write under the service role, which
no permission trigger judges) and the statement that waits to commit might as well be
atomic. Without the version check, for one, a stale request puts a name back that its caller
may not give. `StagesFollowRules` and `PublishedIsWritten` are consequences of it.

**Abstractions.**

- A permission is the set of users who hold it. `override_status` stands for the four
  permissions that override or edit one lane, `change_assignment` for two,
  `edit_publish_timestamp` also for `force_publish`. Who holds what is arbitrary in the
  proofs; permissions do not change in a run.
- Titles, links, dates and archiving are other columns: writing them alone is an empty
  patch, and their own permissions are not modelled. The derived `overall_status` is a
  function of the two statuses that no rule modelled here reads.
- The row exists throughout. It starts as a new blog or as one imported as published;
  a client could insert one at another stage, which is left for later.
- The time of publication is present or absent. A write that changes it directly is
  left to the import.

The route and the trigger state one rule differently: the route asks for a writer at
every stage but `not_started`, the trigger not at `pending_review`
(`TransitionAllowed`, `Consistent`). A draft in review can therefore lose its writer by
a client write, and cannot be approved until it has one. The model keeps both rules as
they are. Not modelled, but seen beside it: the review columns of a blog record
`auth.uid()`, which is null for the service role, so an approval through the API records
no reviewer.

### DeftScopes

One epic and the stories it was decomposed into. The files are `disk` (for each scope the
copies of it, by lifecycle folder, with their status and the folders their links name),
`registry` (the folder `PROJECT-DEFINITION` gives each scope) and `audit` (the lifecycle
log); `worker` is what each process is doing. A command is `StartMove` (the nine verbs,
with promote's check of the WIP cap), `StartUndo` or `StartSweep`, and then one step per
file it reads or writes: `ReadScope`, `WriteScope` (the new status over the old path),
`MoveScope`, `ReadKin` and `RewriteKin` for each relative that links to the moved file,
`Register` and `RecordMove`. A sweep is of any stories; it goes over these (`SweepStory`),
then over the epics they named (`SweepEpic`), and ends (`EndSweep`). `KillWorker` stops a
command between two steps, which is also what an error does that nothing catches.

`write_text` is two steps: `EmptyScope` and `EmptyKin` open the file and empty it,
`WriteScope` and `RewriteKin` fill it. Between the two another command may read it (it is
not JSON, and the reader gives up or passes it over), write it as well (what is left may be
a mixture), or rename it, and then the text goes where the file has gone (`opened`). A
command that ends there leaves the file empty: the scope's text is lost although its file is
not. The history variable `cut` records that, and `NoScopeLost` says that it is the only way.

The repairs swallow their failures: an `OSError` in reading or opening a relative's file
(`SkipKin`) or in writing it (`RewriteKin`, which then leaves it empty), and a
`PROJECT-DEFINITION` that is missing, locked or broken (`Register`), leave the link or the
row as it was, and the command reports success. `unlinked` records these scopes, with those
of a demote or an undo, which repair nothing, and of a command killed in its repairs.

Nothing locks a scope. `write_text` over a path from which another command has just moved
the file creates it again, so that the scope is in two folders; two commands that repair
links in one file lose a link. The history variable `contested` records the scopes two
commands worked on at once, as `Reach` bounds them when they begin. The properties say that
nothing goes wrong but for these three. The WIP cap is checked before the move and can be
exceeded by two promotes, or by the undo of a demote; no text of the repository says
otherwise. The lock of `PROJECT-DEFINITION` is taken to work: `DeftTriage` models a lock of
its kind. Left out are decompose, the batch forms, dry runs and the stamps of a completed
scope.

### DeftTriage

The decision log `candidates.jsonl` (`log`), the issues that have a brief (`briefs`), the
issues on GitHub (`upstream`), the file at the path of the lock (`sidecar`) and the
processes (`agent`). A decision (`StartDecision`, or the next issue of a `StartBulk`) is
compared with the latest one (`CheckRepeat`), logged under the lock (`OpenSidecar`,
`StatSidecar`, `TakeLock`, `AppendEntry`, `Unlock`, `Unlink`) and carried out: `Ingest`
writes the brief of an accepted issue, `CloseIssue` and `LabelIssue` close a rejected one.
When that fails, the command takes its entry out again under the lock (`ReadLog`,
`TruncateLog`, `WriteBack`: `write_text` empties the file first). `KillAgent` may come
anywhere.

The entry is appended to the log of the framework, the rollback looks for the log under the
project root it is given or the current directory. Where these differ (a project with the
framework in a directory of its own) it finds no file, returns, and its caller does not ask:
`RollBack` is therefore a choice between a rollback and `LeaveEntry`. A reject is rolled back
on an `UpstreamCloseError` only: any other exception, such as one of the operating system
when it starts `gh`, leaves the entry too, before or after the issue was closed (`CloseIssue`,
`LabelIssue`). `stray` records the entries left so. `AcceptedHasBrief` and `RejectedIsClosed`
except them; what the code says of its rollback does not, and run `deft_rollback` refutes it.

The lock is `flock` on a file that each holder deletes after releasing it. A number stands
for an inode: a process may hold the lock of a file that is no longer at the path, and the
next one makes a new file there. `stat` of the path may fail for the same reason; the
handler then still deletes what is at the path. A rollback that cannot take the lock leaves
its entry (`excused`), as does a kill. The clock is looked at when an entry is built and
nowhere else, so it moves there only. Entries of one second are ordered by line in one
reader and against it in the other (`IsLatest`, `BulkSees`); both are kept. Left out are
the queue, classification, bootstrap and the resume evaluator.

### DeftRelease

One version: the base branch as a sequence of commits (`base`), how many of them origin has
(`origin`), the tag in the clone and on origin, the GitHub release with its downloads
(`gh`), the workflow a pushed tag starts (`ci`), the operator's command (`op`) and
`release:publish` (`pub`). `task release` is the thirteen steps from the dirty check to the
flip back to draft; `release:rollback` finds what is there (`DetectRelease`, `DetectTags`),
the commit it must revert (`ResolvePrepSha`), reads the download count twice, and unwinds.
Each step that calls git or gh may succeed, fail, or take effect and report a failure (the
calls have timeouts); a step that fails ends the command and undoes nothing.
`CrashOperator` kills it. Beside it run the publication, the workflow, consumers
(`Download`) and ordinary commits.

What the code makes of an unclear answer is kept: a `gh` that is not installed says "not
found" and counts as a release that is not there, which skips the download guard; the return
code of `ls-remote` is not looked at; GitHub makes the tag of a public release that has
none; the workflow creates a release anew when a rollback came first. These set `misled`,
and the properties except it.

With one version, one thing about `Resolved` cannot be seen: when the tag is not in the clone,
`release_rollback.py:403-412` looks for the commit with an unanchored pattern, so that the
search for v0.2.1 also finds the commit of v0.2.10. In the model the newest release commit
found is one of this version.

### DeftRelocate

The tracked paths (`tree`: the old framework directory `deft/`, the new one `.deft/core`,
`AGENTS.md`, `.gitignore`), whether a swarm is running, the snapshots by their second, and
the command (`job`). `Plan` decides on the layout and the force gate; `Confirm` is the
prompt; `OpenSnapshot`, `Capture`, `CloseSnapshot` write the tarball, `CaptureFails` is an
exception in it; `Wipe` and `Fill` remove and deposit one path each; `ReadPage` and
`RewritePage` bring `AGENTS.md` and `.gitignore` up to date. `StartRestore` is the rollback,
which wipes all tracked paths and fills them from a snapshot. `Stop` ends a command between
two steps or in the middle of one, leaving any part of the path it was at. The user edits
files and texts and starts and stops swarms at any time.

A framework is a set of files with a content each; the installation states A to G differ in
what is printed, and only CANONICAL and the force gate decide anything. A tarball that a
kill cut off cannot be read, one that an exception ended is well-formed and short. A
relocator run from a directory it is about to wipe runs from a copy, which leaves out what
`_bootstrap_copy_ignore` names at any depth (`Travels`, in `Sources`); a file of the
installation that is not in the copy counts as the user's own and asks for `--force`. What is
deposited is what `_deposit_filter` lets through (`Deposits`, in `Filtered`). A file that is
the same in the source and is not deposited (`PRD.md`, `PROJECT.md`, `SPECIFICATION.md`, the
lifecycle folders of `vbrief/`) passes the gate without `--force`, is wiped, and does not come
back but by a rollback. `WipesOnlyStock` says so: it speaks of the source for what is wiped,
and of the files that are deposited for what is there afterwards. The gate is not asked again
after the prompt; what the user edits or launches after the plan is in the history fields
`edited` and `launched` of the command, and is all that can be wiped beyond the plan. A dry
run, a failure of the copy and a named snapshot that is missing change nothing and are left
out.

### DeftCache

Issues as they are on GitHub (`issue`), the entries with the versions of their three files
(`entry`), the order in which they were used (`used`, a relation), and the processes. `StartPut`, `StartFetch` with `FetchNext`,
`StartRefresh` with `Enumerate` and `Revisit`, and `StartDrain` (prune to cap) are the
commands; a put is `Scan`, `Evict` for each victim, `Decide`, and the three writes.
`Remove` is invalidate and prune, `Get` touches. Nothing is locked: a put checks the caps and then
writes, every write creates the directory again, the removal of a victim also removes what
another process has put there since, and a put that is refused has evicted already. An
entry counts only by its `meta.json`. The usage is the number of bytes of the listed entries
(`Bytes` counts them, each entry's numbered from 1). The victims and their order are those of
the scan; what is used afterwards does not save an entry (`Oldest`). Any stage of a put may
raise. A command with one put ends with it, as with a kill (`KillProc`); `run_fetch_all` and
`run_state_refresh` catch whatever it was and go on with the next issue (`FailPut`), and the
entry stays as far as the put had come, or with a part of a victim removed (`Breaks`). `mixed`
is the history of entries that two processes worked on at once, or that a killed or failed
command left, until a later put of its own is done or the entry is removed. The removal of an entry, the scan of the usage and
the listing of issues are one step each; the audit log and retries of the listing are left
out.

## 3. Runs

| Run | Instance | What it shows |
| --- | --- | --- |
| `social_post` | 1 request, 2 users (an admin author, a member who may be removed), 2 platforms, 6 briefs (`blank`, `fit` for review, two complete ones, one the route takes for complete and the SQL does not, one the table refuses), 2 URLs (one of them a live link to the route only) | brief, owner, history, authority, agreement of route and triggers, the editorial contract |
| `social_race` | 2 requests, 4 versions, 2 users, 1 platform, 2 briefs | the lock and the version: publication against link removal, transition against every other writer |
| `social_live` | 2 requests of one admin, `FairSpec` | every request is answered |
| `deft` | five sessions, see below | scopes are kept and linked, decisions carried out, releases and rollbacks complete, relocations reversible, cache entries whole |
| `deft_lock` | the triage session: 2 processes, 2 issues, 2 decisions | **violated**: see below |
| `deft_rollback` | as `deft_lock` | **violated**: see below |
| `notification_slots` | 2 sweeps, cooldown 2, window 3, run 1, clock to 6 | spacing of claims and notices |
| `blog` | 1 request, 3 users (an admin, a writer, a publisher who is an admin and comes and goes), 3 versions | refinement of `BlogDesk`, meaning of the version, legality of every change of status, the handoff, the tasks of admins who stay |
| `social_delete` | 1 request | **violated**: see below |
| `blog_review_tasks` | no request, 2 admins (one comes and goes), all statuses, 2 versions | **violated**: see below |
| `blog_deactivation` | as `blog_review_tasks` | **violated**: see below |
| `blog_publish` | as `blog_review_tasks`, without admins' tasks | **violated**: see below |

**Bounds.** One request in flight among atomic statements of everybody already gives
every check-then-act race of one request; it takes two to compete for the lock or to
carry the same version, and the properties of `social_race` relate two. Two complete
briefs are needed to tell "unchanged" from "complete", one that is only fit for review
to tell the two levels of required fields apart, two platforms to tell "a link is left"
from "this link is left". `Workers`, `Reviewers`, `Churn`, `Payloads` and `Times` are
bounds on choices; the assumption on `Times` is what keeps them from disabling a write.
`OneLockHolder`, `VersionIdentifiesStatus` and `StampsSpaced` are left to the proofs, which
make no use of bounds.
In `notification_slots` window and cooldown differ, although the code has a day for
both, so that each property is seen to come from the right one; the clock leaves room
for three claims. Symmetry (sessions, versions, sweeps) is used for safety only. The
liveness run has no symmetry; its action constraint `LeastTime` picks the least fresh
version, and excludes only steps that differ in the name of the version.

In `blog` one request among atomic writers of every kind meets each of them between its
read and its write, and a third version lets it meet two. The publisher is an admin who is
deactivated and comes back, the other admin stays: so the tasks are handed out, taken away
and kept. `Together` bounds the columns that one write names: here one assignee or both
statuses (the card board); the proofs do not depend on it. The statuses asked for
(`WriterMoves`, `PublisherMoves`) leave out only repetitions of the same kind of move. `Calm`
constrains what is explored while a request is in flight: no admin has been deactivated, and
the lanes stay out of the writer's `needs_revision` and the publisher's `pending_review`;
without a request in flight everything happens. The permissions are spread over the three
users so that each of them lacks some, and the admin overrides. The view `ExceptAuthor`
leaves `author` out of what tells two states apart: no action reads it, and the properties
that do speak of the step they judge.

`deft` is five instances in one: the parts share no variable, so a behaviour is a session
with one part while the others stay as they began (2.1 million distinct states, of which
scopes 0.54, triage 0.34, release 0.35, relocator 0.39, cache 0.45). *Scopes*: two processes,
an epic and two stories, two commands on a backlog in which a story may have been demoted
once, or demoted, restored by an undo and demoted again; with the commands these make every
chain of undo that the code tells apart. A third process would only meet the two on the same
files. The verbs are one of each kind: asking for the cap, moving from anywhere, not moving,
repairing nothing; no story begins in `pending/` (`Undecided`), where the first command may
bring it. *Triage*: two processes and two decisions on two issues: one holder of the lock, one
that waits on the deleted file, and an issue that is decided twice or not at all. *Release*:
three commands (cut, roll back, and one of them again), so that every command also meets
what an interrupted one left, with a publication, a download and four commits. *Relocator*:
two commands (relocate twice, relocate and roll back) within one second or not, one edit,
texts in every state a release left (`AGENTS.md` and `.gitignore` both there or neither, the
framework in one directory or in none, `Begins`), and a framework of two files: one that is deposited and one, `PRD.md`, that is
not. *Cache*: two processes with two commands on two issues, caps of one entry and two bytes
with issues of one and three bytes, so that one fits, two do not, and one never does.
`Modest` ends a behaviour once more than one scope is exempt of the promises about links
(demoted, killed, failed), every scope is contested, the lock of the decision log has let two
processes in, or both entries of the cache are mixed: these states are checked, and what
comes after them is not, since the properties except most of what they would speak of.
`Timely` leaves out steps of the surroundings at times when no command can tell them from the
same step taken later or not at all: a second that passes within a command, an edit after the
last command, a change on GitHub that nobody will look at, the use of an entry when no scan
follows, a TTL that ends when no fetch is at the entry. `BotThreshold`, `Generous` and `Unlimited` stand for 10, N and no limit:
with one download the three give every outcome of the guard.

Larger instances of single sessions were explored to the end by hand, with the properties
of `Deft.cfg`, and found no error (millions of distinct states): without `Modest` and
`Timely` the triage (0.56), the relocator (0.59) and the cache (0.88); the scopes with all
nine verbs and all five folders (3.1); the relocator with three runs and no edits (0.21), and
with `"own"` and `"none"` among the `BegunFiles` (2.3); the cache with caps of two entries
and three bytes and sizes 1, 2, 4 (1.0); the release with two downloads (1.5). The scopes
without the two constraints, and the triage with three decisions, were explored in part
(6.4 and 9.8 million states) without an error and are not claimed.

Processes, stories, issues and keys are symmetric. The commands of every part may all have
ended with the bounds used up, so deadlock is not checked.

**Fairness** (`Fairness` in `SocialPost`). A request that has begun continues: its next
statement is issued by running code, so weak fairness. A statement that waits for a row
lock may be overtaken, but Postgres queues the waiters of a row: strong fairness for
`ApplyBegin`/`ApplyRefused`, the reopening and the deletion. Nothing is assumed of users
(no request need start), and the loss of a request is never assumed. For Deft no fairness
is assumed and no liveness is claimed: every command may be killed, and none waits for
another but in `flock`.

### The disagreements found

**A published post can be deleted.** `supabase/migrations/20260324182600_prevent_delete_published_content.sql` says
"Published posts (status = "published") cannot be deleted." and changes the policy for
deletion accordingly. The DELETE route uses the service role, which policies do not
bind; it checks the status on a row it has read (`route.ts:51`) and then deletes by id
(`route.ts:59-62`). Run `social_delete` finds the post published between the two and
then deleted with its links. A condition on the status in the delete statement, or a
trigger, would close it.

**A returning admin is not asked.** `20260318200000_create_task_assignments.sql` comments
the table with "Auto-assigns approval tasks (pending_review, publisher_approved) to all
active admins." Tasks are unique per blog, admin and type, the insert does nothing on a
conflict, and no code sets a task back to pending. In run `blog_review_tasks` an admin is
deactivated during a review, which marks the task `reassigned`, comes back, and is not
asked when the blog is submitted again. `SteadyAdminsAreAsked` is what does hold.

**An inactive admin keeps a task.** The trigger on `profiles` in the same file says "When
admin is marked inactive, reassign their pending tasks". Run `blog_deactivation` lets a
submission read the admin as active, the deactivation commit, and then the submission
commit: the task it inserts was not there to be reassigned.

**Publishing with one's own token.** `docs/TRANSITION_AUDIT_REPORT.md` gives
`complete_publishing` as what the database requires for `publisher_approved` →
`completed`, and `20260406180000_auto_capture_actual_publish_timestamp.sql` explains that
it captures the time of publication before the permission checks. The permission trigger
then compares the captured time with the old row and refuses the write unless its user
may edit that time. Run `blog_publish` finds the approved blog that a holder of
`complete_publishing` cannot publish from a page. The API is not affected.

**A decision is lost.** `candidates_log.py:230` says of the lock of the decision log
"Serialise appenders across threads AND processes.", and `triage_actions.py:254-258` that the
rollback must be serialised against it, lest another's entry be "silently clobbered". Every
holder deletes the lock file after its release (`candidates_log.py:295`), also while another
process has it open and waits. Run `deft_lock` (22 states): one process accepts an issue;
the second opens the lock file and waits; the first deletes it, fails to write the brief
and takes the lock again for its rollback, on a new file, while the second takes the old
one; the second's entry is appended between the reading and the writing of the log, and is
gone. Not deleting the file would close it. `LossNeedsTwoHolders` is what does hold.

**A rollback that finds nothing.** `triage_actions.py:10-11` says "If the ingest fails, the
audit entry is ROLLED BACK so the log never references an accept decision that did not
actually produce a vBRIEF", and `:16-17` the same of a reject whose call fails. The entry is
appended to the log beside the scripts (`candidates_log.py:53-54`, `:298-299`), the rollback
looks under the project root it is given or the current directory (`triage_actions.py:177-180`),
returns `False` when no file is there (`:267-269`), and neither caller looks at that. The two
are one only where the framework is the project. Run `deft_rollback`: an ingest fails, the
command says that the entry is rolled back, and it stays; from then on an accept of the issue
is answered from the log, and there is no brief. Passing the log's path to the rollback, or
the project root to the append, would close it.

Four more were met in Deft for which no run is kept; each formula fails when it is added to
`Deft.cfg`.

- `_cache_quota.py:186-189` says of the scan of the usage "If the meta.json is missing or
  unparseable the entry is still listed". The scan looks for the files `meta.json` (`:254`),
  which a put writes last: after a kill, what is there is neither counted nor evicted:
  `Busy = {} => \A k \in Keys : entry[k] # NoEntry => k \in Listed` (2 states).
- `_relocate_snapshot.py:34-37` says that a rollback "restores a byte-equivalent
  pre-relocate state for tracked files". A snapshot in which a file could not be read is
  short and well-formed (`:114`); the rollback takes it as the newest, wipes, and restores a
  part: `RollbackRestores` without `snap.ends = "whole"` (14 states).
- `_relocate_states.py:39-42` says of older markers in `AGENTS.md` that "the relocator's
  regenerate path will rewrite them to v3". It looks for the literal one (`relocate.py:522`),
  finds none and appends a second section:
  `job.result = "ok" /\ job.acted /\ ~job.touched /\ job.cmd = "relocate" =>
  \A k \in DOMAIN tree.agents.blocks : tree.agents.blocks[k] # "known"` (10 states).
- `_relocate_states.py:246-248` says of files the framework has and the consumer lacks that
  "the consumer is behind, which is the relocator's whole job". A layout that lacks files is
  CANONICAL all the same (`:170-180`), and nothing is done (`relocate.py:668`):
  `job.cmd = "relocate" /\ job.result = "ok" /\ ~job.touched /\ job.source = Fresh =>
  \A f \in Deposits : tree.core.file[f] = "stock"` (2 states), with `"none"` added to the
  `BegunFiles`.

## 4. Proofs

All are for arbitrary users, sessions, platforms, briefs, versions and sweeps, from
`UserAssumption`, `ValueAssumption`, `TimeAssumption`, `NoPostAssumption`,
`BriefAssumption` and, for the sweeps, `TimeAssumption` (a request is shorter than the
cooldown) and `NullAssumption`. Each assumption is evaluated by TLC in the runs.

**SocialPostProofs.** `IInv` has two halves. `RowInv` is about what is committed:
published posts have a valid link, the brief is frozen in execution, there is an owner,
the history explains the status. It is kept by anything the triggers accept
(`StorePreservesRow`), which is why it does not matter which of the many writers wrote.
Alone it is not inductive: a publication decided on a link that another session is
about to remove would break it. `SessionInv` supplies the rest: one holder of the lock
(`OneLockHolder`), what the holder decided is still right (`LockProtectsDecision`,
`LockedVersion`), a link write that holds the lock leaves a published post a link
(`LinkPending`), and what a request validated is still true as long as its version is
current (`VersionKnown`). A write of the row invalidates every other version, so that it
keeps the last part vacuously (`UnlockedWrite`). `RouteCoversTriggers` is the lemma
that the TypeScript checks imply the SQL ones on the briefs that the two judge alike; the two
pairs of sets, and the two of links, are arbitrary. From `IInv` follow the invariants of the
runs, and, step by step, the action properties. `StepShapes` sorts the steps by what
they do to the row (keep it, write it as the triggers accept, clear roles, create,
delete); the refinement `ContractIsKept` and the authority of `OnlyOwnersAct` rest on it.

**NotificationSlotsProofs.** What a sweep has seen is never larger than the slot. While
the two are equal nobody has claimed since the read, so a cooldown lies between the
stamp and the sweep's time, and, for overdue slots, a window between the claim and the
sweep's time, the claim being itself a write of the post. Equality cannot come back
because stamps strictly grow. `NoDuplicateNotice` then needs `MaxRun < Cooldown`.

**BlogWorkflowProofs.** For arbitrary users, admins, permissions, sessions and versions,
from `UserAssumption` and `MoveAssumption` (the others matter to TLC only). `IInv`
says: the row satisfies what the last trigger demanded, and so does the one about to
commit (`RowsAreSound`); a request that carries the current version has read the current
row, and a statement about to commit carries a version nobody has seen
(`VersionsAreFresh`); what a request decided was allowed on the row it read, so that
together with the version it is allowed on the row it replaces (`Decided`); and a steady
admin's tasks match the lanes under review, in the committed row and in the one about to
commit (`TasksAreSound`). The properties of the runs are not inductive without
`VersionsAreFresh` and `Decided`: that a blind write under the service role follows the
rules is a fact about the request's past. `StepKeepsInv` also proves that every step is
work on the desk, a clerk's, or quiet about the row (`DeskStep`): `WorkOnDesk` from what the
request decided (`ReadDecides`) or the trigger permitted, and from what the statement about
to commit carries with it (`RowsAreSound` keeps its author's right to it, which stays good
because the lock keeps the row). That gives the refinement `DeskIsKept`, and
`PublishedBlogsAreWritten` and `StagesAreLegal` are proved of the desk and hold of the
workflow through it.

The parts of Deft are proved for arbitrary processes, issues, files, limits and numbers of
commands, from the one assumption each module makes on its constants.

**DeftScopesProofs.** `ScopesInv` has four parts. `Shaped` gives types and what a command's
stage says of its own fields. `FilesInv`: where the reaches of two commands meet, the scope
is contested (`Exclusive`); an uncontested scope is in one folder (`Placed`) and is as its
command has read it (`Current`), and empty only while that command has it open (`Open`,
`Texts`) - that is what stands in for the missing lock, and
`NoScopeLost` and `EpicLast` are read off it. `LinksInv`: a pair of an epic and a story is
linked, or lags behind exactly as far as the one command that is repairing it has come
(`HalfLinked`); `LinksFollow` alone is not inductive because it says nothing of the time
between the move and the last repair. `UndoInv`: the ids in the log are distinct, an undo
under way names an entry of its own scope that no undo in the log names, unless contested;
two undos of one entry would be two commands on one scope.

**DeftTriageProofs.** As long as one process at a time has been in the lock (`~breached`), a
command's line is in the log, or in the copy that is about to be written back, exactly from
its append to its own rollback, and a line whose command has ended was carried out, unless
it is among those left in the log by name (`excused`, `stray`); a closed
issue keeps the line of the command that closed it. The log is empty between `TruncateLog`
and `WriteBack`, so the invariant speaks of the log or the copy. It is split by what it can
claim: numbering always, ownership and faithfulness while `~breached`, completeness while
also no rewrite was killed (`torn`).

**DeftReleaseProofs.** Only the operator's command changes branch and local tag; what a
command has established of them therefore stays while it runs (`Cutting`, `InRollback`),
however the workflow, a publication or consumers interleave, and what these change leaves a
trace in `misled` or is counted (`Guarded`, for the downloads). Every release commit is
reverted, tagged or excused (`TagsAccounted`), which gives `NoStrandedCommit`; a tag on origin is
withdrawn before its revert is pushed (`History`, `Withdrawn`), which gives
`PublishedTagStands` for any order of failures and retries.

**DeftRelocateProofs.** A command is a walk over the tracked paths. The invariant says for
each stage what the paths behind the walk and those ahead of it hold, as long as the user
has not edited. A stopped command leaves any part of a path; that is no obstacle because
the next command makes its claims from its own wipe on. What was wiped is compared with the
snapshot of its second, which only a later snapshot of the same second replaces.

**DeftCacheProofs.** What a put has written of an entry stays its own as long as no other
process touches it (`Held`), so that the last write makes the three files agree. A running
refresh accounts for every issue (`HasAccount`): still to be visited, failed, written by
others, being put, or not said to be open unless it was seen open. Neither depends on what
the quota evicts, and `CacheInv` does not speak of it.

`CapsHold` has an invariant of its own, `TypedInv /\ QuotaInv`. A command that runs alone
finds every other process idle, its key is not among its victims, what it measured of the
entry it replaces is still so (`Measured`), and once it has decided there is room for the
growth (`Fits`), although its evictions and two of its writes lie in between. The property
alone is not inductive: the last write looks at nothing. `TotalOfOneMore` and
`UsageWithout` are the arithmetic: the usage is the size of a disjoint union over the entries,
so what one entry adds is the size of its part (`FS_Union`, `FS_Product` of the library),
and no sum has to be taken over a set. The growth may be negative, and the cache may be over
its caps before; then the put is refused or has evicted.

The last section composes the parts. A step of `MCDeft` is a step of one part and leaves the
variables of the others alone, so `DeftSpec` implements each part's specification
(`DeftRunsItsParts`), every theorem on a part holds of `DeftSpec`, and `DeftTypes` follows.

**Only model-checked:** liveness (`EveryRequestAnswered`), as fairness and ENABLED are
beyond the proof system. Every other property of a passing run is a theorem.

## 5. Not modelled, and the plan

Of Content Relay, in this order:

1. The rest of the blog: creation at any stage, deletion, the assignment history and the
   review columns, and the derived overall status.
2. The purge: reassign, delete, retry, soft delete and profile deletion as separate steps
   over several tables, with partial failure; the reassignment route with its two
   statements. Properties: nothing authored is lost, a purged user owns no unfinished work.
3. The forms browsers keep: autosave and save-links loops over `SocialPost`; lost edits and
   links half saved. Nothing in the repository says what they promise, so there is no
   property yet.
4. Task classification: pure functions, to be checked against the stage owners of both
   workflows.

Of Deft, next would be the merge cascade and the worktree map of `swarm_launch`, the queue
of triage with its cursor, decompose and the batch forms of demote.

The larger part of Deft's Python has nothing for a model to find: validators, linters,
renderers, help texts and read-only reports, and single-process installers and migrations
(`policy`, `doctor`, `migrate_vbrief`, `triage_help`, `reconcile_issues` and their like) that
rewrite a file under the eyes of one person. Of `policy.py` the WIP cap is part of
`DeftScopes`.

Known and without a property: the purge over several tables (`users/inactive/route.ts:106`);
autosave over another's edit (`page.tsx:681`); the WIP cap, which commands exceed together and
which nothing promises to be exact (`scope_lifecycle.py:158`); entries without `meta.json`
(`_cache_quota.py:254`), described above. Seen and kept in the models, but not the subject
of a property: a rollback of the relocator discards what the user edited since; a put that is
refused has evicted others; a workflow recreates a release that was rolled back.

Left out for good: delivery of notifications (best effort, nothing reads it back), Ask
AI, MCP tools, search and exports (read only), ideas and imports (single inserts),
comments on posts, integrations and preferences, Deft's rules and documents, design system
and infrastructure. They hold no state of the workflows.

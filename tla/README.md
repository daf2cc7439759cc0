# Verification of VCP

TLA+ modules, TLC configurations and TLAPS proofs about the VCP panel: a NestJS
backend that keeps virtual machines, networks and nodes in PostgreSQL, a Go
agent on every node that carries out its commands against libvirt, a React
frontend, and a license server. Paths below are relative to the repository's
root; `vms.service.ts` and the like are under `backend/src/<part>/`.

Contents: 1 the system, 2 what is hard about it, 3 the modules and how they
correspond to the code, 4 the runs, 5 fairness, 6 the proofs, 7 disagreements
between code and documentation, 8 what is not modelled, 9 the plan.

## 1. The system

| component | state it keeps | operations | talks to |
|---|---|---|---|
| Task queue (`tasks.service.ts`) | `tasks` rows (PostgreSQL), BullMQ jobs (Redis), one handler field (memory) | `registerHandler`, `enqueue`, `process`, `pruneBackups` | called by every service that starts work; calls VmsService or ContainersService |
| VM lifecycle (`vms.service.ts`) | `vms`, `nics`, `disks` rows | `create`, `power`, `remove`, clone, migrate, resize, snapshots, ISO, firewall, console; `handle` for the tasks | enqueues tasks; calls the agent |
| Agent client (`agent-client.service.ts`) | none | `call` with a timeout of 120 s | HTTPS with client certificates to the agent |
| Agent: VMs (`agent/internal/server`, `virt`) | libvirt domains, known by VM **name** | create, start, stop, restart, delete, snapshot, clone, migrate ... | libvirt, storage |
| Agent: storage (`agent/internal/storage`) | image cache, volumes, seed ISOs | `EnsureTemplate`, `EnsureISO`, `CreateVolume`, `DeleteVolume` | image servers |
| Agent: heartbeat (`agent/internal/heartbeat`) | none | every interval: list domains, post | `NodesService.heartbeat` |
| Nodes (`nodes.service.ts`) | `nodes`, `node_join_tokens`, storage pools, metrics | join tokens, `join`, `heartbeat`, `markStaleNodesOffline`, maintenance, drain, `remove` | writes `vms.state` from heartbeats; `pickNode` of VmsService reads it |
| Addresses (`vms.service.ts`, `networks.controller.ts`) | `ip_pools`, `ip_addresses`, `nics` | assignment in `create` and `addNic`, `removeNic`, pools | PostgreSQL transactions |
| License client (`license.service.ts`, `system-state.service.ts`, `locked.guard.ts`) | install phase and key (DB), cached signed answer (DB), license state (memory) | activate, refresh every 6 h, offline grace | license server; guards every request |
| License server (`license-server/src`) | licenses, activations (DB); buckets of the rate limit (memory) | activate, validate, status, deactivate | panels |
| Authentication (`auth.service.ts`; `client.ts`, `AuthContext.tsx` in the browser) | users, refresh tokens (DB), pending logins, reset links and TOTP setups (Redis); the pair of tokens of each tab (memory) and of the browser (local storage) | login, TOTP, refresh rotation, revocation, reset | every request |
| Users, roles, seeding (`users.service.ts`, `roles.controller.ts`, `seed.service.ts`) | users, roles, permissions | edit, and complete the system roles at every start | permission guards |
| Backups (`backups.service.ts`, `backup-schedules.service.ts`) | backups, schedules | create, restore, remove, `runDue`, `pruneBackups` | task queue |
| Cron schedules (`cron-runner.service.ts`) | cron schedules | edit, `runDue` | task queue |
| Alerts, webhooks (`alerts.service.ts`, `webhooks.service.ts`) | rules with `firedAt`, webhooks | edit, `evaluateAlerts` every minute | metric samples; HTTP and mail |
| Quotas (`quotas.service.ts`) | quotas of roles | edit, `checkVmCreateQuota` | `VmsService.create` |
| Consoles (`main.ts`, agent `server.go`) | tokens in the agent's memory, and which agent gave them in Redis | mint, upgrade, bridge to VNC | browser, panel, agent, QEMU |
| Firewall (`vms.service.ts`, agent `firewall/nft.go`) | rules (DB), one chain per NIC | render all rules of a VM, apply | nft |
| AI assistant (`ai/*.ts`; `AiPanel.tsx`, `ActionPlanCard.tsx`) | plans for five minutes (Redis), cards (browser) | propose, confirm, execute step by step | every service a step names |
| Frontend (`App.tsx`, `pages`, `components`, `useSocket.ts`) | the phase and the user it has read, React Query's cache, forms, one live socket | queries, mutations, invalidation by events, what a page offers to whom | the panel's API and events |
| Permission guard and routes (`permissions.guard.ts`, every controller) | none | compares what a route requires with the user's role | every request of the panel |
| Containers, storage and ISO catalogue, agent metrics | their rows | see `PROJECT.json` | task queue, nodes |

A VM operation crosses most of them: the API call writes the row and enqueues a
task (a row and a BullMQ job); the worker, up to eight at a time, calls the
handler; the handler calls the agent and waits up to 120 s; the agent works on
the domain and the files of the VM's name; meanwhile heartbeats report what
libvirt runs and overwrite the state in the row.

For each part, what makes it correct:

- task queue: row and job agree at the end; an error that will be retried is
  not reported as the outcome; work that is done is not done again; retries are
  bounded; every job ends; each task reaches the service that knows its kind.
- VM lifecycle with the agent: a deleted VM leaves nothing behind; a VM that
  reuses a name is not mixed up with its predecessor; the row ends up showing
  what libvirt runs; a removal is not lost; reports do not cut into a
  provisioning or a deletion.
- addresses: an address belongs to one NIC and stays there until the NIC goes;
  deleting a pool takes no address that is in use.
- nodes: a join token makes one node; VMs live on nodes that exist; a silent
  node is taken out of service; maintenance lasts until it is ended.
- image cache: what the cache holds is complete and verified.
- license: what the process believes is backed by a stored answer; environment
  and database hold the same key; a revoked license takes effect.
- authentication: a login has one refresh token at a time; a revoked session
  does not come back; a browser keeps the tokens of a session that nobody has
  disturbed; a pending login or a reset link works once.
- accounts: system roles have their permissions whenever the panel answers.
- operations of a VM (resize, snapshot, backup, ISO, clone, migration): what the
  panel shows of a VM and what its node has do not drift apart.
- backups: runs of a plan keep their interval and never end; retention leaves the
  newest ones; what is shown as completed was copied.
- alerts: a rule is silent for its cooldown. Quotas and activation limits: requests
  that overlap exceed them by their number at most.
- consoles: a token opens one console. Firewall: the chain decides as the rules say.
- assistant: a confirmed plan is carried out once, in order.
- frontend: a page that stays open comes to show what has changed; it offers what the
  backend accepts, to the users it accepts it from; a form sends choices that belong
  together; who has activated the installation is led on.

## 2. What is hard

`PROJECT.json` lists the hazards line by line with the properties that cover
them. In short: two stores written one after the other (row and job); eight
concurrent executions with no order between the tasks of one VM; a client that
gives up while the agent goes on, and retries beside the first request; agents
that identify by name what the panel identifies by id; heartbeats that list
first and are applied later; lookups that are separated from the writes they
justify (addresses, NIC counts, tokens, VM counts); a `.part` file shared by all
downloads of one URL; requests and tabs of a browser that refresh with the same
token, or with one that has been replaced; passes of a timer that outlast the timer
(backup plans, cron plans, alerts); one-time values that are read, worked with and
used up in three statements (pending logins, reset links, console tokens, plans of
the assistant); a cached phase that every request decides on; pages that are told of
a change by an event, a mutation or a timer, and miss some of them; permissions that
are written down twice, in forty files of the frontend and twenty controllers; choices
in a form that depend on earlier ones; crashes of the
backend and the agent between any two steps.

## 3. The modules

### TaskQueue

`TasksService` on BullMQ. `row` is `tasks.state`, `job`, `attemptsMade`,
`stalls` and `lock` are BullMQ's job, `handler` the service's single field,
`pc`/`current`/`made` the executions of `process` that are under way.

- `enqueue` is `CreateRow` and then `AddJob` or `AddJobFails`; a crash between
  them leaves a row without a job.
- `process` is one action per await: `NoHandlerYet`, `MarkRunning`,
  `HandlerReturns`/`HandlerThrows`, `MarkSucceeded`, `PruneBackups`,
  `CatchBlock`. Every write of the row may be rejected (`WriteRejected`),
  which inside the `try` leads to the catch block and outside of it to BullMQ.
- `onModuleInit` of the two services is `RegisterHandler`, in any of
  `BootOrders`.
- BullMQ is external: `Pick`, `JobCompleted`, `JobFailed`, `ResultDropped`,
  `BackoffElapsed`, `Stall`; `Stall` covers a crashed process and a lock that
  was not renewed in time while the old execution goes on.

`disturbed` records the tasks that were hit by a fault other than a throwing
handler; the properties that need an undisturbed task say so. `picks` and
`effects` count what the properties talk about.

### TaskPromise

The abstract specification of the task subsystem: a command is accepted, carried
out at most once, and reported as succeeded only after that and as failed only if
it never was; a report is final; a command that was hit by a fault is excused.
TaskQueue implements it under the refinement mapping `Promised` (`KeepsPromise`): the
outcome is `excused` for a disturbed task, otherwise what the row says, with queued
and running both open; `done` is `effects`. `Promised` leaves backup tasks out
altogether: `pruneBackups` runs inside the `try`, after the row says succeeded
(`tasks.service.ts:131`), so a rejected delete sends a finished backup back into the
retry, where it is carried out and reported again. The promise is not made to them; what
is said of backup tasks is that their job settles, that they fail at their last attempt
only, and that a finished job has the row of its outcome.

### VmLifecycle

`VmsService.create/power/remove/handle`, the agent's handlers of the five tasks,
the heartbeats, one node. `row` is `vms.state`; `task` is the job (its details
are TaskQueue's subject); `requests` are the HTTP requests that the agent
executes, each at its place in the handler; `domain` and `disks` are what libvirt
and the file system hold under a VM **name**; `reports` are heartbeat entries
that have been collected and not been applied.

- `Create`, `Power`, `Remove` are the API calls; `HandleMissing`, `HandleCall`,
  `AgentAnswers`, `AgentTimesOut`, `HandleReturn` are `VmsService.handle` around
  its await of the agent.
- `CreateDisks`, `DefineDomain`, `EnsureRunning` are provisioning;
  `BeginStop`, `Drain` are stop and restart; `KillDomain`, `UndefineDomain`,
  `WipeDisks` are deletion. `Fails` is a libvirt or file operation that fails and ends
  the request; `Cut` a restart of the agent in the middle of one.
- `PassOver` is a failure that does not end a deletion: the agent takes any error of the
  look-up for a domain that has gone and goes on, ignores what destroying it returns
  (`manager.go:213-219`), and answers 200 whether or not the disks could be removed
  (`server.go:301-305`). `skipped` records the VMs whose deletion passed over an error.
- `GuestPowersOff`, `GuestSuspended` are the guest and the hypervisor.
- `Heartbeat` and `ApplyReport` are the two halves of a heartbeat.

`AgentTimesOut` is restricted to `SlowKinds`, because only a provisioning (an
image download of up to 30 minutes) is expected to outlast 120 s.

### VmPromise

What users are promised about a VM, whatever tasks, retries, timeouts and late requests
do underneath: a name has one VM at a time (`Order`) and what is built under it is that
VM's (`Build`); a VM is shown as running, stopped or paused only when it is complete
(`Show`); nothing is taken away (`TakeAway`) before a removal was asked for
(`AskRemoval`) and has begun (`BeginRemoval`), and it is gone only when nothing is left
(`Finish`). VmLifecycle implements it (`KeepsVmPromise`) under the mapping `LifeOf`,
`RemovalAsked`, `PartsOf`: a VM is `doomed` from the moment a delete task has called the
agent, its parts are the definition and the disks that carry its identity.
`Excuse` covers the names with a deletion that overlapped another command or passed over
an error, and the names in `MaySuspend` are excused from the start; section 7 says why.

### Ipam

The transactions that move addresses. A `Call` is one API call; the NIC that a
call inserts has the call's name. `owner` is the committed `ip_addresses.nicId`,
`lock` the row lock of an uncommitted write. `Choose` is `findFirst`, `Write`
the `updateMany` of `create` or the `update` of `addNic` with their different
WHERE clauses, `Commit` and `Rollback` end the transaction; `CountNics`,
`ReleaseAddrs`, `DeleteNic` are the three statements of `removeNic`;
`CountInUse`, `DeletePool` those of `deletePool`; `DeleteVm` is the worker's
`vm.delete` with its cascade. PostgreSQL is external and taken at READ COMMITTED.

### NodeFleet

`NodesService` and `pickNode`. A node has the name of the `join` call that
inserts it. `beat` is `lastHeartbeatAt` reduced to never, recent or older than
60 s. `CheckToken`/`CommitJoin` are `join` around the signing of the CSR;
`SendHeartbeat`/`Heartbeat` let a heartbeat arrive late; `MarkStaleNodesOffline`
is the cron job; `BeginDrain`/`EndDrain` and `CountVms`/`Remove` are `drain` and
`remove` around their awaits; `PickNode`/`PlaceVm` are placement around the
insert of the VM.

### TemplateCache

`EnsureTemplate` (and `EnsureISO`, the same with `HasChecksum = FALSE`). Files are
inodes with blocks, names refer to inodes: `os.Create` truncates the inode that
`.part` refers to, an open file survives a rename and a removal. `Begin` is the
`os.Stat`, then `Create`, `WriteBlock`, `Verify`, `Rename`; `StreamFails` and a
failing `Verify` remove `.part`; `Crash` is a restart of the agent.

### VmOperations

Everything that is asked of one existing VM besides power and removal: thirteen kinds
of request, each with its check against the row it has read (`Ask`, `Accept`,
`Refuse`), its rows, its job with retries, and its call of the agent (`Serve`), which
may be given up after 120 s and carried out later (`GiveUp`, `ServeLate`). The rows are
written first and the task is enqueued then (`Enqueue`), or is not, and the rows stay
(`EnqueueRejected`). `row`, `snapRow` and `backupRow` are the panel's tables, `dom` and
`copies` the node. What the agent does is one operator per call (`ResizeDisk`,
`SnapshotRevert`, `Restore` ...), a set of outcomes. `Settle` writes the rows after the
answer, `SettleRejected` is a rejected write. `overlapped` records that two requests were
under way together.

Where the agent's answer does not say what has happened, the model has both outcomes:
`SnapshotDelete` succeeds with the snapshot still there (`manager.go:251-258`;
`dom.kept` records it), `Stop` with a guest that runs, `UnmountISO` with the ISO in the
drive. A snapshot holds power, memory, disk and drive, and a revert brings all of them
back, so a snapshot, a mount and a revert leave `row.iso` with an empty drive. The
target of a backup is a string nobody checks (`backups.controller.ts:9-11,46`) and
becomes the path of its row at once: `Directory` stands for what can be made or is there,
`ImageFile` for a disk image. Into the latter nothing can be copied, but a restore puts
it in place of the disk and completes the row (`server.go:763-791`,
`vms.service.ts:477-481`). The properties name these cases as exceptions.

### License

`LicenseService` and `SystemStateService` with a license API configured. The
install phase and key (`phase`, `dbKey`) and the stored answers (`cache`) survive a
restart; `envKey` (`process.env.LICENSE_KEY`) and `state` do not. `run` holds the
executions of `refresh` and `activate`, one label per await.

- `refresh` is `StartRefresh`, `ReadPhase`, `ReadKey`, `RememberKey`, `Validate`,
  `Store` or `Fallback`, `Assign`; where the database rejects a call, `refresh`
  throws (`ThrowRefresh`) or falls back, as the code has it.
- `activate` is `Activate` (setActivating), `ActivateNodes`, `SetActive`, a refresh
  inline, `FinishActivation`; its catch block is `Rollback`.
- `Crash` and `Boot` are a restart with `onModuleInit`; `ServerDecides` and
  `GraceEnds` are the license server and time. An answer is the number of the
  server's decision, so that older and newer answers can be told apart.

### Sessions

`AuthService`'s refresh tokens and the tabs of one browser. An access token and
the refresh token that is handed out with it have one number. `rows` is the table
`refresh_tokens`, `age` how far a pair has expired, `mem` the module variables of
`client.ts` in each tab, `store` the local storage they share, `signedIn` the tabs
whose `AuthContext` has a user. `req` holds the calls of `api`, each at its place:

- `StartData` (polling), `StartLogin` and `Load` (the call of `/auth/me`) send a
  request; `HandleCall` and `HandleLogin` are the server's answer;
- `HandleDenied` is the first 401, which calls `tryRefresh`; `FindToken`,
  `DeleteToken`, `ResolveUser`, `InsertToken` are the awaits of `refresh` and
  `issueTokens`, the last two also those of a login; `HandleAnswer`,
  `HandleRefused` and `HandleError` are what the browser does with the outcome;
- `Rejects` is any other answer that is not ok: the limit of 30 refreshes a minute
  (`auth.controller.ts:63`), the 503 of the locked panel, a failing database, a proxy.
  `tryRefresh` takes it for a refusal (`client.ts:26-28`), `AuthContext.tsx:26-28` for the
  end of the session;
- `SignOut`, `Load` and `LoadLoginPage` are the user; `Break` is a broken
  connection, after which the server may go on with what it has received;
  `InsertFails`, `Age`, `Revoke` and `Toggle` are the database, time, the session
  list of the settings and an administrator.

`session[t]` is the login that a pair stems from. `disturbed` records the sessions
of which the code cannot keep hold: those of which two holders refresh at the same
time, those that were revoked or expired, those whose request was given up
while it was refreshing, and those whose refresh, or whose `/auth/me` at the load of the
page, was answered with any other error. `HeldTokenIsLive` and `TokensAreKept` speak of
the others.

### Services of the panel and of the vendor

Small modules, each about one hazard of its service. A pass, a request or an
evaluation is a record that holds what it has read and has still to do; one action
stands for what happens between two awaits.

- **BackupPlans**: `BackupSchedulesService.runDue` and `CronRunnerService.runDue`. A
  pass (`RunDue`) reads the due plans, then for each of them enqueues (`StartBackup`) and
  writes the next date (`RecordRun`), or skips it where the code catches the error
  (`SkipRecord`); passes overlap when one outlasts five minutes, statements fail,
  the panel restarts, administrators edit, the interval of a plan (`UpdateInterval`)
  included. The next date is computed from the interval and the time that the pass has
  read (`Rest`); `owed` is what the last run still forbids. Time is counted in passes.
- **Retention**: `pruneBackups` beside the other backup tasks of a VM: list, delete one
  by one, fail when a row is gone, and try the whole task again.
- **Quotas**: `checkVmCreateQuota` (`CheckQuota`) and the insert (`InsertVm`) several
  statements later; `resize` and `clone` without a check. A clone (`CloneVm`) belongs to the
  caller and counts at the next check, but nothing bounds how many there are, so
  `QuotaOverrunIsBounded` speaks of what a user has created.
- **Alerting**: `evaluateAlerts` as `Judge`, `Fire`, `Deliver`, `Mail` per rule, with
  evaluations that overlap.
- **Accounts**: `SeedService` permission by permission with restarts between
  (`SeedGrant`, `SeedAdmin`), `RolesController`, `UsersService`, and the one-time tokens
  of `AuthService`: `Present` reads one, `CheckCode` works with it, `SpendPending` and
  `CommitReset` use it up, `IssueTokens` hands out the session.
- **LicenseLock**: `LockedGuard`'s cached phase: `BeginRefresh`, `ReadPhase`,
  `AssignCache`, and what other requests decide meanwhile.
- **LicenseServer**: `activate` statement by statement behind the rate limit in memory,
  `validate` and `deactivate`. `admitted` counts, per bucket and for every n up to the
  length of a window, the requests that were let through in the last n ticks.
- **LicenseKey**: `generateLicenseKey`, `checksumChar` and `validateKeyFormat` on any
  key of `KeyLength` characters, with those that pass the pattern but are in no
  CHARSET. The sum is a recursive function; any number of characters and any length are
  allowed.
- **Console**: a token from minting over Redis (`MintToken`, `NoteToken`) and the upgrade
  in the panel (`Resolve`) to the agent's map under its mutex (`TakeToken`), the VNC port
  (`FindPort`) and the dial, with the sweep, restarts and guests that stop; and the
  length fields of WebSocket frames.
- **Firewall**: rows, what a request has read of them and carries, and the chain that
  `Apply` renders, line by line as `buildRule` and the policy lines have it. nft is
  external: it takes a whole script or none of it.
- **Assistant**: the stream that proposes a plan, the card, the plan in Redis, and
  `ActionExecutorService` step by step, with lost answers and expiry. `called` counts what
  the executor has done, `carriedOut` what has reached the service that does it: for a
  backup (`IsBackup`) the executor inserts the row itself and asks no service.
- **Panel**: every query and mutation of every page and of the command palette, as a
  table of keys, followed one query at a time: reads under way, stale answers, mutations whose answer is
  lost, events, sockets that break, and `useSocket.ts`'s single module variable
  that Layout and TasksPage share.

### Access, VmForm, Entry

What the panel shows a user, beside what the backend does with it.

- **Access**: the permission of every route of every controller (`VmRoutes` ... ,
  `Routes`), the states of an object that its service accepts (`StateChecks`), and what
  every page asks by itself or offers (`VmHeader`, `NodePools` ...): for each request the
  `can(...)` and the state of the object it is offered under. `granted` is the user's role
  in the database, `known` the permissions that AuthContext has, `actual` and
  `displayed` the state of the object and what the page shows of it. `dialogs` are the
  dialogs of VmDetailPage that are open (clone, migration, resize, passthrough): the
  buttons that open them look at the state (`OpenDialog`), the dialogs do not
  (`VmDetailPage.tsx:123-180,267-292,440-479`), so that what they send is offered until
  they are closed (`CloseDialog`), whatever becomes of the VM. `SignIn`,
  `TypeAddress`, `ChooseInMenu` and `FollowLink` lead to a page, as App, the sidebar, the
  command palette and the links of the pages have it; `RoleChanges`, `ObjectChanges` and
  `Refetch` are the rest of the world. `settled` says that the menu or a link led
  to the page and that the role has not changed since. The conditions under which a page
  offers something differ from page to page, so the module is mostly tables: sets of
  records of a request and the permission, state or condition that goes with it. A role
  is any set of seeded permissions (`AccessAssumption`), since `role_permissions`
  refers to rows that only the seed inserts.
- **VmForm**: `CreateVmPage`: the node, the template, the rows of disks and NICs, both
  effects (`TemplateIs`, `Prefilled`), and `create` on the other side: its DTO, the node
  it picks and the pools it looks up on that node (`ValidRequest`, `Placements`,
  `OnNode`).
- **Entry**: `App` with `useSystemPhase`, `AuthProvider` and `ActivationPage` in front of
  a backend that is locked until it has been activated.

### Composed runs

`MCServices` (Ipam, Accounts, BackupPlans, Retention, Quotas, Alerting, LicenseLock,
LicenseServer, LicenseKey), `MCEdges` (TemplateCache, NodeFleet, Console, Assistant,
Firewall, Panel) and `MCVmOperations` (VmOperations, Access, VmForm) extend modules that
share no state and put them into one run: `focus` is chosen initially and says whose
actions a behaviour takes. The properties are those of the extended modules, so what a
run checks and what a theorem states is one definition.

## 4. The runs

TLC, two workers. All but the four runs that show a disagreement (section 7)
pass. `CHECK_DEADLOCK FALSE` everywhere: each model has a finite supply of calls
and stops when they are used up. Every property has a mutant in `PROJECT.json`, a
plausible bug in a mapped definition with which TLC finds the property violated.
Type invariants are not among the runs' properties: they are proved (section 6), but for
those of Accounts and Assistant, whose proofs carry the types that they need. LicenseKey, VmForm,
Access and Entry have no type invariant of their own.

| run | asks | bounds |
|---|---|---|
| task_queue | `FinishedJobHasFinishedRow`, `FailedOnlyAfterLastAttempt`, `KeepsPromise`, `JobSettles` | 3 attempts and 1 recovery as in the code, 2 executions, a backup task or a container task, either boot order, 2 crashes, 2 rejected writes; 312,000 states |
| vm_names | `DeletedVmIsGone`, `KeepsVmPromise`, `OnlyTasksDecide` | 2 rows with one name that are alike, 3 tasks of 2 attempts, slow provisioning; 1,074,000 states |
| vm_power | `RowFollowsDomain`, `RemovalSettles` | 1 VM, 3 tasks of any kind, slow provisioning, guests that pause; 447,000 states |
| license | `LicensedStateIsBacked`, `KeysAgree`, `RevocationTakesEffect`, `ActivationSettles` | 2 executions, 2 keys, 1 revocation per key, 1 restart, 1 rejected call; 505,000 states |
| sessions | `OneRowPerLogin`, `RevokedStaysRevoked`, `HeldTokenIsLive`, `TokensAreKept` | 2 tabs, 3 requests of which 2 at a time, 3 pairs of tokens, 2 logins or 1 login and 1 fault; 933,000 states |
| vm_operations | `PanelCoversNode`, `SuccessMeansAgreement`, `CompletedBackupWasCopied`, `OfferedIsAccepted`, `FormFits` | operations: 4 requests of 13 kinds, 2 attempts, 2 faults; pages: 12 roles on every page, a dialog left open; form: 2 nodes, networks and templates; 941,000 states |
| services | 11 properties of Ipam, BackupPlans, Retention, Quotas, Alerting, Accounts, LicenseLock, LicenseServer, LicenseKey | see below; 307,000 states |
| edges | 7 properties of NodeFleet, TemplateCache, Console, Firewall, Assistant, Panel | see below; 659,000 states |
| task_handler | `VmTaskReachesItsService` (violated) | boot order of the import graph |
| template_race | `CachedIsAlwaysVerified` (violated) | 2 parallel downloads |
| admin_refused | `AdminMayDoEverything` (violated) | the seeded roles on every page |
| activation_stuck | `LedOn` (violated) | 1 reload by the user |

Why the bounds are enough for what is asked:

- task_queue: attempts and recoveries have the values of the code, and two
  executions are what a job can have at once (the stalled one and the next).
  Tasks share nothing but executions and the handler field, so one task at a
  time (`OneTaskSpec`) with more faults finds more than two tasks with fewer;
  both kinds of task occur. Two crashes suffice to go from a normal job over a
  recovered one to one that has used up its recoveries.
- vm_names: a provision, a delete and the provision of the namesake, with one
  retry each, is the shortest history in which leftovers of the first VM can
  become the second; the three tasks may also be spent on two deletes or a
  start. A deletion that overlapped another command and one that passed over an error
  excuse the name alike, so the two together are not followed (`OneExcuse`). The rows are
  symmetric, and so is every property of the run, none of which is about liveness. With `MaySuspend` empty, `KeepsVmPromise` implies `ShownVmIsItself`,
  which is therefore proved but not checked a second time: a VM is complete when it is
  shown, and only a doomed one loses a part. vm_power trades retries for kinds: what a retry adds, a request that
  runs beside its successor, is in vm_names.
- services, addresses: 2 creates, 2 addNic, removeNic and deletePool on 2 VMs, 2
  pools and 3 addresses; three calls are needed to take an address from a call that took it
  from a third; pools and VMs are two so that calls of different pools or VMs
  are seen not to interfere.
- edges, nodes: two joins with one token are the race; a removal between them and
  a VM that is placed meanwhile fit into the two toggles (77,000 states).
- services, the others: two passes, evaluations or requests overlap, which is the
  shortest overlap, and the third copy, VM, installation or key character shows
  what the overlap left to the next. Intervals, cooldowns, windows and lifetimes are
  two ticks, so that there is a moment inside, at and after each of them; limits are
  one, so that they are reached; faults are one, at any statement, and restarts are
  among them. Key characters: five of CHARSET's, and the one outside, at three places,
  which covers every place (first, inner, last) and every pair of values up to
  the modulus.
- edges, images: two downloads race, the third one comes after them and meets what
  they left. Consoles: two requests race with one token, and a second token is
  minted for the same name. Firewall: two rules out of four kinds and two requests
  that overtake one another. Assistant: two plans of two steps, one with a backup, and
  two executions.
  Panel: each of its queries by itself, one change of the data at a time and one
  failing request, two sockets.
- vm_operations, requests: two kinds suffice for each drift, the other two requests undo or
  repeat it; with more than two at the same time nothing is claimed but
  `CompletedBackupWasCopied`, and three requests are made when there are faults
  (`RequestsUnderWay`). Requests are alike (symmetry). All thirteen kinds occur;
  two attempts are one failure and one retry, two faults a lost answer and a rejected
  write. Both targets of a backup occur.
- vm_operations, pages: the routes and pages are tables without parameters; a role is
  one of the seed's or one of nine small ones (`SomeGrants`), each with the permissions
  of one part of the panel and not those of the next, which tells apart a page that asks
  for one permission from a route that asks for another. One dialog is open at a time, as
  each is offered by itself (`DialogsOpen`). The form has two nodes, two networks and two templates, and two rows
  of each kind, so that there is always another choice to be left over from.
- license: executions overlap with one key and no rejected call; a second key and
  a rejected call come in when they run one after the other (`Modest`); two
  overlapping refreshes are what can reorder answers, two keys what can differ
  between environment and database, a restart and a rejected read what leaves
  the process without a key. The second execution starts beside the first one
  only, which loses nothing, since executions are alike.
- sessions: two requests of one tab or of two tabs are what can refresh with the
  same token; three pairs are a login and two rotations of it, or two logins and a
  rotation of one. The second tab gets its tokens from the storage and asks
  who it is; polls and logins are those of the first one, whose part the second
  could take, since tabs are alike. A poll that is authorized is left out
  (`Modest`), since it changes nothing.

## 5. Fairness

- `TaskQueue!Fairness`: the BullMQ worker picks waiting jobs whenever an
  execution is free, promotes delayed ones and runs the stalled check; `process`
  runs on, since every await in it resolves or rejects (the agent client has a
  timeout). Accidental stalls, crashes and faults are not fair. A job whose lock
  has no owner is found by the stalled check (`RecoverOrphan`).
- `VmLifecycle!Fairness`: the worker goes on, the agent carries out each request
  to an end (libvirt calls return, `Stop` has a deadline of a minute), the agent
  ticks, and the panel applies what it has received. That a client times out,
  a guest powers off or a guest pauses is not fair.
- `NodeFleet!Fairness`: the cron job fires, time passes, and requests that were
  sent are handled. An agent need not send anything.

- `License!Fairness`: executions run on (the fetch has a timeout of 15 s), the
  scheduled refresh comes every six hours, a started process boots, and time
  passes. The server need never answer, and no activation need be made.

- `PlanFairness` of BackupPlans (in `MCServices!ServiceFairness`): five minutes pass, the
  timer starts a pass when none is left over, and a pass goes on, since each of its
  awaits resolves or rejects. Faults, restarts and administrators are not fair.
- `Panel` (in `MCEdges!EdgeFairness`): a request is answered or fails, a query that
  is invalid or polled is read again while its page is open, which is what React
  Query's timer does, and an event that was sent arrives while its socket lives.
  No user need do anything.

- `Entry!EntrySpec`: reads are answered or fail, an activation is answered, and the timer
  of the redirection runs. Nobody need reload, sign in or activate.

The other modules state safety only and have no fairness. In the composed runs a
fairness condition asks for steps of the module in focus only.

## 6. The proofs

`TaskQueueProofs`, `VmProofs` (VmLifecycle), `OperationsProofs` (VmOperations, Access),
`SessionsProofs`, `LicenseProofs` (License, LicenseKey), `NodeProofs` (NodeFleet,
TemplateCache, Firewall), `ServiceProofs` (the modules of the run services) and `EdgeProofs` (Console, Assistant,
VmForm, Panel), checked by TLAPS for every value of the constants that satisfies the modules'
named assumptions (and, for TokenOpensOnce and PlanRunsOnce, that the life of a token and
the number of steps are natural numbers). Every inductive invariant was checked by TLC on
the instance of its run before it was proved.

**TaskQueue.** The properties are not inductive: that a failed row means a used
up job needs to know which execution may still write. `IInv` adds

- `IdleInv`: an execution has a task exactly when it is not idle;
- `LockInv`: who holds a lock executes that active job and has read its current
  `attemptsMade`; any other execution of the job has read an older or equal one;
- `CountInv`: every pick is paid for by a failed attempt or a recovery, or is the
  one under way;
- `EnqueueInv`: the job comes after the row;
- `SoleRunInv`: the execution of an undisturbed task is alone and holds the lock,
  and the row is what its last write left;
- `RestingRowInv`: the row of an undisturbed task that nobody executes;
- `EffectInv`: how often the handler has returned.

Each conjunct has its lemma, with one step per action; `Inductive` puts them
together, and `TypeCorrect`, `FailedIsFinal`, `RowAgreesWithJob`, `EffectOnce`,
`BoundedPicks` and `TerminalRowStays` (an action property) follow.

`ImplementsPromise` proves the refinement: under `IInv` every step of the queue maps
to a step of TaskPromise or to a stutter. The argument goes by action: most leave the
mapped variables alone; `HandlerReturns` is `CarryOut`, `MarkSucceeded` and the last
`CatchBlock` are `Report`, and every step that disturbs tasks is `Excuse`.
`SoleRunInv` is what makes the first two possible only once.

**VmLifecycle.** That a deleted VM has left nothing, and that a shown one is not its
predecessor, is decided by requests that the agent executes long after the panel has
given them up. `VmInv` says what they can still do:

- `RequestInv`: a request on the agent is that of a task that has been taken, which waits
  for at most one of them; one that nobody waits for ends without an answer;
- `CommandInv`: unless it was raced, a delete is the only command of its VM that has begun,
  it has one request, and nothing is under way once that has been answered;
- `NamesDiffer`: rows that exist have different names, which is the unique index;
- `OwnerInv`: disks and domain under a name belong to the VM that has the name;
- `ReachedInv`, `ShownInv`: a request at a place in its handler has done what comes before
  it, an answered task has done all of it, and a VM that is shown is on its node.

The last three are about the names whose deletions were orderly, which means that none
overlapped another command or passed over an error (`Orderly`), and whose guests are
never paused (`Calm`): an `Undefine` of a paused guest leaves a domain without definition
behind (section 7), so the unrestricted statement is false. `CalmDeletedVmIsGone` and
`CalmShownVmIsItself` say so name by name; with `MaySuspend` empty, as in the run, they
are `DeletedVmsAreGone` and `ShownVmsAreThemselves`. `TasksDecide` (an action property)
needs the types only: a report never writes a row that is being provisioned or deleted.

`ImplementsVmPromise` proves the refinement, for any number of VMs, names, tasks and
attempts and any set of names whose guests may be paused. To `VmInv` it adds `FreshInv`,
that a task that exists has a VM that was created. The argument goes by action:
`Create` is `Order`, `Remove` is `AskRemoval`; the `HandleCall` of a delete is
`BeginRemoval`, or `Excuse` when another command of its name is under way; `CreateDisks`
and `DefineDomain` are `Build`, `UndefineDomain` and `WipeDisks` are `TakeAway`;
`HandleReturn` is `Finish` after a delete and `Show` after any other command, if it changes
what is seen at all. Every other step changes nothing that VmPromise sees (`LifeStays` and the
lemmas after it). `PassOver` and what it leaves is `Excuse`, for the VM and for every other of its name.
`OwnerInv` is what lets `Build` find nothing of a namesake's, `ReachedInv`
and `ShownInv` what lets `Show` find the VM complete, and `CommandInv` what keeps an
abandoned request from taking anything away from a VM that is not doomed.

**VmOperations.** `OperationsInv` has four parts. `JobsOk`: what a job records fits its
kind and its phase; a call that the agent still executes has a lost call behind it, a
request without a task has one attempt and is over when its call is lost, and
migrations and clones are never answered. `CopyInv`: a restore is answered only if the
path of its backup is an image file, so that otherwise only a backup's own
answer completes its row (`BackupWasCopied`, under every overlapping of requests); and
`NodeInv`: nothing moves a VM. `AloneInv` speaks of requests that wait for each other:
one at a time is under way, late calls included (`OneAtATime`); the row that it was
checked against and the rows it has written are still there (`RequestsOk`); and where
panel and node differ, an unfinished job of the right kind explains it
(`SnapshotsAgree`, `SizesAgree`, `DriveAgrees`). `OutcomesEffects` says once what every
call of the agent may change of a domain, and the steps of the agent, in time
(`ServeAlone`) or late (`ServeLateAlone`), use nothing else of it. `PanelCovers` and
`SuccessAgrees` follow, the latter because resting jobs that have not failed explain no
difference. What does explain one for good is a revert, a restore from an image file
(`RestoresImage`), and a snapshot that was kept (`dom.kept`).

**Ipam.** `IInv` says that a transaction past its lookup has an address, that one
past its write holds the lock of the row, and that the committed row under a
create's lock has no owner. From it `AddressIsKept` proves `AddressStays`: of all
steps, only an `addNic`'s commit, a released or deleted NIC, a deleted VM or a
deleted pool changes an owner.

**NodeFleet.** A second join with the same token fails only because the name of
the node is unique, so `FleetInv` carries which joins have a node and that names
differ (`JoinedInv`, `NamesDiffer`). `OneNodePerToken` and `HostsExist` follow; the
latter rests on the foreign key from VMs to nodes alone, not on the count that
`remove` makes before it deletes.

**TemplateCache.** As long as at most one call is under way at a time (`~shared`),
`CacheInv` says that this call owns the inode behind `.part` and that every block
up to its offset is the one it has read; `.part` and the cached name never refer
to one inode (`NamesInv`, `OffsetInv`, `AloneInv`). `LoneDownloadIsVerified`,
`SuccessHasImage` and `CacheIsNotTruncated` follow; what happens when calls overlap
is shown by template_race.

**Sessions.** `OneRowPerLogin` and `RevokedStaysRevoked` are not inductive: while a
refresh is between its delete and its insert, the session has no row at all. The
proof gives every session one turn: either a row has it or one request that is
between the two (`TurnInv`), and nobody has the turn of a revoked session.
`IssuedInv` and `SentInv` say that all tokens anybody holds have been handed out
and that a request that refreshes carries one. The argument never uses how many
requests or tabs there are. `LoginHasOneRow` and `RevocationIsFinal` follow.

What a browser holds takes two more invariants, about undisturbed sessions. `LiveInv`: at
most one request refreshes the session, for the only tab that holds it, and finds the row;
whoever holds a token of the session, in a tab or in the storage, holds the one with the row, or
such a request is under way; what makes a refresh fail has disturbed the session
(`ExcuseInv`). `KeptInv`: what a request carries at each place (`CourseInv`), and that the
tab of a request that refreshes still holds a token of that session or is excused, and that
a tab that shows nobody while it holds a token waits for who that is (`PageInv`). They
give `HeldTokensAreLive` and the action property `UndisturbedTokensAreKept`.

**Services.** Each proof says what a pass, an evaluation or a request that is under way
has read and what is true of it since.

- `RulesStaySilent`: an entry that an evaluation has read before the rule fired again
  promises that no more of the cooldown is left than what it has read, less the minutes
  since (`Promised`).
- `LockFollowsPhase`: what the cache holds, and what a read under way will put there, is
  no older than the TTL and the time of a read allow.
- `PlansAreSpaced`: the date of a recorded run is not before its time (`DateIsRight`), and
  what a pass has still to start is over its time (`HandIsRight`), or it is excused.
- `RetentionKeepsNewest`: a row is listed, and deleted, only below `KeepLast` newer rows that
  retention has not pruned (`Covered`); deleting a listed row takes none from those above
  any other, for any number of prunings at once.
- `AdmissionOverrun`: what a bucket has admitted in the last n ticks is at most what the
  current window has counted, and `RateMax` more where the n ticks reach over its start
  (`Room`, `WindowIsCounted`); for n as long as a window that is twice `RateMax`, which
  the fixed window really admits.
- `QuotaOverrun` and `ActivationOverrun` are inductive as they stand; what they need are
  lemmas about how the cardinalities of what is made and what is under way change with a
  step, and, for the license server, about what a bucket has counted.

**Firewall.** `ChainMeansItsRules`: whatever requests overtake each other, the chain is what
was rendered from one list of rules in the order of their priorities (`FirewallInv`); so the
first line that matches a packet is made from a rule of the lowest number that speaks of
it, or is a policy line.

**Console, Assistant, VmForm.** `TokenOpensOnce`: a token is in one place at a time: not yet minted, in
the agent's map, or taken by one upgrade (`TokenInv`); that the lookup and the delete
are one step under the mutex is what the step of `TakeToken` uses. `PlanRunsOnce`: a
plan is confirmed by at most one execution because the card leaves `pending`
before the request is sent; the execution has carried out exactly the steps before
its `next`. A plan that is reported
has had all its steps done once, its backups as rows only. `FramesAreReadBack`: of the
length the field has the low 32 bits (`server.go:656-660`), so a frame below 2^32 is read
back with its length and a longer one with its length modulo 2^32. `FormAlwaysFits` carries
that every row could be chosen now (`FormInv`: each disk has a pool of the node chosen,
each NIC one of its own network) through every edit of the form, for any number of rows.

**Panel.** `OpenPageIsRead` is what safety can say of `PanelCatchesUp`: an open page that is
behind what it has to show is polled, is being read, or an event that invalidates its query
is on its way to a socket that is connected (`BehindIsRead`). It needs the tables:
whatever a mutation changes and a query without polling shows is shown under a key that begins with one
that the mutation invalidates, but for `Panel!Gaps`, and likewise for the events
(`MutationsInvalidate`, `EventsInvalidate`). `PanelInv` adds that a read under way finds nothing
older than what is shown (`LatestInv`), what a page that is closed will be read for (`ReasonInv`), and
that TasksPage never takes the last socket with it while the line holds
(`SocketInv`). What is left to TLC is that the reads and events do arrive. `BehindIsRead` and
`PanelInv` were checked on an instance of their own (2 changes, 2 sockets, 1 failing request).

**Accounts.** `SpentIsRefused`: a token that has done its work is gone, and no
request that was not there before it was spent can be working with it
(`TokenInv`). `SeedingCompletesRoles`: a permission of a system role is there or still to
be granted (`SeedsRemain`), and a role with the name of a system role is one, so
`updateRole` and `deleteRole` refuse it (`SystemOnly`).

**License.** `LicenseInv` is the type invariant with what each place of an execution
knows (`PlaceInv`). `KeysStayTogether`: as long as no activation begins beside another
execution, at most one is an activation (`SoleActivation`), the phase is `activating`
until it has called `setActive` (`BeforeActive`), and nobody is then about to copy
the stored key into the environment (`NobodyCopies`); so the key that `setActive` stores is the one
that it has put there (`KeyIsKnown`). `StateStaysBacked`: every refresh under way beside another is
marked (`OverlapInv`), and one that is not is about to assign what the cache holds
(`AnswerInv`); grace periods and rejected upserts do not change that. After a
restart nothing runs before the phase has been read (`BootInv`).

**LicenseKey.** `TypoIsCaught`, for every length and every number of characters: two keys
that differ in one place have sums that differ by the difference of two
values, which is less than the modulus except between the last character and one outside
CHARSET. That the sums agree elsewhere is an induction over the key; it is made without
an induction theorem, by taking the least place where it fails (`LeastOf`, `EveryNatural`).

**Access.** `PagesAgree`: no role is ever granted `vm.manage`; once a user was led to a page,
the panel knows his permissions as they are and the menu or the link has looked at the right
one (`AccessInv`, `Led`). What is left is one lemma per page: whatever the page asks or
offers under these permissions and this state, the route lets through and the service
accepts, apart from the exceptions that section 7 lists (`Gaps`) and from a dialog that was
left open (`LeftOpen`), whose route lets the user through while the service refuses.

**Only model-checked:** liveness (`JobSettles`, `RemovalSettles`, `RowFollowsDomain`,
`SilentNodeGoesOffline`, `RevocationTakesEffect`, `ActivationSettles`, `RunsForEver`,
`PanelCatchesUp`), which is out of the prover's reach. Every invariant and every other
action property of the runs that pass is a theorem, and so are both refinements. `LedOn`,
`AdminMayDoEverything`, `CachedIsAlwaysVerified` and `VmTaskReachesItsService` are false.

## 7. Disagreements between code and documentation

Four are runs that TLC violates; `PROJECT.json` quotes the lines.

1. task_handler: one handler field, two services that register; the VM tasks
   end up at the container service.
2. template_race: parallel downloads of one URL put a broken image into the
   cache for ever.
3. admin_refused: `vm.manage` is required by the routes for migration, ISO images,
   NICs, PCI devices, metadata, containers and backup schedules, but is not among the
   seeded `PERMISSIONS` (`seed.service.ts:5-25`), and a role can be given seeded
   permissions only. In a seeded installation nobody is let through.
4. activation_stuck: after an activation, ActivationPage announces that it leads on and
   changes the path, while `useSystemPhase` has read the phase once and for all
   (`App.tsx:44-72`), so the page stays until the user reloads it.

Others were met while modelling and are recorded here:

- A provisioning that outlasts its timeouts in every attempt succeeds on the agent,
  while the row stays `provisioning`, which no heartbeat repairs
  (`nodes.service.ts:144`; `docs/ARCHITECTURE.md:35-36`).

- `SnapshotDelete` takes any error of its look-ups, a lost connection to libvirt as well, for
  a snapshot that is "bereits weg" (`manager.go:251-258`): the panel deletes the row and the
  node keeps the snapshot. `PanelCoversNode` excepts such a deletion (`dom.kept`).
- The agent ignores errors of the removal of the volumes (`server.go:301-305`) and of looking
  up and destroying the domain (`manager.go:213-219`), while `docs/API.md:22` promises a
  deletion with the volumes: what stays is taken over by the next VM of the name.
  `DeletedVmIsGone` and `KeepsVmPromise` except such a deletion (`skipped`).
- For `vm.backup.create` the assistant's executor inserts a row with the state `running`
  and enqueues no task (`action-executor.service.ts:78-83`): the plan is reported as carried
  out, and there is no backup, where `capability-registry.ts:135` has one made.
  `PlanIsCarriedOutOnce` counts such a step as called and never as carried out.
- The next heartbeat ends maintenance: it writes `online` whatever the state was
  (`nodes.service.ts:123`), while the panel says that the node has been put into
  maintenance and offers to end it (`NodeDetailPage.tsx:115,130`).
- A refresh that is refused clears whatever tokens the tab has by then, and the
  storage with them (`client.ts:26-29`): two requests that get their 401 at the
  same time, or two tabs, can sign the user out although one of them has been
  given a new pair. `TokensAreKept` therefore excepts such sessions.
- `tryRefresh` treats every status that is not a success alike, so an error of the
  database or the limit of 30 refreshes a minute also signs the user out; and a
  broken connection, a 429 or a 5xx during `/auth/me` at page load clears tokens that are
  good (`AuthContext.tsx:28`). `TokensAreKept` counts both as disturbances.
- The target directory of a backup is not validated (`backups.controller.ts:9-11`): when it
  names a disk image that is on the node, the backup fails, but its restore replaces the
  VM's disk by that image and writes `completed`.
- A revert does not touch `row.iso`, nor any size in the rows: after a snapshot, a mount and
  a revert the panel shows an ISO that is not in the drive (`vms.service.ts:454-456`).
- Signing out clears the tokens in the browser without calling
  `POST /auth/logout`, so the row stays until it expires, and it stops no request:
  the answer to a refresh that is under way stores tokens again
  (`AuthContext.tsx:56-59`).
- A revocation that comes between the delete and the insert of a refresh finds no
  row and has no effect (`auth.service.ts:184,205`). `RevokedStaysRevoked` speaks of
  sessions that had a row.
- The settings ask whether to revoke all *other* sessions (`SettingsPage.tsx:318`);
  `revokeAllSessions` revokes the caller's own as well.

- A paused domain is not destroyed by `Undefine` (`virt/manager.go:211-223`): it
  loses its definition, goes on as a transient domain, and its volumes are
  deleted under it. `DeletedVmIsGone` is refuted with `MaySuspend = {"web"}`.
- `deletePool` counts and deletes in two statements
  (`networks.controller.ts:121-123`); an address assigned in between is deleted by
  cascade. `AddressStays` therefore excepts pools that are gone.
- `addNic` finds a free address and writes it by its id only (`vms.service.ts:546`), where
  `create` asks again (`:134-138`), so it takes an address that another call has
  been given in between; `docs/ARCHITECTURE.md:193` has the assignment race-free. In
  Ipam an `addNic`'s commit is therefore among the steps that `AddressStays` lets
  change an owner. The route needs `vm.manage`, see 3.
- Two `removeNic` calls remove the last two NICs of a VM
  (`vms.service.ts:556-559`), each of which has counted two.
- A node that never sent a heartbeat has no `lastHeartbeatAt` and is skipped by
  the watch (`nodes.service.ts:237-242`), also when `setMaintenance(false)` has
  made it online.
- The job id contains the id of the new task (`tasks.service.ts:90`), so it never
  recognises a repeated command as `docs/ARCHITECTURE.md:85` has it.
- The payload of a clone task has no `vmId`, so `handle` fails at its first
  lookup (`vms.service.ts:165-205`, `375`).
- `migrate` sends `targetAddress`, the agent reads `targetHost`
  (`vms.service.ts:217-226`, `server.go:794-873`).
- Cron schedules enqueue `vm.backup` without a `vmId`
  (`cron-runner.service.ts:16-48`).
- An activation that fails locks a panel that was active with another key
  (`license.service.ts:233`); `docs/LICENSE-INTEGRATION.md:18` promises a fail mode
  that degrades and never takes more than writes.
- The panel sends `nodeFingerprint(s)` and `panelInstanceId`; the license
  server's schemas require `installId` and `fingerprint(s)`
  (`license-server/src/main.ts:32-56`), so every call is answered with 400.
- The comments of the rate limiter speak of a sliding window and three calls per
  hour; the code has a fixed window and ten (`rate-limit.ts:2`, `handlers.ts:47`).
- The license server answers validations of a deactivated installation as before, and
  `activate` on an existing activation does not look whether it was deactivated;
  `handleValidate` overwrites `revoked` with `expired`.
- Backups: `create` inserts the row before it enqueues, so a failing enqueue leaves a
  row `running` for ever, and nothing writes `BackupState.failed`
  (`schema.prisma:433`). Deleting the row while its task runs makes every retry copy
  again. Two prunings that overlap meet a row that is gone, and the finished
  task is tried again. A crash between enqueue and the write of the next date, or
  two passes that overlap, run a plan twice; a new plan has a `nextRunAt`, but its
  first run does not wait for it, because `lastRunAt` is null.
- A cron plan whose expression cannot be parsed is enqueued at every pass for ever.
- Alerts: a crash after `firedAt` loses the notification for the cooldown; the
  webhook chosen in a rule is not used; passes that overlap notify twice.
- Quotas: `resize` and `clone` (`vms.service.ts:165-205`) are not checked, so that nothing
  bounds the machines a user has by cloning; an administrator who creates for somebody else
  is checked against his own quota.
- Two `resizeDisk` calls that overlap can leave the row with the smaller size;
  `UnmountISO` ignores its errors; a second `mountIso` always fails; two deletions of a
  snapshot can delete its namesake.
- A console token of a deleted VM opens the console of a new VM of the same name.
  `wsReadFrame` says that pings are ignored; their payload is forwarded to VNC.
- Firewall: rules of a stopped VM are not applied when it starts; `Flush` uses another
  chain name than `Apply`; two changes can be applied in the wrong order
  (`ChainMeansRules` therefore speaks of the rules a chain was made from); errors of nft
  are logged only; a tcp or udp rule without a port is not valid nft, so the whole
  script is refused. The model takes the chain's name for valid.
- Roles: nothing keeps the last administrator; a role that an administrator has made
  with the name of a system role of a later version is completed by the seeding, but
  not protected. A change or reset of the password revokes no session.
- Assistant: the server never deletes an executed plan; the card says that a plan was
  executed when it had expired or failed; steps skip the permission guards of the
  routes they stand for; `AiDiagnoseCard` sends a resource type that the DTO rejects.
- Pages (Access's `Gaps` and `CarelessLinks`): Dashboard, NewVm, NewContainer and Storage
  ask for lists of machines, nodes and networks that the user need not be allowed to
  see; the list of containers shows start and stop with `vm.power` while their routes ask
  for `vm.manage`; the assistant opens for everybody; the card of a new API key starts
  with the scope `vm.read`, which its owner may lack; the diagnosis of a container has
  no route. Links from a node's machines and after a creation lead to pages that refuse to
  read.
- The dialogs of VmDetailPage for clone, migration, resize and passthrough stay open and
  usable when the VM is started meanwhile; the service answers 400
  (`vms.service.ts:168,219,249`).
- `VmListPage` starts, stops and deletes every id that was selected, those included
  that a filter hides since (`VmListPage.tsx:62-76`).
- `CreateVmPage`: the entry for no template cannot be kept, as an effect chooses the
  first one again (`:53-55`); a second NIC without a network is sent and refused (400);
  when the first disk is removed, the next one is not made as large as the template asks;
  a node that went offline stays chosen while the select shows another entry.
- `AuthProvider` throws the tokens away whatever made `/auth/me` fail, the 503 of a locked
  installation included (`AuthContext.tsx:28`), which `locked.guard.ts:13-16` says the
  frontend can tell from other errors.
- Panel: Layout and TasksPage share the module's `socket`, so leaving TasksPage
  disconnects the newest socket and one leaks, which stays connected after sign-out; a
  socket that breaks after its access token has expired does not come back;
  mutations with `onSuccess` only leave the page stale when the answer is lost; the
  cache outlives the sign-out; `Panel!Gaps` lists mutations that invalidate
  nothing their page shows.

## 8. Not modelled

- Containers, but for their routes and pages (Access): the panel sends `osTemplate` and `vcpus`, the agent requires `template`
  and `cpus`, so every provisioning is refused and no container is ever started.
- The storage and ISO catalogue, API keys, audit log, settings and mail: single
  statements on tables that nothing else relies on; their routes and pages are in
  Access, their queries in Panel.
- The agent's metrics: reads of `/proc`. PCI devices, port forwarding, the expansion of
  CIDRs and cloud-init documents: data that no other state depends on.
- Certificates (`certs.service.ts`) and the install scripts: run once, from top to bottom.
- The markup and the fields of forms other than CreateVmPage's: what they send is
  checked field by field by the DTOs.
- Liveness is not proved (TLAPS has no ENABLED); no module of the project has a
  RECURSIVE operator.
- Volumes, seed ISOs and backup copies as files: VmLifecycle and VmOperations know
  whether they exist and how large they are.

Abstractions to keep in mind: VmLifecycle has one node and takes VmsService to be
the handler (task_handler is about what happens otherwise); a heartbeat entry is
applied at any later time, any number of times out of order; a create has one
disk and one NIC; libvirt is described by what the agent's calls rely on.

## 9. Plan

Done: the modules of section 3, their runs, and the proofs of section 6. What is
left, in order:

1. Proofs: type correctness of Accounts and Assistant; a safety property of Entry.
2. VmOperations with a removal of the VM, and with two nodes for migrations once the
   agent reads the host it is sent.
3. `expandCidr` against a reference definition; containers when they can start.

# A verification of karbon

karbon is a Rust web framework (`src/karbon-framework`), its command line tool
(`src/karbon-cli`) and a macro crate (`src/karbon-macros`). This directory holds TLA+ models of
what the three keep, decide and write, TLC configurations that check them on small instances, and
proofs, checked by TLAPS, of what holds for instances of every size.

`PROJECT.json` is the machine-readable index: components, runs, the source lines behind every
definition (`map`), the mutations each property is known to catch (`mutants`), hazards, findings
and theorems.

## 1. Inventory

Paths are relative to `src/karbon-framework/src` (F) or `src/karbon-cli/src` (C).

### Tasks, processes and machines that share something

| component | state | operations | what is hard | what makes it correct |
|---|---|---|---|---|
| Durable job queue, F `job/persistent.rs` | the table `_karbon_jobs`; what each worker read | `push`, the loop of `start`: select, claim by delete, run, re-insert | other workers between the statements; crashes; an answer that is lost after its effect; panicking handlers | a job is in one place, runs at most `max_attempts` times, oldest first, and ends |
| In-process job queue, F `job/mod.rs` | channel of 256, semaphore, a task per job | `push`, dispatcher, retries, drop, `shutdown` | jobs that push jobs; a full channel; the order in which senders are dropped | permits conserved, executions exact, every job ends, shutdown returns |
| Message bus, F `message/mod.rs` | map of handlers, channel, semaphore | `handle`, `dispatch`, `dispatch_async`, retry per handler | registration while messages are under way; failing and panicking handlers; the end of the last clone | every registered handler gets its turn, permits conserved, every message ends |
| Event bus, F `event/mod.rs` | list of handlers behind a fair lock | `on`, `emit` | the lock is held across the handlers, which use the bus themselves | an emission sees one list; every call ends |
| WebSocket channels, F `channel/channel_registry.rs` | shared map of rooms, shared broadcast ring, each connection's own set | join, leave, publish, broadcast, select/abort/cleanup | two sets under two locks; abort is a request; a slow receiver is overtaken | the two sets agree, no gaps in a stream, no half-open connection, no ghosts |
| Tagged cache, F `cache/store.rs`, `cache/memory.rs` | map with expiry; an index entry per tag | `remember`, `set_tagged`, `invalidate_tag`, ... | read-modify-write of the index; index and keys expire separately; callers dropped at an await | invalidating a tag reaches every key that has it |
| Image resizer, F `storage/img_resizer.rs`, `storage/thumbnail.rs` | cache directory, `.failed` markers, semaphore | read the URL, redirect, look-up, wait for a slot, process on a blocking thread, answer; crop, resize, turn, stamp | client leaves, blocking task does not; variants written in place; timeouts; names made from paths; rounding | slots conserved, no half-written variant stays, a picture is what its URL asked for, of the file it named |
| Maintenance mode, F `http/middleware/maintenance.rs`, C `commands/maintenance.rs` | a flag, a file, a one-second cache in two atomics | request, `set_maintenance`, `maintenance on/off` | relaxed atomics read and written by all server threads | traffic follows the file within a second, and in the end |
| Rate limiting, F `http/middleware/rate_limit.rs` | one map behind a mutex | request | reset of the window, sweep of the map | the limit holds across resets and sweeps |
| CSRF protection, F `http/middleware/csrf.rs` | none; the browser's cookie | a cookie with an answer, the check of a request | several requests of one browser under way | own forms go through, those of other sites only if they are named |
| Debug sessions and Studio, F `http/dev_mode.rs`, `studio/middleware.rs`, `studio/handlers.rs` | a cookie, a token per start | open, close, inject the toolbar, two guards | shared caches, copied cookies, restarts | nobody is in who was not let in |
| Studio's collector, F `studio/collector.rs` | bounded lists, totals, a broadcast ring | record, read, clear, follow | the broadcast comes after the lock | no record is missed, none comes twice |
| Mail, F `mail/mailer.rs`, `template/engine.rs` | a mail being built; the loaded templates | the builder's calls, render, load, send | templates read again, file by file, while others render | the mail is what was asked, of one reading of the templates |
| Uploads, F `storage/upload.rs`, `storage/mime.rs` | fields of a request, files on the disk | check and store field by field | a refusal after some files were written | files are what their names say; the answer is the disk |
| Admin pages, C `commands/generate.rs` with F `form/` | rows, open tabs | list, edit, save, delete | a row changes or goes while its form is open | a field nobody touched stays as it was |
| `karbon migrate`, C `commands/migrate.rs` | migration files, schema, tracking table, entities | `up`, `rollback`, `diff` | invocations that overlap or break off between two statements; diffs over pending files | the tracking table is true, in order, each file once; tables follow the entities |
| `karbon deploy publish`, C `commands/deploy.rs` | files and process of each target | sync, stop, start, wait for health | every step may fail on any target; processes die and come back | one target down at a time; those behind run the new build |
| `karbon dev`, C `commands/dev.rs` | last modification time seen, two child processes | build, watch, reload | saves during a build; children that die | the last save gets built |
| `karbon generate`, C `commands/generate.rs` | the files of a project | the writes of four generators | stopped or refused between any two writes, and given again | the project builds; what was wired stays, once |

### Decisions and texts, made anew each time

| component | what it computes | what is hard | what makes it correct |
|---|---|---|---|
| Roles, F `security/role_hierarchy.rs`, `role_file.rs`, `security_yaml.rs`, `security_toml.rs` | the hierarchy of a file, the roles of a user | two hand-written readers; cycles | the file is the hierarchy, or refused; reachable roles are granted |
| Access control, F `security/firewall.rs`, `guard.rs`, `jwt.rs`, `util/http.rs` and the `#[controller]` macro | may this request reach this handler | a path that rule and handler read differently | whoever arrives had what all the rules ask |
| Client addresses, F `util/http.rs`, `http/middleware/client_ip.rs`, `http/proxy.rs` | the client of a forwarded request | lists that the client began; a second server | the address is that of a real connection |
| Application, F `http/app.rs` and its layers | the order of a start and of the layers | what one layer answers passes only those outside of it | an answer leaves whole; only a complete server serves |
| Native templates, F `template/native.rs` | pieces, tags, expressions, pages | three hand-written readers; inheritance and includes without memory | taken whole or refused; escaped once; the most derived block; an end |
| Database access, F `db/builder.rs`, `select_builder.rs`, `paginated_query.rs`, `pagination.rs`, `query.rs`, `repository.rs` | statements and their arguments | text and arguments are made apart; rows and count are two statements | values arrive where they were put; pages cover the list; deleted rows are unseen |
| Derives, `src/karbon-macros/src/lib.rs` | statements for a struct | loops at compile time and at run time must agree | each column gets its own field |

Not modelled: the scraper, hot reload, file and Redis stores of the cache, cryptography, the small
middleware, validation, filters and translations, Livewire and Inertia, configuration and utilities,
the other commands of the CLI. Section 7 says why.

**Interactions.** Most components only meet in the application: they share no state. The two queues
and the resizer rely on the same external component, `tokio::sync::Semaphore`, which is modelled
once (`TokioSemaphore`), as does the message bus. The tagged cache calls the memory store, call by
call. CLI and server meet in the maintenance file, in the migration table, and in the pages that
`generate` writes and the server runs. Roles are what access control grants by; the address that
`ForwardedChain` decides is the key of the rate limiter and of the debug sessions; the token of
Studio goes into pages through a layer whose place `Application` models.

## 2. Modules

| module | role | rests on |
|---|---|---|
| `JobCustody` | abstract specification: what a durable queue promises | |
| `PersistentQueue` | durable queue; implements `JobCustody` | `INSTANCE JobCustody` with a refinement mapping |
| `PersistentQueueProofs` | theorems of `PersistentQueue` | |
| `TokioSemaphore` | external: permits and the line of waiters | |
| `JobQueue`, `MessageBus`, `ImgResizer` | in-process queue, message bus, resizer | `TokioSemaphore` |
| `PictureUrls`, `PictureSizes` | the URLs of the resizer, and the sizes of its pictures | |
| `EventBus` | event bus, with tokio's fair lock | |
| `ChannelRegistry` | WebSocket rooms | |
| `TaggedCache` | cache facade over the memory store | |
| `MaintenanceGate`, `RateLimiter`, `CsrfProtection` | three HTTP layers | |
| `ForwardedChain`, `RoleHierarchy`, `AccessControl`, `Application` | addresses, roles, access, the server around them | |
| `StudioAccess`, `StudioCollector` | who sees Studio, and what it shows | |
| `TemplateParser` | reading of templates: pieces, tree, expressions | |
| `TemplateRenderer` | registration and rendering | the tree of `TemplateParser` |
| `Mailing`, `Uploads` | mails and stored files | |
| `SqlBuilders`, `PaginatedQuery`, `CrudRepository`, `EntityMacros` | the four writers of SQL | |
| `AdminPages`, `ProjectGenerator` | what `karbon generate` writes, and its writing | |
| `SchemaMigrations`, `SchemaDiff`, `RollingPublish`, `DevSupervisor` | the operator's commands | |
| `MCInProcess`, `MCRealtime`, `MCContent`, `MCHttp`, `MCOperations` | the side-by-side specifications, with values for TLC | |
| `InProcessProofs` | theorems of `JobQueue`, of `MessageBus` and of `MCInProcess` as a whole | lemmas of `TokioSemaphore` |
| `RealtimeProofs`, `OperationsProofs` | theorems of `MCRealtime`, `MCOperations` | |
| `GeneratorProofs` | theorem of `ProjectGenerator` in `MCOperations` | |
| `HttpProofs`, `HandlerProofs` | theorems of `MCHttp`: of the gates, and of what handlers keep and share | lemmas of `TokioSemaphore` |

Operators named `X_Something` next to an operator `X` are variants with a plausible bug (a dropped
guard, a missing reset, a swapped order). No specification uses them; each one shows that a
property can fail (`mutants`).

**Side by side.** Components that share no state are put into one run: a variable `part`
that never changes picks the component a behaviour is about. One component of the run
keeps its own variables where the module is extended; the others use `u1`, `u2`, ... for theirs
(`INSTANCE ... WITH lines <- u2`), which are 0 where a component has no use for them. The state
space is the sum, not the product, and no property can tell the difference, because nothing is
shared. Each property of such a run is the conjunction of what its component promises, with the
component's type invariant; the conjuncts carry their own comments in the component's module. An
`ASSUME` of the MC module evaluates the assumptions of all instances. Where theorems are about the
parts, their constants are constants of the MC module, given in the `.cfg`: TLC checks one value of
them, the theorems speak of all.

### How state and actions correspond to the code

*PersistentQueue.* `table` is the set of rows, `nextId` the database's counter, `worker[w]` the
statement the loop of worker w will run next with the row it has in its local variables. `Select`,
`Claim` (the `DELETE` whose `rows_affected` decides), `HandlerOk/Err`, `Requeue` (the re-`INSERT`
whose result is discarded) and `Wake` are the statements of `process_one` and of the loop.
`Failure` is everything that goes wrong in one loop: a failing statement, a `DELETE` that took effect
while its answer was lost, a panicking handler (the spawned loop ends). `Crash` stops any set of
loops at once, because a process may have called `start` several times; `Restart` spawns each of
them again. `takenBy` is a history: the kind of fault that found a job with a loop it hit.
Payloads are left out; the KIND of a job is reduced to "has a handler or not".

*JobQueue.* `channel` is the mpsc channel, `dispatcher` the task of `new`, `phase[j]` and
`attempt[j]` the task of a job. `SenderAlive` tells who still holds a sender: that decides whether
`recv` returns `None`. A job may push other jobs from its `execute` through a shared handle.

*MessageBus.* `Handle` registers, `Call` and `Send` are the two ways to dispatch, `Receive` spawns,
`Snapshot` reads the handlers (after the permit, in the background), `CallOk/CallErr/Retry` are
`run_with_retry`. A panic ends the task, which gives back its permit. `CallerGone` is a synchronous
dispatch whose future is dropped.

*EventBus.* A call (`on` or `emit`) of a task or of a handler joins the line of the lock, is
admitted (readers together, a writer alone, in the order of the line), and an emission holds the
lock until the calls that its handlers make have ended (`calls[i].runs`).

*ChannelRegistry.* A connection is `reader` (`recv_task`), `writer` (`send_task`) and the handler
that selects between them. `Join`/`JoinRoom` and `Leave`/`LeaveRoom` are the two halves under two
locks. `log` with `cursor` is the broadcast ring: a receiver more than `Buffer` behind gets `Lagged`.
`aborted` is the request to stop; `Stop` is the await where it takes effect.

*TaggedCache.* One store call is one step; `op[c]` is the operation of a caller between two calls,
with what it read. `CallerGone` gives an operation up at an await. A tag's index is an entry of the same
store, with a time to live. The history variable `exposed` names the keys whose index was rewritten
or removed by a caller that had read an older one, or rewritten with a shorter time to live.

*ImgResizer.* A request is a handler (`req`) and, from `Process` on, a blocking task (`thread`).
`Create`, `Written`, `Breaks` are the task's file operations, `Succeeded`/`Failed`/`Panicked` what
the handler does with its result, `ClientLeaves` the drop of the handler at an await, after which
the task goes on alone. Names, formats and pixels are left out; a variant is a model value.
*PictureUrls* is what comes before: a client asks for a spelling, is refused, redirected (`RedirectTo`)
or answered, from the cache or by a `Process` of one step. A number is its value and whether it is
written plainly, a path its letters. *PictureSizes*: calls on a processor in any order, then the
steps of `apply`; quotients that floating point may round either way have both results, and a share of
nothing is what a cast makes of `NaN` or infinity (`Rounded`, `Raised`).

*MaintenanceGate.* One step per atomic access and per `stat`. `ordered` says whether the machine
shows relaxed accesses in program order; on one that does not, a thread's two stores can be seen in
either order and the second load may return what the first would have. Times are ages.

*RateLimiter.* One request is one step, since everything happens under the mutex; `store[ip]` is
the count and the age of the window. The history `accepted` has an entry for each request let in
within the length of a window, told from the others by its age and a number.

*RoleHierarchy.* `files` is which of the two files the start finds, `lines` the file as it is read,
a line being what it says (entry, item, section, ...), `parser` the local variables of the readers,
`search` the stack of the depth-first search, `app` the outcome and then the roles of one user.

*AccessControl.* A path is a sequence of bytes, each plain or escaped, and goes through the
firewall's canonical form, the first rule that matches, the guard and the macro's checks, one step
each. The property decodes the path once more as a file server does, of a system where a backslash
separates and of one where it does not, and asks what the rules say of that file.

*ForwardedChain.* `wire` is the request on its way: the addresses of all its `X-Forwarded-For` headers
in one list, and how many of them the first header has; `hops` the connections that were really made.
The steps are the hops before the application, the decision, the normalising middleware, the
reverse proxy, which reads the first header only (`lost`), and the decision of the server behind.

*CsrfProtection.* The browser sends, the server answers, answers arrive in any order and set the
cookie; `page` is what the script of an open page read.

*Application.* `stage` walks through the steps of `serve`; then one request at a time walks inwards
through `Layered` (the layers in the order in which the calls of `layer` nest them) until one of
them answers, and the answer walks outwards; `response.with` is what the layers put on.
Where a layer is not configured, nothing happens.

*StudioAccess.* `active` and the two guards are the code's; `browsers`, networks and a cache that
stores what it may are the environment. `answer` keeps what Studio let in last, with what the request
showed; `grants` and `was` are histories (which sessions were opened with the key, and in which starts a
browser was in debug mode). *StudioCollector.* `RecordOne` is the critical section,
`Broadcast` the send after it, the dashboard subscribes, reads the totals and follows the ring.

*TemplateParser, TemplateRenderer.* The recursive descents of the code are explicit
stacks: one token, one piece, one part of an expression, one node is one step. A token knows whether
its expression can be read. What a page is given is `x`, with a value made of `MCItems`; a frame sees it
in its `scope`, where a loop adds its variable and what it says of itself (`scope_with_loop`). The
templates are registered one after the other (`Sources`). History keeps what each expression `meant`.

*Mailing.* A call of the builder is a step; `engines[h]` is a clone of the engine, which loads the
files of `disk` one by one into a new set and puts it in place of the old one, or not. A mail of a
template may name an address to be from, each of its two renderings may fail, and what the server took
carries both (`rendered`).
*Uploads.* A field is read, judged and written in two steps (create, write). A file is the set of
signatures its bytes carry.

*SqlBuilders, PaginatedQuery, CrudRepository, EntityMacros.* A statement is its pieces with the
numbers of their placeholders, the arguments are apart, and the properties put the two together as a
driver does. *SqlBuilders*: calls in any order, then
`execute`. *PaginatedQuery*: one list with its filters, the rows, the count, which may fail, and a client that
follows `has_next` while others write. *CrudRepository*: every method, on rows that may be deleted
softly. *EntityMacros*: the loops of the derives over the fields, and an instance of the struct.

*ProjectGenerator.* A command is the row of its writes (`Plan`); each looks at what is there, then
writes; it may be refused or cut short, which the export of `crud` swallows (`Swallows`); then the next
command is given. A source is compiled when it is declared on the way from `main.rs` (`InCrate`), and
`early` keeps the admin pages that came before the repository that implements what they call. *AdminPages.* Tabs open
forms, forms are sent, rows change in between; `Shown`, `InInput` (an input of one line drops line breaks),
`ParsesAs` and `base_coerce` are the conversions.

*SchemaMigrations.* A script is a number of statements; `schema` holds those in effect. `Select` is
the read of the tracking table, `Execute` one statement, `Record`/`Forget` the tracking statement.
`Strict` files fail when repeated, `Unsafe` ones have a name that `validate_version` refuses.
`trouble` and `half` are histories that say what has gone wrong so far. *SchemaDiff.* Entities are
edited, compared with the tables, and the file that results is applied and rolled back, on the three
databases.

*RollingPublish.* `tree[h]` is what lies in `deploy.path` (possibly half copied, and with or without the
packages of the frontend: `swallowed` remembers where `npm install` failed unseen), `process[h]` what
runs; the process manager restarts a process that dies from what lies there then.

*DevSupervisor.* `pc` walks through `run`, `supervise` and `reload_backend`; save n gives the
sources the modification time n.

## 3. Runs

| run | question | instance |
|---|---|---|
| `persistent` | Is a job in one place, run at most `max_attempts` times, taken oldest first, lost exactly to a fault that caught it outside the table, and otherwise finished? Is the queue a `JobCustody`? | 2 workers, 3 jobs (one without handler), 2 attempts, 2 faults |
| `persistent_lost` | Do jobs survive restarts? (violated) | the same, 1 fault |
| `inprocess` | Are permits conserved, executions and deliveries exact; does every job, message and emission end? | one worker and one place in each channel; a job that pushes two, one retried twice; 3 messages (one of a type without handlers), 2 handlers, 1 retry; 2 tasks and 4 calls of the event bus |
| `jobqueue_shutdown` | Does `shutdown` return? (violated) | the job queue alone, the same |
| `realtime` | Do rooms and connections agree? Does Studio miss nothing, and who sees it? | 2 clients, 2 rooms, cap 1; 2 recorders, 3 records, lists of 2 and of 1, a ring of 1; 2 browsers on 2 networks, a shared cache, 2 starts of the server |
| `realtime_live` | Is there never a silent gap or a half-open connection? Is the maintenance file obeyed within its second, and in the end? | 1 client, 2 rooms, ring of 1, 3 messages; 2 threads, a TTL of 2 ticks |
| `channels_ghosts` | Does cleanup remove the client from all rooms? (violated) | 1 client, 1 room |
| `content` | Are templates read whole and rendered soundly, mails what was asked for? Are roles those of the file? | files of 3 lines, 3 roles; sources and expressions of 5 characters, 5 tags, 9 frames; mails of 4 calls, 2 clones, 2 edits, 1 reading at once, 1 mail of a template |
| `picture_of_file` | Is a picture made of the file it was asked of? (violated) | the URLs of `http` |
| `insert_portable` | Is a derived insert accepted by each driver? (violated) | structs of 2 fields |
| `operations` | Is the tracking table true, in order, once; one target down at a time; the last save built; a project sound after commands that stopped; do tables follow the entities, are the answers of the server whole? Do the texts and the arguments of statements, made apart, say what was asked, do pages cover the list, is what is deleted unseen? | 2 overlapping invocations over 4 files (one comes late and has a name that cannot be recorded); 3 targets, 2 builds, one broken; 3 saves; 2 commands on one entity; 2 edits, 2 diffs; every choice of layers; 3 calls; 3 rows, pages of at most 2, numbers of 3 bits, 1 write; 3 rows of 2 owners; structs of 2 fields; the placeholders of each driver |
| `http` | Does whoever arrives have what the rules ask; are addresses real, forms ours; are tags invalidated, slots conserved, pictures as asked, uploads what they say, edits faithful? | paths of 2 bytes behind the slash, 2 rules; addresses of 3 bits, chains through 2 proxies and 2 servers; 3 tokens, 2 requests under way; 2 addresses, 2 requests per window, a map swept above 1; 2 callers, 2 keys, 1 tag, times to live 0 and 1; 3 requests, 2 variants, 1 slot, 1 replacement; 5 files, 2 URLs of at most 3 modifiers; 3 calls on a processor, 5 sources of at most 4 by 4, boxes and regions of which two are empty; 3 fields, 2 files; 2 tabs, 2 rows, 2 forms |

Why the bounds are enough to be interesting: two workers, callers, threads, tabs or invocations are
what the races need, a third job, file or target is what ordering needs; a channel, ring, list or
slot of one is full as soon as one element waits, so that every run meets the limit; two faults
allow a fault during the recovery from another. A reader of texts with a look ahead of two shows
what it does within five characters or tags: an opener, its closer and one character between; an
if, an elif, an else and its end. Two calls are enough to be in the wrong order, a third lets
something stand between. Three lines are a section, an entry and an item. Numbers of three bits
overflow as those of 32 do. What the bounds leave out is what proofs are for. Where
`CHECK_DEADLOCK FALSE` is set, the system may really stop: what the instance has to do is done.

Every bound: `MaxFaults` (faults of the durable queue), `MaxCalls` (calls of the event bus, of a
builder, of a mail, of a processor), `MaxUrls` (URLs of pictures), `MaxMessages` (messages in the ring), `MaxRecords` (records of Studio),
`MaxTime` (clocks of the cache and of sessions), `MaxStarts` (starts of the server), `MaxUpdates`
(replacements of an image), `MaxChars`, `MaxTokens`, `MaxExpr`, `MaxPath`, `MaxLines` (lengths of
what is read), `MaxDepth` (frames of the renderer; deeper is a stack overflow), `MaxEdits`, `MaxLoads`,
`MaxDiffs`, `MaxCommands`, `MaxSaves`, `MaxWrites`, `MaxPosts`, `MaxRows`, `MaxFields` (what somebody
does or has), `MaxTokens` of `CsrfProtection` and `MaxFlight` (cookies and requests), `Late` (files
that appear or disappear), the caps on ages and counts in `MaintenanceGate` and `RateLimiter` (an
age above the limit and a count above the maximum behave alike), `MaxSide` (`u32::MAX` as a number that no
side of the instance comes near); elsewhere the finite sets of jobs,
messages, clients, requests and values.

## 4. Fairness

Most properties are safety properties and need none. Liveness assumes:

* `PersistentQueue`: weak fairness of each worker's own steps. tokio polls a spawned task, database
  statements and handlers return, and a stopped application is started again. It does not assume
  that a claim succeeds.
* `JobQueue`, `MessageBus`: spawned tasks are polled, jobs and handlers return, back-offs end, a
  sender proceeds when there is room. Nothing makes the application push, register, drop or shut
  down.
* `EventBus`: a call that can go on goes on; nothing makes a task use the bus.
* `ChannelRegistry`: spawned tasks are polled and locks granted; what the client sends, and whether
  its socket ever fails, is up to it.
* `DevSupervisor`: the thread of the supervisor runs and cargo returns.
* `MaintenanceGate`: threads finish what they began and time passes. Requests need not arrive.

In a side-by-side run the fairness of a component is stated for the behaviours that are about it
(`part = ... /\ action`): elsewhere its actions are disabled for good.

## 5. Proofs

Every theorem is about all values of the constants that satisfy the named assumptions of the
modules; they say of which kind a constant is, and what is noted below. Each component has an
inductive invariant of its own; in a side-by-side specification it is claimed where `part` is that
component.

**`PersistentQueueProofs`** (`Handled` is a subset of `Jobs`, `max_attempts` and the number of faults
are naturals): `SpecTypeOK`; `SpecSingleCustody`: a job is in one row, in one worker's hands, or
finished; `SpecAttemptsBounded`: it runs at most `max_attempts` times (once if that is zero);
`SpecClaimsOldest`: a successful `DELETE` takes the oldest row there is at that moment;
`SpecLostOnlyToFaults`: the lost jobs are those a fault took (`takenBy`), no more and no fewer;
`SpecImplementsCustody`: the queue implements `JobCustody`. None of these is inductive alone. That a worker's
`DELETE` takes the row it read, although other workers claimed and re-inserted rows since, needs that
ids are never reused and grow (`IdsNameRows`: what a worker read is either gone, or unchanged and
still the oldest). Custody of one place needs the same, and that jobs never pushed are nowhere
(`OnlyPushed`). The bound on the executions needs that the number a row carries is the number of
executions (`CountsAreRuns`), which in turn needs single custody: with two copies, two workers would
count separately. `IInv` is the conjunction (TLC checks it in the run `persistent`), with one lemma
per action. The refinement maps each job to its place (`Custody`) and shows that a step moves at
most one job along one of the abstract moves, or, when a process stops, what its loops had in hand to
the place that no move leaves; that a lost job stays lost is read off there.

**`TokioSemaphore`** carries four lemmas (`NewIsSound`, `AcquireIsSound`, `ReleaseIsSound`,
`LeaveIsSound`): a new semaphore has all its permits; acquiring, releasing and leaving the line keep
the sum of free and held permits, nobody is twice in the line, and nobody waits while a permit is
free. The job queue, the message bus and the resizer rest on them.

**`InProcessProofs`** for `JobQueue` (any jobs, workers, retries and capacity): `TypeCorrect`,
`PermitsAreConserved`, `ExecutionsAreExact`. The invariant ties each task's phase to its permit, each
phase to the number of executions so far, and the channel to the jobs that were sent and not
received. For `MessageBus` (any messages, handlers, workers, retries and capacity): types
(`BusTypeCorrect`), bounded workers, registrations seen, every handler its turn (the invariant says
how far each task is in the list it read), synchronous dispatch. For the process as a whole:
`NoPermitIsLost`, `ProcessExecutesExactly`, `HandlersHaveTheirTurn`. The last needs, for the event
bus, that the list an emission works through is the list there is, because who registers waits until
no emission is left (`EventIInv`).

**`OperationsProofs`**: `PublishesRoll` for any number of targets (`Rolling`: the targets touched are
those up to the one at hand, how far it is tells what lies and runs there, and an `npm install` that
failed unseen did so on one of them); `DeletedStaysUnseen`
for any table; `AnswersStayWhole` for any sequence of requests: no layer outside of a request has refused
its kind (`Admitted`), an answer outside of a layer has what that layer adds (`Dressed`), and before the
start is complete there is no request (`SetUp`). Its module has no constants, so the run covers the same
ground; the proof says why it holds. `MigrationsStayExact` for any number of files, statements and overlapping invocations.
Its invariant says where an invocation stands in the script at hand (`Counted`), that two run at once
only after an overlap (`Apart`), that what an invocation going up has put behind it is recorded and
what it has executed of the file at hand is in effect (`BehindIsRecorded`), that a rollback is about
what is recorded (`UndoesRecorded`), and, while nothing has gone wrong, that nothing is in effect but
what is recorded or under way (`Exact`).

**`GeneratorProofs`**: `ProjectStaysWhole` for any entities, commands and projects
they are run in. A write under way is taken as done and its file as it will be (`Held`). Then the invariant
says of what a command has left to do: what a write builds on, a source for its declaration and a
declaration for its route, is done or comes before it (`Ordered`); what the command is for is done or
will be (`Aimed`); unless some command was cut short, nothing declared or mounted lacks what it
names (`Sound`), and neither does a repository its entity, or the admin pages their repository (`Founded`
for what is left to do, `Backed` for what is done); sources that were there are untouched unless forced, and other files have all their
lines (`Kept`). The plans are checked against
it once, each as a list of writes (`EntityFits`, `ControllerFits`, `AdminFits`, `CrudFits`). It is assumed that
no entity is called `mod` (`GeneratorAssumption`): its file would be the `mod.rs` of its folder, and the
language refuses the name.

**`RealtimeProofs`**: `RoomsStayExact` for any connections and rooms (what each of the two halves of a
join or leave has done so far); `NoGapIsSilent` for any size of the ring (`GapInv`: what a
connection was owed up to its cursor, it was given or is being given, in order); `StudioStaysGuarded`
for any browsers, networks and allowed addresses (a live cookie stands for a grant that has not run out,
and a token that a browser knows for a start in which it was in a session); `NoRecordIsMissed` for any recorders, kinds of records
and lengths of the lists and the ring (`Numbered`: ids grow, so that none is in the ring twice;
`Announced`: what the totals of the greeting did not count is in the ring behind the place where the
dashboard subscribed, or yet to be broadcast; `Latest`: a list is the end of all records of its kind
since it was cleared); `TrafficFollowsTheFile` for any number of threads
(`GateInv`: what a thread saw, stored or believed differs from the file only if the file changed since).

**`HttpProofs`**: `FormsAreSafe` for any hosts, proxies, tokens and requests under way.
`AddressesAreSafe`, whose invariants are two. For the chain (`ChainIInv`): its end is the real
connections in their order (`Traced`), from the first on, or - behind a server that did not believe
its peer, which then neither list trusts (`Cut`), or that dropped a header - from that peer on. So the last entry that is not
trusted is a real connection whatever the client wrote before it. The assumption is that a
server's own address is none of a client or of a proxy in front (`ForwardedAssumption`). For the limiter
(`LimiterIInv`): the requests let in within the length of a window are those of the window that runs,
as many as its count says, and those of the window before; neither is more than the limit.
`NobodyPassesUnasked` for any roles, grants and lengths of paths: past the firewall the request has
what the rule asks (`Cleared`), which an expiring token does not undo, and a path that is not refused
is split into the same parts by both kinds of file server, unless it has a backslash and the server
takes that for a letter (`ServesTheJudged`).

**`HandlerProofs`** is about what handlers keep and share.
`TagsAreInvalidated`, for any callers, keys, tags and times to live: a key is promised to its tags
as soon as `set_tagged` has written their indexes, not only at its end, and `CacheIInv` says that the
index knows every promised key and lives as long as it (`Kept`), and that whoever read an index
that has not been rewritten since misses none. So an `invalidate_tag` that was overtaken by nothing
that exposes a key removes them all.
`SlotsAreConserved`, for any requests, variants and slots: beside the lemmas on permits it needs who
may hold one and who may wait (`Slotted`), that a task runs exactly for a handler that waits for it or
has left (`Tasked`), and that what is half written names a task that is at it (`CleanedUp`).
`UploadsStayHonest`, for any number of fields and files and any size: the files of a request are
numbered without gaps, each was judged by its bytes before it was created (`Fits`), and between the
two steps of a write there is at most the one file at hand that the answer does not name
(`AtWriting`). `EditsStayFaithful`, for any tabs, rows and forms: each row holds values its columns can
have, what is shown of such a value in an input of one line becomes the same value again
(`ShownComesBack`, the three exceptions of `UntouchedStays` aside), and a form shows the
row it was opened on, however often that row has changed since (`Showing`).
`PicturesAreMadeAsAsked` is about the URLs and about the sizes of pictures. For the URLs the lemma
that carries it is `ReadsBack`: the one spelling of a variant, read, is that variant, because of each
kind of modifier it has one at most. So whoever was redirected asks for that spelling and is not
redirected again, and a file in the cache is what its name, read, asks for, whoever it was made for
(`UrlsIInv`). For the sizes (`SizesIInv`), any source, box, region, margin and number of calls: a
fraction rounded either way stays below a whole number it is not above (`RoundedBelow`), one that is
raised reaches a whole number it is not below (`RaisedAbove`); hence what is scaled into a box
fits it, what is scaled over a box can be cut to it, and an offset leaves room for the cut and is the
one that the position of a stamp names, if the anchor is the same (`StampInPlace`). Of
the constants the proof needs that sizes and bounds are numbers and that a source has a pixel: boxes and regions may
be empty. The URLs are those
the model asks for (`First`, `Later`), the lemmas hold of any spelling with natural numbers.

**Only model-checked.** Liveness: TLAPS proves nothing under fairness, nor `ENABLED`. Of the safety
properties: the properties of `MCContent`, whose renderer and parser walk trees with recursive operators, which
the provers cannot take in a module or in one it uses: among them `RolesAreSound` is about a
depth-first search over the entries of a file (induction as well); and of
`MCOperations` `SchemaFollowsEntities`, `BuildersAreSound`, `ListsAreSound` and
`ColumnsGetTheirFields`, whose scripts, queries and columns are folds over lists: what a fold computes
for every list needs induction over data.

## 6. What the checks show

Five disagreements between the code and its own words (`findings`):

1. **Jobs do not survive a crash while they run.** The row is deleted before the handler runs, and
   the result of the re-insert is ignored; the documentation says pushed jobs survive restarts. The
   trace: push, select, delete, and the process stops while the handler runs. A panic, a re-insert
   that fails and a `DELETE` whose answer is lost have the same effect. What does hold: no
   interleaving loses a job by itself, a fault takes what the loops it hits have in hand and nothing
   else, and what it took never comes back (`LostOnlyToFaults`). One process that runs several loops
   loses as many jobs in one stop.
2. **`JobQueue::shutdown` never returns.** It drops a clone of the sender and then waits for a
   dispatcher that only ends when the last sender is gone, and `self` still holds one. Dropping the
   queue instead works (`DroppedQueueEnds`).
3. **Cleanup of a connection can leave its id in a room** for ever, when the writer ends first and
   the aborted reader stands between its own set and the shared one.
4. **`derive(Insertable)` writes `?` for every driver.** PostgreSQL wants `$n`, which
   `derive(Updatable)` and the builders write; the README promises a switch by feature flag.
5. **Two files share their pictures.** The cache directory of a source is its path with `_` for `/`,
   so `a/b.jpg` and `a_b.jpg` have one, and the second that is asked for is answered with the picture
   of the first; the comment above says that a source path has its own directory.

Limits that the properties state as exceptions, each with a conjunct, a parameter or a history
variable that names it:

* *Tags.* The index of a tag is read, changed and written back in separate store calls; two callers
  that overlap can lose a key from it, and a tagged value with a shorter time to live shortens the
  life of the index (`exposed`). Concurrent callers of `remember` all compute.
* *Images.* A slot is free again when the client leaves although its blocking task still runs;
  nobody cleans up after such a task fails (`gone`). The cap on variants is checked before the slot is
  waited for, so requests in flight can pass it. A decode of an old source can write a variant that
  is newer than the new source. An `avif` without a format is stored as a jpeg under its name
  (`PictureIsAsAsked`); the quality that is the default, `jpeg` for `jpg` and the short names of
  anchors give one picture several URLs. A side of the box that is longer than the picture's is cut to
  it, so cover gives another shape then (`Boxed`). `webp()` after `webp_quality` stays lossy.
* *Durable queue.* A panicking handler ends its loop for good; a queue whose loops all ended stands
  still (third disjunct of `EveryJobResolved`).
* *Event bus.* A handler that registers waits for the lock its own emission holds, and so does one
  that emits behind a waiting registration (`Reentered`).
* *Migrations.* Nothing locks two invocations against each other; a crash between script and record
  runs the file again; a file with a name that cannot be recorded is executed by every run although
  "each file runs exactly once" (`site/docs/migrations.html:66`); a rollback that stops half-way
  stays recorded (`trouble`, `half`, `Unsafe`). PostgreSQL runs a script as one transaction and has
  fewer behaviours.
* *Diffs.* A diff made while another file is pending is hidden by that file's
  `CREATE TABLE IF NOT EXISTS` (`past.clean`); a field that becomes an `Option`, or stops to be one,
  leaves its column as it was (`CameLast`); `UNIQUE` of a `slug` is only written when the table is
  created; a field `created_at` of an entity never becomes a column.
* *Publish.* `OneTargetDown` is about one publish: after a failure, a second publish starts again at
  the first target while the one that failed may still be down. Without `health_url` nothing waits.
  `npm install` is piped into `tail` without `pipefail` (`deploy.rs:315`), so that its failure does not
  stop the publish, against "a failure stops here" (`deploy.rs:82`): a target that is done has the
  packages of its frontend unless it is one of `swallowed`.
* *Dev.* A save between the first build and the start of the watch waits for the next one.
* *Generate.* A write that was cut short leaves a file that later commands take for whole
  (`history.cut`). `generate admin` after `generate entity` alone passes the look at the entity's file
  that is to "fail fast before writing broken code" (`generate.rs:840`), but its pages call what only
  the repository of `crud` implements (`early`). The export of the entity is written with `.ok()`
  (`generate.rs:819`): the command ends well without it, or with an empty `entity/mod.rs` (`unseen`).
  `crud` keeps an entity that exists but writes the repository for the fields of
  the command line.
* *Admin pages.* `NULL` in a field that nobody touched becomes a value, a time becomes the time
  of the save, and a text of several lines loses its line breaks, since every field is an
  `<input type="text">` (the exceptions of `UntouchedStays`).
* *Sizes of pictures.* Sides of zero are taken (`EmptyBox`, `EmptyRegion`): the picture may then have no
  pixel, or, if it may be enlarged, a side of `u32::MAX`. The position of a watermark, "where to place the
  watermark" (`thumbnail.rs:243`), is kept and never read: the anchor of crops places it
  (`StampIsWhereAsked` holds where both are the same).
* *Maintenance.* "Within a second" holds where the machine keeps the order of relaxed accesses: on a
  weakly ordered one, a request can see the time of a fresh look together with the result of an old
  one. The file is obeyed in the end on every machine.
* *Rate limit.* Twice the maximum can pass within one window's length, across its reset.
* *Addresses.* A client whose own address is in the list of trusted proxies is believed
  (`SensibleList`). Behind a server that normalised, the chain is gone. The reverse proxy is to "extend
  the trusted chain" (`proxy.rs:153`), but extends the first `X-Forwarded-For` header and drops the others: where a
  proxy in front adds a header instead of joining them, the chain for the server behind is what the
  client wrote, and a server that believes that proxy decides by it (`Forgotten`).
* *Access.* The firewall "must see the same path the handler will serve" (`http.rs:244`), but judges a
  backslash as a slash on every system: where it is a letter of a name, `/\a` is judged as `/a`
  (`Backslashed`). `#[require_role(ADMIN)]` with a constant is taken away unread, and the role of
  the controller, or none, is asked for (`Unread`).
* *CSRF.* A page that read its token while a request was under way that had left before the browser
  had any cookie loses its form (`raced`); behind a proxy that is not listed nothing with an origin
  goes through. A request without a `Host` (HTTP/1.0, HTTP/2) is compared with nothing: whatever site
  sent it, it is let through (`setting.named`), although its comment says that cross-site attempts were rejected
  (`csrf.rs:112`).
* *Layers.* What an outer layer answers (the debug mode's redirect, the rate limiter's 429) goes out
  without the headers of the layers inside of it: `AnswersAreWhole` is about what the routes answer.
* *Studio.* Outside of development the guard that checks the token turns away a session that the
  first guard let in, if its request shows no token.
* *Templates.* A template that is its own ancestor, includes itself or nests a block in itself never
  ends (`Tangled`). A number in an expression is a float, so `n == 5` is false for the integer 5. A
  block that stands twice in a template is filled by the first. The filter `escape`, offered beside the
  escaping of every output (`native.rs:8`, `:10`), does not replace it: without `safe`, what it wrote is
  escaped again, and a reader sees `&lt;` (`EscapedTwice`).
* *Mail.* "Set email priority" (`mailer.rs:284`) sets a field that never gets into the message
  (`NeverSent`). The text counterpart of a template whose name does
  not end in `.html` is the template itself.
* *Uploads.* A refusal after a write that broke leaves a part of a file; files stored before a later
  field was refused stay (`AnswerIsTheDisk` says what an answer or refusal may leave).
* *Lists.* With a page size above the maximum, `has_next` is computed from the size that was asked
  and ends too early; the offset of a far page leaves 32 bits; rows that compare equal may move between
  pages (`Ordinary`). `QueryBuilder` puts its `GROUP BY` into the count, which then has a row for each group,
  or none: no total. The count is to be "deduced automatically" (`paginated_query.rs:170`), but from a
  base whose `FROM` begins a line it is no statement (`LosesFrom`), unless `count_from` is given.
* *Builders.* A raw condition with an `OR` is pasted without parentheses (`LoneOr`).

## 7. Not modelled, and the plan

Assumed throughout: a single SQL statement is atomic and ids appear in the order of their commits;
libraries (tokio, sqlx, axum, Tera, lettre, the image crates) do what their documentation says;
handlers, jobs and loaders of the application return or panic; what is signed verifies with its key
only.

Not modelled, or in part:

* *Scraper, hot reload*: one lock and one sleep; a development aid whose lost message only delays.
* *File and Redis stores of the cache*: each call is one file or one command; `TaggedCache` covers
  the facade over the memory store.
* *Cryptography and secrets; validation, filters, translations; utilities*: functions of one text,
  which unit tests reach. *Livewire, Inertia*: one response or one connection without other actors.
* *Of the resizer* the operations on pixels, the encoders and the checks of paths; *of `migrate`* the splitter of
  scripts; *of `deploy`* the targets that write files or call another tool once; *of the application*
  the development pages; *of the macros* `#[validated]`.

The reasons per component are in `PROJECT.json`.

Order of the work, done (x) and planned:

1. (x) `PersistentQueue` with its abstract specification and proofs: the one component whose state
   survives the process.
2. (x) the other users of tasks, channels and locks: `JobQueue`, `MessageBus`, `EventBus`,
   `ChannelRegistry`, `StudioCollector`.
3. (x) shared files and caches: `TaggedCache`, `ImgResizer`, `PictureUrls`,
   `PictureSizes`, `Uploads`, `Mailing`.
4. (x) the operator's side: `SchemaMigrations`, `SchemaDiff`, `RollingPublish`, `DevSupervisor`,
   `ProjectGenerator`.
5. (x) the gates of the server: `MaintenanceGate`, `RateLimiter`, `RoleHierarchy`, `AccessControl`,
   `ForwardedChain`, `CsrfProtection`, `StudioAccess`, `Application`.
6. (x) the readers and writers of text: `TemplateParser`, `TemplateRenderer`, `SqlBuilders`,
   `PaginatedQuery`, `CrudRepository`, `EntityMacros`, `AdminPages`.
7. (x) theorems of the two queues, the buses, the channels, Studio's guard, the maintenance mode, the
   repository, `migrate`, `publish`, of the gates of the server but for the roles, of Studio's collector,
   of the cache, the resizer's slots and pictures, the uploads, the admin, the generator and the layers of the application.
8. Theorems of the diffs; an abstract specification of a bounded worker pool that `JobQueue` and
   `MessageBus` both implement, and one of a rolling update for `RollingPublish`.

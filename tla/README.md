# gpt2api-image: formal models, checks and proofs

This directory holds TLA+ models of `gpt2api-image` (the repository one level up under `src/`), TLC
configurations that check them on small instances, and TLAPS proofs of theorems about them that hold
for every value of the constants. `PROJECT.json` is the index: which run checks what, which source
lines each definition models, which change of a definition each property would catch, and the hazards
the properties are for. Paths below without a directory are under `src/internal/app/`.

Run a configuration with `tlc -config Tasks.cfg MCTaskSettings`, check proofs with
`tlapm ImageTasksProofs.tla`.

## 1. The system

`gpt2api-image` serves image and text generation to users with API keys by spreading their requests
over a pool of upstream accounts. Its processes:

| process | code | shares |
|---|---|---|
| api | `cmd/server`, `server.go` | `data/*.json`, image files, PostgreSQL (optional) |
| worker (or in the api process, mode "all") | `worker.go` | the same |
| register executor | `register-executor/` (Python) | the api over HTTP, `register.json` |
| PostgreSQL | `pg_tasks.go` | task rows, account leases |
| web client | `web/` | the api over HTTP |

### Inventory

| component | state | operations | hard behaviour | correct when |
|---|---|---|---|---|
| **Image tasks over PostgreSQL** (`pg_tasks.go`, `worker.go`, `tasks_chat_gallery_web.go`) | rows with status, claim, deadline; quota counters; input directories; image files | create, claim, heartbeat, requeue, complete, fail, cancel, expire, purge | claims lapse under live workers; crash, failed call or lost reply between any two steps; duplicates | each request is charged once, ends, is refunded once for what it did not deliver; images and inputs match the row |
| **Local image tasks** (`tasks_chat_gallery_web.go` without a database) | `image_tasks.json`, goroutines, the map of cancel functions | create, run, store, cancel, time out, restart | cancel racing completion; a status that cannot be written | the same contract |
| **JSON store** (`store.go`) | file, `.tmp`, `.bak`, `.lock` | load, save, update | lock stealing, crash in an in-place write, failing calls (a file that cannot be read counts as empty), unlocked load-then-save | acknowledged updates survive; failed ones leave nothing |
| **User keys and quota** (`auth.go`) | used and allowed per day, month, in total | consume, refund, reset, edit | refund after the period changed | the counters cover the charges of the period, and no more |
| **Account pool** (`image_pool.go`, `account_pool.go`, `account_cleanup.go`, `account_state.go`, `upload_quota.go`, `accounts.go`, `oauth.go`, leases in `pg_tasks.go`) | slots and upload reservations per process, leases in the database, records in `accounts.json` | pick, lease, refresh, rotate, generate, mark, clean up, release | retries, token rotation, lease expiry, whole-record writes of old views | nothing leaks; limits hold; marked accounts go |
| **Registration runs** (`register_service.py`, `openai_register.py`) | `enabled`, runner, stop event, active run id, counters, `register.json` | start, stop, auto-refill, repair, work, restart | starts meeting each other, stops between check and submit, saving before verifying | one run at a time; workers counted once; unusable accounts are not kept; a stopped run ends |
| Text requests (`text_stream_retry.go`, `handleChatStream`) | leases of text accounts, chat quota | retry, stream, refund | failure after the first byte | refund exactly on failure |
| Image routing and batches (`image_routing.go`, `runImageBatch`) | none of its own | plan, parallel attempts | partial failure | as many images as reported |
| **Image storage** (`images.go`, `thumbnails.go`) | files, owners and prompts in two JSON files, the time of the last retention | save, record, limit, retention, undo, delete | every request enforces the limit while others save; owners are read before the files; removals and updates fail one by one | protected images stay; the limit holds; records fit files |
| Account administration (`accounts.go`, `register_internal.go`) | `accounts.json` | import, merge, delete | merge of identities | one record per identity |
| Register gateway (`register.go`, `register_executor_client.go`, `account_service.py`) | configuration | forward, validate | executor down | passes on what was asked |
| Register proxy pool (`proxy_pool.py`) | leases and cool-downs of proxies | take, report | concurrent workers | one worker per proxy |
| Sign-up and mail (`openai_register.py`, `mail_provider.py`, `sentinel*.py`) | sessions | protocol steps | third parties | (calls with an outcome) |
| Upstream protocol (`upstream.go`, `codex.go`, `turnstile.go`, `curl_*.go`, `http.go`) | connections | requests, streams | (calls with an outcome) | - |
| Server, settings (`server.go`, `types.go`, `system.go`) | configuration | load, save, routes | - | - |
| Logs and traces (`log_service.go`, `trace_log.go`) | log files | append, delete | in-place rewrite | - |
| **Image queue of the web client** (`web/src/app/image/page.tsx`, `store/image-conversations.ts`) | conversations on the page and in IndexedDB, one queue runner per conversation, one FIFO of writes | submit, regenerate, retry, delete, rename, clear, poll, recover | runners that outlive the page; deletes and saves that overtake each other; tasks the server forgot | what is deleted stays away; what loads is watched; what is shown is stored |
| **Composer** (`app/image`) | text, references, count, resolution, reply | type, pick, fetch, reply, send | asynchronous reads into parallel lists | what is sent is one consistent turn |
| **Lightbox** (`components/image-lightbox.tsx`) | index, transform, gesture, waiting frame | zoom, swipe, change image | a frame after the image changed | zoom belongs to the image shown |
| **Session** (`store/auth.ts`, `lib/auth-session.ts`, `lib/use-auth-guard.ts`, `lib/request.ts`, `top-nav.tsx`, login) | stored session, cache, pending validation | login, validate, log out, 401 | answers after logout | no session after logout |
| **Settings page** (`app/settings`) | one form, dirty mark | load, edit, save, revert | overlapping requests replace the form | a clean form is the server's |
| **Registration page** (`app/register`, the register half of `settings/store.ts`) | form and run state, event stream | edit, save, start, stop, repair | events replace the form; two-request start | a run uses the form that was seen |
| **Accounts page** (`app/accounts`) | list, selection, import dialog | list, refresh, edit, delete, import | answers out of order | list and selection fit together |
| **Image manager** (`app/image-manager`) | list, filters, tags, selection | list, delete, tag | deletion by filter on a stale list | what is deleted was shown |
| **Log viewer** (`app/logs`) | list, filter, cache, selection | list, delete | late answer under a new filter | the cache is true to its filter |
| Key page, task list, quota popover | lists | - | answers out of order | - |
| Build and deployment (`scripts/`, `docker-*`, `.github/`) | - | - | - | - |

### How they interact

The create handler of a task charges a key (quota) in a JSON file (store), then inserts a row
(database). A worker's slot claims the row, asks the account pool for an account, which takes a slot
in its process and a lease in the database, generates, writes image files and ends the row.
Whoever ends the row refunds and removes the input images. The register executor adds accounts to
the pool through the api and removes them again. All of them share files under `data/`, apart only by
lock files; none of them has a transaction over two of these stores.

In the browser each page is a component whose handlers run up to their next `await` undisturbed; what follows it
works on whatever state, cache and storage have become. Module-level variables (caches, the queue runners, the
stores of zustand) outlive the page, browser storage outlives the tab, and the server is shared with other
administrators. Requests are never cancelled, with the exception of the register page's event stream.

## 2. Plan

The order is by what loses users' money or accounts first.

1. *Done*: image tasks, their contract, the JSON store, quota, local tasks, the account pool,
   registration runs; proofs for image tasks, store and quota.
2. *Done*: the web client, page by page: image queue, composer, lightbox, session, settings,
   registration, accounts, image manager, logs.
3. *Done*: image storage and its proof. *Breadth, open*: `TextRetry` (retries over text
   accounts and the refund of `/api/chat/stream`, the one routed text handler), image batches and routing inside
   `AccountPool`, `AccountImport` (merge of identities), the register executor's configuration and
   `ProxyPool`.
4. *Done*: proofs of every invariant and action property of the server's and the executor's modules, and both
   refinements of `TaskContract`.
5. *Done*: proofs of every invariant of the web pages. *Open*: nothing that a run checks, except liveness, which
   stays with TLC.

Abstract specifications: `TaskContract` (written) is implemented by both task modes. Worth stating
next: a semaphore with leases for the account pool; an atomic register for the JSON store.

To keep the number of runs small, a module that needs several settings chooses one in its initial
state (`config` in `AccountPool` and `RegisterRun`, `setting` in `MCTaskSettings`, `page` in `MCWeb`).

## 3. Modules

| module | models | composed of |
|---|---|---|
| `TaskTable` | the table of `pg_tasks.go`, one operator per SQL statement | - |
| `ImageTasks` | api handlers, worker slots, reaper, purge, crashes | EXTENDS `TaskTable` |
| `TaskContract` | what a user is promised of one request (abstract) | - |
| `LocalTasks` | tasks without a database | implements `TaskContract` |
| `JSONStore` | one file under `data/` and its writers | - |
| `Quota` | the counters of one key | - |
| `AccountPool` | requests, accounts, leases, clean-up, refreshes | - |
| `RegisterRun` | callers, run threads, workers, restart | - |
| `ImageStorage` | requests that save images, the limit, retention and deletion | - |
| `WebClient` | what the pages have in common: requests and their answers | - |
| `ImageQueue`, `Composer`, `Lightbox`, `Session`, `SettingsPage`, `RegisterPage`, `AccountsPage`, `GalleryPage`, `LogsPage` | one page or store of the web client each | EXTENDS `WebClient` |
| `MCWeb` | the pages in one run; a behaviour is about one of them | EXTENDS the nine |
| `MC...` | instances for TLC | EXTENDS the module |
| `ImageTasksProofs`, `LocalTasksProofs`, `AccountPoolProofs`, `RegisterRunProofs`, `ImageStorageProofs` | theorems | EXTENDS the module and TLAPS |
| `StoreProofs` | theorems about files and the counters in one of them | EXTENDS `JSONStore`, `Quota`, TLAPS |
| `ImageQueueProofs` | the invariant of the drawing page | EXTENDS `ImageQueue`, TLAPS |
| `WebProofs` | the invariants of the other pages, theorems about all nine | EXTENDS `MCWeb`, `ImageQueueProofs` |

Each module treats the one below it as atomic: `ImageTasks`, `LocalTasks`, `AccountPool` and `ImageStorage` take an
update of a JSON file as one step that may fail and then leaves no trace. `JSONStore` states under which
circumstances that is what the store does. `ImageTasks` counts a key as one number; `Quota` has its periods.

In comments, *Mutant* marks an operator that changes the one after it the way a plausible
bug would; it is used only to see that the properties notice.

### TaskTable and ImageTasks

A row is identified by the create request that made it (`TaskOf` is its primary key), so a second
request for the same task is distinguishable from the first. `lapsed` and `overdue` stand for
`claimed_until_ts <= now` and `deadline_ts <= now`, and become true at any time (`Tick`), which covers
any clock skew. One SQL statement is one step; a *fault* is a failing statement, a statement that
commits while its reply is lost, a JSON file that cannot be updated, or the death of a process
(`CrashAPI`, `CrashWorker`).

| variable | code |
|---|---|
| `status`, `claimedBy`, `lapsed`, `overdue` | columns of `image_tasks_v3` |
| `used` | the image counter of a key in `auth_keys.json` |
| `rpc[r]` | where the create handler of request r is |
| `cpc[r]` | where a cancel handler for r is, after its statement |
| `wpc[w]`, `job[w]`, `got[w]`, `saved[w]` | a worker slot, its task, images generated and stored |
| `reap[p]`, `sweep[p]` | what the cleaner of process p has expired or purged and not yet dealt with |
| `inputs`, `images` | input directories, image files |
| `net`, `delivered` | history: charged and not refunded; images in a result |
| `leaked`, `gifted`, `littered` | history: requests whose refund, whose charge, whose input directory a fault lost |

| action | code |
|---|---|
| `Lookup`, `Consume`, `SaveInputs`, `Insert`, `RefundRequest`, `CleanRequest` | `createDBImageTask` and its callers |
| `Cancel`, `RefundCanceled`, `CleanCanceled` | `handleImageTaskCancel` |
| `Claim`, `Heartbeat`, `Generate`, `Requeue`, `GiveUp`, `RefundTask`, `BeatBeforeSave`, `StoreImage`, `Complete`, `Settle`, `CleanTask` | `runDBImageTask` and the slot's loop |
| `Expire`, `RefundExpired`, `Purge`, `Sweep` | `expireOverdueDBTasks`, `maybeCleanupFinishedDBTasks` |

Abstractions: the order in which SKIP LOCKED serves rows; the LIMITs of 50 and 200; the root identity
(never charged); the retention of images and a user's deletion of a finished task; an image's
content; the image files of a run whose process died (nobody tracks them, `NoStrayImages` does not
count them). A slot's name is its claim id. A canceled context does not stop `Generate` from having
succeeded just before.

### TaskContract

`Accept`, `Refuse`, `Deliver`, `Settle`; `Fail` closes requests without settling, `Gift` loses track of a
charge. Each of the two last needs a fault. `ImageTasks` and `LocalTasks` map their state to it
(`PhaseOf`): a request is open as long as someone who will settle it exists (`Settlers`, `Unsettled`).

### LocalTasks

`rows` is `image_tasks.json`; `cancels` is `taskCancels`; `pc` is first the handler's, then its
goroutine's. A cancel request has two steps (`Cancel` updates the row, then `CancelContext` pops the function
and `RefundCanceled` refunds), between which the goroutine goes on. Faults are restarts and failed writes.

### JSONStore

Each system call of `lockJSONFile`, `readJSONFile`, `writeJSONFile` and `overwriteJSONFileSynced` is a step: create the
lock exclusively, see a stale one, remove it, read (with the opening of `.tmp`, one step), write `.tmp`, rename, or else back up, truncate,
overwrite, restore, then remove `.tmp` and unlock. Any of them may fail (`Fault`), the ones whose error the code drops among them:
the read, which then gives the empty fallback (`store.go:30`), the read of the original before an in-place overwrite, which then
goes on without a copy (`:75`; `bare` and `cut` are the two places of a writer with `hadOriginal` false), and the removals of a stale
lock, of `.bak`, of `.tmp` and of the lock at the end. A file's content is the set of entries in it; an update adds a fresh
one. `UpdateRegisterConfig`, which reads before it asks for the lock file, is a `Load` and a `Save`. `LockAges` makes the lock of a dead
or slow writer 30 s old.

`harm` remembers which of four things has happened, named in the module: a live writer's lock was removed (`usurped`), an
update took a file it failed to read for an empty one (`unread`), `Save` wrote something that an earlier `Load` returned and the
file no longer held (`outdated`), or an in-place overwrite died or could not be undone (`torn`). Each of the four can lose
acknowledged entries; that nothing else does, whichever call fails, is `AckedStored`. A lock can be usurped after one crash, or one
failed unlock, with no slow writer at all: two waiters both see the lock nobody holds, the first replaces it, the second removes the
replacement. `.bak` is never read back after a crash, so a torn file reads as empty. `orphaned` remembers that the lock file on disk was left
behind: by a writer that died in the locked part, or by one whose removal of it failed (`store.go:160` drops that error).

### Quota

One key, three windows; chat and image quota are the same code. `epoch`, `since`, `spent` and `back` are history: what was
charged in the current window, and what was refunded in it for requests charged before it began. A
refund lowers the current counter even when its charge was in an earlier day, clamped at zero; `back`
is the exact amount by which the counter may therefore be too low. That the store's error is dropped (`auth.go:518`, `560`), so that a
charge or a refund is not written though its caller goes on, is a fault of `ImageTasks` (`gifted`, `leaked`), not of this module.

### AccountPool

| variable | code |
|---|---|
| `file` | `accounts.json` |
| `inflight`, `reserved` | `accountPool.inflight`, `.uploadReserved`, per process |
| `leases` | `account_leases_v1` |
| `job[j]` | an image request: place, route, attempts left, what it picked and leased, the record it read |
| `keeper[k]` | a watcher or admin refresh and the records it read |
| `sweep[x]` | a clean-up under way |
| `overtaken`, `faults`, `lapses` | history and bounds |

`Start`, `LoadAccounts`, `Pick`, `SetUp`, `Rotate`, `Wait`, `Alias`, `AcquireLease`, `LeaseRefused`, `Upload`,
`Generate`, `GenerateFails`, `ReleaseSelected`, `ReleaseLease`, `NextRoute` are the attempt loop of
`image_pool.go` with the calls it makes; `CheckActive`, `RemoveOrMark`, `EndSweep` are
`account_cleanup.go`; `Refresh`, `KeeperRotates`, `Answer`, `RefreshLimited` are `refreshAccountInfos` and
`refreshOAuthAccount`. A request of n images is n requests of one.

Abstractions: which of the usable accounts is best (any is picked); disabled accounts and pending
validation; picks for text; a refresh deals with one account; `CountAccountLeases` does not fail;
the three locked sections of a release are one; the removal of unusable accounts after a registration call
(`register_internal.go:188`) is one more sweep; `image_account_concurrency` is set (unset, the pool
takes 3 and the leases 1).

### RegisterRun

| variable | code |
|---|---|
| `enabled`, `saved` | `_config["enabled"]` in memory and in `register.json` |
| `runner`, `stopEvent`, `active` | `_runner`, `_stop_event`, `openai_register.active_run_id` |
| `run[r]` | a run's thread: place, submitted, futures, done, success, fail |
| `stop` | runs whose event is set |
| `work[w]`, `acct[w]` | a worker, and its account in the pool: none, raw or usable |
| `caller[c]` | a start request between its two critical sections |
| `stranded`, `excused` | history: `enabled` outlived its run; a fault hit the steps that settle w's account |

`Look` .. `Launch` are `_start` and the auto-refill loop, `Head` .. `Leave` the loop of `_run`, `RepairOne` and
`RepairEnds` `_run_repair_abnormal`, `Accept` .. `Delete` `openai_register.worker`, `Kill` and `Restart` the death of the process and
`_auto_start_loaded_config`. A fault is a failing or lost call to the api, an unwritten `register.json`, any
exception in the run's loop (shown as a failing metrics call), or a kill.

Abstractions: a stall may be seen at any turn of the loop; a repair's list of candidates is the raw
accounts; statistics, blacklists, mail pools, configuration changes and `worker_states` are left out; an http request in flight
when the process is killed is not executed; a refill asked for by hand is a manual start.

### ImageStorage

What `worker.go:191-241` and `v1.go:72-113` do with generated images, call by call into `images.go`.

| variable | code |
|---|---|
| `files`, `owners`, `prompts` | files below `data/images`; `image_owners.json`; `image_prompts.json` (of an entry its time) |
| `born`, `second` | modification time of a file; the clock |
| `sweepDue`, `protect` | the hour since `lastImageCleanup` is over; `cleanup_protect_user_images` |
| `pc[r]`, `saved[r]` | where a request is, or that it never comes (`absent`); `savedRels` |
| `protected[r]`, `todo[r]`, `total[r]`, `removed[r]` | the locals of its `cleanupOldImages`, `cleanupImageStorageLimitExcept` or `cleanupSavedImages` |
| `del` | one `handleImageDelete` |
| `lost`, `late` | history: how an image went; whose owner was recorded after a clean-up had read the owners |

`SweepStarts`, `SweepOne`, `SweepEnds` are the hourly retention inside a save, `Write`, `RecordOwner`, `RecordPrompt` the save,
`LimitReads`, `LimitWalks`, `PurgeOne`, `PurgeEnds` the limit, `Completed`, `Overtaken`, `UndoOne`, `UndoEnds` the end of the
request, `DeleteReads`, `DeleteOne`, `DeleteEnds` a deletion. A fault is a write, removal or update of a JSON file that
fails, or a request that dies with its process. An image is the number of its write, all have the same size, and names order like numbers
(they begin with the nanosecond). The prompts are loaded in the step of the walk; tags follow owners and prompts and are
left out. A limit that another request enforces may remove images of an answer in progress, and two clean-ups that overlap may
remove more than either needs: the properties say which images that cannot happen to.

### The web client

The nine modules share `WebClient`'s variables, each with records of its own:

| variable | code |
|---|---|
| `ui` | state and refs of the mounted component |
| `mem` | module-level variables: caches, the stores of zustand, `activeConversationQueueIds`, the write queue |
| `calls` | requests and file reads under way, in the order they were made; answered or refused in any order |
| `server` | what the server holds, as far as the page sees it |
| `disk` | localStorage, sessionStorage, IndexedDB |
| `past` | history for the properties, and the spent bounds |

A handler is cut at each `await`: `SaveClicked` is `saveConfig` up to its request, `saveConfig` what follows the
answer. Where a page replaces its whole list by an answer the request carries the filter of the render in which
the handler was made, since that is what the closure still has when the answer comes. An answer to a page that
was left is applied to the module-level state only; where React decides whether an updater of an unmounted page
still runs, both outcomes are possible.

- `ImageQueue`: `Asking`, `CreatesAnswered`, `PollAnswered`, `Resubmit`, `RunGoesOn`, `RunEnds` are
  `runConversationQueue`; a runner keeps the mount whose ref it was started with. `WriteDone` and `WriteFails` run the
  head of the FIFO of `queueImageConversationWrite`. `HistoryListed`, `HistoryFetched`, `HistoryUnsynced`, `Loaded` are
  `loadHistory` with `recoverConversationHistory`. `Submit` .. `RenameConversation` are the user's handlers, `LeavePage`, `EnterPage`,
  `ReloadPage` the page changes, `TaskEnds`, `TaskPurged`, `CancelServed` what the server does (its task contract is
  the one of `TaskContract`, seen through ids). `updatedAt` is a clock that may stand still between two saves.
  A deletion the store refuses reads the list again (`RelistRead`) and shows it (`Relisted`). What a handler does to the page, the runners and
  the write queue is composed of operators on one record of all three (`Tab`, `Become`): `SetShown`, `Queue`, `Persist`, `RunnerUpdate`.
  The list of the last render and `conversationsRef` are taken as one: the moment until the effect (`page.tsx:505`) copies one to the other is left out.
- `Composer`: one action per handler that changes what `handleSubmit` puts together; a conversation is one finished turn.
- `Lightbox`: scales in halves, displacement in quarters of the window on one axis; `FrameComes` applies the transform that
  `TouchMoves` has scheduled. A pan uses the current scale (the code that of the gesture's start, which a pan does not change); a change of
  the number of fingers within a gesture, which drops it, is left out.
- `Session`: mounted guard, stored key, cached session, pending validation and requests; `Unauthorized` is the interceptor; a refusal of a
  request sent with a key that has been replaced since, which could only remove a session, is left out.
- `SettingsPage`: one number, one switch and one text stand for the fields of their kind.
- `RegisterPage`: a form (target and mail providers) and the three flags of the run; the server's run starts and winds
  down by itself as `RegisterRun` allows. The server takes a put at any time, where `register_service.py:679`, `900` refuse it during a run:
  the model has more behaviours than the code.
- `AccountsPage`, `GalleryPage`, `LogsPage`: the server's list has a version (in the gallery every image, too), so that a
  property can tell which answer is on the page. An answer that comes to a gallery that was left changes its cache as a whole or not at all
  (in the code `setSummary` and `setOwners` may write theirs alone; the property excuses a cache of two filters, `mixed`), and a deletion
  there does not touch the cache. `LogsPage` compares the detail shown when a deletion is answered, the code the one at the click.

## 4. Runs

| run | instance | shows |
|---|---|---|
| `tasks` | one of three settings, chosen initially: two requests of one task id with two slots and one fault; two tasks beyond the quota with storage limit; two processes on one task of two images with two faults | charges and refunds balance, inputs live as long as needed, images match rows, quota holds, steps implement the contract |
| `ends` | two tasks (an edit; two images), one slot, one fault, fairness | everything ends, is settled, and inputs are reclaimed; refunds only for ended rows |
| `store_files` | two processes, two entries, one crash, three failing calls, one slow writer | what lock, rename and backup guarantee, and the four ways in which they fail |
| `quota_periods` | three requests, three days, two months, two edits | counters against charges over resets |
| `local_tasks` | two requests of one task, two faults | the same contract, liveness |
| `local_double_refund` | one request, one failed write | **violated**: a refund for a status that was not stored, then another |
| `pool` | one of six configurations (see `MCAccountPool`) | counters match holders, limits hold, what a lost mark needs |
| `pool_ends` | two requests of two processes on a codex account, the watcher, fairness | requests end, marked accounts go |
| `register` | a run of two workers with a stop; or two runs with three callers; one fault; fairness | one run at a time, workers counted, leftovers explained, stop ends |
| `storage_limit` | up to two requests save three images for two users; two old images, room for two; three events, requests included | what limit, retention, undo and deletion never remove; what is left |
| `web` | one of nine pages, chosen initially (see Bounds) | the web properties below |
| `image_resurrected` | the image queue of `web` | **violated**: the comment at page.tsx:867, deleted conversations are not written back |

### Properties

*Image tasks.* `NeverOverRefunded` and `NeverOverCharged` compare what is charged with what is due:
all of it while someone will still settle the request, what was delivered afterwards. They are separate
because their exceptions differ: any fault at a settlement can make a user lose (`leaked`), but only a
charge that was not written, or a create whose reply was lost, makes the service lose (`gifted`). `Settlement` is both, with `OneSettler` and
the types, in every setting. `Files`: a live edit has its input directory although a duplicate's handler cleans
up after itself, and each directory has someone who will delete it (`InputsAvailable`, `NoStrayInputs`); a success
has its images although an earlier run that lost its claim removes its own, and nobody else's images stay
(`SuccessHasImages`, `NoStrayImages`). `Counters`: nobody gets more than the quota (`QuotaRespected`), and clamping at
zero is never what stops a refund (`CounterMatchesLedger`); images are counted one by one (`Units`), as members of a set. `RefundOnlyWhenEnded` is the
action property behind "refund if changed".

*Store.* `MutualExclusion`, `AckedStored`, `ErrorsLeaveNothing` (`FailedLeavesNoTrace`, no entry of a failed update; `LockReleased`, no lock file but
a writer's inside, or one left by a death or by a removal that failed itself), each relative to the harms and crashes it names.

*Quota.* `CountersCover` and `CountersFair` bound the counters from both sides; `ChargeWithinQuota` says by how much
a charge can exceed the allowance.

*Local tasks.* `ContractSpec` is the refinement (`TypeOK` of this module is proved, no run
checks it); `RowsMatch` (images and cancel functions against rows), `EveryTaskEnds`.

*Pool.* `HeldIsCounted`: pool counters (`PoolMatchesHolders`, over every way out of an attempt) and leases (`LeasesFollowJobs`); `CapacityRespected`: types, what all generations of
a web account have left to upload covered by its allowance except where the record changed after it was read (`overtaken`; with
leases while none lapses, without them in one process), and the bound on the jobs of a web
account (over all processes while no lease lapses, in one process regardless);
`MarkLostOnlyToStaleView`: a mark for removal disappears only when somebody writes back a record read before it.

*Register.* `OneRun`, `WorkersCounted`, `StateExplained` (types, accounts left behind, `enabled` without a run), `StopEnds`. `stranded` and `excused` are
set by named faults only; one circumstance needs no fault: a start that meets a thread which has
already cleared `enabled` and is about to leave sets it again with nothing behind it.

*Image storage.* `BatchStaysWhole`: what a request has saved and not given up is removed only by its owner, an administrator, or the
limit as another request enforces it. `UserImagesKept` states how far the protection of users' images goes:
up to what was recorded when a clean-up read the owners (`late` otherwise). `LimitHolds`: without faults, once an answer is given and all is
quiet, the storage is within the limit, or all that is left is protected. `RecordsMatchFiles`: a recorded image keeps its
owner, a failed request leaves nothing, and the only records without files are those the retention leaves behind and those
made after their file was gone.

*Web client.* `DeleteSticks`, `LoadingIsWatched`, `QuietMeansStored` relate the list of the page, the queue runners
and the stored conversations of the drawing page; their guards name what the code does not promise: nothing is said of a history that
was still loading, of a tab that left the page in between, of a write that failed, or (`DeleteSticks`) of a conversation that was back on the page
because the deletion of another one failed. `SentTurnIsWhole` is about what
leaves the composer after any order of late reads. `ZoomBelongsToImage` is about transform, gesture and waiting frame
against the image shown. `NoGhostLogin` allows exactly one way in which a session survives a logout: a validation or a login that
was on its way. `CleanFormIsServed` holds since the save bar, which locks the form's buttons while a save runs, is the only
way to save; `crossed` names its exception. `RunUsesForm` compares the form at the click with the form the run has.
`ListsAreTrue` (`ListFits`, `DeletesWhatItLists`, `CachedUnderItsFilter`) relates a list to the answer and the filter it came from.

### Bounds

Two requests suffice for every conflict in the code: over a primary key, the quota, a claim. Two processes
suffice for a lapse, since a row has one holder and at most one former holder matters at a time
(the final statement compares `claimed_by`; more former holders change as little as one). Two faults
let a crash or lost reply hit both ends of one task; one fault in the larger settings keeps them
finite in minutes. A task has one or two images, so that partial results occur. Two writers, one crash and three
failing calls reach every branch of the store's write, a rename, a write and a restore that fail one after the other included; what follows
the removal of a live writer's lock, of which no property speaks, is explored only without failing calls (`UsurpedWithoutErrors`, a CONSTRAINT). Three requests on two slots or one upload
allowance are the fewest that exceed a limit; three token generations let a job meet a token two rotations old.
Two runs, two workers and one stop are the fewest for which a run meets another's workers. Storage for two images
with two old ones and three new makes every clean-up remove something and lets two of them overlap; a request that
comes, a fault, a deletion and a second are events, of which there are three (`MaxEvents`): one beside two requests, two
beside one, so that a removal and an update can both fail. Constants
named `Max...` and the fields `faults`, `lapses`, `refreshes`, `tokens`, `runs`, `workers` are the bounds.

`Web.cfg`: one conversation and two tasks, so that two turns, a turn of two images, or a retry beside a running turn
fit; two moves besides the page's own steps (user operations, page changes, failures, purged tasks) on one
tick of the clock, which is where the size of the run comes from. The composer has two references,
two conversations and three moves around a send; the lightbox three images and no bound, its state being finite; the session
two keys and four moves; settings two edits and four other moves; registration three; accounts, gallery and logs three or
four items each and five, four and five moves. Each count lets every
action of its module happen and the mutant of its property be caught. Web runs have no fairness: the browser promises no
answer, and the properties are about what is shown when nothing is under way.

In `tasks` the contract is checked in the settings `apart` and `contend` only; with duplicates it takes too
long. Symmetry is used for two slots of one process (`tasks`, no liveness) and for processes and entries of the
store. Deadlock is checked in `tasks` and `ends` (`Rest` is the explicit stuttering of a
system at rest); the other configurations say CHECK_DEADLOCK FALSE because the modelled
requests, writers, days, runs or moves are finite and all of them do end.

### Fairness

Weak fairness only, and only for what the code schedules by itself: handlers and goroutines run on,
slots poll, the reaper and the purge come round (tickers), upstream and database calls return (every
one has a timeout), deadlines and lease expiries are reached (time passes), futures run. There is none for users
(create, cancel, stop, start), administrators, faults, lapses of a claim, or a call's success. In
`LocalTasks` `EveryTaskEnds` is claimed while no fault has happened: a row whose final status could not be
written stays `running` until someone cancels it or the process restarts.

## 5. Proofs

| theorem | says | for |
|---|---|---|
| `ImageTasksProofs!TypeCorrect`, `Inductive` | `TypeOK`; `IInv` | any requests, owners, slots, processes, faults |
| `RefundSafety`, `ChargeSafety`, `SettlerUnique` | `NeverOverRefunded`, `NeverOverCharged`, `OneSettler` | the same |
| `RefundsLate` | `RefundOnlyWhenEnded`, an action property | the same |
| `ServiceKeepsContract` | `ContractSpec`, the refinement of `TaskContract` | the same |
| `InputsStay`, `InputsHaveOwner`, `SuccessKeepsImages`, `NoImagesLeft` | the parts of `Files` | the same |
| `LedgerBalances`, `DeliveredWithinQuota` | the parts of `Counters` | the same |
| `LocalTasksProofs!LocalTypes`, `RowsStayMatched`, `LocalKeepsContract` | types; `RowsMatch`; `ContractSpec` | any requests, tasks, faults |
| `StoreProofs!StoreTypes`, `LockExcludes` | types; `MutualExclusion` | any processes, entries, bounds |
| `AckedUpdatesStay`, `FailuresLeaveNothing` | `AckedStored`; `ErrorsLeaveNothing` | the same |
| `QuotaTypes`, `CountersCovered`, `CountersStayFair`, `QuotaRespected` | types; `CountersCover`; `CountersFair`; `ChargeWithinQuota` | any calendar, amounts, edits |
| `AccountPoolProofs!PoolTypesHold` | types, and what a request holds at each place | any accounts, requests, keepers, processes, settings |
| `MarksKept` | `MarkLostOnlyToStaleView`, an action property | the same |
| `HeldStaysCounted`, `CapacityHolds` | `HeldIsCounted`; `CapacityRespected` | the same |
| `RegisterRunProofs!OneRunAtATime`, `EveryWorkerCounted`, `LeftoversHaveReasons` | `OneRun`; `WorkersCounted`; `StateExplained` | any runs, workers, callers, modes |
| `ImageStorageProofs!BatchSafety`, `UserImageSafety` | `BatchStaysWhole`; `UserImagesKept` | any requests, images, limit, events |
| `RecordsFit`, `LimitKept` | `RecordsMatchFiles`; `LimitHolds` | the same |
| `WebProofs!DeletionSafety`, `RunnerSafety`, `StoreSafety` | `DeleteSticks`; `LoadingIsWatched`; `QuietMeansStored` | any finite set of conversations; any tasks, moves, ticks |
| `ComposerSafety` | `SentTurnIsWhole` | any references, moves |
| `LogoutSafety` | `NoGhostLogin` | any moves |
| `SettingsSafety`, `RunFormSafety` | `CleanFormIsServed`; `RunUsesForm` | any edits, requests, moves |
| `ListSafety` | `ListsAreTrue` | any moves |
| `ZoomSafety` | `ZoomBelongsToImage` | any number of images |

The properties of `MCTaskSettings` (`Settlement`, `Files`, `Counters`, `ContractSteps`) are those of `ImageTasks` in each of its
settings; the theorems are about `ImageTasks` itself, for every setting that satisfies its assumption.

They assume only the named ASSUMEs of the modules (types of the constants; that an edit asks for one image,
which the handler enforces; that the marks for an absent and a torn file are not themselves contents; that the
requests of the account pool are finitely many, so that what they hold can be counted; that a
viewer is opened with an image; that the conversations of the drawing page are finitely many and its bounds natural numbers), which TLC evaluates in the runs of the same modules.

Where a module is proved about, an update of several fields of a record is written
`[f EXCEPT ![x] = [f[x] EXCEPT !.a = .., !.b = ..]]`, one path of `f` at a time and with no `@` inside another: the SMT translation of
tlapm 1.4.5 does not give two paths below one argument (`![x].a = .., ![x].b = ..`) their meaning, and a proof by it would show nothing.

*Image tasks.* `NeverOverRefunded` is not inductive: whether a refund is right depends on who else will refund.
`IInv` adds, to the types, `RunsOK` (what a slot, a handler or a reaper holds fits the row: only a slot whose
claim is named in the row can end it, a slot at `refund` has an ended row), `SettledLate` (a settler other than creator and
row exists only for rows that have ended), `SettledOnce` (settlers of different kinds exclude each other)
and `Amounts` (at each stage, `net` is what that stage has charged and `delivered` what it has put in the row). With it each action is a
step of the proof: the statement that ends a row finds it live, hence unsettled, and hands it to exactly
one caller; a refund removes the settler it belongs to; a crash removes settlers and records `leaked`.

*The contract of the image tasks.* Under `PhaseOf`, `CostOf` and `ResultOf` each action changes what the contract sees of at most one
request (`Untouched` for the others) and is there an `Accept`, `Refuse`, `Deliver`, `Settle`, `Fail`, `Gift` or a stutter; one lemma
per group of actions (`CreateShown`, `CancelShown`, `RunShown`, `ClaimShown`, `ReaperShown`, `CrashShown`). That a refund of the code is
the contract's `Settle`, of the right amount, is what `IInv` is needed for.

*Files of the image tasks.* `Inputs` adds to the two properties of inputs that whoever is about to delete a directory does so for a row
that has ended, or was never inserted; `Images`, to those of images, that a run past its end has only the images of a row that succeeded, and
that a run which still saves has its images on disk. *Counters*: `Ledger` says that the counter is the number of units charged; a
charge adds exactly `Want` units of one request and a refund takes away exactly what is still charged of it, so the bound at zero is never reached.

*Local tasks.* `RowsMatch` is not inductive either. `IInv` adds which places of a goroutine allow which row, how many images it has stored at each,
and that whoever generates owns its row and is owed its charge until the row has ended. The refinement follows step by step as for `ImageTasks`.

*Store.* `LockHeld` (a writer inside the locked part owns the file on disk, until a lock is usurped) is, with the types and
`SaveHasValue` (a `Save` has what its `Load` returned), the inductive invariant behind `MutualExclusion`, and what `LockReleased` is inductive with: a
lock file changes its state from held to left behind only by a step that sets `orphaned`. `AckedStored` and `ErrorsLeaveNothing` need `FileInv` besides: for each line of the locked part, what its
writer relies on (`Keeps`: the acknowledged entries are in the file, or, while it is overwritten in place, in what will be written and in
the copy it can go back to) and that nothing else is in any of the three (`AddsOnly`, while nothing has crashed); all of it as long as none of the
four harms has happened. A step that fails without harm leaves what its writer relies on: the read before the copy, for one, fails into `bare`, where
the original is still in the file, and only an overwrite that then fails as well is `torn`.

*Quota.* `CountersCover` with the types is inductive once the case of a refund is split by whether its charge is of the
current epoch; `ChargeWithinQuota` follows from it for each step. `CountersFair` is not: it needs that what was spent in a window is the number of units
of its requests that are charged and not given back (`SpentIsOwed`, a cardinality instead of a sum over requests), and that no stamp lies in the future (`InThePast`).

*Account pool.* A request holds different things at each of 17 places, so the types come with `PlacesMatch`: which places have a
picked account, a token, a lease, a view of the file. A lemma per action (`...Fields`) says what it makes of its request, and
`FileMoved` what any step makes of a record: unchanged, removed, touched in place with its token and (unless `Stale`) its mark, or
rewritten from an older view; `MarksKept` is read off it. `HeldIsCounted`: a step adds and removes slots and reservations exactly as it
changes who holds them; `LeaseInv` adds that the leases are a finite set, each of a job that generates or a stray, and that
strays are at most as many as faults. `CapacityRespected`
is about web accounts because nothing like it holds of codex accounts, whose tokens change: `WebInv` says that a web account keeps its first token and
always has a known allowance, in the file and in every view, and that only the web route takes it. Then
`inflight` of its one token and its leases are bounded by `MaxConc` (`SlotsBounded`, `LeasesBounded`), a generation takes one of
each, and what is still to be uploaded (`Due`) is at most what is leased or, in one process, reserved: a pick or a lease that would exceed the allowance is refused, an upload
lowers both sides by one, and an allowance that moved otherwise is `overtaken`.

*Registration runs.* `OneRun` is not inductive because of threads that are alive but no longer at work. `IInv` adds where each thread may be while which of its
futures and workers are in which state (`Phase`), that the counters of a run are the numbers of the futures it has taken (`Counts`), that whatever
lives is the `runner` (`Alone`), that a worker has no account before `Save` (`Settled`), and what `enabled` means (`Switch`).

*Image storage.* `IInv` adds to the two properties what the clean-ups rest on: from the reading of the owners to the end of
the removals a request's own images are in its `protected` (`Shielded`), and so is every user's image with a record, unless the
record is `late` (`KnownOrLate`); no two requests save the same image (`Apart`); a request undoes only what it has saved (`OwnUndo`);
records and the paths of a deletion attribute an image to the request's user or an administrator (`Attributed`). One lemma per
action; the removing ones show that the image they take was outside what they protect.

`RecordsMatchFiles` needs three kinds of facts besides. What is stored and saved has the request's owner, except between `Write` and `RecordOwner`, when
the newest has none (`Recorded`, `Unrecorded`); what a request undoes is still in its `todo`, and once it has failed nothing is left
(`Undoing`, `Undone`); and a record without a file is of an image the retention took, of one that went before it was recorded, or of one
that somebody at work is about to forget (`Leftovers`, `Forgetting`). All but the first hold as long as nothing has failed.
`LimitHolds` speaks of the moment when nobody works, so `StorageInv` says how it is reached: when no request is left between its
write and its count (`ToWalk`), the storage is within the limit, or what is there is protected, or some clean-up that counted
at least what is there now still has all of it before it (`Purging`, `Within`). The last request to count finds the limit kept or becomes that clean-up; every other step only
removes files; a purge that ends has reached the limit or has nothing left but what it protects, which belongs to users or to its
own request (`ProtectedOwned`). That it is some request with images needs `HasSaved`. The steps that several lemmas use are
given by what they do (`PurgedOne`, `Walked`, `Forgot`, ...), each shown once from its action.

*Web client.* A behaviour of `MCWeb` stays on the page it begins with, so `WebInv` is the disjunction of nine invariants, each inductive for its own page.
None of the properties is inductive, for the same reason: they speak of what is shown, and what is shown next is an answer already on its
way. Each page's invariant therefore says what a request may carry and what its answer may bring (`GoodLogRequests`, `GoodAccountRequests`,
`GoodGalleryRequests`, `GoodSettingsRequests`, `GoodRegisterRequests`), and which requests never overlap (`AtMostOne`). What is particular:

- Accounts: an answer is no newer than the server's list and equal to it when as new (`NotAhead`). Image manager: `FitsServer` ties an image in a
  list to the server's by its version, for the list shown, the cached one and every read and deletion on its way. Logs: an answer is of
  the filter its request carries.
- Settings: while a save is on its way every read knows that it is crossed (`ReadsCrossed`), and a save is only on its way for a dirty form, unless crossed.
  Registration: from the put's answer to the start's, the form at the server is the one that was clicked (`GoodPosts`).
- Composer: previews and files are one list at every step, and the entitlement is the last one the page was told; `Whole` is kept of what was sent.
- Session: from the first step of a logout nothing is stored and nothing is on its way that would store (`QuietApp`), unless something was
  before (`late`); that each guard, request and answer leaves it so is one lemma per handler (`Harmless`).
- Lightbox: a finger that went down on the image before would schedule a frame for it, and a frame with any transform could be applied. `LightboxInv` adds that the gesture, too, belongs to
  the shown image once the reset has run, and that a waiting frame is already inside the window
  (`NormalizedInside`).
- Image queue (`ImageQueueProofs`): the invariant is about a tab that never left the page. `Awaited`: a queued write of a runner (or of the load) finds that runner waiting
  for it, and is its only one. `Known`: conversations anywhere are ones that were made. `Sticks`: of a conversation that is deleted, or whose deletion is queued,
  nothing is on the page, and every save of it is ahead of its deletion in the queue. `Watched`: what loads has a runner or one due. `Ages`:
  the stamps of a conversation's saves never fall along the queue, nor below the stored one, so that `pickLatestConversation` takes each of them. `Fits`
  with `Settles`: the last queued save of a conversation, or without one the store, holds what the page shows. The exceptions of the
  properties are parts of it: `Fits` says nothing after a refused write. The operators the handlers are composed
  of have a lemma each (`ShownFine`, `QueuedFine`, `SavesShown`, ...): what it keeps of `Fine`, given what its argument is; an action cites the
  lemmas of its operators. A runner's finally is the hard case: it has to start the next turn, chosen from the page's list as it is by then.

*Only model-checked*: all liveness (`EverySettled`, `InputsReclaimed`, `EveryTaskEnds`, `EveryRequestEnds`, `MarkedGoes`, `StopEnds`), which is
outside the prover's reach, as is ENABLED; that the three settings of `MCTaskSettings` are instances of `ImageTasks`; and the two violations.

## 6. Where the code and its documents differ

Two runs end in a violation; `findings` in `PROJECT.json` quotes the documents.

- `local_double_refund`: a status that could not be stored is refunded, stays running, and is refunded again by a cancel.
- `image_resurrected`: clearing the history empties the store first and the page's list afterwards; a queue that is
  answered in between saves its conversation behind the clear, and it is back on the next load.

Seen while modelling, without a run of their own:

- README.md:413 promises a refund on failure or timeout. The refund is a second update of another store after the row has ended
  (`worker.go:184`); a fault in between loses it and nothing makes up for it. `NeverOverCharged` states the exception (`leaked`).
- `docs/android-integration.md:685` says that no image under a user key is ever removed automatically. A clean-up reads the owners,
  then the files (`images.go:187`, `127`); a user's image that is saved in between and recorded before it is removed is not
  protected, and the answer names a file that is gone. `UserImagesKept` states the exception (`late`).
- `docs/android-integration.md:87,418` say service keys are unlimited; `auth.go` charges every key with an id.
- A restart ends running local rows without refund (`tasks_chat_gallery_web.go:169`), and any process that
  starts over the same directory does it, a worker beside a live api among them.
- `removeOrMark` (`account_cleanup.go:176`) asks for active work before it takes the file lock, so an account
  that is picked and not yet leased can be removed under its request.
- README.md:374 says no unusable register result is kept; a deadline that passes right after
  `add_account_items` (`openai_register.py:2117`), or a lost reply of it, leaves the account in the pool.
- `enabled` stays true after a run broke off, or after a start met a leaving thread; the auto-refill
  watcher (`register_service.py:1456`) then waits for a run that does not exist.
- README.md:260 calls `image_account_concurrency` the limit of concurrent images per account. Each request on the
  codex route replaces the account's access token (`upstream.go:2472`, `oauth.go:74`) and both the pool
  (`account_pool.go:149`) and the leases (`pg_tasks.go:588`) count tokens, so a codex account has no such limit.
- A refresh writes back whole records it read up to 45 s per account before (`accounts.go:598`, `629`, `oauth.go:90`): an
  account marked for removal meanwhile is normal again.
- A refill run that dies with the process is restarted as a manual run in the configured mode.
- `readJSONFile` answers any error with the empty fallback (`store.go:30`), not only that of a missing file, and an update writes it back: one failing
  read inside it loses every entry. `AckedStored` states the exception (`unread`).
- The unlock's error is dropped (`store.go:160`); the lock that stays makes every update of the file fail for 30 s. While a stale lock cannot be
  removed, the loop's `continue` (`store.go:168`) skips the deadline and the wait below it.
- In the browser (paths under `web/src/`): a validation or login under way at the logout writes the session back
  (`lib/auth-session.ts:80`), and a failed validation of an old key removes a newer login (`:87`). The effect at
  `app/image/page.tsx:820` removes a stored high-resolution preference before the user's rights have arrived.
  Deleting the results of a turn that is being polled hides them, but the answer puts them back into the store
  (`page.tsx:941`, `1217`). When the store refuses to delete one conversation, the list that is read again (`page.tsx:921`) shows another whose
  deletion is still queued, and its runner then saves it behind that deletion. Adding a tag sends all tags of the image (`image-manager/page.tsx:439`), so of two quick additions
  the second can lose the first; and an answer that comes late puts the older tags over a newer list and caches that list under
  the filter of the click (`image-manager/page.tsx:289`). An event of the register stream overwrites unsaved edits (`register/page.tsx:41`). On
  the key page the answer to "show" can cover the new key of a reset with the old one
  (`keys/components/user-keys-card.tsx:174`).

## 7. Not modelled

Sign-up and mail protocols, the upstream wire protocol, turnstile and sentinel solvers, HTTP routing and logging
are input and output around the modelled state; their outcomes are choices in the modules. Text retries,
batches and routing, account import, the register configuration and the proxy pool hold state worth
modelling and are open in the plan. Of the image storage thumbnails, tags, listing and downloads are left out: they change none of the
modelled state. Of the web client the key page, the task list, the quota popover and the video card
are left out: they repeat patterns of the modelled pages or only show. Inside the modelled pages downloads, layout,
scrolling, toasts, announcements and wording are left out, and fields of a form that are treated alike are one field.

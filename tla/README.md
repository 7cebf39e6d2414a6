# TLA+ models of musicdl-web

musicdl-web searches NetEase and QQ Music, downloads chosen tracks through a
durable queue, and either publishes them into a music library shared with
Navidrome or keeps them for one retrieval by the browser. It is one Python
process (FastAPI on one asyncio event loop, plus the thread pool that runs the
synchronous endpoints), one SQLite file, two directory trees, and a Vue
workbench. This directory holds TLA+ models of its stateful parts, the TLC
configurations that check them, and TLAPS proofs about them.

Source paths below are relative to `src/backend/src/musicdl_web/` unless they
start with `frontend/` or `docs/`.

## 1. Inventory

| Component | State | Operations | What makes it correct |
|---|---|---|---|
| Download queue, `queue/service.py` | `_stopping`, `_wake` (asyncio.Event), `_running` (job → task), worker tasks | `start`, `stop`, `notify`, `cancel`, `retry`, `_worker` | one worker per job, no orphaned job, no lost wake-up, outcomes final, every job settles |
| Job repository, `db/repository.py` | tables `jobs`, `managed_media`, `browser_artifacts` | `create_job`, `claim_next`, `transition`, `cancel`, `retry`, `recover_interrupted`, `clear_terminal_history`, `managed_decision`, `register_media`, artifact calls | each call is one transaction (`transition` is two); guards of the UPDATEs |
| Pipeline, `core/pipeline.py` | one work directory per job | `process`: resolve, download, tag, publish or hand over | stages in order, completion only after delivery |
| Task API, `api/router.py` | none | `create_batch` (coroutine), `cancel`, `retry`, `clear`, `file` (threads) | independent items, notify after the last insert |
| Server library, `media/publisher.py` | files of an album directory, index `managed_media` | `publish`, `_resolve_conflict`, `managed_decision` | one managed copy, never a worse one, foreign files untouched, index names the song's file |
| Browser delivery, `media/delivery.py` | `browser_root/<job>`, `browser_artifacts` | `to_browser`, `retrieve_file`, `mark_delivered`, `cleanup_expired` (no caller) | completed is retrievable, offered is whole, delivered once, cleaned up |
| Media probe and tags, `media/{ffprobe,probe,tags,quality_match}.py` | none | ffprobe subprocess, tag writing | the tier of a file is recognised |
| Platform sessions, `sessions/{service,store,production,importer,validation}.py` | version per source in memory; version and cookies in an encrypted file | replace, clear, status, material | a version names one login for as long as anything is bound to it, through failed writes, a lost file and restarts |
| QR login, `sessions/{qr,netease_qr}.py`, `frontend/src/composables/useQrLogin.ts` | open challenges in memory; the tab's run number, challenge and timer | start, poll, image, cancel, expiry; logout and import end it | an ended challenge stores nothing, verdicts are about one's own challenge, polling is single and ends |
| Quality snapshots, `platforms/quality.py` | in-memory snapshots with TTL | create, bind | a job downloads exactly what was offered to it, under the same session |
| Platform runtime, `runtime.py` | track table, the two liked caches, play records, QR controllers and their lock | search, liked, like, quality, prepare, revalidate, artwork, preview, QR endpoints | caches belong to the session that reads them and agree with the platform |
| Artwork proxy, `artwork.py` | two cache files per cover | fetch, cached | image and type belong together; a cover is not older than the cache allows |
| Network and download, `network.py`, `download/service.py` | none across calls; a `.part` file during a download | pinned request, redirects, streaming with length checks | only allowed hosts, the cookie to the control host only, exact length, every request ends |
| Adapters, `adapters/` | none | request building, parsing | formats |
| Application, `app.py` | lifespan | start and stop the queue; health; static files | the queue runs exactly while the app does |
| Workbench, `frontend/src/composables/useWorkbench.ts` | refs: heading, list, qualities, choices, selection; no sequence numbers | search, liked list, artist, load more, quality, row download, batch, task polling | selection, menus and what is sent belong to the list on the screen, whichever answers are late |
| Preview player, `frontend/src/composables/usePreview.ts` | the present `Audio`, its state | toggle, stop, handlers of every element | one preview sounds at a time |
| Views, deployment, scripts | none | rendering, container files | — |

How they interact: the task endpoints write `jobs` and wake the queue; a worker
claims a row and runs the pipeline; the pipeline asks the runtime to revalidate
the job's quality snapshot (memory only), downloads, then calls the publisher
or the browser delivery, both synchronous on the event loop; the router reads
`managed_media` before it accepts a server job, and `browser_artifacts` to send
a file. The operator and Navidrome share the library directory.

What is hard: threads commit between any two transactions of a coroutine step;
`transition` commits and then re-reads; `asyncio.Event` is set from threads;
`Task.cancel` acts at the next await; publication has five visible effects and
the process may die between any two; the index, the files and the jobs are
three stores without a common transaction; snapshots die with the process while
jobs do not; a cached cover is two files that readers create and delete without
a lock; the workbench uses every answer whenever it comes.

## 2. Modules

| Module | Models | Proofs |
|---|---|---|
| `JobLifecycle` | the abstract promise about one job row: stage order, who ends it, what leaves a terminal status | |
| `DownloadQueue` | queue, repository, pipeline and task endpoints at the grain of one transaction or one await | |
| `DownloadQueueInvariant` | the inductive invariant `IInv`, and `StageRow`, `NoneCalledOff` for the refinements | |
| `DownloadQueueProofs` | | type correctness and the queue's safety theorems |
| `DownloadQueueRefinement` | | `DownloadQueue` implements `JobLifecycle`, but for cancels that are written over |
| `ManagedLibrary` | `publish`, conflict resolution, the index, the album directory and the operator's hand in it | |
| `ManagedLibraryProofs` | | its inductive invariant; songs stay playable; index, copies, foreign files, best copy |
| `BrowserDelivery` | `to_browser`, the artifact row, the file endpoint | |
| `BrowserDeliveryProofs` | | its inductive invariant and safety theorems |
| `PlatformSessions` | session manager and encrypted store, quality snapshots and the jobs bound to them | |
| `AccountLists` | the liked caches and the like button, over `PlatformSessions` | |
| `SessionProofs` | | a version names one login; a grant keeps its offer; `AccountLists` is still `PlatformSessions`; caches keep logins apart; hearts agree with the platform |
| `QrLogin` | QR challenges at the server, `_qr_lock`, one browser tab and its session dialog | |
| `QrLoginProofs` | | its inductive invariant and safety theorems |
| `Transfer` | the abstract promise about one outbound request: it ends, and leaves a whole file or none | |
| `Outbound` | the HTTP clients and the downloader: URL checks, redirects, preview levels, headers, chunks, failures | |
| `ArtworkCache` | the cover cache and its reader threads, over `Outbound` | |
| `ArtworkCacheProofs` | | `Outbound` implements `Transfer`; hosts and cookie; the cache's invariant |
| `Workbench` | one tab's lists, rows, selection and requests | |
| `WorkbenchProofs` | | its inductive invariant and safety theorems |
| `PreviewPlayer` | the audio elements of a tab and their event handlers | |
| `MC…` | TLC instances: symmetry sets, state constraints, values for function constants | |

### 2.1 DownloadQueue

*State.* `status`, `delivery` and `delivered` are the durable rows and files;
`phase`, `wake` and `running` are QueueService's fields; `pc`, `job`, `stage`,
`verdict` and `mustCancel` are a worker and its process task; `cpc` and
`target` an endpoint thread; `bpc`, `bjob`, `left` and `bkind` the
`create_batch` call in flight.

*Grain.* A coroutine runs from one await to the next without giving up the
event loop, but a thread may commit between any two SQLite transactions of that
step. An action is therefore one transaction or one await; a worker whose `pc`
is in `Holding` has the loop, and no other coroutine moves (`LoopFree`), while
`Callers` do.

*`transition`* is `Update` followed by `Reread`: the code commits the UPDATE
and then calls `get_job`; if the row is gone the KeyError ends the process task
(caught by the worker) or, at the worker's own last transition, the worker.

*`Task.cancel`* on a task at an await raises there; on one that has not started
it raises before the first line; on one inside a step it is pending until the
next await, and a task that returns with a pending cancel ends cancelled
(`mustCancel`). An exception of the task itself wins over a pending cancel.

*`asyncio.Event`*: `wait` checks the flag and then registers a waiter. Both
happen in one loop step, so only a thread can come between them: `CheckWake`
and `Park` are two actions. Setting from a thread is a data race in CPython
terms; the model takes the outcome the build produces.

*Abstracted*: progress, attempt counts, error texts, the time stamps (the order
of ids is the order of `created_at`), "database is locked" errors, failures to
make the work directory, several `create_batch` calls at once.

### 2.2 JobLifecycle and the refinement

`JobLifecycle` has no worker and no thread: `Submit`, `Reject`, `Start`,
`Advance`, `Complete`, `Fail`, `Cancel`, `Retry`, `Recover`, `Clear` on two
variables of the same names. The mapping is the identity on `status` and
`delivery`. `Lifecycle` (`JL!Spec`) holds when the operator never cancels; with
cancels it does not, because `transition` may move a cancelled row back into a
stage (`db/repository.py:196`, section 3). `LifecycleButForCancels`
(`JL!LossySpec`) adds that one step, `Overwrite`, and holds always: nothing else
that the queue does leaves the lifecycle.

### 2.3 ManagedLibrary

Songs of an instance share one normalised path, so that they meet. A path is a
stem (the plain one or the one with the song's id) and an extension derived
from the quality; `file` says whose audio is there, `index` is
`managed_media`, `cover` and `lyrics` are the sidecars. `Resolve` is
`publish` up to the decision, with the four reasons `managed_decision` lets a job
through for (`cover_missing` among them, which looks at no quality), `Stage` the
copying and tagging, then `Sidecars`, `Replace`, `Register`, `Remove` are its
visible effects in order. Each of them may raise (`Raise`: the sidecars and
`os.replace`, publisher.py:104-113; the directory's fsync, :114; `register_media`, :120;
either unlink, :124-125), which ends the job as failed and leaves what has been done,
and the process may die between any two (`Crash`). The queue is reduced to
`Submit`, `Retry`, `Spoil` (anything before `publish` fails) and `Forget`. After a crash
no job gets as far as `publish`, as its snapshot is gone: `revalidate_exact`
refuses it. The operator puts audio files and lyrics into the directory at any
moment, during a publication too (`Place`, `PlaceLyrics`), and deletes audio
between publications (`Delete`); each configuration chooses among them. A cover,
once there, is not deleted by anybody in the model.

Four histories say what the code does not guard against, so that the properties
can say that nothing else goes wrong. `strays` are the files that an interrupted
publication left unregistered; `unseen` the foreign files that came after the
publication had looked, or at a path the index names; `gone` the songs whose file
the operator deleted; `cur.was` the entry a publication began with.
`QualityNeverDrops` is about each copy of a song and exempts three: `Repairs` (the
song is fetched again for its missing cover), `Unrecorded` (the copy is better than
its entry says) and `Mistaken` (the copy lies where the index looks for another
song). Section 3 says how each of them comes about.

### 2.4 BrowserDelivery

`MakeDirectory`, `WriteFile`, `Register` and `Complete` are `to_browser` and
the worker's last transition; `Open`, `Sent` and `Dropped` are
`retrieve_file`, its background task, and a client that goes away. `bound` is
the set of jobs whose snapshot is still in memory: it shrinks by `Lapse` and is
emptied by `Crash`. A cancel committed just before `to_browser` starts has the
same effects as one committed just after `MakeDirectory`, which is the one
modelled. The number of workers is not: any number of jobs may be running,
which only adds behaviours. `artifact` = "spent" stands for delivered or
expired: neither is offered again.

### 2.5 PlatformSessions

*State.* `file` is `netease.bin` as the store decodes it: a version and a
login, with login 0 for the tombstone that `clear` writes and `Absent` for no
file. `memory` is `SessionManager._versions`. `readable` is whether the file can be
decrypted. Each login that is stored gets a number of its own (`logins`), which
the code does not have: it is what the properties compare versions with. Per
job, `stage`, `snapshot`, `kept`, `bound` and `using` follow one download from
its quality menu to its grant; `bound` is the `session_version` in the job's
stored request, `using` the material that the thread has loaded.

*Grain.* Every public call of `SessionManager` holds its lock from the first
line to the last, the validator's request included, so each is one action:
`Replace`, `Clear`, `Status`, and `Noting` for the load that is part of every
other action. `quality_snapshot`, `prepare_request` and `revalidate_exact` read
the material and then wait for the network without any lock: `AskQuality` and
`Offer`, `Prepare` and `Enqueue`, `Revalidate` and `Grant` are the two halves,
and anything comes between them.

*Failures.* `Replace` may report a failure after the new file is in place
(`chmod` follows `os.replace`) and leaves `memory` behind; `Clear` raises
`memory` and may then fail to write. A write that fails before `os.replace`
changes nothing and is no step. `Damage` makes the file unreadable, after which
every call raises until the operator removes it (`Wipe`), and with it the
version that it held.

*Abstracted.* NetEase only: QQ has no session of its own here. The validator's
answer is not kept. A job has one snapshot at a time, replaced when the user asks again,
which drops the older one; the option inside a snapshot and the exact-quality
comparison of `revalidate_exact` are a choice between `Grant` and `Fail`.
Stopping and cancelling are `DownloadQueue`'s.

### 2.6 AccountLists

`AccountLists` extends `PlatformSessions`, whose steps it keeps (`SessionStep`,
`JobStep`), and adds requests. `at`, `want`, `holds` and `got` are one request
thread; `ids` and `list` are `_liked_ids_cache` and `_liked_cache`; `liked` is
the platform. `Look`, `Store` and `Apply` are the sections under `_liked_lock`;
`Fetch` and `Write` are the calls between them, which hold no lock.
`Restart` is `Crash` for the threads and caches as well. `raced` is history:
it becomes true when a like meets another request on the same account's list,
or is written with a replaced session, or loses its answer. In these cases the code gives no
guarantee until the caches expire, and `HeartsAgree` claims none.

The play record cache has the version in its key and is dropped by nobody; the
track table only grows. Both are left out. Paging is a read of `_liked_cache`.

### 2.7 QrLogin

*Server.* `chal` is `QrLoginController._challenges` ("gone" for what `_finish`
has popped), `late` the challenges whose `expires_at` has passed, which the code
notices only when one is polled or its image is asked for. `lock` is the request
inside `_qr_lock`. A call that does not leave the process (`Cancel`, `Clear`) is
one action under a free lock; `start_qr`, `poll_qr` and `import_session` hold the
lock over a platform request and are two, `Begin`/`Begun`, `Poll`/`Polled`,
`Import`/`Imported`. The file that a success stores is `PlatformSessions`'s
business; here `stored` remembers which challenge it came from. `Polled` may
store a session and report an error, as `FileCiphertextRepository` can fail
after its `os.replace`.

*Tab.* `run`, `current`, `shown` and `timer` are `runId`, `challenge`, `state`
and `timer` of `useQrLogin.ts`; `timer` holds the run it was set for, 0 for none.
`open` and `mode` are the dialog of `WorkbenchView.vue`; `refreshing` are the
`onSuccess` callbacks that wait for `refreshSessions`. `req` are the requests
under way, in a fixed number of slots: idle, sent, held (inside the lock),
answered. Sent requests are served in any order, answers received in any order.

*Abstracted.* One source (QQ's QR login is refused by the controller). The
platform's answer to a poll is a choice, which covers its own expiry, the legal
and illegal transitions and the verification of the account. "awaiting
confirmation" is shown as "scanned" and is the same here. The image is part of
the tab's display, not a request with a slot. A reload of the page is not
modelled: like a lost answer, it leaves a challenge that nobody will cancel.

### 2.8 Outbound and Transfer

One request is one record: `at` and `leg` are where it is, `home` the only host
its client allows, `hop` and `level` the loops over redirects and preview
levels, `granted`, `declared` and `size` the lengths, `file` the `.part` file.
A preview or a download is two legs: the platform is asked with the cookie, and
the media URL it names is fetched without it. The server at the other end is a
choice at every step: it redirects anywhere, declines, announces any length,
sends any amount, and breaks off. `Send` keeps in `sent` what went where, which
is what `KeepsToItsHosts` speaks of. `Kind` distinguishes the five callers
(cover, preview, download, API, login), whose rules about redirects and lengths
differ.

*Abstracted.* A URL is a host and whether it is sound; a body is its length;
header and content-type refusals end as `Lost`. An anonymous search carries no
cookie and is covered as an "api" request, which may carry one. Address pinning,
TLS and decompression are I/O.

`Transfer` knows only phases, the promised length and the saved file. The
mapping hides a running request's `.part` file: it is private until the request
ends.

### 2.9 ArtworkCache

`image` and `type` are the two files of one cover under `artwork_root`,
`memory` its entry in `_memory`; a cover is what its bytes are (`kind`), the type
it is served with (`mime`) and the modification time of its file (`born`).
Threads of the artwork endpoints and of `prepare_request` go through `Look`,
`Stat`, `Read`, `ReadType`, `Keep`, or `Drop`, `DropType`, or fetch and go
through `StoreImage`, `StoreType`, `StoreMemory`; each file access is an action;
the lock is around the memory entry only. `tries` is the second look that the endpoints take before they
ask the platform. A write may fail (`StoreFails`) and the process may die at
any point (`Crash`), which keeps the files. The fetch itself is the
`Outbound` request of that thread. Time is a counter that `Tick` raises.

*Abstracted.* One cover: the files are named by a hash of the URL and different
covers share nothing but the directory. `os.replace` is atomic, so a file is
whole; the temporary file before it is not seen by anyone.

### 2.10 Workbench

`mode`, `ref`, `query` and `sort` are the heading as the operator edits it; `list` is
what is shown: the catalog it came from, its page and `hasMore`. `load` are the
catalog requests on their way, `asks` the quality questions of each row,
`click` a row's download button, `submitting` is whether `submitState` says so and
`batches` counts the `createBatch` calls of `submit` that are on their way. The two
differ: a row's own download that succeeds writes `submitState` as well
(`useWorkbench.ts:404`, `Created`), and the batch button works again beside the batch
it has sent. `quality`, `choice` and
`picked` are the row states, `lapsed` the snapshots whose lifetime has passed.
`whole` and `crossed` are history: whether the list is the first pages of one
catalog, and whether something was asked beside another request or for another
catalog than the one shown. Answers come in any order, late or with an error; the
guards are those of the buttons (`SearchToolbar.vue`, `TrackRow.vue`,
`WorkbenchView.vue`).

*Abstracted.* The tracks of one source are one set; the second source's list
runs beside it with the same code. Titles, messages, hearts and the task panels
are left out; the login dialog is `QrLogin`'s and here only `loggedIn`.

### 2.11 PreviewPlayer

`audio`, `activeKey` and `state` are `usePreview`'s; `sound` is what each
element made so far does, `tasks` the events and promise rejections queued for
its handlers, which run in any order across elements, later than what caused
them.

## 3. Runs

All runs finish within five minutes with two TLC workers. The type invariants are
proved for every instance (section 5); the runs check those that say more than
types: `IInv`, `DeliveryInv`, `NetTypeOK` (limits of redirects, bytes and levels)
and `CacheTypeOK` (no thread goes on without its image). "Pass" runs:

| Run | Instance | Shows |
|---|---|---|
| `queue_safety` | 2 jobs, 2 workers, 1 thread, batches of 2, cancel/retry/clear, batches that end half-way, crash and stop | exclusive ownership, no orphans, completion implies delivery, artifacts keep their row, settled cancels final; `JobLifecycle` implemented but for the cancels a task writes over, so that other outcomes are final; `IInv`, which contains the type invariant |
| `queue_liveness` | no operator, crash and stop, fairness | `JobLifecycle` implemented; every job settles, a stop completes |
| `library_safety` | 2 songs, 3 qualities in 2 encodings, 2 jobs, with and without a cover, failing effects, crash | a second copy is only what an interrupted publication left; no copy gets worse but in three named cases |
| `library_operator` | 2 songs, 2 qualities, 1 job, the operator places audio and lyrics (2 at once) and deletes, failing effects, crash | index names the song's file unless that file was deleted; a registered song stays playable; foreign files that were seen are untouched |
| `browser_safety` | 3 jobs, 2 requests, crash | whole artifacts, completed retrievable, delivered once; `DeliveryInv` |
| `sessions_lists` | 1 job or 2 requests at a time, 1 song, 3 logins of 2 accounts, versions up to 2, failed writes, damage and crash | versions name one login for snapshots, threads and caches; a grant keeps its offer; hearts agree with the platform |
| `qr_login` | 2 challenges, 2 requests at once, 3 runs of the tab, lost messages, failed answers, expiry, restart | ended challenges store nothing, verdicts and polls are the run's own, no open challenge is forgotten, polling stops |
| `artwork` | 2 cover threads, a preview, a download, an API and a login request, 5 hosts, 1 redirect, bodies of up to 2 (+1) units, 2 preview levels, lifetime 1, time up to 2, crash | requests keep to their hosts, end, and implement `Transfer`; a served cover has its own type and is at most two lifetimes old |
| `workbench` | 1 track, 2 options, search, liked list in 2 orders, artist, 2 catalog slots, 2 pages, 2 questions of a row, 2 requests and 2 batches at once | selection, menus and list belong together, no row is left loading, what is sent is sound |

*Why the bounds are enough.* Two jobs and two workers give every race the code
has about a job: its old worker against a new claimant, and a claim against
another worker's finish; a third job only repeats them. One endpoint thread
performs any sequence of requests; with two, `queue_safety` grows from 4.5 to
19 million states and passes too, but not within the limit. Two items make a
batch whose first item is accepted and whose second fails. `queue_liveness`
leaves the endpoints out because with them its properties are false (see the
disagreements below); that retries, clears, batches that end half-way, crashes and
stops keep to `JobLifecycle` is proved (section 5).
Two songs are a pair that conflicts; three qualities, two of them lossy, give an
upgrade in place, an upgrade that moves, and a re-download; `MaxJobs` = 2 jobs
are one running and one accepted against the older index, and both values of
`Covers` a directory that stays without a cover. The operator's instance is the
other half: one job at a time, as a publication meets what another one has left
and never the other one itself, and two foreign files at once (`MaxForeign`), the
plain path and a song's own. Three qualities beside the operator's placing pass
too (1.3 million states), and the proofs have neither bound nor division.
Three browser jobs and two requests let a clear, a send and an attempt meet on
different jobs.
In `sessions_lists` three logins under two versions force a version to be given
out twice, which takes a lost file and a restart; the first two logins are of one
account and the third of another (`TwiceThenOther`), so that both a new session of the
same account and a change of accounts occur. `OneKind` keeps the download and the requests
from being active together: they share nothing but the session, and the proofs
(section 5) do without it.
In `qr_login` three runs are one that is dropped, one that closes and one that
lives on, and two challenges let an answer of one arrive in the life of the
other; with one slot taken by an old answer the other still polls, cancels or
imports. That the safety properties need no more is proved.
In `artwork` requests share nothing with one another, and with the cache only
what a cover thread fetched, so `Apart` lets one be on its way at a time; two
threads and a lifetime of one let a reader meet expiry, a deletion and a second
writer between any two of its steps, and time up to two is where the oldest
cover that may be served would be too old. The proofs do without `Apart`.
In `workbench` one track is enough because the rows share nothing but the reset
of a list; two requests at once are a late answer and whatever overtakes it, and two
batches a selection that is sent again while it is being sent.
`Few` bounds requests, never answers; the proofs do without it.

"Violation" runs state what a document, comment or test says and the code does
otherwise; each is a finding in `PROJECT.json`:

| Run | What happens |
|---|---|
| `browser_retry_blocked` | a failed attempt's directory blocks every retry |
| `sessions_resume` | a job resumed after a restart is refused, as its snapshot was in memory only |
| `preview_overlap` | the rejection of a preview that was replaced while it loaded orphans the next one, and two sound |

Other disagreements the models contain, without a run of their own:

- `transition` writes the row unconditionally (`db/repository.py:196`): a cancel
  that a thread commits between two awaits is overwritten by the task's next
  transition (docs/spec.md:79). `SettledCancelIsFinal` begins when the cancel has
  reached the task.
- A graceful stop cancels the running tasks and their workers record CANCELLED
  (`queue/service.py:46`), which the next start does not recover (docs/spec.md:82).
- While the directory has no cover, `managed_decision` lets a lower tier replace
  a higher one (`db/repository.py:279`; docs/spec.md:43). `library_safety` goes
  through it; `QualityNeverDrops` exempts that publication (`Repairs`).
- After `os.replace` a publication may still fail or be cut off: the fsync
  (publisher.py:114), `register_media` (:120) and the unlink of the old file
  (:124) raise, or the process dies. It leaves an unregistered new file or an old one
  beside the registered (`strays`), the song's next download goes beside it, and
  docs/spec.md:42 wants one managed version. `OneCopy` says that nothing else does.
- If that happens to an upgrade in place, the file is better than its entry says,
  and a later job between the two tiers overwrites it, or a move to another
  encoding removes it (docs/spec.md:44). `QualityNeverDrops` exempts such a file
  (`Unrecorded`).
- A song published at the path of another song's missing file replaces it first
  and then fails to register, as `path` is UNIQUE too and the upsert of
  `db/repository.py:305` handles a conflict on the song only. The other song's
  entry now names this song's file and is no longer reported missing
  (docs/spec.md:42, 75). `library_operator` meets it: `IndexNamesTheSong` exempts
  the song whose file was deleted until it is registered again (`gone`), and
  `QualityNeverDrops` the copy that lies there (`Mistaken`).
- The destination is checked at `Resolve` and replaced at `Replace`; a file put
  there meanwhile is overwritten, and so is a foreign file that was put at the path
  of a registered song whose own file is missing, or it is removed when
  that song moves (docs/spec.md:74). `ForeignUntouched` exempts both (`unseen`).
- `RemoveOld` removes the .lrc beside the old file, which the pipeline has not
  written (publisher.py:125; docs/spec.md:74). The second part of
  `ForeignUntouched` says that it removes no other.
- A song at its suffixed path cannot be upgraded in the same encoding: only the
  plain path is recognised as its own (`media/publisher.py:171`; docs/spec.md:44).
- If `chmod` fails after a login's session has replaced the old one,
  `QrLoginService` reports an error (`sessions/qr.py:162`): the tab is told that
  a login failed whose session is used from then on. `VerdictIsOwn` says only
  that an error belongs to the attempt it is shown for.
- A cancel waits for `_qr_lock` behind the poll. If that poll succeeds, the user
  has closed the dialog and the session is replaced all the same; `Cancel` then
  answers "gone". `VoidedStayOut` says only that nothing is stored once a cancel
  has taken effect.
- `onSuccess` dismisses whatever dialog is open when `refreshSessions` ends
  (`WorkbenchView.vue:34`). If it is a later QR dialog, its run is not cancelled
  and polls on unseen; a login confirmed then is stored (`Refreshed` with `timer`
  set).
- `start` drops an earlier challenge without a cancel (`useQrLogin.ts:62`), which
  after such a dismissal may be open. Expiry at the server is noticed only by a
  request about that challenge, so one that no tab knows stays in memory until a
  logout, an import or a restart (`abandoned`).
- A clear between a worker's last UPDATE and its re-read (`db/repository.py:202`)
  raises KeyError outside the worker's handlers and ends the worker: `Finish`
  and `Confirm` go to "dead".
- A snapshot error that is no ValueError (`api/router.py:116`) ends
  `create_batch` before its notify: `ItemEscapes`. The items accepted earlier
  wait for the next notify, although router.py:117 says "Keep each item independent".
- `Event.set` from an endpoint thread between `CheckWake` and `Park` wakes
  nobody: with a single worker the retried job waits for the next notify
  (`queue/service.py:65`; docs/spec.md:82).
- With retries, a set that comes between `CheckWake` and `Park` leaves the flag
  up with a worker parked; the `set` of a later stop is then a no-op for it and
  `stop` waits for that worker for ever.
- A failed attempt leaves a partial file under `browser_root` (docs/adr/0020:7),
  nothing calls `cleanup_expired` (docs/spec.md:66), and delivered jobs cannot
  be cleared (docs/spec.md:83).
- The workbench mixes pages of two catalogs when the query is edited, a catalog
  fails to open or requests overlap before a load-more (`crossed`). The
  `clearSelection` after a batch also drops the tracks picked while it was sent.
  A row at "session required" stays there after a login, because
  `useWorkbench.ts:316` returns the present state. Every mounted row asks for its
  quality at once, where docs/spec.md:34 wants only visible or selected ones.
- A row's download that succeeds while a batch is being sent ends `submitting`
  (`useWorkbench.ts:404`), and the button sends the same selection again before the
  first answer has cleared it: every item is queued twice. `workbench` goes
  through it; `SendsSoundItems` says only that what is sent again is still sound.
- A cover's temporary file stays if the process dies while writing it, and nothing
  evicts covers; a slow reader may delete a pair that was replaced since it looked, and
  may put an older cover into memory than the one there (`ServedIsRecent` bounds
  its age by two lifetimes). The embedded cover may therefore differ from the
  one shown.
- A control request that fails raises `SearchError`, which `open_preview` does
  not catch with its LookupError and ValueError: the preview ends instead of trying
  the next level (`Declined` covers the two it catches).

## 4. Fairness

`DownloadQueue!Fairness`: the event loop runs every ready callback (its queue
is first in, first out), so worker and batch steps are fair, strongly where a
step can be disabled while another coroutine has the loop; awaits end because
every external call has a timeout (15 s requests, 60 s downloads, 20 s
ffprobe, 10 s SQLite); endpoint threads finish what they started; and
`StartService` is fair because the container restarts unless stopped. Requests
of the operator, crashes and stops are not fair. `EveryJobSettles` also assumes
that the process stays up from some time on.

`QrLogin!Fairness`: a call at the platform ends (15 s timeout), and the browser
handles what it has received and runs its timers. A call that waits for
`_qr_lock` gets it in the end, strongly: others may hold it in between, each for
a bounded time. The timer is strongly fair as well, because a poll needs a free
slot, which is the model's bound and not the browser's. Clicks, expiry, losses
and restarts are not fair; `PollingStops` begins when the challenge is past its
expiry.

`Outbound!NetFairness`: each read of a request has a timeout, so a request on its way
goes on or is given up. Nothing is assumed of the server. `Workbench` and
`ArtworkCache` have no liveness properties of their own: a user may never click.

## 5. Proofs

For every value of the constants that meets the named assumptions
(`QueueAssumption`: at least one job and item, `NoWorker` is no worker;
`DeliveryAssumption`: `None` is no job; `SessionAssumption`: the bounds are
numbers; `LibraryAssumption`: ranks are numbers and the four markers are no paths, files or entries; `ListsAssumption`: every login is of some account; `QrAssumption`:
`None` is neither a challenge nor a request; `OutboundAssumption`, `ArtworkAssumption`,
`WorkbenchAssumption`: limits are numbers and `None` is no value of the types it is added to):

| Theorem | Statement |
|---|---|
| `InvariantHolds`, `TypeCorrect` | `Spec => []IInv`, `Spec => []TypeOK` |
| `JobsAreExclusive` | `Spec => []OneWorkerPerJob` |
| `NoOrphans` | `Spec => []ActiveIsOwned` |
| `CompletionIsHonest` | `Spec => []CompletedMeansDelivered` |
| `ArtifactsKeepTheirJob` | `Spec => []ArtifactKeepsRow` |
| `OutcomesAreFinal`, `SettledCancelsAreFinal` | the two action properties |
| `RowsFollowStages`, `ImplementsLifecycleButForCancels` | `Spec => []StageRow`, `Spec => LifecycleButForCancels` |
| `ImplementsLifecycle` | without cancel requests, `Spec => Lifecycle` |
| `LibraryInvariant`, `LibraryTypes` | `[]LibraryInv`, `[]LibraryTypeOK` |
| `IndexIsTrue`, `SongsHaveOneCopy` | `IndexNamesTheSong`, `OneCopy` |
| `SongsStayPlayable`, `ForeignFilesStay`, `QualityStays` | `PlayableStays`, `ForeignUntouched`, `QualityNeverDrops` |
| `DeliveryInvariant`, `DeliveryTypes` | `Spec => []DeliveryInv`, `[]DeliveryTypeOK` |
| `WholeArtifacts`, `CompletedHasArtifact` | `ArtifactIsWhole`, `CompletedIsRetrievable` |
| `DeliveriesHappenOnce` | `Spec => DeliveredOnce` |
| `SessionInvariant`, `SessionTypes` | `Spec => []SessionInv`, `[]SessionTypeOK` |
| `VersionsNameLogins`, `GrantsKeepOffers` | `VersionNamesOneLogin`, `GrantKeepsOffer` |
| `ListsKeepSessions` | `ListsSpec => Spec`: what is proved of the sessions holds with the lists around them |
| `ListsInvariant`, `ListsTypes`, `CachesServeTheirLogin` | `[]ListsInv`, `[]ListsTypeOK`, `[]CachesKeepAccounts` |
| `HeartsInvariant`, `HeartsShowThePlatform` | `[]HeartsInv`, `[]HeartsAgree` |
| `QrInvariant`, `QrTypes` | `Spec => []QrInv`, `[]QrTypeOK` |
| `EndedStaysOut`, `VerdictsAreOwn` | `VoidedStayOut`, `VerdictIsOwn` |
| `PollsAreSingle`, `NothingForgotten` | `PollsOnce`, `NoOrphans` |
| `RequestTypes`, `RequestsKeepToTheirHosts` | `NetSpec => []NetTypeOK`, `[]KeepsToItsHosts` |
| `RequestsAreTransfers` | `NetSpec => Transfers`: `Outbound` implements `Transfer` |
| `CacheUsesRequests` | `ArtworkCache`'s `Spec => NetSpec`: what is proved of requests holds with the cache around them |
| `CacheTypes`, `CoversFit`, `CoversAreRecent` | `CacheTypeOK`, `ServedFits`, `ServedIsRecent` |
| `WorkbenchInvariant`, `WorkbenchTypes` | `[]WorkbenchInv`, `[]WorkbenchTypeOK` |
| `ListsAreWhole`, `SelectionIsShown` | `ListIsWhole`, `PickedAreShown` |
| `MenusAreChosen`, `RowsAsk`, `SentItemsAreSound` | `ReadyIsChosen`, `LoadingIsAsked`, `SendsSoundItems` |

*The queue's invariant.* `OneWorkerPerJob` is not inductive: a claim takes a
queued row, and nothing in it says that a queued row is unowned. `OwnedRow`
says so, with the one exception of a worker at its last step; that exception is
harmless because such a worker has the event loop (`LoopHeldOnce`) and a claim
needs it. `RefusedRow` keeps workers away from the row a batch is refusing,
`ActiveRow` ties active rows to owners across crash, stop and restart,
`DeliveredRow` carries the delivery from the verdict to the row, and
`TaskShape` says which variables are meaningful at which counter. `IInv` is
their conjunction, checked by TLC in `queue_safety` and proved action by
action.

*The refinements.* `StageRow` says that the row of an owned job is the stage its
task last wrote, unless a thread has cancelled it since. It turns `Update` into
`Advance`, or into `Overwrite` where the row has been cancelled; `Finish` and a
batch's `RejectItem` overwrite in the same way. Everybody but the task's own
worker spares an owned row (`Spared`: at most a cancel, and a clear after it),
which is one lemma for all of them. When nobody cancels, no owned row is
called off (`NoneCalledOff`), so no cancelled row is ever written
(`CancelledStay`), and a lossy step that overwrites nothing is a step of
`JobLifecycle`.

*The delivery invariant.* An artifact appears between two effects of its job's
last step. After a crash in that gap the job runs again with an artifact on
offer; what keeps it from delivering twice is that the crash also took its
snapshot. `ArtifactRow` records exactly that, and `DeliveringRow` what has
happened at each step of `to_browser`.

*The session invariant.* That a version names one login is not inductive: it
says nothing of versions that are not present now, and a later write might
give one of them out again. `Known` adds that whatever is held is at most
`memory` and at most the file's version, from which `Replace` and `Clear` count
up; without a file they count from `memory`. Only a restart forgets `memory`, and with
it goes everything that is held. `OfferedRow` keeps a thread's material equal to its
snapshot from the revalidation on, whatever happens to the file meanwhile.
`ListsInv` adds that no two of the sessions that requests and caches hold share
a version without being one session: the one just loaded is the present one,
and by `Known` every other of its version is the same.

*The hearts.* That the caches agree with the platform is not inductive: it says
nothing of what a request has fetched and is about to store, nor of what a like
that has been written is about to do to the caches. `FetchedRow` says that what
has been fetched is what the platform has, `AppliedRow` that a like on its way
to the caches is already the platform's, `OneApplies` that there is one such like
at most for an account, and `AgreesButForOne` that a cache of the present session
differs from the platform by that like alone, so that applying it
makes them agree. All four end with `raced`, as the property does. A new
session finds no cache of its own (`NewSessionsAreUncached`, by `Known`).

*The QR invariant.* That a verdict is the run's own is not inductive: it says
nothing of the answers still on their way. `PollRow` and `BeginRow` say, for each
station of a request, what is true of its challenge: a poll of this run is about
this tab's challenge, a poll inside the lock is about an open one (so nothing
voided it, and its login may be stored), an answer "success" names a stored
one. `BeginRow` adds that a run has one begin and no challenge before it is
answered, from which it follows that polling starts once. `HistoryRow` makes the
end of a challenge final. One lemma per action keeps them; what a call in the
server does to the requests it does not serve is one lemma (`ServerMoves`).

*The library's invariant.* That the index names the song is not inductive: it does
not say that `publish`, once it has resolved a destination, still writes where it
may. `DestRow` does: until the replacement the destination is free, the song's own
version, or holds a foreign file that came unseen; from then on it holds what is
being published, and what `Remove` will take away is the path the song has moved
from and no song's now (`PathRow`: no path is indexed twice). That is also why a
song stays playable whichever effect fails. `ForeignRow` says that a foreign file at
a registered path came unseen, `StrayRow` in whose hands an unregistered copy is.
`ReasonRow` keeps what `managed_decision` let the publication through for true of
the version it replaces: there was none, it is missing, or its entry (`cur.was`) is
of a lower tier; with it a copy is lost only where `QualityNeverDrops` says. One lemma per
effect keeps `LibraryInv`, its failure included; nothing is assumed of which faults
occur, of `Covers`, of `Lossy`, or of what the operator does.

*Requests and covers.* `NetInv` ties `home` and `sent` together: a running leg
has sent to its home alone, and a fetch to a trusted one. For the cache,
`CacheInv` says of each station of a thread what the image it holds has been
checked against. Files are replaced whole and a type file is written by whoever
wrote an image, though perhaps another one: that kind and type agree is known only of
what a thread has compared itself (`Fits`), which is why `ServedFits` is about
the served cover and nothing is claimed of the two files.

*The workbench.* `WorkbenchInv` adds to the properties that a menu is never empty,
and `Orderly`: while nothing crossed, at most one catalog request is on its way,
and a page that is asked for is the next one of the list that is shown.

*Only model-checked:* liveness (`EveryJobSettles`, `StopCompletes`,
`PollingStops`, `RequestsEnd`), as the prover does not reason about fairness and
ENABLED. Every safety property that a run checks is a theorem.

## 6. Not modelled, and why

- Media probing, tag and cipher formats, image decoding, cookie parsing, HTML and view code: conversions
  that succeed or fail, which the models take as a choice.
- Adapters (`adapters/`): stateless request building and parsing; what a list
  fetch and a like do is in `AccountLists`.
- TLS, address pinning, ffprobe's subprocess: I/O without state across calls.
- `platforms/preview.py`: a registry nothing in the program calls. The preview
  itself is a request of `Outbound`.
- Search and the runtime's track table, which only add entries; the play record
  cache, whose key contains the session's version.
- `list_jobs`, schema migration, `expired_artifacts`, `delete_artifacts`,
  `cleanup_expired`: reads, or code without a caller.
- In the workbench: the hearts, the task and history panels and their polling,
  the second source's list.
- Container files and scripts have no behaviour of their own. The work directory
  of a job is private to it and is removed on every path.

## 7. Plan

Done: queue, lifecycle, library, browser delivery, sessions with quality
snapshots, liked lists, QR login, outbound requests, cover cache, workbench and
preview player, with the theorems of section 5.

Next, in this order:

1. The composition of the queue with the library, so that a cancel during a
   publication and the job's row are in one model.
2. The task panel of the workbench: a poll's answer that precedes `createBatch`'s
   own shows a task twice (`useWorkbench.ts:519`).
3. The library while the operator deletes during a publication, and covers that
   are deleted.

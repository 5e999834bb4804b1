# A verification project for 115tools

115tools keeps local directories and directories of the 115 cloud drive in step: it uploads what
is added locally, replaces uploaded videos by small `.strm` files that point to them, fetches what
is added in the cloud, and serves the videos to media players through redirects. This directory
holds TLA+ models of its core, the TLC configurations that check them on small instances, and
proofs that TLAPS checks. `PROJECT.json` says which definition stands for which lines of `src/`.

## 1. The system

| component | state | operations |
|---|---|---|
| work queue (`engine/queue.go`) | slice of keys, map from key to job, wake-up channel, closed flag | Enqueue (merges by key), Take, DropTask, Close |
| engine (`engine/engine.go`) | `runners`, `started`, the cancel function of the running job | EnsureRunning/Init/Start, ReloadAll, ReloadTask, RemoveTask, StartTask, StopTask, Shutdown, worker/run |
| runner (`engine/runner.go`) | initializing flag, context of its loops, `sync.Once` of stop; debouncer with its timer and set | start, stop, trigger, cronLoop, watchLoop |
| mirror, upload (`mirror/plan.go`, `apply.go`, `cloud.go`, `strm.go`) | none of its own: local tree, cloud tree and index, and the plan it goes through | PlanLocal, PlanFile, Apply: retire, drop, mkdir, upload, adopt, normalize |
| mirror, download (`plan.go`, `apply.go`, `scan.go`) | the same, with a snapshot of the cloud | ScanCloud, PlanCloud, download, archive, BuildIndex |
| index (`store/index.go`) | bbolt bucket per task: path to fid, kind, size | Get, Put, Children, ClearTree, DropStale, Reset |
| activity (`store/activity.go`) | bounded list of events | Add, List, Clear |
| configuration (`conf`) | one JSON file and its copy in memory: settings, tasks, token | GetTask, ListTasks, SaveTask, DeleteTask, SaveToken, Update |
| cache (`cache/cache.go`) | directory of originals, its place, the retention | Move, LocalPath, Delete, List, SetDir, SetRetention, sweep |
| relay (`relay/redirect.go`) | cache of links, singleflight group, semaphore | resolve, retry |
| log feed and event stream (`logfeed`, `webui/handler_events.go`, `hub.go`) | ring of entries, channels of subscribers, last number sent per stream | Add, Snapshot, Since, Clear, Subscribe, the stream's loop |
| 115 client, requests (`drive/client.go`, `auth.go`) | token, back-off, rate limits | request, Verify, token refresh |
| 115 client, upload (`drive/upload.go`, `sha1.go`) | none | UploadHelper: stat, hash, init with proofs, multipart or single PUT, callback |
| web interface (`webui`) | `reloadPending`, initialisation error | handlers that call the engine in goroutines of their own |
| program (`cmd/115tools`) | the application's context and wait group | bootstrap, exit |

How they interact: HTTP handlers, cron loops and watchers (many goroutines) put jobs in the queue;
one worker takes them, one at a time, looks the task up in the configuration, and has the mirror
plan and apply. The mirror calls the cloud, changes the local tree and records every single result
in the index at once; a job that is cut short is simply planned again from what is persistent.
Handlers also save the configuration and then reload, start, stop or remove the task's runner,
each in its own goroutine. Every warning goes to the log feed, which browsers follow.

What is hard here:

* the queue's channel is filled outside its mutex; jobs are merged, withdrawn, refused (section 3.1);
* life-cycle calls look at shared state in one critical section and act in another, sometimes
  minutes later, while other calls replace what they hold (3.2);
* an operation on cloud, local tree and index is several steps, each of which may fail or be the
  last before an exit; the user edits the tree all the while; plans of different size (whole tree, one directory, one
  file) see different parts of it (3.3);
* producers of log entries and streams share a ring and one-slot channels (3.4);
* requests of media players share links, one call to the API and two permits, and leave at any time (3.5);
* a directory is taken for synced when two counts agree, read at different times; what is fetched is put at its final place before
  it is whole; the archive step comes last whatever happened before it (3.6);
* a refresh token is used up by every refresh, its successor has to get into a file that is written in place, and every request may want to refresh (3.7);
* an upload looks at its file by name again and again while somebody may still be writing to it, against a service that asks for proofs
  and whose answers get lost (3.8);
* the original of an uploaded video leaves the task's directory for a cache that readers, a cleaner and its user share through the file system only (3.9);
* each scope deletes on the strength of records that the other has made (3.10);
* a local change is handed from the watcher to the debouncer, the queue and the worker under one lock after the other, and a reload or stop may come between any two (3.11).

`PROJECT.json` lists these hazards one by one, also those no property covers yet.

## 2. The modules

| module | what it is |
|---|---|
| `JobLine` | abstract: a line of jobs, one per key, served in order; who may do what once it is closed |
| `WorkQueue` | the queue and the worker's loop as coded; implements `JobLine` |
| `Subsequences` | the one operator on sequences that `WorkQueue` needs for DropTask's filter |
| `Engine` | life cycle of tasks; EXTENDS `JobLine` in place of the queue |
| `Watch` | the way of a local change: watcher, debouncer, queue, worker; EXTENDS `JobLine` in place of the queue |
| `MirrorUp` | the upload scope: planner, executor, index, cloud, user |
| `MirrorDown` | the download scope and the building of the index: walk, planner, executor, index, cloud, user |
| `MirrorBoth` | both scopes of a two-way task over one local tree, one cloud and one index |
| `Original` | the file a task uploads, shared by the program and the user |
| `Transfer` | abstract: what an upload promises its caller; EXTENDS `Original` |
| `Upload` | one upload as coded; EXTENDS `Original`, implements `Transfer` |
| `Cache` | the local cache: Move, the cleaner, the user's calls |
| `Handover` | upload, `.strm`, and the original's way into the cache; EXTENDS `Transfer` (in place of `Upload`) and `Cache` |
| `LogFeed` | the ring, its subscribers, the streams |
| `Relay` | the requests for one link: cache, shared call, semaphore, retries |
| `Token` | the attempts of a request to 115, the refresh of the token, the configuration file |
| `QueueProofs` | proofs about `Subsequences`, `WorkQueue` (it implements `JobLine`), `LogFeed` and `Relay` |
| `EngineProofs`, `WatchProofs` | proofs about `Engine` and `Watch` |
| `MirrorUpProofs`, `MirrorDownProofs`, `MirrorBothProofs` | proofs about `MirrorUp`, `MirrorDown` and `MirrorBoth` |
| `HandoverProofs` | proofs about `Handover`, and so about `Cache` in it |
| `ClientProofs` | proofs about `Token`, `Upload` (it implements `Transfer`) and the sizes of parts |
| `MC*` | instances for TLC |

`Engine` and `Watch` are built on the abstract line and not on the queue itself: `WorkQueue` is shown to
implement it, so what holds of them holds with the real queue. `Handover` is built on `Transfer` in the same way.

Every module states its types (`TypeOK`, or a name like it). They are proved, as a part of an inductive invariant, for every module but `Cache` by itself, and
for `MirrorUp` under the two hypotheses of its theorems (section 4).

**WorkQueue.** `order`, `pending`, `kick`, `closed` are the fields of `Queue`; `pending` keeps the
trigger only, the rest of a job being its key. Enqueue is two actions, the critical section
(`EnqueueNew`, `EnqueueMerge`) and the token (`SendKick`); Take is `TakeJob` or `TakeNothing` in
the critical section, then `WakeUp` or `GiveUp` in the select. `asked` is a history variable.

**Engine.** One action per critical section of `Engine.mu`, atomic flag or queue operation. `call[p]` is
where goroutine p is and what it holds in local variables: that is where stale state lives. A
runner's `live` counts the sets of trigger loops it has started whose context is not cancelled. A cancelled loop
that still has an event may deliver it (Go's select chooses at random): `late`.
`boot` is the goroutine of bootstrap and of reloads of everything; `bootstrapMu` and `reloadPending` let one of these run at a time. It goes through the tasks in
the order of the configuration, which is the order of the numbers that stand for tasks. History: `crossed`, the tasks that two goroutines were busy with at the same time; and of a runner
`astray`, that it was launched when stopped, launched before or out of the map, or was put out of the map without a stop, and `missed`, that it was registered after Start had copied the
map by a reload that had read `started` before Start set it.
Runner objects are garbage collected: an identity that nothing refers to is used again.

**Watch.** One task and its files. `events` is what the file system has reported and the watcher's loop not received; `pending`, `timer`, `kick` are the debouncer's,
`batch` and `taken` the loop that takes its batches, `late` what cancelled loops still enqueue. `dirty` are the files that differ from the cloud, `planned` and `seen` the running
job's plan, `call` how far a reload or stop is (one that follows another begins when that one is over), `loops` whether the runner's loops run (`on`), are cancelled (`off`), or there is no
runner (`none`). `missed` is history: changes that nothing is left to carry on. What a plan and its operations do is `MirrorUp`'s; the jobs of the download scope and the filter of paths are left out.

**MirrorUp.** `local`, `node` and `index` are the three trees; `job` is the plan being applied and the point
reached inside its first operation. The planner (`PlanDir`, which goes down the tree, and `Decide`, `Known` and `New`, which look at one name) is a pure
function of `local` and `index`, as in `plan.go`; the executor's operations are cut between any two calls
that touch different trees. Every call may fail (`OpFails`) and the program may stop or die
anywhere (`Interrupt`); both end in the same persistent state. The user creates, overwrites, deletes and renames.

**MirrorDown.** `cloud`, `local` and `index` are the three trees, `ready` says that initTask has succeeded, `job` is the walk (`dirs` to
visit, `items` found), then the plan (`drops`, `gets`, `tops`) and the operation under way. A path is the same sequence of names on both
sides, and a file's content is the `fid` it came from. The walk takes one directory at a time in any order, as the walkers of
`ScanCloud` do; a directory's count and its listing are one step, and the root's count, asked for just before the walk,
is read by its first step. A `Part` is what `os.Create` leaves behind when the copy does not end. Three kinds of task come up (`mode`): with upload
on too (it drops stale duplicates and has its index built), with the archive step, and with neither. Records have no kind here. `blind`, `handled`,
`excused`, `deleted` and `built` are history variables.

**MirrorBoth.** The tree is flat, a plan is made in one step (`PlanLocal`, `PlanCloud`), and an operation is cut only where a failure
or a death leaves something that the other scope can tell; directories and the walk of the cloud are `MirrorUp`'s and `MirrorDown`'s. Records have their
kinds and sizes here, and `BuildIndex` makes them as the code does. A path's `Family` is a video and its `.strm`. `settled` counts calm runs, the scopes
taking turns; `written`, `deleted`, `touched`, `torn`, `raced`, `rivals`, `built` are history variables.

**Original, Upload, Transfer.** `file` is what is at the path, `held` what an open handle shows (it follows the path until the file is replaced
or unlinked). A content is a sequence of blocks, a hash is the content that was hashed. `up` holds the local variables of `UploadHelper`, and of `multipartUpload`
and `uploadByOSS`: the size from the first `Stat`, the hash, the number of calls of upload/init, the range it is asked to prove,
the number of parts sent; `sent` is what these hold. `Transfer` has three steps only: the file is read, what was read is stored, it fails. `rewritten` and `late`
are history: changes since the first stat that were not mere growth, and changes after the file was read.

**Cache, Handover.** `cache[d][p]` is the directory of pickcode `p` under the cache directory `d`; `move` and `sweep` are where Move and the cleaner
are. `Handover` runs the sequence of `upload` and `replaceWithStrm` (`apply.go`) over them: `job` is the point reached. `torn` and `odd` name entries that a copy
left unfinished and those whose original changed after it was hashed; `gone` the originals taken away.

**LogFeed.** `buf`, `n`, `start`, `next` are the fields of `Feed`; an entry is its number. A stream is
a goroutine that subscribes, sends the ring, and then per token reads Seq and Since in two critical sections and writes a frame.

**Relay.** `cached`, `flight` and `held`/`queue` are the `sync.Map`, the singleflight group and the semaphore of `Redirector` (the
latter two are libraries, modelled from their documented use); `request[r]` is where a handler is and its local variables, `gone` the
cancelled contexts. Everything is seen at one cache key, since keys share only the semaphore, and without the local cache, since a file there ends
the request at once or changes nothing. The two ways a link goes (its expiry is noticed, its timer
deletes the key, maybe a newer link's) are one step, `Expire`, as no time is modelled.

**Token.** `memory`, `onDisk`, `configMu` are the token of `Config`, the file and the mutex of its writers; `refreshMu`, `backoff`, `deadReported` the variables of
`auth.go` (a time that has not come is a flag); `request[r]` a goroutine in `Client.request`, or in `Verify` with a token the user pasted. `current` and `revoked` are the service. Access tokens
are left out: the service may refuse a request at any time, and a refresh is due at any time.

### Faulty variants

Next to some operators stands a *faulty variant*: the same operator with one plausible mistake.
It is used by nothing; it is put in the operator's place to see that the property named in `PROJECT.json` (`mutants`) notices.

## 3. The runs

### 3.1 `work_queue`

Three keys, two tasks, two producers, two triggers; nothing is bounded, the state space is finite by itself
(29,000 states). Checked: no wake-up is lost
(`NoLostWakeup`), merging keeps the most important trigger (`HighestTriggerKept`), the queue
implements the line with its fairness (`ImplementsJobLine`, which rests on slice and map being in step), jobs are served
(`QueuedJobIsServed`), and the worker ends on shutdown however long producers go on
(`ShutdownEndsWorker`; Take serves queued jobs even when it is closed, so this depends on the refusal in Enqueue). Two producers and a
worker are enough for every pairwise race on mutex and channel; two keys of one
task and one of another are enough to see an order changed or the wrong job withdrawn.

Fairness: the Go scheduler runs what can run, so the worker, a producer that is about to send and
main's Close are weakly fair. `FinishJob` under it assumes that the I/O of a job ends. Enqueue, DropTask and the
cancellation are not fair.

### 3.2 `engine`

`engine`: two tasks, one of them with a key, one handler next to `boot`, two calls (`MaxCalls`, bootstrap's included), four runner identities (`MaxRunner`; no action ever lacks one).
1,254,000 states. Nothing keeps two calls apart, as nothing in the code does: `saveTask` answers at once and reloads in a goroutine of its own, so that a reload, a removal, a start or a stop may
come between any two steps of bootstrap or of the reload of everything that follows it, about the same task or another one. In particular Start launches its copy of the map while the
runners in it are replaced, a reload acts on a `started` that is no longer so, and two reloads of a task, or a reload and its removal or stop, go on side by side. What two calls of handlers do to each other, neither a part of
a reload of everything (a removal beside a stop), takes a third call: with one task, two handlers, three calls and five runner identities 18,600,000 states were searched without a
violation, which is not a run for its time; the theorems have any number of them (section 4). Checked:

* once the calls about a task are over, loops run only of its registered runner, one set of them, and not when it was stopped (`NoStrayLoops`): excepted are runners astray, and those only of a task that two
  goroutines were busy with at once. So no call leaves loops behind by itself, whatever goes on about other tasks, and nothing is left behind but by a launch or a departure out of turn;
* a registered runner of a started engine that was not stopped is watched (`RegisteredIsWatched`): excepted are `missed` ones, of crossed tasks. Every other order of reading `started`, initialising for minutes, registering,
  copying the map and launching ends well, the second bootstrap after a failed one included;
* a stop hits only its own task's job although the cancel function is called outside the lock (`CancelHitsOwnJob`);
* a task that is stopped or removed for good, and has no loops astray, falls silent; one that is disabled or removed runs nothing any more, also when it has (`StoppedFallsSilent`).

Both exceptions are faults of the code, see Findings; `NeverStray` and `AlwaysWatched` are the two properties without them. Fairness: goroutines inside a call, the worker,
cancelled loops and main's Shutdown go on; nobody has to call, trigger or cancel.

### 3.3 `mirror_up`

`mirror_up`: a video and its `.strm` in the root, a directory with a plain file, around which the two stand in key order (`a`, `a.mkv`, `a.strm`, `a/c`); two contents on either side of the
threshold; the recycle directory; one video elsewhere in the cloud a `.strm` may name; full scans, directory scans and single-file
jobs; failures and exits everywhere. The task is set up (`MCStart`) over the directory with its file, with a small video beside it or with none, or over a large video alone. Bounds: `MaxEdits = 2` changes by the user
after that (rewriting a `.strm` in another form among them), `MaxFid = 4` nodes of the cloud, of which one is there
at the start (an upload or mkdir that needs a fifth cannot go through in the model; it can fail). What is there and two edits suffice to create,
change and remove or rename, which is what the longest path through one entry's planner
takes. 2,600,000 states. From the first of the three trees alone (`Filled(Nothing)`) the run passes with `MaxEdits = 3` (4,900,000 states) and with `MaxFid = 5` (7,300,000) as well. `settled` counts complete full scans
that nothing disturbed, and stops at two.

Checked: the content of every original that the program removed is still in the cloud (`HandedIsKept`); what a `.strm`
and its record agree on is not in the recycle directory (`TrackedIsNotRecycled`); two undisturbed scans leave nothing to do
(`Converges`); and after them the cloud mirrors the local tree (`IsMirror`), whatever failed, was interrupted or edited before.

What the instance assumes, each as a constant or in a guard with its name:

* `Growing = FALSE`: a file that the plan is going to upload or adopt is not changed until its turn. With `Growing = TRUE`
  `HandedIsKept` is violated: a video that crosses the threshold between plan and upload is recorded as a plain file; its next upload gets the same node
  as the answer, the original is removed, and the scan after that deletes the node as a leftover plain file.
* a file is not changed while its own operation is under way (`InHand`);
* `DirPath` entries with videos are not deleted: `Removable` has the directory, which holds a plain file only, and the two in the root.
* `Moves = FALSE`: `.strm` files are not renamed.
* no two `.strm` files name one node (`WriteLink`): the code moves the video to and fro between them. A node that a plan is going to adopt counts as named by that `.strm`, although the user may have
  deleted it by then: adopt does not look. Without this, two videos with their `.strm` in the root suffice to violate `TrackedIsNotRecycled`: the user points one `.strm` to a node that a planned adoption is
  about to give to the other, while an upload replaces the node of that one;
* `torn` paths are left out of `IsMirror`: their record names a node that an operation had cleared away before it failed or was cut
  off (the old video is retired before the new record is written), or one that ClearTree passed over (`PassedOver`): it stops at the first key that is not below the path, here the sibling's `a.mkv` or `a.strm`
  before it comes to `a/c`. A check without this exception fails on just that.
* the exclusion list is empty and `to_cache` is off.

The first, third, fourth, fifth and sixth are not promises of the code: Findings says what happens without the third and the fourth, and of the records in the sixth that ClearTree leaves.

A scan asks whether a video stands for a missing `.strm` among the entries it has not dealt with yet (`plan.go:127`, `Known`): a video with a record of its own that sorts before its `.strm`
is no longer one of them, so that the node of the `.strm` is retired beside the video. The run goes through this; `Converges` and `IsMirror` are judged with the plan the code makes.

`HandedIsKept` is proved (section 4) under the first and the third of these, for any tree and with `Moves`; the proof does not use that each node is given to one `.strm`. Its inductive
invariant `UpInv` was put through TLC before, on larger instances than this one: videos inside a directory, renamed `.strm` files, five nodes. `TrackedIsNotRecycled` is proved under the first, third, fourth
and fifth; its invariant `TrackInv` was put through TLC on instances with two videos and their `.strm` in the root (three edits, or four with two nodes elsewhere in the cloud).

### 3.4 `log_feed`

A ring of two, six entries (it wraps three times), clears at any time, one browser that connects and leaves at any time
(browsers share nothing but the ring, which they only read). Checked: a waiting stream is up to date
(`WaitingIsUpToDate`), at most one entry per increment is missed (`OnlyCutsAreMissed`), every entry is dealt with
(`EntryIsDealtWith`, the stream's goroutine being weakly fair). That nothing is missed is what the comments promise,
and is not so: see Findings.

### 3.5 `relay`

Three requests, proxied or redirected, one permit (the code has two; one lets two requests queue behind a third), two links between two starts,
an API that may refuse. Checked: permits are accounted for on every way out and none is free while somebody waits (`PermitsAccounted`), a
request that waits has a call that will answer it (`WaitersHaveCall`), a retried request has used two links before its last try
(`RetriesChangeLink`; not three, since it can join the call that has just stored the link it deleted), and every request ends (`RequestEnds`).
Fairness: handlers and the shared call go on; the call to the API and the wait for the CDN's headers have time limits; that a client reads its
body or leaves is assumed, `proxyClient` sets no limit there.

Requests that join a call are given its result whatever it is, also the cancellation of the client that started it: they answer 404 although
their own client is still there. `Relay` behaves so, no property speaks of it.

### 3.6 `mirror_down`

`mirror_down`: a directory with a video and a plain file, a plain file in the root, all three kinds of task, failures and exits everywhere, files
that appear in the cloud at any time. Bounds: `MaxFid = 4` nodes are ever added in the cloud (the directory, its two files, and either the root's or
a second one of a name), `MaxEdits = 1` change by the user; with 3 and 2, and with 4 and 2, the run passes as well. Checked:

* what is deleted as a duplicate leaves a file of its name in the cloud (`DropKeepsOriginal`);
* a directory skipped on its count is complete, when the user has changed nothing locally and nothing is archived (`SkipIsSound`): failures, exits and additions
  while it runs do not upset the count, because what is fetched or cut off only counts once it is there. Complete
  means that nothing is missing: a part left behind by an exit counts as there, has no record, and is never fetched again;
* a complete and undisturbed download leaves nothing to do but in skipped directories (`QuietRunSettles`);
* a record without a file means that the user deleted it, or that the index was built with it (`RecordMeansLanded`); the planners of both
  scopes rely on this, and the upload scope deletes the cloud's copy on the strength of it;
* a file that was cut off has no record (`RecordedIsWhole`);
* what is archived was fetched or needed no fetching, or it failed, or came after the walk had passed (`ArchivedIsHandled`).

What the instance assumes, each in a guard of `AddInCloud`, `Write` or in a constant:

* in the cloud things are only added (the README of the program asks for that), and a second file of a name only when the first is recorded. Without the
  latter, two namesakes are fetched in one run, and a failure of the second removes the first one's file and leaves its record (`apply.go:362`);
* one video per stem: of `a.mkv` and `a.mp4` one is deleted as stale, since they share a record;
* the user does not write the file that is being fetched; `to_strm` and `to_strm_dl` are equal; the fid of the task's root does not change.

### 3.7 `token`

Two goroutines, two authorisations by the user of which the service may withdraw one (`MaxRevoked`), one token issued to each after the first (`MaxIssued`; with two the run passes as well), two retries
(three in the code; the flag `refreshed` and the limit are told apart with two). The service may issue a new token or none, refuse, or its answer gets lost; writes of the file fail; the program dies anywhere, and starts again
from the file, or from a new one when the file was cut off and the user has removed it. Goroutines and authorisations are interchangeable (symmetry). Checked:

* the stored token is the newest of the authorisation that the user chose last, unless the service withdrew it, it is being exchanged, or its successor was cut off
  on its way to the file by an exit, a lost answer or a failed write (`StoredTokenIsLive`): nothing else can lock the user out;
* what is reported dead is dead (`ReportedIsDead`). The exception in it is a weakness of the code: a dead token that the user pastes is reported as if it were the stored one, and
  until the expiry of the access token comes near, requests that are refused are given up without the refresh that would help (`client.go:170`);
* memory and file agree when no write is under way or has failed (`FileIsCurrent`). That mutexes are held by who will give them back is proved (`MutexesAlwaysGivenBack`).

The code does not look again, once it has the mutex, whether another goroutine has just refreshed: two requests that are refused together refresh twice. Nothing checked here is harmed by it.

### 3.8 `upload`

One file of one to three blocks (`MaxBlocks = 3`) of two kinds, four contents among which the file changes twice (`MaxEdits = 2`): by growth, by a rewrite in
place, by another file in its place, or by removal, at any moment. One content is known to the service. One block is sent in one piece, two in two parts, three in parts of two, so that the
last part is short; three calls of upload/init and three attempts per part, as in the code. 232,000 states. Checked:

* what the service stores has the hash it was declared with, unless the file was rewritten, not merely added to, since its size was taken
  (`HashIsContent`). Only the client can see to this: it declares a hash it computed before. A growing file passes because hashing reads it to its end, sending
  stops at the size, and upload/init and the second open compare sizes;
* the exchange keeps the promise that `Transfer` states (`ImplementsTransfer`): the content of the node is what was read at one moment, or a failure,
  after which there may be a node all the same (the answer to the callback was lost, or had no id). The fairness of `Transfer` is
  part of it: every upload ends, however often a proof is demanded, a part fails, or the file vanishes.

Fairness: weak for the upload's steps together (calls return, with or without an answer) and for the caller taking the result. Nothing obliges the service to be of help, nor
the user to write or to stop writing.

### 3.9 `handover`

A video of one block that may become two, or the reverse, so that a copy is empty, partial or whole (`MaxBlocks = 2`, `MaxEdits = 1`); one pickcode, so that a second upload of the
content meets the node and the entry that are there; two cache directories, of which the user may change from the first to the second, once; one crash (`MaxCrashes`). 1,010,000 states. Renames, copies, removals and
the writing of the `.strm` may fail. Checked:

* whatever is taken away from the task's directory the cloud has under the pickcode in the `.strm`, unless it was changed after it was hashed (`GoneIsInTheCloud`): by a rename into
  the cache, by the removal after a copy, or by the removal when caching failed. All of them go by the name of the file;
* a request is served from the cache what the cloud would have sent (`ServedIsTheNode`), except for a copy that is under way or was cut off
  (readers find it at once; `Move` copies to the final place, and a crash leaves it there), and an original that changed after it was hashed;
* an entry that has outlived the retention is taken away (`ExpiredIsReclaimed`) as long as the cache stays in its directory. What is in a directory the cache
  was set away from is swept no more.

Fairness: weak for the job (one step of it can always be taken) and for the cleaner, whose ticker fires every hour. The age of an entry is a flag that rises at any time (`Expire`).

### 3.10 `mirror_both`, `mirror_both_unlike`

One task that uploads and downloads, with a plain file, a video and its `.strm`; the two switches `to_strm` and `to_strm_dl` alike, on or off (`mirror_both`), which is what the
preset of the form for a two-way mirror and the setting for videos give; its advanced options set each by itself (`mirror_both_unlike`: `to_strm` on, `to_strm_dl` off). Three nodes of the cloud (`MaxFid = 3`), two edits (`MaxEdits`), one
failure, stop or death (`MaxFaults`), files added in the cloud at any time. 4,000,000 states, deadlock checked; with two faults and one edit the run passes as well. `Enough = 6` calm runs in turn are counted: with
five instead, `Converges` is violated. `Later` are the videos that come after their `.strm` in key order (`a.ts`), on which it depends whether a small recorded one covers a missing `.strm` (3.3); the runs have none, and with
the video in it `mirror_both` passes as well. A removal of the original that fails is a fault like any other, after which the record is put all the same (`apply.go:173`). With a third content, so that one video can replace another (`Content`, `Big`, `SizeOf`, `Comes` taken from the definitions `Three...`), the run
passes too, in 10,000,000 states. With `to_strm` off while `to_strm_dl` is on (`Switches` from `MCForward`), `WrittenIsKept` and `DeletedStaysDeleted` hold, in 8,500,000 states; the other two do not
(Findings). Checked:

* a file is deleted from the cloud for good only when its content is whole somewhere else, or the user has written or deleted a file of its name, or an operation on it was cut off, or
  BuildIndex had recorded it (`LossHasCause`): so what is added in the cloud and not touched survives whatever runs and fails;
* what the user puts down while nothing runs is never lost (`WrittenIsKept`), whatever runs, fails or is cut off later, at other paths too;
* what the user deletes, and is recorded, is not fetched again (`DeletedStaysDeleted`), whichever scope runs first, and when its deletion in the cloud fails or is cut off;
* after six calm runs in turn both plans are empty and the two sides mirror each other (`Converges`).

The exceptions are named in the properties because the code does lose, keep apart or bring back something there:

* `torn`: a death during a download leaves a part of the file; the upload scope takes it for a new file, and the next download deletes the original as the stale one of two. A death between
  a deletion and ClearTree leaves a record; a file of the recorded size that is written there later counts as uploaded.
* `touched`, `raced`: a file that the user changes between the end of a copy and the `Stat` for the record is recorded with the user's size, and counts as synced
  (`apply.go:245`). A file deleted between the drop of a duplicate and ClearTree comes back. A video that grows across the threshold between plan and upload is recorded
  as a plain file (3.3).
* `rivals`: a video and, beside it, a `.strm` without a record that names an older node: one plan uploads the one and adopts the other, in the same phase (`apply.go:39`, `model.go:67`).
  When the upload comes first, the adoption sets `.strm` and record back to the older node; the upload has removed the original, and the next scan of the cloud deletes the node it made as a
  stale duplicate. BuildIndex, where it takes another node of the name than the `.strm` has, leads to the same.
* `built`: a task that is set up over files in the cloud, with an empty local directory, has them recorded by BuildIndex, and its upload scope deletes them, as files that the user has deleted.
  Of two namesakes BuildIndex records either.
* `Small`: a video below the threshold is uploaded as it is, and also fetched as a `.strm`; deleting the one leaves a `.strm` that points to nothing.
* the count: with one odd path, the numbers of entries can agree by accident, and an addition in the cloud is not noticed.

Not an exception, but a detour that ends well only because the cloud answers an upload of the same name and content with the node it has: ClearTree after the drop of a duplicate clears the record
of the file that is kept, which is uploaded once more. With the switches off, what BuildIndex recorded as a `.strm` is recycled and uploaded again as a file.

`mirror_both_unlike`: `LossHasCause` is violated in seventeen steps, without an edit or a failure: see Findings.

### 3.11 `watch`

A video (a job of its own, at once) and a plain file in a subdirectory, a plain file in the root; two changes (`MaxEdits`), one reload, stop or death (`MaxCalls`), one lost event, failed
operation or failed plan (`MaxFaults`). 883,000 states; with three changes, or with two calls, the run passes as well. Checked:

* of every file that differs from the cloud something carries the change on (`NoChangeIsLost`): an event, the debouncer's set with a timer, token or loop that will take it, the batch in hand, a
  job that has not made its plan, or an operation of one that has. Excepted (`missed`) is what happened while the task was not watched, or was taken away by a lost event, a failed operation or plan,
  a reload, a stop or a death. Two changes are what it takes to put one into each of two stages, which is where a hand-over can lose one;
* as long as the task is watched, with its timer on, every change reaches the cloud (`ChangesAreSynced`), those in `missed` too.

Fairness: the loops, the worker and a call under way go on, the timers fire. A window that is armed again and again would never pass; here changes are bounded. Nobody has to change a file, to reload or to stop.

The timer is essential to the second property, and an option of the task. `TriggerInit` (`queue.go:13`) is never enqueued: when loops start, nothing is scanned, so that without a timer what changed while
the task was not watched, or was lost by a reload, stays unsynced until the next change in its directory or a start by the user. A watcher that cannot be set up is, in this model, one that loses every event.
There is one window for all directories of a task: events that keep coming in one postpone the others.

### Findings

One run expects a violation, and shows it on the smallest way there is:

* `mirror_both_unlike`: with `to_strm` on and `to_strm_dl` off, a video that is added in the cloud is fetched as a file and recorded under its own name; the upload scope uploads it (the cloud has it: same node), writes the
  `.strm`, removes `.strm`, removes the file and records the node under the `.strm`'s name. The first record stays. The next scan finds it without a file and deletes the node.

The following come from instances that are no runs of the project; each is made from a listed cfg, and ends in a violation of the property named.

* `Start` launches a copy of the runner map. A reload or removal of a task between the copy and the launch stops its runner, which Start then launches all the same; or Start launches the new runner a second
  time, and the first context is lost. The loops run until the program ends: `runner.go:95` says that stop ends all trigger loops (停止全部常驻触发源), `engine.go:491` that a reload stops the old runner
  (停旧运行时). A failed initialisation takes out of the map, without stopping it, whatever runner the task has by then. (`MCEngine.cfg`: `NeverStray`, fifteen states: bootstrap of one task, deleted between copy and launch.)
* A reload that reads `started` before Start sets it, and registers after Start has copied the map, is not launched by either: the task is not watched until it is saved again, where `engine.go:491` says
  that the runner is built again and started (重建并启动). (`MCEngine.cfg`: `AlwaysWatched`, fourteen states.)
* A small video, uploaded under its own name, stands beside a `.strm`; when the `.strm` is deleted, the next scan retires its video, although the small one is there. The comment on `coveredByLocal` (`plan.go:288`) says that a
  missing `.strm` beside a local video is not one the user has deleted and must be left to that video, lest the old video in the cloud be cleared away by mistake; but the video's own record comes first and has taken it out of the entries
  (`plan.go:130`). When the video comes after its `.strm` in key order, it is left. (`MCMirrorUp.cfg`: `CoveredIsLeft`.)
* ClearTree, which "deletes the records of the given path with all its descendants" (`index.go:212`: 含全部后代), stops at the first key that is neither, and a sibling's name may come before the `/`: when `a` is deleted beside a
  recorded `a.mkv`, the record of `a/c` stays, with the node that went with the directory. A file of that size that is put there again counts as uploaded, and never is. (`MCMirrorUp.cfg`: `RecordsHangTogether`.)
* With `to_strm` off and `to_strm_dl` on, BuildIndex records a video that is in the cloud under its own name, as a `.strm` (`scan.go:142` promises a record as a file); the download scope writes the `.strm` beside
  it and a second record, and the upload scope takes the first one for a file that the user has deleted: the video goes to the recycle directory, and the `.strm` stays without it. A video of that name that is
  added later is deleted at once, as a duplicate of the one the `.strm` is recorded for. (`MCMirrorBoth.cfg` with `Switches <- MCForward`, `MaxEdits = 0`, `MaxFaults = 0`: `Converges`, `LossHasCause`.)
* Deleting a directory locally deletes the cloud's directory with the videos in it; the comment on `drop` says they are recycled first. (`MCMirrorUp.cfg` with `Path`, `KeyOrder`, `VideoPath`, `StrmPath`,
  `StrmOf`, `Start`, `Removable` taken from the definitions `Tree...`, `Instant = FALSE`: `HandedIsKept`.)
* A moved `.strm` whose new directory is scanned before the old one loses its video to the recycle directory. (`MCMirrorUp.cfg` with `Path`, `KeyOrder`, `StrmPath`, `Start`, `Removable`
  taken from `Move...`, `Moves = TRUE`, `Instant = FALSE`: `TrackedIsNotRecycled`.)
* Archiving empties the cloud while the local files stay. When a directory of the same name comes again with as many new entries, the counts agree,
  nothing in it is fetched, and it is archived all the same. (`MCMirrorDown.cfg` with `Path`, `KeyOrder`, `DirPath`, `Modes` taken from the definitions `Archive...`, `MaxFid = 6`, `Failing = FALSE`,
  `Still = TRUE`, `MaxEdits = 0`: `ArchivedIsLanded`.)
* What the plan for a video and the adoption of the `.strm` beside it do to each other (`rivals` above) loses the video that the user has put down: the phases in `model.go:66` are
  ordered so that nothing is "刚传完就被当冗余删掉" (deleted as redundant just after it was uploaded), and here it is, one scan later, by two edits and without any failure.
  (`MCMirrorBoth.cfg` with `Content`, `Big`, `SizeOf`, `Comes` taken from the definitions `Three...`, `MaxFaults = 0`: `WrittenIsKeptAlways`.)
* `Seq` returns the next number, `Since` takes the last one: the first entry of every increment but the first is skipped. (`MCLogFeed.cfg`: `NothingIsMissed`.)

## 4. The proofs

Every theorem is proved for all values of the constants that the module's assumption admits: any number of keys, goroutines, paths, nodes, edits, failures and deaths, also where a run
needs a bound. What a theorem assumes beyond that stands in its statement, and here. Each invariant was put through TLC before it was proved.

**`QueueProofs`**, the queue (`WorkQueueAssumption`: every key has a task, the triggers in use are ranked ones).

* `SelectAtProperties`: what filtering a sequence by positions keeps.
* `QueueInvariant`: `[]QueueInv`, the inductive invariant: `TypeOK`, `QueueConsistent`, `NoLostWakeup`, `HighestTriggerKept`, and `RunsOneJob` (the
  worker is at a job exactly while one is running). The properties support each other: `TakeJob` keeps slice and map in step only because the
  slice holds a key once, `HighestTriggerKept` needs the slice and the map to have the same keys, and `NoLostWakeup` the map to be empty when
  the worker has found nothing in the slice. The refinement rests on `RunsOneJob` as well.
* `QueueIsConsistent`, `WakeupIsNeverLost`, `HighestTriggerIsKept` follow.
* `QueueImplementsLine`: every step of `WorkQueue` is a step of `JobLine` or a stutter under the mapping in
  `WorkQueue` (the line is the slice with each key's trigger).

**`EngineProofs`** (`EngineAssumption`: keys have tasks, the names for "none" are no tasks or runners).

* `CancelHitsOwnJobHolds`, however calls overlap. `CancelInv` adds that a goroutine holds a cancel function only between the critical section in which it looked at `activeTask` and the call.
* `NoStrayLoopsHolds` and `RegisteredIsWatchedHolds`, however calls overlap, without a condition, from `LifeInv`. Its first part, `Structure`, holds of every task: types, whose runner a goroutine may hold, that loops run once, of a runner that is registered or that
  a call is about to stop, or else astray (`LiveFine`), and that a registered runner is watched, was stopped or missed, or is about to be launched by a call or by Start (`Watched`). The second, `Uncrossed`, says of a task that no two
  goroutines were busy with at once that none of its loops are astray and its registered runner is not missed (`Straight`): what the one call about it remembers from its last critical section still holds (`CallFine`), and a second
  bootstrap after a failed one replaces every runner that the first one left before it launches any (`BootFine`). A step about a task that another goroutine is busy with makes it crossed, so only what goroutines do to other tasks has to be shown harmless.

**`WatchProofs`** (`WatchAssumption`: every file has a directory, and those synced at once a key of their own).

* `NoChangeIsLostHolds`. `NoChangeIsLost` names the carriers of a change, and is nearly inductive by itself. What it needs are types, and that the carriers are empty when nothing carries them: no
  batch in hand but when the loop is about to give it, nothing seen by a job that is not running or not planned, no events or set without a watcher (`HandsEmpty`).

**`MirrorUpProofs`** (`MirrorUpAssumption` and `StartAssumption`: a task is set up over a tree of directories and files without `.strm` files; paths make a tree, a video's `.strm` is beside it, what is a directory, a video or a `.strm` is told by the name, nodes are finitely many). Under two hypotheses, both
violated with a lost video otherwise (3.3, Findings): `~Growing`, a file does not change between plan and turn, and `HomesStay`, the user neither deletes nor renames a directory on the way to a video or a `.strm`. Any
call may fail, and the program may stop or die between any two. The proofs of `UpAlways`, `HandedAlways` and `UpTypes` use neither `Moves = FALSE` nor the guard of `WriteLink` that gives a node to one `.strm`; those of `TrackAlways` and `TrackedAlways` use both.

* `HandedAlways`: `[]HandedIsKept`, and `UpTypes`: `[]TypeOK`, from `UpAlways`: `[]UpInv`. What makes the property hard is that a node goes away in three ways: by a drop, with the directory it is in, and because
  another file takes its record. `UpInv` therefore says where a node with the content of a video may be (`PreciousFine`): in the recycle directory, or below directories that lead to a `.strm` or video, none of
  which is dropped (`HomesFine`); that a record of a plain file never names such a node (`IndexFine`), whoever wrote the record, be it an instant upload that was answered with a node already there; and that a plan
  still fits when its turn comes (`OpFine`): what it drops is no video nor on the way to one, what it uploads as a video is one by its size or is gone. `StepFine` says the same of a run that is inside an operation:
  between the answer to an upload and the removal of the original, the node that was answered has the original's content. `HandedFine` is then `HandedIsKept` with the node's place.
* `DecideFine`, `PlansFine`: whatever the planner decides, in the state it looks at, fits. The plan is made by a recursive function over the depth of the tree, flattened and ordered by phase; lemmas
  state what is in it (every operation comes from one decision about one name). They are proved by induction, taken from the well-foundedness of `<` on the naturals for one set at a time (`Least`, `SetInduction`).
* Most of the proof is that the rest of a plan survives the first operation's steps and the user's changes (`OpLasts`): nodes keep kind and content until they are cleared, and what is cleared is what the invariant lets be dropped.
* `TrackedAlways`: `[]TrackedIsNotRecycled`, from `TrackAlways`: `[]TrackInv`, under `~Moves` as well. A node is recycled by a retire and by the upload that replaces it; both name it by what a record said when the plan
  was made, perhaps long before. `TrackInv` says that one path at a time has a claim to a node (`Single`), where a claim is a `.strm` that names it, a record, an operation that will adopt it, retire it or
  replace it, or the operation under way that is about to record it; what claims it other than by a `.strm` or an adoption to come has brought it into the task (`Taken`), so that a `.strm` the user points to a node
  elsewhere is the first claim to it; and the cloud answers an upload with a known node only under a name that belongs to that claim (`Named`). So whatever puts a node into the recycle directory does it for the path
  whose record names it, and until that record is replaced the path is pending, and torn when it is cut off (`Spared`); what is about to be recorded is not in there (`AtHand`), which is where `Supersedes` is needed.

**`MirrorDownProofs`** (`MirrorDownAssumption`: paths make a tree, a video has its `.strm` beside it, nodes are finitely many).

* `RecordMeansLandedHolds`, `RecordedIsWholeHolds`, `ArchivedIsHandledHolds`, and, under `StrmsDiffer`, `DropKeepsOriginalHolds`, from `DownInv`. It follows a node from the walk through the plan to
  its record: what is to be fetched has no record yet (`GetsUnrecorded`), what is being landed is there or was deleted meanwhile (`Landing`), what the walk found and is in no operation any more was handled
  (`Handling`), and what is to be dropped is the second of its name, the first of which is recorded and stays (`DropsFine`, `FewNamesakes`, `SecondIsRecorded`, `OneRecord`).
* `QuietRunSettlesHolds`, under `StrmsDiffer`: `QuietInv` says, for a run that nothing has disturbed, that every file of the cloud is in a directory that is still to be walked, in the list of what was found, in an
  operation that is left, or in step (`WalkFine`, `PlanFine`).
* `SkipIsSoundHolds`, under `StrmsDiffer`: `SkipInv` says that, as long as only the program fills the local tree, every local entry stands for a node that is there. Entries that are as many
  as the nodes then leave no node without one: the counts are compared by an injection between finite sets (this is what finitely many nodes are needed for).

  `StrmsDiffer`: no two videos of a directory share a stem, so a `.strm` name has one video. Where two do, the plan takes one for the stale duplicate of the other (`plan.go:214`, listed as a hazard).

**`MirrorBothProofs`** (`MirrorBothAssumption`). All under `Forward`: `to_strm` implies `to_strm_dl`; the run `mirror_both_unlike` shows what happens otherwise. `LossHasCauseHolds` is under `Alike`, which says that the two are
equal, as in the run.

* `BaseHolds`: types; every `.strm` and every record names a node that exists and whose place is that path (`Lands`); every operation that is left was one the plan could make, and still is about such a
  node; where the run is inside an operation fits the operation (`Stage`). Without `Forward` a video fetched as a file is recorded under a path that is not its own.
* `DeletedStaysDeletedHolds`, from `Base` and `GoneOK`: a path the user deleted is not there, a node of its name that is in the directory is the recorded one, and no operation that is left or under way brings the path
  back or clears another node in its name. It has to speak of the record, as it is the record that tells the next scan of the cloud not to fetch, and of every operation, because a plan
  outlives the deletion; ClearTree keeps it because the node has left the directory one step before.
* `WrittenIsKeptHolds`, under `StrmsDiffer` too. `KeepInv` is `Base` and three parts. `WrittenOK`: what the user put at a path is at home there until its original is removed (`AtHome`; by then its node is in the
  cloud and its `.strm` points to it), and from then on behind its `.strm` (`Away`), which is recorded for this node, or has no record, and no operation is going to delete or replace the node. `PlanOK`: an operation for
  such a path is an upload as a video only if it is one by its size, is no download, and no adoption of another node for the same `.strm` stands in the same plan, but for the paths in `rivals`. `SmallOK`: a
  record as a plain file under the name of a video is one of a small video, as a large one would be deleted as a leftover. `rivals` and its exception came out of the attempt to prove
  the property without them: the step that failed is the behaviour reported under Findings.
* `LossHasCauseHolds`, under `Alike` and `StrmsDiffer`. `LossInv` is about the paths that nobody has touched and where no operation was cut off (`Quiet`; a video and its `.strm` are both quiet or neither is, `Kin`), and
  says that nothing there is in dispute: there is one node of the name in the directory (`OneNode`), what is there locally is recorded as that node (`Matched`), and a plan holds nothing for such a path but the
  operation that fetches this node (`Fetching`), or the one that clears a record that BuildIndex made (`Clearing`). So no step deletes a quiet node that BuildIndex has not recorded (`Spared`), and it comes out that the first alternative of the
  property, a whole copy elsewhere, is needed for names only that somebody has touched. `Forward` is not enough: what BuildIndex records is then under another path than what is fetched, and
  the second instance under Findings deletes a node that nobody has touched.

**`HandoverProofs`** (`HandoverAssumption`).

* `GoneIsInTheCloudHolds` and `ServedIsTheNodeHolds`. `HandInv` is a chain of equalities, each conditional on no change that came too late: the file is what was read (`ReadIsFile`), what was read is the node
  (`NodeIsRead`), a copy under way has a prefix of the file and its target is empty or what was copied (`CopyIsFile`), an entry is the node of its pickcode, or a copy not finished, or one that is excepted
  (`EntriesFine`). The properties speak of the ends of the chain only.

**`ClientProofs`**, for any goroutines, authorisations, retries and issued tokens (`TokenAssumption`):

* `TokenInvariant`: types, `FileIsCurrent`, `ReportedIsDead`, and per goroutine `Holds` (who is at work under a mutex has it), `Counts` (a forced refresh can be followed
  by one more attempt) and `Works` (it refreshes with the stored token or the pasted one, and what the service answered is still so). `Tokens` says of memory and file alike that
  the token there is not ahead of the service and has an excuse if it is not taken: the file needs this too, since a restart makes its token the stored one.
* `StoredTokenStaysLive`, `ReportedTokenIsDead`, `FileStaysCurrent`, `MutexesAlwaysGivenBack` follow.

and for any sizes of blocks and parts, contents and numbers of attempts (`UploadAssumption`):

* `UploadTypes` and `HashIsContentHolds`, from `UploadInv`: as long as the file has only grown, its first `size` blocks are those that were hashed, and what was sent is a prefix of them that ends where the next part
  begins (`Underway`, `OnlyGrown`).
* `UploadKeepsTransfer`: every step of `Upload` is a step of `Transfer` or a stutter under the mapping in `Upload`.
* `PartsAreFewEnough`: no file that 10,000 parts of 5 GB can hold needs more than 10,000 parts, across all seven classes of sizes of `calcPartSize`;
  `PartsMakeUpTheFile`: parts are not empty, none is longer than the size of a part, each begins where the one before ends, and the last one ends with the file. These are plain arithmetic with the numbers of the code, for every size
  (both rest on `RoundedUp`, what `(n + s - 1) div s` is). `Upload` takes `calcPartSize` as a constant, a function of the size: these two theorems are the bridge to the real one.

**`QueueProofs`**, the log feed, for any capacity, set of clients and number of entries (`LogFeedAssumption`):

* `FeedInvariant`: types, the layout of the ring, and per stream `StreamOK`: what is in the ring and came before `lastLogSeq` has been sent
  or was cut off, and while the channel is empty the stream has read, or is about to compare with, the number the next entry will have. The
  properties speak of waiting streams only; the invariant must follow a stream through its reads and its write, and needs the layout to know what Since returns.
* `RingKeepsItsLayout` (by `SlotsDiffer`: two numbers closer than the capacity have different slots), `WaitingStreamIsUpToDate`, `StreamMissesOnlyCuts` follow.

and the relay, for any number of requests, permits and links (`RelayAssumption`):

* `RelayInvariant`: types, `WaitersHaveCall`, and per request `Good`: links that were tried have left the cache for good, a link used for the second time came
  from a call that is over, and if both tries used one link no call has it either. Links are numbered as they are issued, so a new one
  differs from all of them. `WaitersAlwaysHaveCall` and `RetriesAlwaysChangeLink` follow, without anything about the semaphore.
* `PermitsStayAccounted` is about the semaphore, and needs an invariant of its own, `SemInv`: those who are where a permit is held, or queued for, are exactly those counted, each once, and none is queued while a permit is
  free. That a release hands its permit to the first in the queue keeps the count by an argument on cardinalities.

Only model-checked:

* `MirrorUp`'s `Converges` and `IsMirror`, which are about two whole scans;
* `MirrorBoth`'s `Converges`, which is about six whole runs;
* all of `Cache` by itself, but for what `HandoverProofs` says of it;
* everything about liveness: fairness and ENABLED are out of TLAPS's reach, and with them the fairness half of `ImplementsJobLine` and of `ImplementsTransfer`.

## 5. What is not modelled, and the plan

Pure I/O and formatting (the HTTP exchange with 115, the decoding of pickcodes, pages, authentication, logging to stdout) stay out, and so do offline downloads, which keep no state: their handlers
pass a request on. The list of activities is an append and a trim in one transaction of bbolt, of which no interleaving is visible. Of the engine there is left:

* settings: a save that comes while a reload is running is merged into it (`startEngineAsync`, whose comment says that the pending round reads the latest configuration), though that reload has read the settings of some tasks already;
* StartTask against an index that is not finished, and ReloadTask, which does not cancel a running job, against the index that it clears: `Engine` has no index;
* the wait group, which the worker joins after Init only, and the closing of the store.

Of the cache: `copyFile` hands back a nil error when only the closing of the copy fails (`cache.go:230`), after which the original is removed; `Cache` has no such failure. Of the upload: when the size of the open file cannot
be read, it is not compared (`upload.go:344`); `Upload` always reads it. Of the watcher: when it ends by itself and closes its channel, the loop returns
(`runner.go:187`) and what the debouncer holds is forgotten, while the runner stays registered; `Watch` has watchers that lose every event, and loops that end with the runner's context only.

Of the mirror: copies of a `.strm`, two videos with one stem, the exclusion list, dry runs.

Proofs to come: what `Cache` promises by itself; and that calm runs of `MirrorBoth` never undo each other, the safety half of `Converges`.

## 6. Running it

    tlc -config MCWorkQueue.cfg MCWorkQueue        # and so on, one cfg per run
    tlapm QueueProofs.tla                          # and the other proof modules

The longest runs are `MCEngine.cfg` and `MCHandover.cfg`, two minutes each on two cores. The instances of the findings that are not runs are made from the
listed cfg by the changes given there; the module holds the definitions they need.

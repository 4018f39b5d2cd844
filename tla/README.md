# A TLA+ model of Koishi-Mirror

Koishi-Mirror keeps a mirror of npm packages in an S3-compatible bucket (COS). It reads an
index of packages from upstream, downloads tarballs, uploads them, and answers npm clients by
redirecting them to the bucket or, for what is not mirrored, by proxying upstream. This
directory holds TLA+ modules translated from its Go source, the TLC runs that check them on
small instances, and theorems that the TLA+ proof system checks for every instance.

`tlc -config <run>.cfg <module>` repeats a run (the table below names both), `tlapm <module>`
a proof.

## 1. Inventory

| Part | Source | State it keeps | Operations | Talks to |
|---|---|---|---|---|
| Sync manager | `internal/sync/{manager,state,planner}.go`, `cmd/main.go`, `internal/api/sync.go` | the map `PackageStates` under `stateMutex`, the job registry | `BootSync`, `Pull`, `StartCron`, `RetryFailedNow`, `TryStartJob`/`FinishJob`, `loadSyncState`/`saveSyncState` | data source, workers, store |
| Package worker | `internal/sync/uploader.go` | a temporary file | `syncPackage`: download, clean, upload, verify, metadata, record, two row writes | upstream, bucket, store, sync state |
| Reconciliation | `internal/sync/reconcile.go` | none | three loops over rows, objects and index | store, bucket, data source |
| Planner | `internal/sync/planner.go`, `compareVersion` in `internal/version` | none | what to mirror, newest first; one latest version per name, then a batch of older ones | sync manager |
| Data source | `internal/datasource/source.go`, `internal/sync/cache.go` | one Redis key | `Get` with cache, retries and fall-back; `ClearCache` | upstream, Redis |
| Store | `internal/storage/postgres/store.go` | tables `sync_state`, `package_versions`, `packages`, `dist_tags`, `logs` | reads and upserts, one statement each | PostgreSQL |
| Bucket client | `internal/s3client/client.go` | none | PUT, HEAD, one listing page, URLs | COS |
| Rate limiter | `internal/api/ratelimit.go` | a bucket for all, a map of buckets by address | `RateLimitMiddleware` | clock |
| Version controller | `internal/version/controller.go` | LRU and Redis copy of the metadata, singleflight | `BuildPackageMetadata`, `rebuildAndCache` | store, sync state |
| LRU | `internal/cache/lru.go` | map and linked list | `Get`, `Set`, `Del` | - |
| HTTP API | `internal/api/{download,registry,packages,versions,search,status}.go` | none | handlers | all of the above |
| Edge router | `npm-smart-router.js` | none | routes a request to the bucket, the mirror or the public registry | HTTP API |
| Configuration, logging, proxy | `config`, `internal/logging`, `internal/proxy` | none that others read | - | - |
| UI | `ui` | none | shows the status, reads the list page by page | HTTP API |
| Deployment | `scripts`, `docker-compose.yml` | none | - | - |

How they interact. `main` starts one goroutine that runs `BootSync`, then `Pull`, then `Pull` at
every tick; API requests start `Pull`, `BootSync`, `RetryFailedNow` and `Reconcile` in goroutines
of their own. Only the requests for `Pull` and `BootSync` go through the job registry, and only
against each other, so that any of them may overlap the goroutine of `main`. Each pull starts up
to `SYNC_CONCURRENCY` workers. All of them share the map, the tables, the bucket and the Redis
key. Nothing is transactional: a load replaces the whole map, a save iterates the live map
without the lock, and a row is written in two statements.

What is hard, and what makes the parts correct:

* **Sync manager, workers, reconciliation.** Loads and saves of one goroutine in the middle of
  workers of another; calls that fail, or that fail after having taken effect; crashes between
  upload, record and save. Correct when a download is redirected only to an object that exists,
  when the saved state is one from which the next pull goes on, when table, bucket and map agree
  once things are quiet, when every downloadable package ends up mirrored, and when what is
  mirrored is not downloaded again.
* **Planner.** Two comparisons of versions, sorting, and a cut. Correct when a pull takes the
  newest of what is missing, and first of all what clients resolve `latest` to.
* **Cleaner** (the middle of `syncPackage`). Index arithmetic on a file. Correct when a plain
  tarball is kept as it is, an object looks like gzip, and nothing empty is uploaded.
* **Data source.** Clears, reads and writes of one key from many goroutines. Correct when a
  pull that cleared the key does not see an index older than the clear, and every call returns.
* **Rate limiter.** Lazy filling, eviction of buckets that are still in use. Correct when it
  cannot be told from one that keeps every bucket for ever and fills it steadily.
* **LRU.** A list and a map that are changed one after the other in five places. Correct when the
  two hold the same entries in the order of their last use, within the capacity.
* **Metadata cache.** Two copies with a life each, rebuilt in the background by a goroutine whose
  context is cancelled under it, with other requests waiting for the result. Correct when an
  answer is never older than the life of one entry, no cache goes back in time, and every request
  is answered unless upstream is silent.
* **List and search.** Machine integers that the client chooses, and pages cut out of an index
  that changes between them. Correct when a window lies in the list, and when who reads page
  after page misses nothing but what a withdrawal makes slip.
* **Statistics and views, edge router.** Rows, map, or first the one and then the other. Correct
  when once things are quiet what each says of the versions that it lists is true of the bucket.

`PROJECT.json` lists every hazard at its line, with the properties that cover it or the reason
why none does.

## 2. Modules

```
MirrorState   state and primitive operations shared by the core
  SyncWorker    syncPackage, one action per step that others can observe
  Reconcile     the three loops, one action per request
    SyncManager   BootSync, Pull, StartCron, retries, save and load, requests, crash
      SyncManagerProps  properties, the inductive invariant, the mapping to Mirror
        Views             what the HTTP API says of this state
          MCSyncManager     values for TLC
        SyncManagerProofs TypeCorrect, RedirectsAreBacked, jobs, ImplementsTheMirror
          CronProofs        the goroutine of main alone: saves, agreement, views
                            (EXTENDS SyncManagerProofs, Views)
Mirror        the abstract promise of the core
Planner       order and split of a pull
Paging        the windows of list and search
  Listing       a client that reads page by page     MCListing, ListingProofs
                (EXTENDS Planner, Paging)
TarballCleaner  what is cut out of a download      CleanerProofs
DataSource    the cached index                     DataSourceProofs
Limiter       the abstract rate limiter
RateLimit     RateLimitMiddleware                  MCRateLimit, RateLimitProofs
Recency       the abstract LRU
Lru           nodes, pointers and map              MCLru, LruProofs
MetaCache     the two caches of the metadata       MetaCacheProofs
```

An operator whose comment begins with MUTANT is a deliberately wrong version of the definition
after it, which a property must refute. Nothing of the model uses it.

### The core: MirrorState, SyncWorker, Reconcile, SyncManager

A member of `Pkgs` is one version of one package. Contents are abstracted to the size of the
cleaned tarball, because the code compares nothing else; size 0 stands for "no object", which
`NothingEmptyIsUploaded` justifies.

| Variable | In the code |
|---|---|
| `catalog` | what upstream lists |
| `objects`, `meta`, `lost` | tarballs and `metadata.json` in the bucket; `lost` is bookkeeping for objects that vanished by no act of the mirror |
| `rows`, `saved` | tables `package_versions`, `sync_state` |
| `mem`, `jobs` | `syncState.PackageStates`, `SyncManager.jobs` |
| `pc`, `todo`, `left`, `listed`, `cur`, `seen` | where each goroutine is, and its local variables |
| `work`, `body` | where the worker of a goroutine for a package is, and its temporary file |
| `unsaved`, `frozen`, `snap` | the progress of a save, and the map it iterates if a load has replaced it since; or the rows a load has read |

Choices a reader should know:

* Each request to upstream, bucket or database is an action, with its failure (`Fault`) as an
  alternative; a PUT or a statement that fails may have taken effect. A result stream that
  breaks off is a shorter result, because `rows.Err()` is not looked at. A stale or partial index
  counts as a fault of `Get`.
* `loadSyncState` is two actions (read, replace). `saveSyncState` writes one row per action out
  of the live map; keys that appear while it iterates may be visited or not. That the Go runtime
  may abort the process on the concurrent access is a `Crash`.
* The two statements that `syncPackage` ends with are separate actions, because the first writes
  an empty status. The two that Reconcile uses for one row write the same status, so they are one.
* A slot of the semaphore is a member of `Busy`. The goroutine of `main` has no job slot.
* The retry count is only compared with `MaxRetries`, and saturates there.
* `catalog` is a set; only the backfill batch depends on the order of the index, through `Rank`.
  Planner models the order itself.
* Distinct packages are assumed to have distinct object keys (`ConstantsAssumption`);
  `NormalizePackageName` does not ensure it (see hazards).
* A graceful shutdown does not wait for goroutines and is the same step as `Crash`.
* `MaxFaults`, `MaxCrashes`, `MaxRequests` and `MaxLosses` bound what the environment does.
  The theorems hold for all values of them.
* Left out: the saved state in S3 that is used without a database, the Redis keys that
  `syncPackage` writes and nothing reads, logs, the statistics counters.

### Views

Views adds no state. It has an operator for each handler that says something of the mirror, over the
rows and the map of the core. Which versions a handler speaks of is its argument `list`: the page
that was asked for, or what a copy lists that may be older than the last pull. `GetPackageVersions`
and `RegistryFallback` go through the metadata of the package, which is kept in two caches that no
pull clears; a version stored since is missing from both until the copy ends. That lag is part of
the code, `AnswersAreRecent` of MetaCache bounds it, and nothing is claimed of a version that is not
listed. What is claimed, for every `list` whatever (`ViewsAgree`): between two pulls, as long as no
call failed and nothing was lost, a version that is listed is called mirrored if and only if it is
stored, its size is that of the object, and metadata that is built anew (`Rebuilt`) lists all that is
stored. The totals describe the bucket only without the second rows of scoped packages, which they
count.

The two that read the map only, the index and the version list, are held to name every stored
package that they list only if there was no crash, or the batch of a pull is never too small
(`NothingWaits`): after a crash a package is known to the map once a pull has planned it again, which
a small batch may put off for ever. These differences remain and are part of the operators: the list
reads the row only, index and version list the map only, the detail and the metadata the row and then
the map; `GetStorageStats` adds up rows of every status; the edge router sees one page of the list
(`InCOS`) and asks the mirror at all only for names outside of its own list of two.

### Planner, Paging, Listing

Planner has the filter by state, the sort with its two criteria, both version comparisons (`Newer` for
`compareVer`, `Later` for `compareVersion`), the split by name and the batch (`Plan`). The index is a
sequence into which `Publish` inserts an entry anywhere, so every order of up to four entries occurs.
An entry can be planned (`Plannable`) if the map does not have it or has it as failed; the third
alternative of `planner.go:24`, a pending one, never occurs, because nothing puts `pending` into the
map. An entry that a worker is at, or that was saved as `syncing` and loaded again, is left out, as in
the code: workers of a `Pull` begin with what it planned, `Resync` is a `BootSync` or a retry, and
`End` may never come.
The sort and the two loops that append are `Arranged`: an entry stands at the place that counts the
entries before it (`SortedBefore` for the stable sort; for `Chosen` the order of the list). The loop over
`latestMap` is a recursive function whose step is `Keep`.
`LatestTag` takes the versions that have a row, and those of the index only if there are none, as
`rebuildAndCache` does; `LatestTagFirst` speaks of every set of rows. A tag that rests on old rows
does not move to a new version before that has a row: then the later version has priority instead.
A version is its core numbers and its pre-release identifiers; the split of the string at
'.' before '-' is modelled by what it does to both. The two comparisons do not agree on
pre-releases, of which `planner.go:62` says that they are ignored: identifiers after the first count
as further numbers, so that 1.1.0-beta.2 takes the place of 1.1.0 in `latestMap`. `LatestTagFirst`
therefore speaks of packages without pre-releases only.

Paging is the arithmetic of `GetPackages` and of `SearchV1` in integers that wrap around, with no
state. Listing composes it with Planner: a reader asks for page after page while versions are
published, mirrored and withdrawn. A withdrawal also stands for an older copy of the index, which a
data source that falls back to its cache may give. The reader takes the page size out of the answer,
as `PackageList.vue` does. There is one reading per behaviour. Any request may be answered without
packages (`Answers`): `Source.Get` may return an empty list and no error, the search answers 200 with
the total 0 when it fails, and `PackageList.vue` sets its total to 0 on the 500 of `GetPackages`. Then the
reader stops, and `SkipsAreBounded` promises nothing, because it was told that there is nothing to
read. A search text is the set of names that contain it.
`RegistryFallback` holds a copy of the code of the search.

### TarballCleaner

TarballCleaner sends a file in every way that the code expects and cuts it as the code does. Of
a byte only what the code looks for is told apart. The five bytes that it cuts off the end are
`0\r\n\r\n`; the line end of the last chunk before them stays.

### DataSource

One action per access to Redis or upstream. `floor` is an observer: the oldest index that may
still get into the key after the last clear, which is the smallest of what upstream lists and
what other calls have fetched and not yet written. `promised` is the floor at the time a call began. The
code makes no stronger promise, because a call that fetched before a clear writes after it.

### RateLimit, Limiter

Time is counted in ticks of 1/`Unit` second and tokens in fractions of 1/`Unit`, so that the
`float64` arithmetic is exact. The middleware is three atomic sections: the global bucket; the
map, under `mu`; the address's bucket, after `mu` is released. `MaxStall` bounds the time between the
last two. With the code's two minutes, `RateLimitAssumption` allows 119 seconds; without any
bound, a goroutine held up longer than the time-out would use a bucket that is no longer in
the map. `mark` and `admitted` observe an arbitrary window of time.

### Lru, Recency

A call of the LRU holds its mutex throughout and is one step. A key has at most one node, so the node
is named by its key and `Nil` is the nil pointer; `list` holds head, tail and both pointers of every
node, and `addToFront`, `removeNode`, `moveToFront` translate the assignments of the code in their
order. `last` and `uses` observe when a key was used. Recency says the same without pointers.

### MetaCache

One package, identified metadata: what the metadata says is left out, and when it was read is kept.
Other packages are seen as evictions at any time, which is all that Recency promises of one key. The
steps are those that another goroutine can observe: the look into the LRU, into Redis, the look at
the remaining life, the entry into the flight, the read of the rows, of the index, the two writes.
What the code does and the model keeps:

* The goroutine that refreshes in the background uses the context of the request, which is cancelled
  as soon as the handler returns. The read of the rows then fails and the index is read instead,
  without a context; the SET of Redis fails silently; the write into the LRU succeeds. So a refresh in
  the background seldom renews the copy in Redis whose end was its reason.
* A hit in Redis does not fill the LRU. This is what keeps the life of an entry from being counted
  twice; the mutant `TryRedisFills` shows it.
* Those who wait in the flight get the error of its leader, whose context may be cancelled.
* The index is read by a bare `http.Get` (`controller.go:98`), which has neither a time-out nor a
  context. When upstream accepts and stays silent, the leader and all who wait for it wait for ever.
* Nothing invalidates either cache when a pull changes the rows. How long an answer may lag is
  what `AnswersAreRecent` states. With `CACHE_TTL=0` entries last for ever and nothing is promised.
* Successive answers may go back in time, because the two caches are renewed at different times;
  each cache alone does not (`CachesMoveForward`).

`MaxStall` bounds the time from the read to the last write of a rebuild. `ResolveVersion` is this and
a look-up in the result; the tag `latest` is in Planner.

## 3. Runs

| Run | Module | Checks | Distinct states |
|---|---|---|---|
| `cron` | MCSyncManager | `TypeOK`, `RedirectBacked`, `SavedSettled`, `IndexAgrees`, `Agreement`, `ViewsAgree`, `DownloadedOnce`, `ImplementsMirror`, `Converges`, `RebootHeals` | 271,000 |
| `overlap` | MCSyncManager | `IInv`, `JobsExclusive`, `ImplementsMirror` | 1,500,000 |
| `listing` | MCListing | `NewestFirst`, `LatestTagFirst`, `BatchIsPrefix`, `SkipsAreBounded` | 113,000 |
| `cleaner` | TarballCleaner | `UploadsSomething`, `PlainIsKept`, `LooksLikeGzip` | 233,000 |
| `datasource` | DataSource | `FreshInv`, `GetReturns` | 94,000 |
| `ratelimit` | MCRateLimit | `LimitInv`, `ImplementsLimiter` | 412,000 |
| `lru` | MCLru | `LruInv`, `ImplementsRecency` | 360,000 |
| `metacache` | MetaCache | `CacheInv`, `AnswersAreRecent`, `CachesMoveForward`, `RequestsReturn` | 502,000 |
| `starve` | MCSyncManager | `ConvergesToAll`, refuted | 3,100 |
| `stuck` | MCSyncManager | `Converges`, refuted | - |
| `retry` | MCSyncManager | `RetryReachesSync`, refuted | - |
| `phantom` | MCSyncManager | `OneRowPerObject`, refuted | - |

What they show:

* `cron`: the goroutine of `main` alone, over two versions of one package, with a batch of one, one
  slot for workers, a listing of one object, a fault, a crash and a lost object. What is redirected is
  stored; the table `sync_state` never says `syncing`; as long as no call goes wrong, bucket, rows and
  map agree between two pulls, crash or no crash, and so does all that the API says of them
  (`Agreement` is the invariant behind this, of every step of the goroutine); a finished download is
  not repeated without a restart; both versions end up stored and known, and a restart repairs
  what the bucket lost, although its listing shows one object of two.
* `overlap`: the goroutine of `main` together with two requests for a `Pull`, of which the registry
  admits one at a time, so that two pulls load, plan, mirror and save one scoped package at once. The
  inductive invariant holds in every state of every interleaving. `BootSync`, retries and `Reconcile`
  as requests are not in the run; the theorems about `IInv`, `JobsExclusive` and `ImplementsMirror`
  hold with them.
* `listing`: every index of up to four entries of two packages and three versions, of which one is a
  pre-release, a batch of one, and every state of each entry. A client reads the list or the
  search, with a page size of one or one beyond the largest allowed, over up to three entries
  of which one may be withdrawn on the way, with requests that fail: it misses at most as many as
  were withdrawn. What a client is shown does not depend on the states, nor a plan on the client,
  which is why the run keeps one still while it looks at the other (`MCApart`).
* `cleaner`: every payload of up to eight bytes, in up to two chunks, with a search window of six
  bytes that is shorter than some files and longer than others.
* `datasource`: three goroutines, two attempts, two revisions. Three are the fewest with which
  one clears, one reads and one has fetched before the clear.
* `ratelimit`: two requests, two addresses, four ticks. A time-out of three ticks lets an
  address be dropped, come back and be limited again. Requests and addresses are
  interchangeable in all actions, hence the symmetry.
* `lru`: four keys for three places, so that nodes in the middle of the list move and leave; six
  uses, a life of one second and two ticks, so that entries are evicted and expire in between.
  Keys are interchangeable, hence the symmetry.
* `metacache`: two requests, the fewest of which one can lead and one wait; a life of two seconds
  with a soft window of one, over four seconds, so that an entry is renewed and expires again;
  evictions, a closed connection and restarts at any time.

Bounds. Two packages are needed for the split between latest and backfill, and, with one slot, for a
worker that waits for it; two sizes, for an upload that another replaces between PUT and HEAD; one page
of one object, for a listing that is cut off, as the one of the second object is in `cron`; three
packages in `starve`, for a version behind a batch that never succeeds; two attempts in `cron`, so that
`retryFailedPackages` takes a failed download; 8-bit integers in `listing`,
which the theorems about Paging make any width. A second crash, which is needed for the size
that nothing corrects (below), more goroutines and more faults are left to the theorems, which do
not depend on these values.

Fairness. `cron`, `starve` and `stuck` use `FairSpec`: weak fairness of every goroutine and of
every worker, and strong fairness of a `Get` that returns the whole index. The first says that the
scheduler runs a goroutine that can go on, that the ticker ticks, and that calls return; the second
that the cron, which clears the cached index before each pull, reads the present one again and again
once upstream lists nothing new, because only a call that was on its way can have put an older copy
back. The code gives the calls of the data source, the database and the bucket a time-out or a
context; `http.Get` of `syncPackage` has none, so for it this is an assumption about upstream. Nothing
makes requests, crashes, faults or losses happen. `datasource` has weak fairness of `Get`, whose client
has a time-out. `metacache` has weak fairness of the handlers and of the steps of a rebuild that call
the table and Redis, but none of `ReadIndex`, whose `http.Get` may never return: `RequestsReturn`
says that a request waits for ever only for a rebuild that reads the index for ever.

Deadlock is checked in all of them.

### Where the code differs from what is said of it

Four runs are expected to fail; each checks what a comment of the repository says.

* `stuck`: `manager.go:287` says that the cron keeps converging to the data source. When a pull of
  the API overlaps the one of the cron, the save of one may persist `syncing` for a package that
  a worker of the other is at. If the load of the next pull then replaces the map,
  the package stays `syncing`, which `determinePackagesToSync` never selects.
* `starve`: the same line. Versions whose download always fails are planned again by every pull and
  keep their place; when as many of them as the batch takes stand before another version of the
  history, that one is never mirrored although it could be. `Starves` says exactly when, and
  `Converges`, which excepts it, is what the code keeps; in `cron`, which checks it, nothing starves.
* `retry`: `state.go:101` says that a retry completes the package from the data source. `Sscanf`
  with `%s@%s` puts the whole key into the name, so no retry ever gets as far as `syncPackage`.
  The package is mirrored by the next pull instead.
* `phantom`: `reconcile.go:56` says that a missing row is inserted to keep the view complete. For a
  scoped package, the name read back from the key is not the name of the package, and a second row for
  the same object is inserted.

Proved rather than run: `uploader.go:15` and `125` promise a pure gzip tarball, a clean object, but of
every body that arrives in one chunk the line end after the chunk is uploaded with it
(`OneChunkKeepsLineEnd`); of a body in several chunks the size lines in between are left too.

Met while modelling, and documented in the modules rather than run: the repeated download after a crash before a save
(`DownloadedOnce` excludes it), what `latestMap` does with pre-releases (above), the refresh whose context is
cancelled (above), `ScheduledResync`, which is reported but schedules nothing, and a size in the map that is older than the
object: a pull that ends in a crash before its save leaves an object of another size, and a second
crash after the restart keeps BootSync from seeing it; Reconcile corrects the row but not the map, and
the status stays `success`. `IndexAgrees` therefore claims the size in the map for up to one crash
only. And after a crash a stored package whose pull did not save it gets a row again, by Reconcile, but a state
only when a pull plans it: with a batch that others fill before it, that may never happen,
and the index and the version list go on without it.

## 4. Theorems

All are proved for every value of the constants, under the named assumptions of the modules
(`ConstantsAssumption`, `CleanerAssumption`, `DataSourceAssumption`, `RateLimitAssumption`,
`LruAssumption`, `MetaCacheAssumption`, `PlannerAssumption`, `ListingAssumption`,
`PagingAssumption`, `ViewsAssumption`).

| Theorem | Module | Says |
|---|---|---|
| `TypeCorrect` | SyncManagerProofs | `Spec => []TypeOK` |
| `RedirectsAreBacked` | SyncManagerProofs | `Spec => []RedirectBacked` |
| `ClaimsStayBacked` | SyncManagerProofs | `Spec => []IInv` |
| `JobsAreExclusive` | SyncManagerProofs | `Spec => []JobsExclusive` |
| `ImplementsTheMirror` | SyncManagerProofs | `Spec => ImplementsMirror` |
| `SavedStaysSettled` | CronProofs | `Spec => [](Api = {} => SavedSettled)` |
| `StaysAgreed` | CronProofs | `Spec => [](Api = {} => Agreement)` |
| `IndexStaysInStep` | CronProofs | `Spec => [](Api = {} => IndexAgrees)` |
| `NothingDownloadedTwice` | CronProofs | `Spec => DownloadedOnce` if `Api = {}` |
| `AllViewsAgree` | CronProofs | `Spec => [](Api = {} => ViewsAgree)` |
| `NothingEmptyIsUploaded` | CleanerProofs | `Spec => []UploadsSomething` |
| `PlainStaysWhole` | CleanerProofs | `Spec => []PlainIsKept` |
| `ObjectsLookLikeGzip` | CleanerProofs | `Spec => [](Window >= 5 => LooksLikeGzip)` |
| `OneChunkKeepsLineEnd` | CleanerProofs | `Spec => [](Window >= 5 => KeepsLineEnd)`: a deviation from `uploader.go:15` |
| `IndexStaysFresh` | DataSourceProofs | `Spec => []FreshInv` |
| `WindowsAreBounded` | RateLimitProofs | `Spec => []LimitInv` |
| `IsTheLimiter` | RateLimitProofs | `Spec => ImplementsLimiter` |
| `ListsAgree` | LruProofs | `Spec => []LruInv` |
| `IsRecency` | LruProofs | `Spec => ImplementsRecency` |
| `CopiesKeepTheirLife` | MetaCacheProofs | `Spec => []CacheInv` |
| `NoAnswerIsOlder` | MetaCacheProofs | `Spec => []AnswersAreRecent` |
| `CachesNeverGoBack` | MetaCacheProofs | `Spec => CachesMoveForward` |
| `PageIsWindow` | ListingProofs | for which arguments a page is the slice that its number names |
| `SearchIsWindow` | ListingProofs | the same of the search |
| `NewestVersionsGoFirst` | ListingProofs | `ListingSpec => []NewestFirst` |
| `LatestTagHasPriority` | ListingProofs | `ListingSpec => []LatestTagFirst` |
| `BatchesAreInOrder` | ListingProofs | `ListingSpec => []BatchIsPrefix` |
| `ReadersMissLittle` | ListingProofs | `ListingSpec => []SkipsAreBounded` if an `int` holds `MaxRead` and one page more |

* `RedirectBacked` is not inductive: a success may be recorded from a map that a load has read,
  from a worker past its upload, or from a size that Reconcile saw some steps ago. `IInv` says of each of
  these carriers that it is about a stored object. One lemma per action shows that the
  action preserves `IInv`; run `overlap` checked the same formula first.
* `ImplementsTheMirror` maps `catalog`, the stored and the redirected packages to Mirror. It needs
  `IInv` and `Listed`: whatever a goroutine may still mirror was once published.
* `NothingEmptyIsUploaded` bounds the position of the magic and the part that is kept by the
  length of the file, and rests on the existence of a least element of a set of positions.
* `JobsAreExclusive` says "at most one" without counting: two goroutines at work on the same guarded
  kind are one, and a kind is registered exactly when a goroutine is at work on it (`Registry`).
* `SavedStaysSettled` needs that the goroutine of `main` is the only one (`Api = {}`; run `stuck` shows
  what else happens). Then a package is `syncing` in the map only while a worker is at it, workers are
  only there while the pull waits for them, and saves come after that (`Settled`).
* `IndexAgrees` and `DownloadedOnce` say something of the goroutine at rest and at the start of a
  download only; `Agreement` says what holds in between, until the first call that goes wrong. Its
  parts follow the phases of the goroutine. `WorkersAgree` and `MapsAgree` follow a package from the plan
  to the record, and a status from the map through save and load back to the map. `RowsAgree` is the
  invariant of the last loop of Reconcile, which puts the row of every object right, after which the
  workers keep it so. `FirstLife` is for the time before the first crash: what waits for its download
  has no object. `SizesAgree` carries the sizes up to the second crash; `AllPlanned` needs a batch that
  leaves nothing waiting. One lemma for each phase takes them through its actions,
  from `WorkerKeepsAgreement` to `EnvironmentKeepsAgreement`; `NextKeepsAgreement` collects them.
* `AllViewsAgree` derives the views from `IndexAgrees`, `IInv` and one more invariant: a row or a state
  has a size only if its object was stored (`OnlyStoredSized`), so that sums over all rows are sums
  over the objects. For that, sums over finite sets are shown to be independent of the order of
  summation. The totals are claimed only where no scoped package has a second row (`RowKeys = Pkgs`):
  Reconcile gives it one (run `phantom`), which the totals count. The rest is about all packages.
* The sort and the loops of the planner are treated alike: under a strict total order the places of
  the entries are a bijection (`ArrangedFacts`), hence nothing is lost, doubled or out of order. `Before` is a
  weak order of entries which the position in the index makes total. The loop over `latestMap`
  has the invariant `Tops`: what is held of a name is the version of an entry seen so far that no
  other exceeds. That needs `Newer` to be a strict order (`NewerIsOrder`), which does not need to tell all
  versions apart. For versions without a pre-release it does, and then agrees with `Later`
  (`LatestIsNewest`), from which `LatestTagFirst` follows: the entry with priority for a name exceeds
  the tag or is the tag, and in the first case it has no row, because the tag is the latest of the rows.
* `ReadersMissLittle`: `SkipsAreBounded` speaks of the end of a reading. `Reading` bounds, at every page, the
  entries missed among those whose place the pages so far should have covered. A map between two
  indexes that keeps the order brings no entry nearer to the front (`MovesBack`), which is why an insertion
  adds none; a withdrawal moves those after it by one place (`OneLess`), and only one of them
  onto a page that was read. The assumption `PagesFitInt` says that the length of the index and a page
  more are an `int`, which no index that fits into memory violates for a page of usual size.
* The theorems of the cleaner follow a file from its first byte to its last. The first magic of a
  framed file is that of the payload, because what comes before it is shorter than the window and holds none
  (`FirstMagic`); that is why the window must have five bytes. A terminator cannot hold the magic, so cutting
  it off leaves the beginning alone. `ThreeParts` names what is between the size line and the
  terminator.
* `FreshInv` strengthens `IndexIsFresh` with what may still be written: the key and every fetched
  index are at least `floor`, and `floor` only grows.
* `LimitInv` counts, for each address, the requests of the window and the tokens left: together
  they never exceed a burst and the inflow. A bucket that is dropped is full, because it was last
  used no later than `MaxStall` after it was last seen and the time-out is longer by a second. The lemmas
  `TickFills`, `LookupKeepsLevels` and `AllowTakes` say how each step changes the tokens, and serve
  both the invariant and the refinement.

* `ListsAgree`: `Linked` says of each pointer which node it must name: the one used last before, or
  first after, its own. This determines the list without naming positions, so no induction over
  its length is needed. `LruInv` is inductive as it stands; `RemoveLinked`, `AddLinked` and
  `MoveLinked` say what the three helpers do to a linked list. That the tail is the node used longest ago
  is then the guard that Recency needs for its eviction.
* `NoAnswerIsOlder` rests on the expiry of every entry lying at most `MaxStall + Ttl` after the moment
  its metadata was read; `CachesNeverGoBack` on the flight admitting one rebuild, which reads
  after all that the caches hold was read. Both are parts of `CacheInv`.
* `PageIsWindow` and `SearchIsWindow` need that the end of the window is an `int`; larger arguments
  wrap around, and a negative size of the search makes a slice that Go refuses.

Every safety property of the runs is stated by a theorem. Only model-checked: all liveness (`Converges`,
`RebootHeals`, `GetReturns`, `RequestsReturn`), which is out of the prover's reach. The four runs that are expected to fail are refutations by TLC. Every
definition is free of `RECURSIVE`.

## 5. Plan

In this order:

1. Extensions of the core: the saved state in S3, a call that never returns, a semaphore of
   size 0, packages that share a key.
2. Statistics of each package (`status.go:171`) and the total of the data source that survives an
   attempt (`source.go:86`).
3. `RegistryFallback` over MetaCache and the core: how long a link to the mirror may lag behind
   the bucket.
4. Proofs: that the planner of the core, which ranks versions by a number, is what Planner computes
   of an index; what the totals are when scoped packages have second rows.

Not modelled: the part of the UI that shows what the API answers, and the deployment scripts, which
hold no state of the mirror; logging and the proxy, which are I/O; the configuration, whose values
are the constants; the tables `packages`, `dist_tags` and `logs`, which nothing that is modelled
reads; URLs and the rewriting of tarball links, which are formatting.

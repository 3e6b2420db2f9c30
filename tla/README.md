# Verification of the Ollama proxy server

The program (`src/app`) is a FastAPI server that stands between API clients and
a set of Ollama and vLLM backends: it authenticates and limits requests, picks a
backend, fails over when one is down, translates for vLLM, and keeps a registry
of servers, keys and users in SQLite with an admin interface over it. gunicorn
runs several workers; each is one asyncio event loop, so a handler is
interrupted only where it awaits. Workers share the database and Redis and
nothing else: the health cache, the round-robin index and the settings exist
once per worker.

This directory holds TLA+ modules of that program, TLC configurations that check
them on small instances, and proofs, checked by TLAPS, of the main theorems for
all values of the constants. `PROJECT.json` links every definition to the lines
it translates, every property to the hazard it is about, and lists for each
checked property a mutation of the code that breaks it.

    tlc -workers 2 -config MCReverseProxy.cfg MCReverseProxy   # one run
    tlapm ReverseProxyProofs.tla                               # one proof module

## 1. Inventory

| Component (`src/app/`) | State | Operations | Modelled in |
|---|---|---|---|
| Reverse proxy, `api/v1/routes/proxy.py` | per worker: `_server_health_cache`, `backend_server_index`; per request: list of candidates, indices | `get_active_servers`, `proxy_ollama`, `_reverse_proxy`, `_send_backend_request`, `_proxy_to_vllm` | `ReverseProxy`, `Failover` |
| Retry loop, `core/retry.py` | per call: attempt, elapsed time, errors | `retry_with_backoff` | `Retry`, `RetryLoop` |
| API keys and limits, `crud/apikey_crud.py`, `api/v1/dependencies.py` | rows of `api_keys` and `users`; counters in Redis | create, toggle, revoke, delete; `get_valid_api_key`, `rate_limiter` | `Access` |
| Server registry and model catalog, `crud/server_crud.py`, `main.py` | rows of `ollama_servers` | create, edit, delete; `fetch_and_update_models`, the startup and periodic sweeps | `CatalogRefresh`; as an environment in `ReverseProxy` |
| Catalog service, `services/catalog_service.py`, `models/catalog.py` | models in memory per process, one state file of all | syncs of local and cloud models, persist, load | `CatalogService` |
| Token tracking, `proxy.py`, `crud/log_crud.py` | rows of `usage_logs`, connections of the HTTP client | insert before the request or after it, updates by tasks when the reply ends | `UsageTracking` |
| Startup and settings, `main.py`, `crud/settings_crud.py`, `database/migrations.py` | schema, initial admin, settings row, per-worker copy of it, uploaded files | lifespan of each worker, the settings form, gunicorn's halt and restart | `Startup`, `Settings` |
| vLLM translation, `core/vllm_translator.py` | none | reshapes JSON | its outcomes only (`Payloads`) |
| Admin interface, `api/v1/routes/admin.py` | the rows above; sessions | forms and pages | handlers that change rows are in `Access`, `CatalogRefresh` and `Settings` |
| Auto-routing, `crud/model_metadata_crud.py` | rows of `model_metadata` | filter and sort | its outcome only (`Kinds`) |
| Statistics, `crud/log_crud.py` | none | read-only aggregates | no |
| Playground, benchmarks | none | stream a reply to the admin | no |
| Middleware, encryption, logging, token file | none that changes | headers, formats | no |
| Services nothing imports: approval gateway, idempotency manager, batcher, context managers, verification engine ... | in-memory tables | library classes | last in the plan |
| `setup_wizard.py`, `reset_admin_password.py`, gunicorn configuration | - | scripts | no |

**How they interact.** A request passes `get_valid_api_key` (database),
`rate_limiter` (Redis) and `get_active_servers` (database: a snapshot of the
active rows). `proxy_ollama` narrows the snapshot with `get_servers_with_model`,
which reads the lists the catalog refresh wrote, inserts a usage row, and calls
`_reverse_proxy`. That filters the list by the worker's health cache, advances
the worker's index and tries one server after another: a vLLM server through
`_proxy_to_vllm`, an Ollama server by one direct attempt and then a whole
`retry_with_backoff`. Every outcome writes the health cache. The admin's
handlers and the refresh sweep change rows at any time in between.

**What is hard here.** Every await is a place where other requests of the worker
write the same cache and index, and where administrators and sweeps change rows
that were already read. The failover loop removes servers from the list it
indexes while its range is fixed. The retry loop has a deadline, sleeps and
attempts that do not end at it. Database sessions keep rows as they loaded them
and write back the columns they changed. Handlers of broad exceptions catch what
was meant to pass. `PROJECT.json` lists each of these hazards at its line.

**What makes each component correct.**

- *Reverse proxy*: a request is told that all servers failed only when all its
  candidates failed; no server is tried after it was given up; the load on one
  server is bounded; unhealthy servers are a last resort and never a reason to
  refuse; rotation is fair; every request is answered.
- *Retry loop*: no attempt starts after the budget; lateness is bounded; it does
  not give up early; attempts are spaced exponentially.
- *Keys and limits*: a revoked key stays out; names are unique per user;
  a counter expires unless its request was cut short between two calls, and no
  window is extended.
- *Registry and catalog*: a row lists the models of the backend at its address,
  and none beside an error, unless it was edited or refreshed by two tasks at
  once; sweeps end.
- *Catalog service*: the state file is whole wherever a process dies, and no
  older than what the last sync that replaced it fetched, unless two persists
  overlap.
- *Token tracking*: a request counts once; server and tokens go to its own row
  (unless its id was a deleted row's), and counts the proxy has seen reach it in
  the end; connections go back to the pool, but for replies nobody reads.
- *Startup*: a worker serves only on a complete database, whatever workers start
  and die beside it, and in the end all serve; one initial administrator.
- *Settings*: on a new database a save is not lost to a migration; what a worker
  serves with was stored; fields left blank keep what the database has, unless
  another save came in between; an uploaded logo is removed only by a save that
  means to, which may then fail.

## 2. Modules

    Failover              what the proxy promises a client (abstract)
      ^ implemented by
    ReverseProxy          one worker: requests, health cache, index, registry
      + ReverseProxyHistory   adds the last routing decision
      MCReverseProxy, MCConcurrent        instances for TLC
      ReverseProxyProofs, RoundRobinProofs   theorems
    RetryLoop             a retry loop without a clock (abstract)
      ^ implemented by
    Retry                 retry_with_backoff with its clock
      RetryProofs                         theorems
    Access                keys, users, key check, rate limiter
      MCAccess                            instance for TLC
      AccessProofs                        theorems
    CatalogRefresh        rows of ollama_servers and the tasks refreshing them
      CatalogRefreshProofs                theorems
    UsageTracking         usage rows, token tracking streams, connections
      MCUsage                             instance for TLC
      UsageTrackingProofs                 theorems
    CatalogService        the catalog's caches and its state file
      CatalogServiceProofs                theorems
    Settings              the settings row, the workers' copies, the form
      ^ extended by
    Startup               lifespans of the workers over one database
      MCStartup                           instance for TLC
      StartupProofs                       theorems

### ReverseProxy

One action is the code between two awaits. A request slot runs `Arrive`
(`get_active_servers`; slots are reused, so runs of requests are unbounded),
`Lookup` (smart routing), `Route` (the head of `_reverse_proxy`, which has no
await and is atomic), and then, per server, `Answer`, `DirectFails`,
`RetryFails`, `RetryAgain`, `RetryGivesUp` for Ollama and `VllmReplies`,
`VllmHTTPException`, `VllmRaises` for vLLM. `TryNext` is the tail of the
failover loop with its arithmetic as written: `safeIndex`, the modulo by the
shrunken list, `current_index + server_attempt`, and the range fixed at the
start (`RangeOver`). `ExpireHealth` and `ChangeRegistry` are the environment.

- A list of servers is a set; its order is that of `get_servers` (`Rank`).
- The health cache is the set of servers with a fresh negative entry: its only
  reader treats no entry, an old entry and a positive one alike. Expiry (five
  seconds) may happen at any time.
- A listed model equals the requested one or not; which does not matter, since
  any comparison of two names raises (finding 1).
- The retry budget may end a retry loop after any attempt or sleep. This is
  `RetryLoop`'s freedom, which `Retry` is shown to have no more than.
- `sends` and `first` are history variables.

`Failover` is the contract: an accepted request has a set of servers that may
still serve it; servers leave one at a time, each because it failed; the request
is answered while the set is not empty, told that all failed when it is, and
ended otherwise only while a vLLM server is in the set. The refinement maps the
candidates to that set and the phases to its verdicts. An error of a vLLM server
ends the request although other servers are left (`_proxy_to_vllm` turns every
failure into an HTTPException, which is raised again): the contract allows it
by name (`Abort`), and the hazard at proxy.py:248 describes it.

### Retry and RetryLoop

`Retry` has a clock `now` that moves while an attempt or a sleep is under way.
One step of `AttemptFails` runs from the failure to the sleep or to the next
attempt. `RetryLoop` says only what `ReverseProxy` uses: one attempt at a time,
another only after a failure, at most `MaxRetries + 1`.

### Access

A handler of the admin is a task with the steps its awaits separate: the check
of the name and the insert of a key; the read and the write of a toggle; the
read and the UPDATE of a revocation; the read and the delete of a user. A toggle
writes the columns of the row it loaded that it changed. A request is checked
(`Authenticate`), counted (`Count`), its window started (`Expire`) and judged
(`Judge`); calls to Redis may fail (`RedisFails`): not done at all, or done with
the answer lost, in which case the request passes. The worker that runs a
request or a handler may end at any await (`WorkerEnds`, `HandlerEnds`; a
statement that the database refuses ends a handler as well). `late` is a history
variable: the request came after its key's revocation; `lost` another: the
counters whose request was cut short between INCR and EXPIRE. Such a counter has
no expiry, and as nobody else sets one it never gets it (`EndlessIffCutShort`
says which ways lead there, and that no other does).

### CatalogRefresh

A task is a sweep of all servers or an admin's refresh of one. `Load` is
`get_server_by_id`; a row its session already keeps is not renewed by the query,
which is what `held` is for: a sweep loads all rows at its start, a pull loads
its row minutes before it refreshes it, and a commit makes the session forget
them. `Save` ends the fetch with a list, an error or a blocked address, and
`Commit` writes the columns that differ from the loaded row (`ChangedColumn`)
or fails. A row that was deleted meanwhile makes the UPDATE raise, and the
handler that reads `server.name` raises again (`Abort`). `Create` may give a
deleted row's id out again, as SQLite does. A list is an address and a version.

`WrongRowsExplained` says which rows may be wrong, and by whose doing; that rows
edited or refreshed by two tasks at once are among them is the hazard of
server_crud.py:298, not a guarantee against it. In particular a success whose
session loaded no error does not clear the error another task wrote meanwhile,
although MODEL_MATRIX.md:739 says that it is explicitly cleared.

### UsageTracking

A request has a kind: its key, whether its endpoint tracks tokens, and the type
of its server (none for `/api/tags`). What is tracked has its row inserted
before it is sent, the rest by a task afterwards (`LogAfterwards`). The `mode`
of its reply says who reads it: `whole`, `stream` (an Ollama server's, open when
it is answered), `promise` (a vLLM server's, asked for when the client reads), or
`raw` (returned unread). `LogRequest` inserts the row before the request is sent, or fails;
`Reply...` and `PromiseStream` are the branches of `_reverse_proxy`, `Answer`
writes the server's id. `LastLine` and `FinishReason`, `UsageChunk` are the two
token tracking generators: the line with the counts may come with a chunk or
wait in the buffer for its newline, and a vLLM server may send the counts before
or with `finish_reason`, or after it; `UnreadChunk` is a chunk that cannot be
decoded, or a vLLM server's last line without its newline.
`EndStream` looks at the buffer once more; `BreakStream`, a client that leaves
or a backend that stops, does not. `DeleteUser` removes the user's rows, and SQLite gives their
ids out again (`NewId`); `again` marks a row with such an id. Two history
variables: `owed`, the requests whose client was sent counts, and `missed`,
those of them whose counts came where the proxy does not look.

Three facts the module shows beside its properties.

- A vLLM stream is finalised at `finish_reason` (proxy.py:575). With
  `include_usage`, which the translator asks for, the counts come in a chunk
  after that one: the client gets them, and they are never stored, although the
  docstring says "with token tracking" (proxy.py:479).
- Counts in a chunk that is cut inside a character are passed on and never
  stored, by either generator, and so are those in a last line of a vLLM stream
  without its newline: that generator never looks at what its buffer holds in
  the end.
- A response of an endpoint that is not tracked is returned without being read
  and never closed: its connection is gone, and as many such requests as the
  pool has connections stop the worker.

`TokensArrive` excepts the first two by name (`missed`), `ConnectionsReturned`
the third (mode `raw`): they are losses of the code (hazards at proxy.py:574,
875 and 297), which the properties tell from those that must not happen.

### CatalogService

Tasks of several processes interleave at every await. A file is a name and an
inode: `Open` truncates the inode of the temporary file when there is one,
`Dump` and `Close` write to the inode that was opened even when it has been
renamed meanwhile, `Replace` renames whatever the temporary file is by now,
`LookForTmp` and `Unlink` are the failure branch. `Restart` is the death of a
process and the load of the file by the next. `CloudModel.to_dict` reads fields
the class does not have, so a process with cloud models persists nothing more
(`Dump`). The routes of the catalog are shadowed by the proxy's catch-all,
`get_cloud_models` has no caller, and the instance is cached per process
(catalog_routes.py:16): the module models the service as its code is written,
for the day its routes are reached.

### Settings and Startup

`Settings` holds one action per step of `admin_settings_post`: the base of a
save is the copy of the worker that handles it (`Base`), files are deleted and
written (`WriteFiles`), the row is committed (`Commit`), the worker's own copy
is replaced (`Publish`); `Fail` and `Refuse` are the early returns. Settings are
a record: who saved them (`by`), the logo (a file or a URL), the private key
(uploaded, or a path typed in, which is stored whether or not there is such a
file), the password of Redis, and whether the keys of the newest version are
there (`retry`).

`Startup` runs every worker through its lifespan, one action per statement of
the database: the columns that migrations find missing and add (`CheckColumn`,
`AlterTable`), the settings row rewritten with new keys (`ReadSettings`,
`RewriteSettings`), missing indexes, `create_all` table by table with the
indexes of a table after it (`CreateTable`, `CreateIndex`), the settings row,
the administrator, and the refresh of all servers before the worker serves
(`Sweep`: one step here, as it changes nothing else of this module; its own
steps are in `CatalogRefresh`). `Raise` ends a lifespan that finds something
already done by another, or whose sweep met the deletion of a server
(`DeleteServer`, through a worker that serves: the UPDATE of the deleted row
raises, and so does the handler that reads the row's name, server_crud.py:311);
gunicorn then halts (`Stop`) and run.sh's service manager starts it again
(`Restart`). `Crash` kills a worker between any two statements. `disturbed` says
in whose sweep a server was deleted. Which of them was being fetched is left
open, so any deletion during a sweep may or may not make it raise. The database
starts empty or as an older version left it.

What the modules show of the documented behaviour, without a run of its own: the
settings form's "Leave blank to keep current" (settings.html:152) keeps what the
handling worker's copy says, which brings back older settings when another
worker saved meanwhile (`KeepsCurrent` says that it takes such a save); "take effect immediately" (MODEL_MATRIX.md:1072, 1216)
holds in the handling worker only; a save without an upload drops an uploaded
logo from the row; the file of a removed key stays on disk. Two administrators
are reachable on a new database when a worker dies between `CREATE TABLE users`
and its index, and with three workers without a crash.

## 3. Runs

| Run | What it checks | Instance |
|---|---|---|
| `failover` | `TypeOK`, `ExhaustedMeansAllTried`, `SendsBounded`, `NeverReturns`, `UnhealthyLastResort`, `FailoverContract` | 3 servers in any state (one vLLM between two Ollama in list order), the cloud fallback, 1 request slot, 1 retry, 1 registry change |
| `concurrent` | `ExhaustedMeansAllTried`, `RoundRobin`, `AllAnswered` | 2 servers in use, 2 request slots, no registry change |
| `retry` | `TypeOK`, `StartsWithinBudget`, `OverrunBounded`, `GivesUpOnlyWhenSpent`, `ExponentialSpacing`, `LoopContract` | 3 retries, budgets 8 and 12 (cold start), delays 1, 2, 4, attempts up to 4, timers up to 1 late |
| `access` | `TypeOK`, `RevokedStaysOut`, `NamesUnique`, `EndlessIffCutShort`, `WindowNotExtended` | 2 keys of one name and user, 2 handlers, 2 requests, limit 1, window 2, calls and workers lost at any step |
| `refresh` | `TypeOK`, `WrongRowsExplained`, `EverySweepEnds` | 2 servers, 2 addresses, a sweep and an admin's refresh, 2 edits |
| `usage` | `TypeOK`, `OwnRow`, `CountedOnce`, `ConnectionsReturned`, `TokensArrive` | 2 requests of all five kinds, 2 keys, 1 connection, 1 crash |
| `catalog` | `TypeOK`, `TornOnlyByOverlap`, `ReturnedIsDurable` | 2 processes, 2 tasks, 2 restarts, 1 disk error |
| `startup` | `TypeOK`, `ServingMeansReady`, `OneAdmin`, `LoneStartSucceeds`, `SavesLostOnlyOnUpgrade`, `LogoOnDisk`, `CopyWasSaved`, `KeepsCurrent`, `EveryWorkerServes` | 2 workers, 2 saves, 3 tables, 1 crash or 1 deletion of a server, empty and old database |
| `smart_routing` | finds `SmartRoutingServes` violated | as `failover` |
| `hard_ceiling` | finds `HardCeiling` violated | as `retry` |
| `rate_limit` | finds `RateLimitEnforced` violated | as `access` |
| `revocation` | finds `RevokedIsInactive` violated | as `access` |

**Why the bounds are enough to meet the hard cases.** Three candidates are the
fewest for which the index arithmetic of the failover loop wraps, skips and
shrinks twice; a server of each type has a place between the others. One slot is
enough in `failover` because requests meet only in the health cache and the
index: the run starts from every registry, slots are reused, and entries expire
at any moment, so a request meets caches and indices left by earlier requests
with other candidates; `concurrent` adds the interleaving itself. One
registry change may fall at any step of a request. In `retry` the budget is
reached in a sleep, in an attempt, and exactly. In `access` two handlers are
what a race needs, `MaxHits` caps the counter. In `refresh` two edits are what
handing out an id again takes (a deletion and a creation), and two servers what a
sweep needs to go on, or not, after the first. In `usage` two requests are what it takes to
write to the wrong row or to wait for a connection, and one connection is a full
pool. In `catalog` two tasks overlap in one process or in two, a restart falls
into each of them, and the error of the disk covers the failure branch. In
`startup` the three tables are one with an index no migration looks after
(users), one with two added columns and a listed index (usage_logs), and the
settings; two workers race for each of them, a crash leaves any of them half
done, and one deletion is what a sweep needs to fail. Bounds are constants
(`MaxChanges`, `MaxCall`, `MaxLate`, `MaxHits`, `MaxEdits`, `MaxTasks`,
`MaxSaves`, `MaxCrashes`, `MaxMishaps`, `MaxFaults`, `MaxConnections`), named in the guards
they bound. Symmetry is used in `access`, whose properties hold no liveness and
whose definitions treat handlers, requests and keys alike. `retry`, `usage`,
`catalog` and `startup` do not check for deadlock: a loop that returned, and a
run whose requests, tasks or saves are used up, has no step.

**Fairness.** `AllAnswered` assumes that a request that can proceed does
(`WF_vars(Proceed(r))`): the HTTP client has connect and read timeouts, the
retry loop a budget, SQLite a busy timeout, and the event loop runs every ready
task. Nothing is assumed of clients, administrators, servers (which may fail for
ever) or the expiry of the health cache. `EverySweepEnds` assumes the same
of the sweeps only (`WF_vars(Visit(t))`). `TokensArrive` assumes that a request
and the tasks it starts go on: replies are finite, reading one has a timeout of
600 seconds and waiting for a connection one of 60. `EveryWorkerServes` assumes
that a worker's start goes on, that gunicorn halts when one failed to boot, and
that the service manager restarts it (`Restart=on-failure`, run.sh:106); nothing
is assumed of crashes and of deletions during a start, which are finitely many. `Access`, `CatalogService`,
`Retry` and `Settings` alone have no fairness and no liveness property.

## 4. Findings

1. `SmartRoutingServes` (server_crud.py:513). `get_servers_with_model` calls
   `_model_matches`, which no module defines. Once an active server lists a
   model, a request that names a model ends as a 500. MODEL_MATRIX.md:975
   promises the servers that host it.
2. `HardCeiling` (retry.py:91). The budget is compared between attempts only; an
   attempt that starts in time may end late. MODEL_MATRIX.md:1066 calls the
   budget a hard ceiling. `OverrunBounded` gives the bound that does hold.
3. `RateLimitEnforced` (dependencies.py:179). The 429 is raised inside the `try`
   whose handler takes it for a failure of Redis: no request is ever limited.
   The login limiter has the same shape (dependencies.py:61).
4. `RevokedIsInactive` (apikey_crud.py:67). A toggle that read its key before a
   revocation activates the revoked key. The key check looks at `is_revoked`
   first, so the key is still refused (`RevokedStaysOut` holds).

## 5. Proofs

TLAPS proves the following for every value of the constants that satisfies the
named assumptions. TLC evaluates those in the runs.

**ReverseProxyProofs** (assumptions: `ServersAssumption`, finitely many servers,
the fallback is not one of them; `RankAssumption`, the list order is strict;
`BoundAssumption`; `InputAssumption`). `TypeOK` is inductive by itself and says
among other things that the shared index stays within the number of servers
whichever request reduced it last (`TypeCorrect`). The safety properties are not
inductive: that the loop ends only when all servers were tried needs to know how
the position in the range, the size of the shrunken list and the attempts go
together. The inductive invariant `Inv` is `TypeOK` and, for each request:
`NotRouted` (before routing nothing is sent), `FailingOver` (while servers are
tried: the list is a non-empty subset of the first candidates, its size plus the
position is the size of those, the chosen server is in it, exactly the servers
that left it were sent something, beside the chosen one), `Attempts` (the sends
to the chosen server in each phase), `OnVllm`, `Bounded`, and `Told` (what a
verdict implies). The step lemmas split `Next` by action; `Frame` says that an
action leaves the other requests alone, `TryNextInv` handles the tail of the
loop, and `LoopEnds` shows that the range is over exactly when the list is
empty. From `Inv` follow `AllCandidatesTried`, `AttemptsBounded`, `NoReturn`,
`HealthyFirst` and `Refinement`: the worker implements `Failover`.
`AlwaysAServer` says what the arithmetic of the indices is for: each of them
picks exactly one server of the list it is applied to, so that neither the
routing nor the failover can raise an IndexError or divide by zero. It needs
that a request on its way has targets (`TargetsInv`) and that the positions of
a finite list are 0 to its length less one (`PositionsFill`).

**RoundRobinProofs** (the same assumptions). `TurnInv`: after a routing the index
points behind the server it chose (`PointsBehind`), and only a routing moves it;
from it follows `RoundRobin`.

**RetryProofs** (assumptions `ConfigAssumption`, the constants are naturals with
positive budgets, and `PowerAssumption`, which states that powers of two are
natural numbers, because exponentiation is beyond the prover's arithmetic). The
inductive invariant says where the clock may be: `CallingInv` (an attempt
started within the budget and at most `MaxCall` ago), `SleepingInv` (a sleep is
due within the budget and the clock at most `MaxLate` past it), `ReturnedInv`
(what each result implies). From it follow all properties of the run `retry`,
and that the loop implements `RetryLoop`. `AttemptsAreTold` says when the number
of attempts a result tells is not that of the attempts made: it is one more if
the budget was spent in a sleep, because the loop's variable has moved on by
then (retry.py:142).

**AccessProofs** (`OwnerAssumption`, `LimitAssumption`). `NamesUnique` is
inductive by the unique index alone. `RevokedStaysOut` needs `RevocationInv`: a
key that is being created is not used yet, and a request that came late finds
its key's row revoked or gone until it is refused; a toggle never writes that
column. `EndlessCounters` needs `CounterInv`: a counter without an expiry is at
1 and has exactly one request that is about to start its window, or it was cut
short, and then no request is about to start one (`OneStarts`): the next INCR
finds 2. `WindowNotExtended` is an action property proved from the same
invariant.

**CatalogRefreshProofs** (`EditsAssumption`, `ServersAssumption`).
`WrongRowsExplained` is inductive together with the types (`RegistryOK`, and
`TasksOK`, which adds that the tasks' variables are functions): whoever touches a row that a task has loaded makes it
doubtful, so that what `Written` makes of a row that is not doubtful is what it
would make of the row the task loaded. `Sound` is shown column by column. The
theorems about termination assume finitely many rows (`ServersAssumption`).

**UsageTrackingProofs** (`KindsAssumption`, `BoundsAssumption`). `CountInv` adds to `CountedOnce`
where a request may still insert its row: one that has none (`Unlogged`), and no
two steps of it (`Inserting`). `ConnInv` says which stage and mode hold a
connection (`Held`). `RowsAreOwn` (`OwnInv`): whoever knows an id got it when it
was given out, and a row whose id was given out before says so; such a row is
excepted. `TypeCorrect` bounds
the ids by counting: those given out are no more than the requests that have had
their insertion. `NewIdIsNew` (an id above the greatest in use is new) rests on
`LeastElement`, which comes from the library's theorem that the order of the
naturals is well-founded. `TokensAreSomewhere` (`OwedInv`): tokens that are owed
and not missed are in the row, with a task that knows the row, or in the buffer of a stream
that is still read; `TokensMoveOn`: each step either leaves them or brings them
further along that way.

**CatalogServiceProofs** (`BoundsAssumption`, for the types only). The invariant is
`Shape`, and `Clean` as long as no two tasks have met: there is at most one
writer, its inode is that of the temporary file or unlinked, the JSON file is
another one and whole. `WholeAlone` is `TornOnlyByOverlap` for any number of
processes, tasks, crashes and disk errors.
`StoredSurvives` (`DurableInv`) is `ReturnedIsDurable`: a task persists no less
than it fetched, because the catalog of its process only grows until the process
dies, and the task dies with it. It speaks of syncs that replaced the file: one
whose persist failed, or with cloud models in memory, returns normally and has
stored nothing.
`TypeCorrect` bounds the versions by counting the tasks that have fetched
(`Synced`): each of them began one version.

**StartupProofs** (`SavesAssumption`, `FormsAssumption`, `TablesAssumption`, and
`WorkersAssumption`: gunicorn has finitely many workers and at least one).
`ReadyToServe` rests on `Progress`: a worker that has passed a step of its
lifespan finds done what the step does, and `Grows`, that no step of any worker
removes a table, a column, an index, an administrator or the settings row.
`CopyStored` (`StoredInv`) follows settings from the row to the copies and
forms; `BlankKeeps` (`KeepInv`), which is `KeepsCurrent`, shows that any two
rows of one save, in the database, in a copy or under a form, agree on the key
and on the password, because a migration adds only what they lack; `NoSaveLost` (`FreshInv`) says that
on a new database no migration reads a row it would write back;
`TwoAdminsExplained` (`AdminInv`) that the index, once there, keeps the second
administrator out; `LogoStaysOnDisk` (`LogoInv`) that a row which names an
uploaded logo is from the save that uploaded it, so that no other save brings a
deleted file back (the save that deleted it may fail, and the row then names a
file that is gone). `LoneStart` (`AloneInv`): a sweep raises only in a worker
that was disturbed, and elsewhere two workers that are starting have
met, so whatever a lone one has found missing is still missing when it creates
it, and what it has not created itself is consistent (`Found`: no index without
its table, no administrator without the users table, no save before the row).
`TypeCorrect` adds the types: `SettingsTyped` (there is never a second row),
`SchemaTyped` (a worker alters only a table that is there), and `AdminsTyped`:
once there is an administrator, those there are and the workers about to add one
are together no more than the workers.
All hold for any number of workers, tables, crashes and deletions.

**Termination.** TLC checks that requests are answered, sweeps end and workers
come to serve, under fairness. What of this is safety is proved for every size:
a natural number that bounds the steps still to come (`StepsLeft`), which every
step of the request, the sweep or the start decreases and which nothing else
increases, whatever is added to the registry or to the schema meanwhile.

| module | bound | decreases |
|---|---|---|
| `ReverseProxyProofs` | `WorkIsBounded`: (servers + 1) * (2 * max_retries + 2) + 2 | `WorkDoesShrink` |
| `CatalogRefreshProofs` | `SweepsAreBounded`: 3 * servers + 3 | `SweepsDoShrink` |
| `StartupProofs` | `StartsAreBounded`: tables * (2 * columns + 1), and twice the tables, and 10 | `StartsDoShrink` |

`StartsNeverStick` adds that a start always has a next step: the loops of the
migrations and of `create_all` never stand before an empty list, and
`migrate_app_settings_data` never before no row. The restarts end as well:
`HaltsMakeProgress` takes the database as it is when gunicorn runs and no worker
starts yet, and shows that gunicorn halts after that only on a database that has
gained a table, a column or the settings row since, or after the deletion of a
server. What can be gained is finite, and `OnlyDeletionsHalt` says that nothing
else halts gunicorn once all of it is there; an administrator who deletes a
server during each sweep could keep it from ever starting. Both rest on `SinceInv`: what a worker is about to create was not there
when the first of them began, so if it is found there, it is a gain. That the
workers then come to serve (`EveryWorkerServes`) is left to TLC. `TokensMoveOn`
is the counterpart for `TokensArrive`: owed tokens pass three places in order.

**Model-checked only.** `AllAnswered`, `EverySweepEnds`, `TokensArrive` and
`EveryWorkerServes`: liveness under fairness is beyond the prover. Every other
property of the passing runs is a theorem. Least elements and cardinalities are
within reach, because the library states well-foundedness of the naturals and
the facts about finite sets without a parameter; what a recursive definition
computes would not be, and no module has one.

## 6. What is left out

- The content of requests and replies, headers, the translation for vLLM: only
  whether a payload is accepted, rejected or breaks the translation.
- `/tags` federation and `auto` model selection read rows and build an answer or
  a name; the name is an input.
- A client that disconnects while `_reverse_proxy` waits for headers: FastAPI
  cancels nothing of it. A stream cut short is in `UsageTracking`.
- `update_model_metrics` of the catalog service: memory only, and nothing calls
  it. The Redis connection at startup, whose failure is caught.
- The connections of the cold start check (`/api/ps`), which are closed at once.
- The IP filter, CSRF tokens and the login limiter: comparisons of strings, and
  the shape of the rate limiter.
- Components marked "no" in the inventory: no state of their own.
- Statements the database refuses: in `ReverseProxy` they end a request with a
  500 before or after the modelled state changes, in `Access` they are
  `HandlerEnds` and `WorkerEnds`, and in `Startup` they are left out (a locked
  database makes a start fail, and the restart after it is the same).

## 7. Plan

In order of weight:

1. *Proofs*: an abstract store of settings that `Settings` implements.
2. *Services*: approval gateway, idempotency manager, batcher. Nothing imports
   them; their properties would be those of a library.

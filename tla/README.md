# gourl: TLA+ models and proofs

gourl is a short-link service: one Go process serves redirects and an
administration API, keeps links in SQLite, buffers clicks in Redis, keeps its
settings in a YAML file, and shares database, Redis and file with a command
line tool. Its administration console is a React application, which also runs in
an Android shell. This directory holds models of that code, the TLC configurations
that check them, and TLAPS proofs about them.

    tlc -workers 2 -config ClickPipeline.cfg MCClickPipeline
    tlc -workers 2 -config LinkStore.cfg MCLinkStore
    tlc -workers 2 -config SettingsPage.cfg MCSettingsPage
    tlc -workers 2 -config Console.cfg MCConsole
    tlc -workers 2 -config BatchRetry.cfg MCBatchDialog
    tlapm ClickPipelineProofs.tla          and LinkStoreProofs, SettingsPageProofs,
                                           LinksPageProofs, SignInProofs,
                                           LogsPageProofs, ConsoleProofs, Sums

## The system

| Component | State | Operations | Met by |
|---|---|---|---|
| Click counter (`internal/counter/counter.go`) | Redis keys `counter:<code>` and `counter:<code>:<date>` | `Incr`, `AddBack`, `FlushAll` | redirects, flusher, CLI |
| Flusher (`internal/counter/flush.go`, `internal/store/counts.go`) | values taken from Redis and not yet committed | `FlushOnce` every 30 s | Redis, store |
| Redirects (`internal/api/redirect.go`) | one request each | look up, count, 302 | store, counter, config |
| Link store (`internal/store/store.go`) | tables `links`, `daily_clicks` | create, read, update, rename, delete, sweep expired, list | handlers, flusher, CLI |
| Link cache (`internal/store/cache.go`) | code -> (row, deadline 60 s) | get, set, del, clear, inside the store's methods | store |
| Backups (`internal/store/backups.go`) | table `backups` | snapshot before an edit, clear | edit handler |
| Link handlers (`internal/api/links.go`, `batch.go`, `bulk.go`) | one request each | validation, then store calls | store, config, metadata queue |
| Metadata queue (`internal/api/metaqueue.go`) | channel of jobs, four workers | enqueue, fetch, `UpdateMeta` | handlers, fetcher, store |
| Configuration (`internal/config/config.go`, `internal/api/config.go`) | struct in memory, YAML file | `Get`, `Update`, `Reload` on SIGHUP | handlers, CLI, `main` |
| Administrator (`internal/api/admin.go`) | password hash and secret in the configuration, session cookies | setup, login, change password | configuration, rate limit |
| Limits (`internal/api/ratelimit.go`) | failures per address, shared link budget | `locked`, `recordFailure`, `clear`, `allowLink` | login, redirects |
| API tokens (`internal/store/tokens.go`) | table `api_tokens` | create, look up, revoke, hash migration on start | authentication |
| Migrations (`internal/store/store.go`) | `schema_version` | one transaction per version at open | server, CLI |
| Database console (`internal/api/dbconsole.go`) | none | split, classify and run SQL | store, cache |
| Logging (`internal/logx`) | log file, a channel per subscriber, level | hand out and write a line, read history, subscribe, set level | everything |
| Short codes (`internal/shortcode`) | none | `Validate`, `Random`, `IsReserved` | handlers |
| Command line (`internal/cli`) | none of its own | edits the same file, database and Redis from another process | configuration, store, counter |
| Settings page (`frontend/src/pages/Settings.tsx`) | form, cached configuration, one save under way and one put off | type, blur, flip, upload an icon | configuration |
| Links page (`pages/Links.tsx`, `components/LinkFormDialog.tsx`, `ImportDialog.tsx`) | query cache, rows, ticked codes, dialogs, mutations | search, turn pages, tick, create, edit, delete, import | link handlers |
| Batch dialog (`components/BatchCreateDialog.tsx`, `lib/batch.ts`) | text, checked lines, failed lines, one submission | edit, check, create, retry | links page, batch handler |
| Logs page (`pages/Logs.tsx`, `logStream` in `lib/api.ts`) | lines, offset, requests, stream, badge | open, load more, reconnect | logging |
| Sign-in pages (`pages/Login.tsx`, `Setup.tsx`, `ChangePassword.tsx`) | page, what the router knows, cookie, a form | set up, log in, change, log out | administrator |
| Router and connection (`App.tsx`, `pages/Connect.tsx`, `ConnectionCard` in `Settings.tsx`) | route, stored server, probe, status dot | connect, check, disconnect, deep links | all pages |
| Fetcher, rendering, static files, export, drawing, Android bridge | none that changes, or one user's view | | |

Behaviour that is hard to test: Redis pipelines whose commands interleave with
those of other connections; a take and a commit in two databases; a cache
filled after the row it holds was rewritten; edits made of several statements;
fetch results applied out of order; settings copied, changed and saved by two
writers; a process that dies between any two of these steps. In the console:
answers that arrive after the state they speak of is gone, closures that keep an
old form, a page that is left while its request runs, timers that overlap with
clicks, a stream that breaks at any point. `PROJECT.json`
lists each at its line, with the properties that cover it.

What makes each part correct:

- clicks: every increment that Redis executed is in one place (a command that the
  client sends again after a lost reply does count its click twice); none is lost
  without a Redis fault, a reset or a crash; rows show what was processed for their
  code; all is flushed in the end;
- links: at most one live row per code; a read returns a row that was current
  during the read or, from the cache, within its lifetime; an edit changes one
  link (one with a new code in two commits: others may meet it between them);
- metadata: a fetched title never replaces a manual one, nor another link's;
- configuration: memory and file agree when nothing is running, unless updates met;
  what the browser never sees is not overwritten by what it sends;
- authentication: a changed password ends older sessions, the lock-out bounds
  failures, nobody is stuck on a page the router should not show;
- settings page: an answer never replaces what is being edited; a page at rest
  shows what the server has; a save that was put off is sent;
- links page: rows catch up with every edit; nothing is deleted that was not seen;
- batch dialog: failed lines are the failed ones, and a retry sends those;
- logs page: no line is missing in between but for known reasons; the badge is right;
  the stream returns;
- connection: a server is stored once it is proved, and its status is the true one;
- migrations: every version is applied once, in order;
- logging: a slow subscriber blocks nobody and loses only its own lines.

## Modules

`ClickPipeline` models the life of a click.

- State. `buf` is Redis; `live`, `created`, `clicks`, `daily` are the parts of
  `links` and `daily_clicks` that counts meet; `visitor` is each redirect
  between its lookup and its second `INCR`; `flush`, `todo`, `held`,
  `nilReply` are the locals of `FlushOnce` and `getAndResetMany`. The other
  variables are history that no action reads, and three counters that bound
  the faults.
- Actions. `Lookup`, `IncrTotal`, `IncrDaily` are `redirect` and `Incr`;
  `Scan`, `TakeKey`, `TakeDone`, `TakeFindsNil`, `TakeBreaks`, `Apply`,
  `ApplyFails`, `ReturnKey`, `ReturnBreaks`, `ReturnDone` are `FlushOnce`,
  one Redis command or SQLite transaction at a time; `IncrUnheard` is a pipeline of
  two `INCR`s that ran, whose reply was lost, and which is sent again. A pipeline is not a
  transaction in Redis, so its commands interleave with those of every other
  connection. `CreateLink`, `DeleteLink`, `RenameLink` are what the store does
  to the row a code resolves to.
- Environment. The client library resends commands whose reply did not come
  (`IncrBreaks`, `IncrUnheard`, `ReturnBreaks`), so that a click or a value given back
  is counted twice; `counted` has both, and `Conservation` is about increments. It reports the first failed command of a pipeline
  as the pipeline's error, a missing key included (`TakeFindsNil`), and SCAN may
  list a key twice. Redis and SQLite survive a crash of the server; Redis runs
  with its append-only file (`docker-entrypoint.sh`). The loss of that file's
  last second in a power failure is not modelled. The server has no shutdown
  flush, so stopping it is `Crash`.
- A redirect served from a stale cache entry adds a click to a code whose link
  was deleted or renamed. Such codes are in `churned`, of which the credit
  properties do not speak, so `Lookup` reads the live row.

`ClickLedger` is the pipeline seen from outside: an increment is pending, then
settled or lost, once. `ClickPipeline` implements it with
`pending <- buf + held`.

`MCClickPipeline` adds the symmetry; `ClickPipelineProofs` holds the proofs.

`LinkStore` models the table `links`, the cache in front of it, the table
`backups`, and the requests that use them.

- State. `rows[i]` is the row of id `i`, `created` the last id given out,
  `backups[b]` the snapshot with that `b_id`, `cache` the map of `linkCache`.
  They are sets of at most one element, so "no row" and "cache miss" are `{}`.
  Each client is a goroutine with the locals of its handler: `pc`, the request
  `op`, the link `seen`, the `bid` it computed, the links it will cache (`fills`)
  and the codes it will drop from the cache (`drops`). `past` and `raced` are
  history: every link that was ever committed, the half of an edit with a new code
  included, and the codes that were written while some request was about to cache them.
- Actions. A step is one SQL statement, one transaction, or one cache operation,
  which runs under the cache's lock. `GetLink` is `CacheHit` or
  `CacheMiss`, `Select`, `Fill`; an edit is that, then `NextBId`, `Snapshot`
  (`BackupLink`), then `Rename` and `Update`, each followed by its `Drop`s; a
  create or an import is `Insert` and its `Fill`s; `DeleteRows`, `SweepRows` and
  `Clear`, `UpdateMeta` are the rest. `Begin` accepts requests, `Answer` ends
  them, `Abort` is a failed statement, a cancelled request, or a refusal.
- Data. A link has a url, a title and an expiry, of two values each (the expiry:
  never, or past). An edit provides a patch: some of the fields. What validation
  accepts is left open.
- Environment. `Lapse` is the 60 s lifetime of an entry, at any moment;
  `ExternalEdit` another program writing to the file; `ClearBackups` the API or
  the command line; `Crash` ends all requests and empties the cache.
- Left out: click counts (in `ClickPipeline`) with the invalidation that
  follows `ApplyCounts`, and the clear after a console write, which are further
  `Drop`s and `Clear`s; list queries, which bypass the cache and change nothing.

`LinkRegister` is the store seen from outside: each code is a register with a copy,
either of which may answer a read. A write makes the copy of a code it changes
`stale`, a code stays stale until its copy is dropped, and only what was written while
someone was about to copy it, or by another program, is `raced`. `LinkStore`
implements it (`RegisterSpec`) with the table as `link`, the cache as `copy`, and what
its clients are about to fill and drop as `copying` and `stale`. The run of it has one
code, so no renames; the theorem has any.

`MCLinkStore` gives the symmetry and the patches; `LinkStoreProofs` the proofs.
`LinkStore` and `ClickPipeline` meet in the table `links`. They are not composed:
counting never reads what an edit changes but the code, which `ClickPipeline` has.

`ConfigStore` is the configuration of the server.

- State. `mem` is the struct of `Manager`, `file` the YAML file (a set of at most
  one content: `{}` is no file), `req` the requests being served, `hup` and
  `loaded` a SIGHUP and what `Reload` has read. A configuration maps the settings
  that a browser sees, `"icon"`, and `"secret"`, which stands for the fields kept
  out of JSON (password hash, session epoch, console switches); values are
  numbers, and every value chosen is new.
- Actions. A save is `Copy` (the handler copies what it carries over, `Validate`),
  `Remove` and `Rename` (the two file steps of `atomicWrite`), `Swap` (memory);
  no lock spans them. The command line does the same from its own process with
  the file instead of memory, and sends SIGHUP. `Refuse` is any early end,
  `AnswerLost` a dropped connection, `Crash` a restart at any point.
- `Normal` is what `Validate` rewrites: a text of `Named` (the site name) that was
  emptied (`Blank`) gets its default. `Copy` saves `Normal(Merged(r))`.
- `clash` records that two updates, or an update and a reload, overlapped; `crossed`
  that they did and one of them was about the secrets; `missed` that the file was read
  while it was removed, which loads the defaults, without hash or epoch. The code
  excludes none of them. After a clash the last rename and the last swap can be of
  different updates; after a crossing the secrets that one of the two had copied are
  put back. A refusal or a restart at any step, and a reset, are no clash.

`SettingsPage` is the page `Settings.tsx` in front of it: `form`, the query
`['config']` (`cache`, `fetch`, `reply`), `savingRef`, `pendingRef`, and `base`,
the form that the running save's closure captured. `Flip` sends a form that is
newer than its closure, `SaveSettles` runs the save that was put off in the old
closure, `Fill` is the effect that fills an empty form only. A text can be emptied,
and then the form keeps it while the server has the default: `PageMatchesServer`
compares `Normal` of what is shown. Other values are kept as they are, or the request
is refused. A GET that fails is one that is never answered. `merged` and `disturbed`
are history.

`LinksPage` is the page of links with its query cache.

- State. `table` is what the server lists, newest first; `results`, `fetches`,
  `shown` are the cache of TanStack Query, its requests, and `data`, for each
  search and page; `calls` are the mutations. `seen` and `astray` are history:
  codes on screen since the search last changed, and reasons for old rows that
  the page cannot know (a failure, another writer, a request served before an
  edit that nobody could give up: `Outrun`).
- Actions. What the user does (a dialog covers the page), the server's steps
  (`ListServed`, `CallServed`), and what the page does with answers
  (`ListArrives`, `CallSettles` with every `onSuccess`), which may come after the
  page is gone. `Invalidate` is `invalidateQueries`: it gives up a request only
  for a key that was answered before. An import puts links where their dates do
  (`Imported`), everything else puts new ones in front.
- Ticks. `Tick` can take rows of the search before that stand in until the answer
  comes, and ticks last over pages, a deletion of one row, and a rename. So
  `SelectionWasSeen` says no more than that what is ticked was on screen since the
  search last changed.

`BatchDialog` adds the batch dialog: lines are codes, a comment or malformed, the
server creates those items that it finds valid and whose code is free, and results
are matched by position. Closing leaves `busy` and the submission as they are.

`LogsPage` has the server's side of the log too. A line is numbered when it is handed
to the subscribers (`LineBroadcast`, `logged`), and only then written to the log `file`
(`LineWritten`); between the two may be lines of as many goroutines as `Writers`, which
are written in any order. `Chunk` is a page of the file, counted from its newest line.
`stream` is the connection as the page knows it, `subscribed` whether the server hands
it lines (`Subscribe` comes after the headers, so the page may say "live" before it),
`pipe` the lines it has not read, in the subscriber's channel or on their way: a line is
dropped for a full channel, so at least `Buffer` unread ones. In the app `logStream`
reconnects itself; a browser's EventSource gives up on an answer that is not a success
(`closed`), so `StreamComesBack` is a property of the app. `gap` records why a line may
be missing: it was written after the history had been read and the stream did not bring
it (the subscription came later, or the channel was full); it was on its way when the
connection broke; the history failed, or replaced it; the history began after a line
still on its way; two requests for older lines at once.

`SignIn` is the password: browsers behind one address, the router's guards, the
forms, and the handlers of `admin.go` with the limiter. A handler's steps are
those between which another handler can run: the limiter's test (`Check`), the
comparison (`Verify`), the failure's recording (`RecordFailure`), the copy, the
save. A session is the key, the epoch, and (as history) the password it was
opened with. A 401 loads the login page at once. `late`, `outlived`, `guesses`
are history. `fails` and `lock` are one limiter entry.

`Console` composes them under the router: `Follows` ties a page's mounting to the
route, the connect page stores a server before it probes it (`Connect`,
`ProbeSettles`), the connection card checks every 10 s, on a click, and when
the app comes to the foreground (`PeriodicCheck`, `RefreshCard`), and a deep link
or a restart goes to any point. A behaviour visits pages of one kind (`tab`):
pages share only the router and the stored server. `SettingsPage` is not part
of it, because its form is checked against the server's configuration, which no
other page touches.

`MCSettingsPage`, `MCConsole`, `MCBatchDialog` are the modules of the runs; the
last two define the searches' results and the texts typed.

## Runs

| Run | Bounds | Shows |
|---|---|---|
| `click_pipeline` | 2 visitors, 2 codes, 1 date, 2 links, 2 pipelines sent, 2 troubles | the safety properties and `LedgerSpec` |
| `click_flush_liveness` | 1 visitor, 2 codes, 2 pipelines sent, 1 trouble | `EventuallyFlushed` under `Fairness` |
| `flush_all_or_nothing` | 1 visitor, 1 code, 1 trouble | the missing-key finding |
| `reused_code` | 1 visitor, 1 code, 2 links, no trouble | the reused-code finding |
| `link_store` | 2 clients, 2 codes, 2 links, 3 writes or crashes, reads without limit | the safety properties of the store |
| `link_freshness` | 2 clients, 1 code, 2 writes, 1 external edit | `EventuallyFresh` under `Fairness`; `RegisterSpec` |
| `stale_cache` | 2 clients, 1 code, 2 writes | the stale-cache finding |
| `lost_edit` | 2 clients, 1 code, 3 writes, edits of one field | the lost-edit finding |
| `settings_page` | 1 text, 1 switch, 2 requests at a time, 2 values, 2 calls, 1 trouble | page and configuration, `PendingSaveIsSent` |
| `settings_coalescing` | the same without troubles | the coalescing finding |
| `console` | links: 2 codes, 2 searches, pages of 1 row, 5 gestures, 1 trouble; logs: 3 lines, 2 writers, a channel of 1, pages of 1, 2 older requests; 3 visits, 2 outages; sign-in: 2 browsers, lock after 1, 4 moves | the properties of the pages, alone and under the router |
| `batch_retry` | links page alone, 5 gestures, no trouble | the retry finding |

Two visitors make INCRs interleave with each other and with the take; two codes
make a rename and a take of several keys; two pipelines put one click before and
one after a take, or one sent twice (one sent twice beside another click is left to the
proofs); two troubles combine, for instance, a failed transaction with
a failed add-back, or a crash with a reset. One date is enough because a date
is only part of a key's name: two codes already give four independent keys. The
proofs hold for all sizes.

In the store, two clients are a reader and a writer, or two writers, at any
points of their requests; two codes are what a rename needs, and the target of a
rename that is taken; three writes make a link, change it, and change it again
or re-create it while the first change is still under way. An edit brings a new
code, or a url and an expiry, or both (`RenameOrRedo`), and metadata workers write
titles; edits of one field each are for `EditsKeepOtherFields`. `MaxBackups` is
at least `MaxWrites`, so that no edit waits for a `b_id`.

In the settings page a text and a switch are the two ways of saving. Two values
and two calls make a save, and a second one, another session's or the command
line's, while the first is under way; a save put off takes no call's place but
its own. Both can be secrets that cross. `SecretsNeverGoBack` says most about several
saves at once, of which the run has two; the proof has any number. One trouble is a
refusal, a crash, or a lost answer at any step.

In the console five gestures reach a page, a search or a tick, a dialog, its
confirmation, and one action while that runs; two codes, one of them expired,
and pages of one row have a second page that empties when a row is deleted. A
batch text has a comment in front of two items, so positions differ. Three lines
with a page of one let the offset move while older lines are asked for, two writers
write them in the other order, and a channel of one overflows. The initial states leave
out what the tabs share: links and sign-in are visited from the web, the card is the
app's, and an app on the logs has a proven server. Two
browsers and a lock after one failure are the race between test and recording.
Four moves are a setup, a login, a change and a reset, or two logins with two
changes. `StreamComesBack` and `CardCatchesUp` mean "once outages stop".

Fairness of clicks: `Run` ticks for ever and returns only on cancellation, which the
server never does, so `FlushOnce` is weakly fair; a request's goroutine is
scheduled until it ends, so `Redirect(v)` is too. Visitors, links, the CLI and
faults owe nothing. The bounds on visits and troubles mean "once visitors and
faults stop", which is when the property is meant to hold.

Fairness of the store: a request that was accepted runs on (`Serve`), since its
goroutine is scheduled and SQLite has a busy timeout, and time passes (`Lapse`).
Nobody owes a request, an edit or a failure. Readers are not bounded, so
`EventuallyFresh` holds against readers that put entries back for ever.

Fairness of the settings page: every request is served or refused, and its answer
handled (`SaveSettles` and the like): `fetch` settles whatever happens to the
connection. Users and other writers owe nothing.

Fairness of the console: timers fire (`PeriodicCheck`, `StreamRetries`), a
connection that is tried is in the end accepted (`StreamOpens`; refusals are
bounded), and a check is answered, fails, or is aborted after its 5 s. Nothing is
assumed of users, links, sign-in or the server.

`CHECK_DEADLOCK FALSE`: with the bounds used up and all flushed, the system rests.

## Findings

1. `FlushAllOrNothing`. "Each flush is all-or-nothing" (flush.go:16) fails
   without any database error: if one listed key is gone when its GETDEL runs
   (reset by `gourl reset redis`, or listed twice by SCAN), the pipeline's error
   is that command's `redis.Nil`, and what the other GETDELs returned is dropped.
2. `ReusedCodeStartsFromZero`. Clicks buffered for a deleted link are credited
   to the next link with its code (counts.go:40).
3. `WritesInvalidateImmediately`. "Writes invalidate the affected entries
   immediately" (cache.go:8) does not hold of a row that was selected, or
   inserted, before the write and is put in the cache after it: it is served
   until it lapses. `InvalidationWorks` says that this is the only way.
4. `EditsKeepOtherFields`. An edit's own write puts back all fields as it read them,
   and so undoes what others wrote meanwhile to fields it was not given
   (links.go:422): it reads them from a cached copy, or before its backup.
5. `CoalescedSaveIsLatest`. "The latest pending save is coalesced and re-fired"
   (Settings.tsx:72), but what is sent when the first save ends is the form of
   that save's render (Settings.tsx:116): a change made meanwhile stays on the
   screen and is not sent until another field is saved.
6. `RetrySendsWhatFailed`. "The failed lines stay editable for a one-click retry"
   (BatchCreateDialog.tsx:25), but retry (line 117) sends the lines of the last
   check, those that were created included; they come back as failed.

Observed while modelling and not stated as properties:

- A wrong current password on the change page is a 401, so `request` loads the login
  page although the session is valid, and the page's own message
  (ChangePassword.tsx:47) is not read.
- `gourl reset password` leaves the session epoch, so with `SESSION_SECRET` set old
  sessions are valid again after the next setup (`outlived`).
- A status answer made before the setup and arriving after it sends the browser back
  to the setup page (`late`).
- The connect page probes the server "before persisting anything" (Connect.tsx:29), but
  line 33 stores it before the probe; an app that is killed in between keeps a server
  that was never proved (`killed`).
- `Update` "writes it back atomically" (config.go:309), but the old file is removed
  before the new one is renamed into place: a reader in between finds none. A restart
  there loads the defaults, without password hash and epoch (`missed`).
- Two overlapping updates of the configuration can leave memory and file different
  (`clash`), and one can put back the secrets that the other changed (`crossed`).
- A site name that is emptied is saved as the default, and the form is not filled again.
- Ticks are kept until the search changes "so mis-scoped selections can't linger"
  (Links.tsx:63), but they outlive the deletion and the renaming of their links, and rows
  of the search before can be ticked while they stand in.
- A line of the log is missed by a page that reads the history and subscribes between
  its broadcast and its writing (logx.go:160), or whose channel is full (logx.go:217).
- A browser's log stream does not come back after an HTTP error, although api.ts:361
  says that both modes reconnect for ever; two clicks on "load more" at once skip lines
  (`gap`).

## Proofs

Every safety and action property of the runs that pass is also a theorem; what
stays with TLC is liveness. The constants are arbitrary but for the assumptions
named. `Sums` has the lemmas about `SumFunction` of the community modules: it has the
partial sums its definition asks for, is a natural number, and moves with one
summand. An induction there is stated with a set of counterexamples, from which one
could always be taken away, because no prover here takes a predicate as a parameter.
Its `LeastNumber` serves `LinksPageProofs` too.

`ClickPipelineProofs`, for all visitors, codes, dates and bounds that satisfy
`DatesAssumption` ("total" is not a date), `BoundsAssumption` (naturals) and
`FinitenessAssumption` (finitely many visitors and dates: sums and counts are of
finite sets):

- `Accounts == TypeOK /\ Conservation` is inductive. The two need each other:
  a reset subtracts what Redis holds from what was counted, which stays a
  natural number only because of conservation. Hence `TypeCorrect` and
  `CountsAreConserved`, which is about the increments that Redis executed, those of
  a pipeline sent again included.
- `DbFailuresLoseNothing` adds that an idle flusher holds nothing and that, with
  Redis up, a pipeline asks once for keys that are there and were not taken
  before (`CleanFlush`): only then can no taken value be overwritten or dropped.
- `CreditIsExact` adds `Rows`: a live row has one code, ids not given out have no
  counts, and nobody has clicked on a code that never had a link.
- `TotalsAgree` adds `Paired`: without trouble the increments of a code's total are
  those of its days and one for each redirect between its two `INCR`s. When all is
  flushed nobody is, nothing is pending, and what was settled is in the row, of the
  total (`CreditIsExact`) as of each day.
- `PipelineImplementsLedger`: under `Accounts` each step counts, settles, loses,
  forgets, or leaves the ledger unchanged.

`LinkStoreProofs`, for all clients, codes, patches and bounds that satisfy
`PatchesAssumption` and `StoreBounds`:

- `Sound` is inductive: types; each step belongs to a request of the right kind
  (without it the fields a step reads might not be there); cache work is pending
  only at the steps that do it; an id has one row and a code one live row, which
  a rename and an insert keep because they are refused for a taken code; a
  look-up gives one link, so an update writes one row. Hence `TypeCorrect`,
  `OneLivePerCode`, and, step by step, `DeletedStayFrozen` and
  `BackupsAppendOnly`.
- `OnlyCommitted` adds that what is current is in the past (`Committed`). It says
  that nobody holds or caches a link that was not in the table, not that nobody saw
  the first half of an edit with a new code.
- `WritesInvalidate` adds that what is about to be cached is current unless its
  code was raced (`Invalidating`). Three lemmas carry it: a step that writes no
  row drops what it no longer announces (`QuietInvalidation`,
  `DroppingInvalidation`); each statement that writes announces every code it
  changes, or the code was free, so nothing was cached for it
  (`StatementsAnnounce`); and that is enough (`AnnouncingInvalidation`).
- `StoreImplementsRegister` needs all three: a copy is of the present link, or of a
  former one if raced, by `Invalidating` and `Committed`; a commit may leave the
  copies of the codes it changes because it announces them; `Drop`, `Clear`, a lapse
  and a crash withdraw an announcement with the entry only. `RegisterIsFresh` is what
  that is worth: `InvalidationWorks` follows from the register's steps alone.

`SettingsPageProofs`, for all settings, requests and bounds that satisfy
`ConfigAssumption` and `PageAssumption`:

- `Consistent` is `Shape` (what is stored are configurations) and, without a clash,
  `Alone` and `Filed`: one update or reload is under way at a time, and its stage tells
  what the file holds, so that each step knows what it replaces. Hence
  `FileFollowsMemory`.
- `SecretsMoveOn` is not about one update at a time: saves, icons and restarts overlap
  as they will, until a change of the secrets crosses another update or the file is read
  while there is none. Until then (`Advancing`) the updates under way that are not about
  secrets have the secret of the memory (`Carried`); one that is about them has no other
  beside it (`Exclusive`), and is ahead of the file until it is in it (`Leading`); and
  nothing on its way into memory has an older one (`Younger`).
- `Filled` (there is one form or none) makes `EditsAreKept` a matter of each step.
- `PageShowsTheServer`: `InStep` relates form, running save, file and memory while
  nobody else touches the configuration. The only request is then the page's save
  (`Undisturbed`), it carries what the form shows unless someone types or a second
  save was put off, filled in once it is copied (`CarriesNormal`), and when it succeeded
  that is what is published (`Followed`). What is in memory and in the file was filled
  in before it was saved (`Validated`), so the form that is filled from it needs no more.
  `merged` remembers that a save was put off (`PutOff`), and `PageMatchesServer`
  excepts it: the finding `CoalescedSaveIsLatest` is that gap.
- `TypeCorrect` is more than shapes: secrets are bounded by the calls made
  because each secret, with the requests that will still move it on (`Lent`), stays
  below them (`Counted`). `Lent` is counted, so `ConfigAssumption` has `Requests`
  finite. A save put off finds the form the running one began with (`SaveTypes`).

`LinksPageProofs`, for all links, searches, page sizes, texts and bounds that
satisfy `LinksAssumption` and `BatchAssumption`:

- `Measured` adds that the rows on screen are among `seen`: hence `TickedWasSeen`.
- `Current`: unless the page is astray or an edit is done of which it was not told
  yet (`Untold`), every answer on its way is of the present table, and a page that
  waits for nothing shows it. An edit that is told gives the request on screen up
  or makes the page astray, which is what `Invalidate` is for. Hence `RowsCatchUp`.
- `Matched`: items and lines of a check, and of a submission, are the same sequence, so
  positions in one are positions in the other; hence `ListedLinesFailed`. The filters
  of the page and the dialog are `Entries` (of a sequence, at a set of positions, by
  `InOrder`) and not `SelectSeq`, whose definition the provers do not see;
  `EntriesAreEntries` says what they return.
- `LinksTypes`: no code is in the table twice (`Distinct`). An import or a batch adds
  codes that are not there, in front and each once; a rename is to a free code or the
  link's own; and deletions keep positions apart. Hence, by a pigeonhole argument, the
  table and its pages fit the codes. The form's request is of one link at most
  (`CallTypes`), without which a rename could give two links one code.

`SignInProofs`, for all browsers and bounds that satisfy `SignInAssumption`:

- `Grounded` (types, without the bounds, and what each kind of form carries), `Dated`
  and `Informed` are inductive. A session proves the password only because whatever
  carries an epoch, a form inside a handler or a cookie, is at most as new as the
  epoch in force, and of the password in force if it is as new: a login that read
  the epoch before a change gets a session that is void. Hence `OldSessionsEnd`.
- `Informed`: a browser that believes in setup mode is on the setup page, its form is
  not a login with a password, and its cookie is void. Hence `SetupEnds`.
- `Counted`: the wrong passwords tried are recorded as failures or about to be, and
  failures and forms let in before the lock stay together below `MaxAttempts` plus
  the number of browsers, because a form is let in only while the lock is off. It
  counts sets of forms, so `SignInAssumption` has `Browsers` finite. Hence
  `LockoutIsKept`.
- `Bounded`: epochs, passwords, secrets and failures stay within what was submitted,
  because a form that will raise one of them took its submission before (`Paid`).
  Hence `SignInTypes`.

`LogsPageProofs`, for any log, page size and number of requests that satisfy
`LogsAssumption`:

- `Unbroken`: the file has lines that were handed out, each once (`Written`); without a
  gap there is one request for older lines at a time, for those that come next
  (`Single`). From its first line that the page has or that is on the stream, and from
  the page's offset on, counted from the end, the page and the stream have every line of
  the file; the same is said of the page with an answer on its way (`Complete`). A
  history on its way is a run of lines of the file; the page or the stream has what was
  written after it, and the stream brings none from before it (`Joins`). Counting from
  the end is what a new line could break: it moves the offset's meaning up by one, past a
  line that is in reach, or else is a gap. The order of broadcasting is not that of the
  file, so nothing here is said of the order of lines. Hence `NoHoles`.
- `LogsStepTyped` and `LogsRestTyped`: an answer is of lines the server can log, and
  whatever leaves the page alone takes a visit or an outage at most.

`ConsoleProofs`: each step of the console is a step of the links page and of the
sign-in module, or leaves them alone (`ConsoleRunsPages`), so the theorems about
them hold in it (`PagesUnderTheRouter`). The connection card shares the bounds of the
logs page, so that page is not run as it is; `LinesAreComplete` shows that `Unbroken`
holds under the router. `ServerIsProved` and `BadgeIsRight` are inductive as they
stand. `ConsoleTypes` puts the types together: those of the links page and of signing
in come with their specifications, those of the logs page (`Framed`) hold because the
card shares its bounds and keeps them.

Model-checked only: `EventuallyFlushed`, `EventuallyFresh`, `PendingSaveIsSent`,
`StreamComesBack` and `CardCatchesUp`, which are liveness under fairness and need
ENABLED. The six findings are counterexamples, and so are TLC's alone.

## Not modelled

- Metadata queue and fetcher, migrations, token migration, the redirect
  budget (a library's token bucket), database console, statistics, short codes: see
  the plan, or single reads and pure functions.
- Configuration: which values `Validate` refuses, and that it sets an
  empty log level, which the page never sends; setup and the block lists, which
  save as the password does; that a start without a file writes one (`ConfigInit`
  starts after it).
- Settings page: the token section; React's double mounting in development.
- Links page: targets and titles of an edit, which no row order depends on; codes
  chosen by the server; expiry while the page is open (which links have expired is
  fixed). Two requests of one kind are never under way, and neither are two
  batches. A server without the expiry filter, whose answers the page filters
  itself, answers as the others do. The query's own retry is part of `ListFails`.
- Logs: the page's filters, which choose what is shown; rotation of the file and partly
  written lines; a start without `LOG_DIR`, which has no file; levels; more than one
  subscriber, which do not wait for each other.
- Sign-in: expiry of sessions, the old `ADMIN_PASSWORD` variable, the setup code (a
  setup may be refused at any time), addresses other than one. The app uses a
  token. A form is not reloaded while under way, and `gourl reset sessions` is one
  step, since `ConfigStore` has its file steps.
- Connection: one probe at a time, because the button is disabled while one runs.
- Appearance: layout, drawer gestures, themes, QR codes, exports, the dashboard.

## Plan

1. `ClickPipeline`, `LinkStore`, `ConfigStore` with `SettingsPage`, `SignIn`, the links
   and logs pages and the `Console`, and what the first two implement (`ClickLedger`,
   `LinkRegister`): done, as above.
2. Proofs of every safety and action property of the runs: done, as above.
3. `MetaQueue`: bounded queue, workers, late results.
4. `Migrations`, the redirect budget.
5. Pure algorithms: `ShortCode`, `SqlSplit`, `SelfLink`, batch de-duplication,
   against reference definitions over bounded inputs.

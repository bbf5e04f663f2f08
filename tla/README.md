# Looking Glass: specifications, model checking and proofs

This directory holds TLA+ models of the looking glass (the API, the diagnostics
worker and the browser code under `src/`), TLC configurations that check them on
small instances, and TLAPS proofs of their safety properties for every instance.
`PROJECT.json` maps every definition to the lines of code it models.

Run a check with `tlc -workers 2 -config Guard.cfg MCConcurrencyGuard` and a proof
with `tlapm ConcurrencyGuardProofs.tla`, inside this directory.

## 1. Inventory

A browser posts a diagnostic to the **API**. The API limits, validates and relays it
to the **diagnostics worker**, which queues it, resolves and re-checks the target and
runs a native tool. Both services keep their state in memory only, so there is
nothing to recover after a crash; what is hard is concurrency, cancellation, timeouts
and partial failure.

| Component | State | Operations | Hard behaviour | What makes it correct |
|---|---|---|---|---|
| `DiagnosticsExecutor` (worker) | `_slots` semaphore and its FIFO of waiters, `_waiting`, gauges and failure counters | `ExecuteAsync` and `AcquireAsync`, called by every diagnostic | a slot handed over while the waiter's timer fires or its caller cancels; one deadline token for two causes | no slot or count leaks, the line is bounded and FIFO, nobody waits while a slot is free, failures booked once and truthfully, every call ends |
| `ProcessRunner` (worker) | the child, its two pipes and readers, `truncated` | `RunAsync`, cancellation callback, `onLimit`, `TryKill` | exit, cancellation and overflow racing; an undrained pipe; a helper that inherits stderr | no tool left behind, truncation reported truthfully, every run ends |
| `ConcurrencyTracker`/`Guard` (API) | a dictionary client -> count | `Enter`, two-step `Leave`, the guard around an endpoint | arrivals between the two steps of `Leave` | exact counts, limit per client, no key kept for ever |
| `ClientIpHasher` (API) | `_day`, `_key` | `Hash` | the day is read before the lock | no key shared by two days |
| `ActivityLog` (API) | `_items`, newest first | `Add`, `Snapshot`, `Prune` | the wall clock may step back between two reads | never older than the retention, never more than `MaxItems`, nothing else dropped |
| `TtlCache` (API) | `_value`, `_expires`, a gate | `GetAsync` | a fast path without the gate; the fill dies with the caller that runs it | one fill at a time, nothing served past its lifetime, nobody fails for another's cancellation |
| `EgressService` (worker) | `_cached`, `_expires`, a gate | `GetAsync` | the same, plus two discoveries in parallel and failures cached for a minute | as above, and configured addresses always win |
| `ConnectivityMonitor` (worker) | a window of samples per family, gauges | `SampleOnceAsync`, `Snapshot` | snapshots while a sample is recorded; downsampling | status and gauges follow from the samples of one moment |
| `DiagnosticRelay`, `DiagnosticsClient` (API) | metrics, audit log, activity | relay of one request | the browser, the API and the worker give up independently; connections break between headers and body | answer, log, metrics and feed tell one story; nobody who left keeps anything waiting |
| Rate limiting (API) | the framework's sliding windows per client and endpoint | `Window`, `WriteRejectionAsync` | windows that slide in segments | permits per window |
| Status, network, traffic (API) | caches | aggregation of what answers in time | partial failure; series that come from different moments | headline and list agree; a chart shows one node |
| Diagnostics pipeline, probes, parsers, DNS (worker) | none | one diagnostic each | failure at each stage, output cut short, slow name servers | the path found is the path shown; nothing internal is asked or told; names cost nothing |
| Destination policy, target resolver, the page's validation | none | parse, block, resolve, re-check | one address in many forms; two parsers; checks before and after resolution | only public addresses reach a tool; page and API agree |
| Browser hooks (`useDiagnostic`, `useApiQuery`, `useCountdown`) | React state, the current abort controller | run, cancel, reset, poll, refresh | answers of superseded requests; effects that come after the render | the newest request alone writes the state; a visitor can always start again |
| Pages and forms (browser) | of a page its query; of a form its text, option and error; of the lookup its own request | choose a range, enter, submit, retry, look up | a panel replaced while its answer is on its way; an error older than the form; a lookup without a controller | what is shown is of what is selected; the page says whether it waits and never waits for nothing; one diagnostic at a time |
| Layout, notices, theme (browser) | the drawer, the full-screen view and the focus they save; toasts and timeouts; the preference in three stores | open, close, navigate, copy, choose a theme | effects after a render that is already another; timeouts that overlap; stores that refuse | the page gets focus and scrolling back; notices go, none too early; the last choice of theme is kept |
| Hosting, contracts, charts, Helm, CI | none of their own | wiring, drawing | - | - |

Interaction: the relay calls `ClientIpHasher`, the destination policy, the HTTP client
and `ActivityLog`, inside the rate limiter and the guard; the worker's service runs
the resolver and, through the probes, `ProcessRunner`, inside the executor, whose
deadline token is the one `ProcessRunner` registers on. The hazards this gives rise
to are listed, each at its line, in `PROJECT.json`.

## 2. Modules

| Module | Models | Abstracted |
|---|---|---|
| `DiagnosticsExecutor` | `DiagnosticsExecutor.cs`: each request is a process with a program counter; one action per atomic step (probe, increment, decrement with refusal, enqueue, wake, timer, start, work ends, catch, finally) | durations and labels; an exception is its code |
| `BoundedAdmission` | what the executor promises: a line of bounded length served in order by a bounded number of servers | everything else |
| `Recency` | what stays of a list of dated entries when those that are too old are removed; used by `ActivityLog` and `ConnectivityMonitor` | - |
| `ConcurrencyGuard` | `ConcurrencyGuard.cs`: the dictionary operations are atomic, the steps between them are not | the HTTP response written on rejection |
| `ProcessRunner` | `ProcessRunner.cs`: one run with its readers, callbacks and environment | output is counted in reads |
| `ClientIpHasher` | `ClientIpHasher.cs`: keys are numbered by rotation | the HMAC |
| `ConnectivityMonitor` | `ConnectivityMonitor.cs`: the sampling loop, the window, the summary and the up gauge | a latency is whether there is one; averages, jitter and the loss gauge |
| `TtlCache` | `TtlCache` in `InfoServices.cs`: any number of caches and calls, a factory that returns, throws or is cancelled, a lifetime for each value | what a value is |
| `EgressService` | `EgressService.cs`: an instance of `TtlCache` for its gate and fields, two discoveries under one token, two lifetimes | an address is its family |
| `NetworkInfo` | `NetworkInfoService` and the client behind it: `TtlCache` with `EgressService` as its factory, over connections that break, stall and hang up | the page's other fields |
| `ActivityLog` | `ActivityLog.cs`: `Add` in its two readings of the clock, `Snapshot`, `Prune` | an entry is its number and time |
| `DiagnosticRelay` | `DiagnosticRelay.cs`, `SendAsync` of `DiagnosticsClient.cs`, `HandleAsync` of `ProblemExceptionHandler.cs`: each request is a process; extends `ClientIpHasher` and instantiates `ActivityLog` | what is asked and what a result says |
| `Destinations` | operators: `DestinationPolicy.cs`, `IpBlocklist.cs`, and the page's `validation.ts` and `diagnosticRequest.ts` | a text is its shape, length, marks and parts; an address is its bytes, in full |
| `DiagnosticsPipeline` | one diagnostic from the form to the answer: the relay's checks, `TargetResolver`, `HostResolver`, `DnsLookupService`, `NativeProbeRunner`, `Parsers`, `DiagnosticsService`, the hosts of `TextRenderer`; extends `Destinations` | figures, the wording of the text, a tool's arguments |
| `StatusService` | `StatusService`, `DisabledBgpProvider`, `CheckReadyAsync`, `describeOverall` | details and latencies |
| `TrafficService` | `TrafficService.cs` over `PrometheusClient.cs` | a series is its node and its query |
| `DiagnosticHook` | `useDiagnostic.ts`, `useCountdown.ts`, `errors.ts`, `errorCopy.ts` | results and messages |
| `QueryHook` | `useApiQuery.ts` | the data, `updatedAt` |
| `PageViews` | what `StatusView`, `ConnectivityView`, `NetworkView`, `TrafficView`, `BgpView` and the dashboard's parts make of a query, and the choice of a range; extends `QueryHook` | what the data look like |
| `DiagnosticPage` | `DiagnosticForm.tsx`, `QuickDiagnostic.tsx` and `ResultArea.tsx` around the hook; extends `DiagnosticHook` | the judgement of a text is a constant (`Destinations` has it), ping stands for traceroute and MTR |
| `BgpLookup` | the prefix lookup of `BgpViews.tsx` | `parseBgpQuery` is a set of accepted entries |
| `Notices` | `Toast.tsx`, `CopyButton.tsx` | messages; a toast is its number |
| `ThemeSwitch` | `theme.ts`, `useTheme.tsx`, the root layout with its head script | the theme menu's own opening |
| `Shell` | `AppShell.tsx`, `Sidebar.tsx`, `Topbar.tsx`, `Overlay.tsx`, `useFocusTrap.ts`, the full-screen view of `ResultPanel.tsx` | of the focus whether it is in an overlay, on one of the two opening buttons, elsewhere on the page, or nowhere |
| `MC...` | instances for TLC; `MCPages` puts the modules of the pages side by side | - |
| `ProofLemmas` | lemmas the proofs share: head counts, waiting lines, what `Recency` leaves of a list, lists of lists end to end | - |
| `...Proofs` | theorems: `WorkerProofs` on the runner and the monitor, `RelayProofs` on the relay, the hasher and the feed, `VisitorProofs` on the hooks, the pages, the layout and the pipeline, the others on the module they are named after | - |

A definition whose comment begins "Slip:" is the definition that follows it with a
plausible mistake in it. The slips are not used by any specification; substituting
one for its original makes the property named in `PROJECT.json` fail, which shows
that the property is sensitive to the code.

How the code appears in the executor's model. `SemaphoreSlim` is its free count
`slots` and the FIFO `queue` of asynchronous waiters: `Release` hands a slot straight
to the longest waiter, and a waiter that times out or is cancelled leaves the queue
atomically (`GiveUp`). `WaitAsync(0)` and the waiting `WaitAsync` are separate steps
with the increment of `_waiting` between them, since other requests run there. The
linked token source of the deadline is `expired`; the caller's token is `cancelled`;
`Catch` decides between the two as the exception filters do, by the caller's token
alone. The work may return, throw any exception, notice a cancellation, or hang.

In the guard's model `AddOrUpdate` and the conditional `TryRemove` of
`ConcurrentDictionary` are single steps. `Leave` is `Decrement`, which remembers the
value it wrote, and `TryRemove`, which removes the key only if it still has it.

In the runner's model the tool writes, exits, hangs and spawns as it likes; `TryKill`
does nothing once the tool has exited. The registered callback runs at most once, at
any time after the cancellation. A reader takes output in reads and stops at its cap,
at the end of the stream, or when the streams are disposed of.

In the caches' models the unlocked fast path is three steps (is there a value; is it
in time; read it again to return it) and the two writes of a fill are two; everything
under the gate that no other call can see is one. `SemaphoreSlim` is as in the
executor. `NetworkInfo` gives each API call the worker call it causes: `Ask` is the
arrival of the HTTP request, `Headers` the beginning of the answer, `Reply` and
`ReadFails` the two ends of its body, and `Hangup` the worker learning, at any later
time, that the API call has ended without it. `reading` tells the wait for the headers
from the read of the body, since `SendAsync` asks for `ResponseHeadersRead`:
`HttpClient.Timeout` ends the first (`Break`) and not the second, which has the
caller's token alone.

In the monitor's model a round ends when both families' tasks have; `Gather` follows
the rule of `Task.WhenAll` (a fault outweighs a cancellation) and the two catch
clauses. `due` is the next tick of the `PeriodicTimer`, which keeps at most one tick.
In the log's model the wall clock takes any value at any time, also inside `Add`.

In the relay's model a request stops at every await, lock and log line. Wherever it
awaits, the caller may have gone (`AwaitCancelled`), but an answer that is there
already may win. An exception is the code the caller is told, `cancelled`, or
`unexpected` for one that neither catch clause of `RelayAsync` names: what reading a
body throws when the connection breaks after the headers is of that kind, and so is a
connection that fails once the caller has gone. `Leave` is the `finally` block, and
`AnswerOf` the exception handler. The lock of `ActivityLog` is held across its two
actions, so that a second request waits in between.

In the pipeline's model every await is a step, during which the token of the run may
be cancelled; `Stop` is the await that throws. What traceroute prints is a sequence
of lines of tokens made from a path (a hop being its probes: who answered, when, and
whether with a `!` flag), and may end within a line or an address; the parser is
translated token by token. mtr's report is its hubs. Names and DNS answers are the
environment's. Each text carries the address it means, for `LiteralJudged` alone: no
action looks at it, and `Meant` says that it is the address the text writes (`Writes`,
from an address to its digits and groups, which is the other direction than the
parser's).

In the hooks' models an action is what JavaScript runs without interruption. A
promise is settled by axios (`Settle`, `FetchSettles`) and continued later, with any
event in between; `setState` after the unmount goes nowhere; the countdown's effect
runs after the render that changed what it depends on (`armed`).

In the pages' models a button that is disabled or not rendered cannot be used, which is
a guard of its action; a form's Enter key is its submit button. `PageViews` describes
each page as a record of what its body shows, whether a note says that the data are
old, and whether a button asks for another attempt; a new range is a new panel with a
query of its own, since it is keyed by the range, and the old panel's answers may still
come. In `Notices` a timeout that is set may fire at any time and in any order, so that
only clearing one keeps it from firing. In `ThemeSwitch` each store may refuse or fill
up on its own; a page load runs the server, the script and, later, the provider, whose
first render does not know the system's theme; `memory` is a history variable for the
property alone. In `Shell` a render and the effects of a click are one step, as React
flushes them, while the effects of a navigation or of a resized window come after it
(`PathEffect`, `OnChange`, `Release`).

## 3. Runs

| Run | Instance | Shows |
|---|---|---|
| `executor_safety` | 4 requests, 1 slot, 2 places in line (279 thousand states) | `NothingLeaks` (`SlotsConserved` and `CountersExact`), `BookedHonestly` (`LedgerExact` and `OutcomeHonest`), and that the executor implements `BoundedAdmission`, which includes the bound and the order of the line and that nobody waits while a slot is free |
| `executor_liveness` | 3 requests, 1 slot, 1 place (83 thousand states) | `EveryCallEnds` |
| `executor_failure_metric` | 2 requests | a violation, see section 5 |
| `guard` | 4 connections of one client, 1 of another, limit 2 | exact counts, nobody turned away below the limit, no client kept for ever |
| `runner` | caps of 2 and 1 reads, pipes of 2, 4 writes per stream | no orphan, honest truncation, and that runs end which exit, overflow or are cancelled |
| `relay` | 2 requests, 2 codes of the worker (`busy`, `internal_error`), a feed of 2 entries that may hold one, 1 midnight (411 thousand states) | `OneAccount` (`ToldAsBooked`, `CountersMatchLog`), `FeedTrue` (`FeedIsEarned`, `FeedExact`), `UnlinkableAcrossDays`, `AbortEnds` |
| `hasher_midnight` | 4 calls, 1 midnight | a violation, see section 5 |
| `monitor` | 2 and 1 targets, a window of 2 intervals, 2 points, a status over 3 samples (1.26 million states) | `SamplingKept` (`WindowKept`, `LoopSurvives`), `SnapshotCoherent`, `StopEnds`: the window is the recent tail of all that was recorded; status, points and uptime agree and raise no false alarm; the loop ends when stopped and only then |
| `monitor_gauge` | the same | a violation, see section 5 |
| `network_info` | 2 callers of one replica, 2 families to discover, lifetimes 1 (API), 2 and 1 (worker) (0.85 million states) | `NothingStale` (of both caches), no inherited cancellation, no false absence, and `OnlyABodyHoldsUp`: every call ends unless some call of its replica waits for the end of a body for ever |
| `pages` | 3 diagnostic runs, 13 kinds of failure and a form with 4 texts and 2 options; 4 fetches, 2 ranges; 3 lookups; 5 notices; every browser, theme and store; 2 pages for the shell; all statuses of 2 families; 2 nodes in any order (284 thousand states) | `NewestShown`, `RetryIsUseful`, `NeverLockedOut`, `ErrorIsCurrent`, `OneRunAtATime`; `WaitShown` (`RefreshTold`, `NeverStuck`), `RangeShown`, `NeverGoesBack`; `LookupShown`; `NoticesGo`; `ThemeKept`; `PageGivenBack`; `OneStory`; `OneNodePerChart` |
| `pipeline` | both sides of both ends of every documented range and of two networks of the operator's, as IPv4, IPv6, mapped, NAT64 and 6to4, written in up to three ways; some forty other texts; every kind, family and some record types; 15 DNS answers; 3 paths of 3 hops with 2 probes, cut anywhere (19 thousand states, a request fixes most of a behaviour) | `LiteralJudged`, `PageAgrees`, `RestrictedUntouched` (`OnlyPublicProbed`, `NothingInternal`), `PathShown`, `NamesCostNothing` |

Why the bounds are enough. The executor's interesting cases need one holder, a line
whose order matters (two waiters) and one request to refuse; the fourth is that
request. One slot maximises contention, and a second slot adds no kind of step. The
guard needs two running requests, and two that are rejected at the same time, in the
two steps of `Leave`. The runner needs a read within the cap, one that reaches it, one
beyond it, and a pipe that fills: two, one and four units give each of these. The
hasher needs stragglers of two different days to meet. The monitor needs a window that
overflows its points by more than one sample, and a round that throws between two that
do not. The caches need a filler and a waiter, one of which leaves, and a clock that
passes each lifetime; with every family configured the worker only echoes the
configuration, so `Known` is empty in the run (and arbitrary in the proofs).

The relay needs two requests, one overtaking the other at each await; the feed needs
to be full (two entries, one of them from before) and a clock that goes back by more
than the retention. `MCDiagnosticRelay` explores two scenes, one in which the clocks
move and one in which callers and connections fail: a fault changes neither clock and
no step of `ActivityLog` or `ClientIpHasher` depends on how the request came to it, so
nothing is learnt from mixing them, and the mix is much larger.

The pages need a run (a fetch) that is late by two, since a replaced one may end
before or after the one that replaced it; three runs and four fetches do, the fourth
being the one a new range's panel starts. The thirteen failures cover each row of
the two code tables that a property tells apart, among them a 404 and a 405 with the
code the two services give them and a 404 of a proxy without one, and the four texts each judgement that depends
on the kind or the option. The toasts need one more than the four that are shown, and
copies that overlap by two. The theme and the shell have no bound but two pages, one to
leave and one to arrive at. Two nodes are enough for a wrong pair or order. The modules
share no state, so a behaviour of `MCPages` exercises one of them.

In the pipeline a literal is judged by its bytes alone, and what is compared are
ranges: each first and last address, and its neighbour outside, decides whether the
prefix lengths are right. The reference is `docs/security.md`, written as first and
last addresses rather than prefixes. `ExtraCidrs` and `ExtraSuffixes` are empty; they
are added to sets.

Symmetry is used only where no liveness is checked and no property names a request.

Fairness. `executor_liveness` assumes weak fairness of each request's own steps and of
its timers (the runtime schedules continuations and timers fire), never of the work,
which may hang, nor of the caller's cancellation. `guard` assumes that a request inside
the guard gets out, and nothing about arrivals. The executor's deadline and the HTTP
client's end the wait for the worker's answer; the read of its body ends with the
caller, who goes away in the end (axios after 120 seconds). `runner` assumes that the runtime's steps are taken and that
an orphaned helper leaves when its stdin closes (as mtr-packet does); the tool owes
nothing.

`monitor` assumes that probes end, as each has a timeout, and that the loop's steps are
taken. `network_info` assumes the API's own steps, which include that a token that
is cancelled ends an await, and that the wait for an answer's headers ends, which
`HttpClient.Timeout` gives. Nothing is assumed of the worker, the network or the
callers, and nothing makes a body end; `OnlyABodyHoldsUp` therefore is an implication
whose premise (`Stalled`) names the body. In the field the callers supply the premise:
axios aborts after 15 seconds, the page's server after 2.5.

`relay` assumes that the relay goes on by itself, as its continuations are scheduled
and a token that is cancelled ends an await; no answer of the worker is taken for
granted. `pages` assumes that axios settles every promise (its timeout is 120
seconds), that the event loop gets to every callback and effect, and that time passes.
`pipeline` states no fairness.

`monitor`, `network_info`, `relay`, `pages`, `pipeline` and `hasher_midnight` switch
deadlock checking off: their calls, days and clocks are finite, and a stopped service
or a served page has nothing left to do.
The clocks stop at `MaxTime`; the two writes of a fill are taken to happen within one
unit of the clock.

## 4. Proofs

All theorems are proved for every value of the constants that satisfies the named
assumptions of the modules (the ranges of the options classes).

* `DiagnosticsExecutorProofs`: `IInv` joins the type invariant to the facts that make
  the counters inductive: the free slots and the requests at a program counter that
  holds one add up, `waiting` and `active` are the numbers of requests at the phases
  between increment and decrement, the queue lists exactly the parked requests, and
  per-request facts (`Sound`) link outcome, ledger and program counter. `SlotsConserved`
  alone is not inductive, as `Release` depends on the queue, which depends on the
  phases. Each step moves one or two requests; `ProofLemmas` says what that does to
  a head count. The refinement of `BoundedAdmission` follows from the same invariant.
* `ConcurrencyGuardProofs`: the count of a client is the number of its requests in the
  phases inside the guard, and a key at zero has a request about to remove it.
* `WorkerProofs`, the runner: the invariant relates the readers' state to `truncated`
  and to what was kept and written, and `child` to the phase of the run. The monitor
  (`MonitorInv`): the window of a family is what a single cut of all it ever recorded
  would leave. That pruning round by round comes to the same as pruning once is
  `WithinTwice`; what is kept, and in what order, is `WithinElements` and `WithinOrder`,
  all by induction on the length of the list. The points of a snapshot partition the samples
  they are averaged from, so the last of them covers the last sample, which gives the
  gauge its one-sided honesty.
* `TtlCacheProofs`: the invariant says that those in line are parked and
  distinct and that whoever is inside has taken the gate (`GateKept`), that a lifetime
  may lag behind its value by the one fill that is storing, never run ahead
  (`Written`), and what a call knows at each program counter (`Knows`). Freshness needs
  the second, as the fast path may pair a new value with an old lifetime.
* `NetworkInfoProofs`: `NetworkInfo` implements the cache's specification twice, in the
  replicas and, unless all addresses are configured, in the worker. This carries the
  theorems over; the freshness of the worker's answers is one of them. That absences
  are real follows from an invariant of the worker (`WInv`): a discovery that is
  gathered has found or lost every family that is not configured.
* `RelayProofs`, the hasher: `_day` is always the day of the last key; hence a key is
  used only by calls that read its day. The relay (`RelayInv`): what each request has
  booked, logged, counted and put in the feed is a function of its program counter and
  its outcome, and the log, the counters and the gauge are the sums over the requests;
  `ToldAsBooked` and `CountersMatchLog` are not inductive without the first, since the
  answer is told after everything else was written. The feed: `FeedExact` is about what
  was added and when, so the invariant ties each item to the addition of its number
  and bounds all times by the latest the clock, which may step back, has shown.
  `RelayComposes` shows that the relay's steps are steps of the hasher and the feed.
* `VisitorProofs`, the hooks: for `useApiQuery` (`QueryInv`), only the newest fetch is
  not aborted, so the answer of no other is taken, and the fetch whose data is shown is
  over; without the second an error could be older than the data. For `useDiagnostic`
  (`HookInv`), the current controller is the newest run's or none, and an abort is seen
  only by a run whose signal was given. `NewestShown` is not inductive without them:
  while nothing is shown it says nothing of the runs that are still out, which
  `Continue` turns away by their controller. `RetryIsUseful` holds for every set of
  responses in which a code the page knows comes with a status the two services give it
  (`ProblemAssumption`), 404 and 405 with `validation_failed` included; a response
  without a code, or with a code the page does not know, may have any status. Were a
  known code to come with any status it would be false, as the page goes by the code and
  the property by the status.
* `VisitorProofs`, the pipeline: `BlockedExactly` says that an address is blocked if and
  only if it is of a range `docs/security.md` lists or of a network the operator adds,
  or wraps an IPv4 address that is: every range is in a network of the code
  (`RestrictedBlocked`), every network and every metadata address in a range
  (`Uncovered4`, `Uncovered6`, `MetadataListed`), and a 6to4 address needs no unwrapping,
  as all of `2002::/16` is listed. `PipelineInv` then carries through the stages what was
  checked where: the target is clear from `Resolve` or `Choose` on, the hops of the
  parser are looked up only if clear, and a lookup never decides whether the answer is
  told. `PageAgrees` is proved of every text, not only of those in `Requests`: each
  refusal of the page is a refusal of the API (`PageBlocks4`, `PageBlocks6`), both take
  the same eight groups from an IPv6 text (`SameGroups`), and what the page sends after
  its normalisation is read as what was entered (`SentAgrees`). `LiteralsAreJudged` is
  about writing and reading: what writes an address is read as it (`Reads4`, `Reads6`),
  what is read as one writes it (`Reads4`, `Written6`), hence what writes none is
  invalid; `BlockedExactly` does the rest. Its invariant (`Entered`) is that the page
  passes on such a text unchanged.
* `VisitorProofs`, the path: `PathsAreShown` composes printing, cutting, parsing and
  presenting. The parser reads a printed line as if it were read probe by probe
  (`TimesJoin`, `FirstJoin`: a line is a list of closed pieces, none of which ends in a
  number whose `ms` might follow), so a hop gives one time or star per probe and the
  first router (`HopRead`), no hop that has a probe is dropped (`LineRead`), and a cut
  leaves the hops before it whole (`CutRead`). `TraceInv` carries `RawWhole`, which says
  this of the parsed hops, from the end of the tool to the answer, and that the target is
  an address (`ParsedIp`, `ResolveTraced`, `ChooseTraced`), of which the paths are
  taken.
* `VisitorProofs`, the pages: `ViewInv` adds to `QueryInv` that a page the server has
  rendered nothing for has a current fetch that is not aborted, and that such a fetch
  leaves data or an error when it is over (`Served`), without which a skeleton might
  stay for ever; and which range each fetch asked for, since `RangeShown` says nothing
  of the answers on their way. A form's invariant (`FormInv`) says that the hook's
  controller is always that of the newest run, which holds of a page that never
  resets the hook. For the lookup, `LookupShown` is inductive once the types are known,
  which is the point: the disabled button is all there is. `NoticesInv` adds that ids
  are smaller than the next. `ThemeInv` says what a page is painted with and what its
  provider will take when it mounts (`Awaited`), in each case of what the browser
  refuses. `ShellInv`: there is one trap at most, and what it saved is that of a page
  nothing covered.
* `VisitorProofs`, the status and the bandwidth page: the headline is a function of the
  components that the list is made of; a chart's two series are those the two
  dictionaries have under one key, and numbering the nodes by how many keys are smaller
  numbers each of them once (`RankedAll`).

Assumptions on constants beyond types: `PipelineAssumption` (texts are what the two
parsers can look at, DNS answers are addresses), `ProblemAssumption` (see above; it
is read off the status pages, the exceptions and the limiter's refusal of the services),
and the ranges of the options classes. Two
theorems state a hypothesis of their own, because it is about all addresses, which TLC
cannot enumerate: `PathsAreShown` that paths are lists of hops with at least one probe
(`PathsOfHops(Ips)`), `LiteralsAreJudged` that each text means the address it writes
(`Meant(Ips)`). The instance of the run assumes both of its own addresses, so that TLC
evaluates them there.

Induction over data. The prover cannot instantiate the library's induction theorems, but
it can use a fact about sets: a set of numbers that is not empty has a least member.
`ProofLemmas` states what `Within` does to every list as a set of lengths for which it
fails, and derives a contradiction from the least of them. `FlattenSeq`, of which the
models of printing and parsing are made, is unfolded there in the same way
(`FlatUpTo` to `FlatConcat`): it puts lists of lists end to end.

What TLC alone checks. Liveness (`EveryCallEnds`, `OnlyABodyHoldsUp`,
`QuietClientForgotten`, `RunEnds`, `StopEnds`, `AbortEnds`, `NeverLockedOut`): the prover has no fairness reasoning. Every
invariant and every action property of a run has a theorem.
The runs check pairs of statements that belong together as one property (`NothingLeaks`,
`BookedHonestly`, `SamplingKept`, `OneAccount`, `FeedTrue`, `NothingStale`,
`RestrictedUntouched`, `WaitShown`); each half has a theorem of its own, and the slips
named in `PROJECT.json` break the one and the other.
Some statements are proved and in no run: the type invariants,
`BoundedLine`, `NoLostWakeup`, `BoundedPerClient`, `KilledWithCause`, `OneFillAtATime`,
`Frugality`, `NoKeyLeftBehind` and `RotationsAlternate` follow from, or are parts of, the
inductive invariants and are worth reading by themselves.

## 5. Where the code and the texts differ

* `EveryFailureIsCounted`: a call cancelled while it waits for a slot is in no failure
  counter, although `DiagnosticsMetrics.cs:14` describes the counter as the requests
  that did not complete successfully.
* `CorrelatableWithinDay`: `docs/architecture.md:98` says that entries are correlatable
  within a day. Calls that overlap at midnight can give the new day two keys.
* `UpIsMostRecent`: `DiagnosticsMetrics.cs:48` describes the gauge as whether the most
  recent connectivity probe succeeded. It is set from the last point after downsampling,
  an average over several samples once there are more than 288, and stays up while any
  of them succeeded. (It never reports a family down whose last probe succeeded, which
  is part of `SnapshotCoherent`.)

Five observations that no property states.

* A tool that exits before its reader reaches the cap is not killed, and its truncated
  output is returned with exit code 0, where `docs/configuration.md:76` says that
  exceeding the cap kills the process.
* Of a pair of optional traffic queries one may fail: the source is then marked
  unavailable and still carries the other's series; the page looks at the mark.
* Where the browser's storage can be read but takes no more, an older choice of theme
  that is in it outweighs the newer one in the cookie when the page is loaded again;
  `ThemeKept` therefore speaks of choices that were taken by a store the next page reads
  (`Taken`).
* `docs/api.md:27` lists `validation_failed` with status 400 alone, while
  `ProblemExceptionHandler.cs:21` and the line after it give it to 404 and 405 as well;
  the page then offers no Retry, and `RetryIsUseful` says so.
* `docs/configuration.md:46` calls the worker's timeout, with a margin of 10 seconds for
  the HTTP client, the API-side wait budget. `DiagnosticsClient.cs:64` returns at the
  headers, where the client's timeout ends, so that a body that stalls is waited for as
  long as the caller waits. In `InfoServices.cs:29` that caller holds the gate of the
  cache and the others are in line behind it: the premise of `OnlyABodyHoldsUp` cannot
  be dropped.

## 6. Not modelled

* Rate limiting. `RateLimitingSetup.cs` builds options for the framework's sliding
  window limiter and writes the refusal; the windows, their segments and their counts
  are the framework's, and a model of them would not be a model of this code.
* `SimulatedProbeRunner` (demonstration data), `ToolsHealthCheck` (whether files
  exist), ping's replies and all figures of the tools, the wording of the rendered text,
  the arithmetic of the charts (`traffic.ts`), the normalisation of AS numbers and
  configured addresses: pure functions of one value with unit tests of their own.
* Of what is modelled: the monitor's figures other than status, uptime and the up gauge,
  and the sign of `WindowSeconds`, which depends on when `Snapshot` read the clock; the
  settings that disable the monitor, the feed and the discovery; names with several
  trailing dots on the page's side, which are left to the API; series without an
  `instance` label, and nodes whose sort keys coincide; of the addresses an answer may
  show, the values of DNS records, which are not redacted and which `NothingInternal`
  does not speak of (it is about targets and hops).
* Three numeric edges: the cap of a tool's output counts bytes and is then used as a
  number of characters (the tools print ASCII, and the model counts reads); `Snapshot`
  reads the clock before the lock, so that `WindowSeconds` may turn negative; and the
  limiter's segments, see above.
* Charts and tables, static pages and wording, the two tabs of a result, the opening of
  the theme menu, the parsing of a prefix; metric and option declarations, middleware
  and configuration, Helm, CI and scripts.
* Out of the model checker's reach: real durations, the regular expressions of the
  parsers, cryptography.

# A formal model of annoying-aup-filter

TLA+ modules, TLC configurations and TLAPS proofs for the proxy in `src/`: a
local HTTP proxy between Claude Code and its API that captures requests, can
pause, edit or drop them, rewrites them by rules, and retries an answer that
upstream refused with another model. Line numbers below are of the Go and
JavaScript sources.

## 1. The system

| Part | State it keeps | Operations |
|---|---|---|
| capture ring, `internal/store` | `captures` map and `order` list under `mu`, bound `max` | `Add`, `Update`, `Mutate`, `Clear`, `Snapshot`, `SnapshotAllSummaries` |
| event fan-out, `internal/store` and `GET /events` | `subs`, one channel of 128 events per page, under `subsMu` | `Subscribe`, `Unsubscribe`, `Broadcast`, the loop of `handleEvents` |
| intercept gate, `internal/intercept` | toggle (atomic), `pending` map of channels under `mu` | `Await`, `Decide`, `Set`, `Load`, `save` |
| proxy, `internal/proxy` | none of its own; one goroutine per request | `ServeHTTP`, `forward`, `streamPassthrough`, `streamWithFallback`, `forwardWithID` |
| fallback policy, `internal/fallback` | toggle (atomic), model under `mu` | `Set`, `SetModel`, `Load`, `save` |
| rules, `internal/rules` | rule list under `mu` | `Replace`, `ApplyRequest`, `ApplyResponseHeaders`, `ApplyResponseBody` |
| persistence, `internal/persist` | three files | `WriteJSON` (temporary file, then rename), `ReadJSON` |
| start and shutdown, `main.go` | two servers, one deadline of 5 s | load the files, serve, `Shutdown` of the proxy, then of the UI |
| admin API, `internal/api` | none | forward, drop, replay, clear, the toggles, the rules, events |
| web UI, `app.js` | captures and their order, `fullyLoaded`, the intercept dialog and its queue | events, detail fetches, the dialog and its three buttons |

They interact like this. A request enters `ServeHTTP`, which adds a capture,
announces it, applies the request rules and, with intercept mode on, blocks in
`Await` until an admin call `Decide`s or the client leaves. `forward` then
talks to upstream; with the fallback on, the head of a stream is buffered
until `classifyStreamPrefix` knows whether it is a refusal, which leads to one
retry under a new capture. Every change of a capture is an `Update` or
`Mutate` and, *in a separate call*, a `Broadcast` of its snapshot to the
pages. Admin calls run in goroutines of their own and meet the requests only
through the ring, the gate and the toggles.

Behaviours that are hard to get right here:

- **Concurrency.** `Decide` looks its channel up under the lock and sends
  after it; `Await` registers, selects and deregisters in three steps; events
  follow changes in a step of their own; a page subscribes, reads the state
  and then reads events while the state moves on; toggles are stored and
  written to a file without a common lock.
- **Failure.** Upstream can fail in any phase: before the headers, while
  peeking, while draining a refusal, in the retry, after the commit. Clients
  disconnect at any time. Pages vanish without a word. File writes fail and
  the process may die between two of them.
- **Order and boundaries.** What was buffered must precede what is streamed;
  a verdict depends on how bytes fall into reads; the ring evicts at a limit
  and may be cleared while requests are paused or streaming.
- **Time.** There is no timeout upstream (`client.Timeout` is 0) and none on
  a pause: only the client's disconnect ends them. Pages have a write deadline
  and a heartbeat. The shutdowns of both servers share one deadline, which a
  stream or an open page uses up.
- **Two sides of one queue.** The page keeps a dialog and a queue of paused
  requests, which are decided elsewhere, cancelled, cleared, and announced
  again by a snapshot while its own posts are on their way.

What makes each part correct:

- ring: exactly the newest captures are kept, and map and list agree;
- gate: the first accepted decision is the one that counts, nothing leaks, a
  decided or abandoned pause ends;
- request side: a dropped request is never sent, what is sent is what was
  decided, and capture and events say so;
- exchange: one status line and one attempt's body per client, complete and
  in order; at most one retry, justified by a refusal; captures end in a
  status that is true and stays;
- configuration: a restart, planned or not, finds what was asked for, and a
  signal ends the process;
- console: a paused request the page was told of is in the dialog or queued, or
  was lost in one of five known ways;
- engine: rules do not get in each other's way, a replay sends the same, a
  refusal is recognised however its bytes arrive, a retry is acceptable;
- events: no change falls between snapshot and events, a dropped event leaves
  only its own capture behind, no page can block or crash the proxy, and dead
  pages are released.

`PROJECT.json` lists the hazards one by one, at their lines.

## 2. The modules

    Intercept ~~> OneShot       Intercept <--- InterceptProofs
    Ring <--- Store <--- StoreProofs
    Ring, Intercept <--- Gate <--- MCGate   Gate, InterceptProofs <--- GateProofs
    Ring <--- Exchange ~~> Answer           Exchange <--- ExchangeProofs
    Config <--- ConfigProofs    Events <--- EventsProofs
    Console <--- ConsoleProofs  Engine <--- MCEngine <--- EngineProofs

`<---` is EXTENDS or INSTANCE, `~~>` a refinement checked as a property.

| Module | Code | Content |
|---|---|---|
| `Ring` | `store.go` 69-205 | values of the ring and one operator per method that changes it |
| `Store` | same | the ring under arbitrary calls, id collisions included |
| `Intercept` | `intercept.go` 89-122 | `Await` and `Decide`, step by step |
| `OneShot` | the promise of the gate | abstract specification of one pause |
| `Gate` | `proxy.go` 68-164, `api.go` 103-145, 236-244 | a request from its arrival to `forward`, with the admin calls that meet it |
| `Exchange` | `proxy.go` 166-544, 616-659 | a request from `forward` to the end of its answer |
| `Answer` | the promise to the client | abstract specification of one answer |
| `Config` | `fallback.go`, `intercept.go` 37-85, `rules.go` 86-110, `persist.go`, `api.go` 147-294, `main.go` 52-148 | settings, files, crash, shutdown and restart |
| `Events` | `store.go` 207-243, `api.go` 265-335, `app.js` 558-640, 784-812 | how a page comes to know the captures |
| `Console` | `app.js` 558-640, 784-812, 1079-1157, `api.go` 66-145, `proxy.go` 95-160, `store.go` 88-98, 233-243 | the page's dialog and queue of paused requests |
| `Engine`, `MCEngine` | `rules.go` 112-206, `proxy.go` 184-195, 349-383, 520-614, 661-683, `api.go` 343-382 | the functions of bytes, and their bounded inputs |
| `StoreProofs`, `InterceptProofs`, `GateProofs`, `ExchangeProofs`, `EventsProofs`, `ConfigProofs`, `ConsoleProofs`, `EngineProofs` | | theorems and proofs |

Conventions that all modules share:

- **One step per stretch of code between blocking points.** A method that
  holds a mutex from its first access to its last is one step. A step ends
  where the goroutine leaves the lock, blocks, or is about to `Broadcast`.
- **Update, then Broadcast.** The step that changes a capture leaves the
  snapshot in `outbox`; `Publish` (in `Events`: `StartBroadcast`, `Offer`,
  `EndBroadcast`) is the broadcast. Other goroutines run in between.
- **History variables** (`log`, `accepted`, `received`, `offered`,
  `produced`, `acked`, `wanted`, `lost`, `hidden`, `late`, `owed`, `hasty`) record
  what happened and guard nothing but the bounds.
- Mutated forms of an operator stand right before it. No specification uses
  them; each shows that a property notices the bug its comment names.

### Ring and Store

A ring is `[captures, order]`. `Add` appends and pops the oldest while the
list is too long; popping deletes the id from the map, even when the same id
was added again later, as the Go code does. `MaxCaptures` is any natural
number, 0 included. (A negative `-max-captures` makes the loop of `Add` index
an empty slice; the model assumes a natural number.) `Store` lets ids collide,
which 6 random bytes do not exclude; the composed modules use distinct ids.

### Intercept and OneShot

`await[r]` follows a request through `Await`, `call[o]` an admin call between
`Decide`'s lookup and its send. A buffered channel of capacity 1 is a sequence
of length at most 1. When both cases of the select are ready either is taken.
`OneShot` says what the proxy relies on: one outcome per pause, the first
accepted decision, or a cancellation, which only a request whose client has gone
can have. The refinement maps `first` to the head of `accepted`, `gone` to the
cancelled context (`ctxDone`), and reveals the outcome when the select has
chosen.

### Gate

`Gate` composes `Ring`, `Intercept` and `ServeHTTP`. A message is a function
from url, headers and body to tokens; rules may rewrite any subset of
`RuleTarget` (they may be replaced at any moment by another call); `Merge` is
the code's treatment of omitted fields of a forward: url and headers stay, the
body is always replaced. The flag `modified` is computed by the admin call
against the capture it reads (`PostForward`) and applied much later
(`Released`). The toggle may have either value each time it is read, which
covers every interleaving with `POST /admin/intercept`. A replay is an arrival
whose context also ends after ten minutes.

### Exchange and Answer

A response body is a sequence of tokens, one per `Read`; `kind` says which
markers of `classifyStreamPrefix` its bytes contain. Upstream chooses status,
content type, tokens, their number, and EOF or an error after any token or
with it. `Verdict` is the classifier with the limit of the peek window
(`MaxPeek`). `shape` is what the code asks of a request before a retry: method
and path (`"message"`, `"opaque"`), and whether its body is JSON that
`PrepareFallback` can rewrite (`"message"`). `Answer` is the client's view.

Merged or left out: `NewRequestWithContext` fails with 500, `Do` with 502, and
both are `SendFails`; the second `url.Parse` of `forwardWithID` cannot fail
because the first did not; response headers and their rules; write errors to
the client, which the code logs and ignores.

### Config

`mem` is the configuration in force, `disk` the three files. An admin call is
a sequence of assignments, each followed by reading the fields to be saved and by
the write, in the code's order: `save` reads the model before the toggle.
`WriteJSON` changes the file in one step, its rename, or fails, which callers
only log.

How pages learn of a setting is not modelled, and nothing is claimed about it.
Its events (api.go 181, 205, 230) travel like those of captures, so `Events` shows
how they go: they are dropped at a full channel, and a page that missed one is
wrong about the toggle until it reconnects. The page that made the call also
takes the new value from the reply (app.js 1004, 1016, 1273). For `Config` a page
is a connection that keeps the UI's Shutdown waiting (`page`).

`stage` follows `main`: after the signal the proxy is shut down while the UI
still takes calls, then the UI, both within one deadline (`expired`). A
Shutdown returns when its server is idle, and an open event stream never is.
`Crash` (a kill, a fatal log, a panic) may come at any step and, like the end
of `main`, loses everything but `disk`; `Restart` loads the files.

The model is about a process that has paths (`-rules-file` or the default
file); without them nothing is saved. A rename is taken to be durable: the code
does not `fsync`, and power loss is outside the model. Rules that do not
compile are rejected before anything changes and are left out.

### Events

A capture is a version number that its goroutine increases; an event carries
the whole capture as of its change, or null if the ring has lost it. The model
has the broadcast loop, the channel with its limit, `handleEvents` from
subscription to the deferred `Unsubscribe`, and the page: snapshot, events,
detail fetches. `subsMu` is explicit: `Free` is what `Subscribe` and
`Unsubscribe` wait for, while broadcasts share it. Chunks of a stream, which
are deltas, are in `Exchange` (`Told`) and not here. A page has at most one
detail fetch under way. `lost` names the goroutines whose last event was dropped
for a page: such a capture is shown as it was, until the next event of it gets
through or the page reconnects, and every other capture must be right all the
same.

### Console

`dialog` is `interceptModalFor`, `waitq` the queue, `view` the status the page
holds of each request in `state.captures`, `loaded` those it holds with their
body (`fullyLoaded`); a snapshot brings summaries, without. Three things write
`view`, as in the code: events, snapshots, and the answer of a detail fetch
(`SelectCapture`, `ServeDetail`, `Detail`), which puts in what the server read,
however old it is by then. Only `capture_intercepted` opens the dialog or queues,
and `closeInterceptModal` skips queued requests that `view` does not call paused.
A button posts for the request shown, and the code after its `await` closes
whichever dialog is open by then (`Continue`); a refused drop leaves it open, a
refused forward does not. `Serve` is the server's side of a post: 404 for a
forward whose capture is gone, 409 when nothing is pending, and the window in
which a decision is accepted for a request that is already over.

Around the page, other pages and curl decide (`OtherDecides`), clients leave
(`EndPause`), captures are cleared or evicted, an event that finds the page's
channel full is dropped (`Send`), the connection breaks, with all that was on its
way, and the page may be loaded anew. The promise of `Gate` and `Intercept` is
condensed to one variable, `pause`. Left out: a second question about a capture
while the first is open (a snapshot or a clear forgets the first, and the page may
ask again), and the update of a forward that still reads intercepted (proxy.go
160), which changes nothing the dialog depends on.

`owed` remembers the pauses announced to the page. `NeverForgotten` says that each
of them that still waits is in the dialog or queued, and takes a pause out of
`owed` in five cases only, each in the action that causes it: a reload; the
loss of its capture from the list (a clear, or a snapshot after an eviction);
details read before the interception that arrive after it; a refused forward,
which closes the dialog; a button pressed before the last reply came (`hasty`),
which closes the dialog of the next request. TLC violates the property when any
one of the five is taken away. A pause whose event was dropped or lost was never
told to the page, and gets no dialog.

### Engine and MCEngine

Pure functions, so that a state of `MCEngine` is one input and the properties
relate its results to reference definitions. A text is a sequence of symbols;
a regular expression is a word, anchored or not (matching leftmost and without
overlap, as `ReplaceAll` does); a message maps its parts to lists of values.
`Apply` is the loop of the rule engine with its skips, `Peek` the loop of
`streamWithFallback` over reads that may tear a marker apart, `PrepareFallback`
the rewriting of model, effort and beta header, `Outgoing` the copy of headers
for upstream and `Replayed` what a replay takes from the capture. The loops are
recursive functions, so that they can be proved about: over the positions of a
text (`RewrittenFrom`), over the rules (`Rounds`) and over the tokens of a
header (`KeptUpTo`).

## 3. The runs

| Run | Instance | Question |
|---|---|---|
| `store` | 4 ids, 2 contents, ring of 2, 4 Adds between Clears | does any sequence of calls, with colliding ids, keep the newest captures and nothing else? |
| `intercept` | 2 requests, 2 operators, 2 decisions | do racing decisions and disconnects respect `OneShot`, leak nothing and end every pause? |
| `gate` | 1 request, 2 operators, 3 edits, a body rule, ring of 1 | does the host send what was decided, and do capture and events say so? |
| `exchange` | 1 request, 3 kinds, window 2, 3 + 2 tokens, ring of 2 | is the answer whole, single and truthfully recorded whatever upstream does? |
| `exchange_rules` | as above, 2 + 2 tokens, tokens that mix | *violated*: does every chunk go through the rules? |
| `config` | 1 operator, 2 models, 2 rule lists, a page | does a crash, a shutdown or a restart find what was asked for? |
| `config_race` | 2 operators | *violated*: the same, for overlapping calls |
| `events` | 1 page, 1 capture, 2 versions, fetches, channel of 2 | does a page end up current but for what it lost, and does no page harm the proxy? |
| `events_detail` | 1 page, 2 captures, fetches | *violated*: is a capture that counts as loaded current? |
| `console` | 2 requests, 2 posts, 2 events, a fetch, a lost connection or a double click | is a pause the page was told of forgotten in the five known ways only, and does the queue move? |
| `console_unchanged` | 1 request | *violated*: does "Forward unchanged" change nothing? |
| `engine` | lists of 2 rules, texts of 3, streams of 5 with every cut | do the functions of bytes agree with their reference definitions? |

What the properties say, beyond one type invariant per module:

- `KeepsNewest`, `MapMatchesList` (Store): eviction takes the oldest and
  nothing else; the map holds nothing the list has forgotten, and without
  collisions every listed id can be read.
- `FirstAcceptedWins`, `PendingIsInside`, `PromiseKept` (Intercept): a request
  follows its first accepted decision, nothing stays in the map, and the
  promise of `OneShot`, its liveness included, is kept.
- `DropHolds`, `SentAsDecided`, `CaptureShowsSent`, `PublishedIsCurrent`,
  `DecidedRequestsFinish` (Gate): relate what was decided, what left the host,
  what the capture shows and what was announced.
- `FaithfulStream`, `RetryIsJustified`, `CompletedIsWhole`,
  `PublishedIsCurrent`, `OneAnswerKept`, `TerminalStays`, `GoneEnds`
  (Exchange): relate what upstream produced, what the client got and what
  captures and events tell. `RetryIsJustified` includes that the two captures
  of a retry name each other.
- `SettledSurvives`, `CrashIsOldOrNew`, `PlannedExitKeepsAll`, `SignalEnds`
  (Config): relate memory and files, with a crash at any step; a planned exit
  that did not run out of time cuts no admin call; a signal ends the process
  whatever streams and pages do. The files are judged field by field and only
  where the last write succeeded: the new toggle with the old model is allowed
  between the two saves of one call, the reverse is not.
- `OpenWhileOffered`, `ViewSettles`, `BroadcastEnds`, `DeadPageReleased`
  (Events): relate broadcasts, subscriptions and views. `ViewSettles` excepts,
  capture by capture, those whose last event was dropped, those added before a
  Clear announced itself, and those a late detail answer put back.
- `NeverForgotten`, `QueueMoves` (Console): what may become of a pause the page
  was told of, and that no request that is over blocks the ones behind it.
- `PartsAreIndependent`, `ReplaySendsTheSame`, `CutsOnlyHideMatches`,
  `EarlyRefusalIsSeen`, `RetryIsAcceptable` (Engine): each compares a function
  with what it is for, over all inputs within the bounds.

### Bounds, and why they suffice

- `MaxLog` (Store): Adds between two Clears, more than the ring holds, so
  that every id is evicted and one is added again after its eviction.
- `MaxCaptures`: 1 in `gate`, where the one capture also disappears by
  `Clear`. 2 in `exchange`, so that both captures of a retry may be there;
  either may be gone after a `Clear`.
- `MaxPeek`, `MaxChunks`, `MaxRetried` (Exchange): a window of 2 with 3 tokens
  reaches each verdict with the window open, full and exceeded, a refusal with
  a rest to drain and a commit with a rest to pass. One request: exchanges
  share only the ring, which `Store` puts under contention.
- `MaxVersion`, `Capacity` (Events): 2 changes and any number of Clears
  against a channel of 2, so that it overflows, and so that a detail fetch can
  be overtaken.
- `MaxFailed` (Config): one file at a time is behind; a failed write that the
  next one repairs, and a second file that is written meanwhile, both occur.
  With one operator the model is exact for calls that follow one another,
  which is what the properties promise.
- `MaxTrouble`, `MaxPosts`, `MaxEvents`, `MaxFetches` (Console): two requests, so
  that one is shown and one queues; one lost connection or one double click,
  which both open the gaps the property names; two posts under way, two events,
  so that the channel overflows, and one fetch, which can be overtaken. The
  five exceptions all occur within these bounds. Longer queues are covered by the
  proof.
- `MaxText`, `MaxStream`, `MaxRules`, `MaxPeek` (MCEngine): two rules show how
  one acts on what the other left; texts of 3 hold overlapping matches of words
  of 2 on both sides of a cut; a window of 3 and streams of 5 put a marker of 2
  before, across and after the limit, under every division into reads.

Deadlock is not checked in runs of specifications that may stop: when all
requests are served and no client or operator acts.

### Fairness

- Goroutines run: weak fairness of what a goroutine does by itself (`Serve`,
  `Admin`, `DecideStep`, the select once a case is ready, `Handle`, `Send`).
- `net/http`: a request's context is cancelled when its client disconnects,
  and `Do` and `Read` return then (`Abort` in Exchange). Upstream itself is
  assumed to do nothing at all.
- Pages: the ticker ticks and write deadlines expire, so a write to a dead
  peer fails (weak fairness of `Handle`).
- `Unsubscribe` is strongly fair: `sync.RWMutex` keeps new readers out while a
  writer waits, so an endless series of broadcasts cannot starve it.
- `Config`: the deadline expires and `main` goes on after it (`Expire`,
  `ProxyDrained`, `Exit`). Nothing is assumed of handlers, requests or pages.
- `Console`: posts are answered and their callbacks run; the operator presses
  Forward now and then (strong fairness of `ForwardModified`), without which no
  queue moves. Nothing else is assumed of operators, clients or browsers.

### Where code and documents disagree

1. `exchange_rules`: chunks that were buffered while peeking are sent raw
   (proxy.go 437), although streaming bodies "are processed per chunk"
   (rules.go 4).
2. `config_race`: overlapping calls of a toggle can leave the older value in
   the file, although the configuration "survives a restart" (main.go 80-81).
3. `events_detail`: a detail fetch that was overtaken by live events replaces
   the newer capture by the older one, although what live events brought "is
   already complete" (app.js 18-22).
4. `console_unchanged`: after a reconnect the page holds summaries, and the
   button "Forward unchanged" (index.html 128) of a dialog that is still open
   sends the request without its body.

Seen while modelling, modelled as it is, and not a run of its own:

- `Decide` returns true, and the API 204, for a second decision that nobody
  reads (intercept.go 107-118). It can happen once per request
  (`AcceptedTwiceAtMost`).
- Forward needs the capture (api.go 116): a paused request that was evicted or
  cleared can only be dropped.
- The page forgets pauses that wait (the five cases of `NeverForgotten`): a
  refused forward closes the dialog all the same (app.js 1121-1139), a second
  press closes the dialog of the next request, late details make the queue skip a
  paused one (app.js 797-801, 1109). They can still be decided by other pages or
  curl, or end with their client.
- An event dropped at a full channel is not made good before a reconnect
  (store.go 237-241): a page may miss a pause or show an old setting.
- Content and refusal in one `Read` lead to a retry (proxy.go 528), although a
  refusal is replaced when it arrives "before any content is generated"
  (fallback.go 2-3). `RetryIsJustified` and `EarlyRefusalIsSeen` are stated for
  what the code promises reliably.
- A rule with an anchor matches at the start of every chunk, so that more than
  matches across a boundary differs (rules.go 4-5). `CutsOnlyHideMatches` is
  about expressions without anchors.
- An omitted body keeps the original in a replay (api.go 343-382) and empties
  it in a forward.
- A body that is the JSON value `null` makes `PrepareFallback` panic
  (proxy.go 564).
- The link to a retry is stored without an event of its own (proxy.go 415).

## 4. The proofs

All theorems hold for every value of the constants that satisfies the named
assumptions.

`StoreProofs` proves for every bound, every set of ids and contents and every
sequence of calls that the ring is type-correct (`TypeCorrect`, which includes
its bound), keeps the newest (`RingKeepsNewest`), and that map and list match
(`RingMapMatchesList`). Assumptions: `MaxCaptures` and `MaxLog` are naturals.
The inductive invariant is the conjunction of the three: that the map holds no
orphan after an eviction needs `KeepsNewest` to know that list and history
have the same end, and that a listed id is stored needs injectivity of the
history, so that an evicted id is not listed a second time. Lemmas about
`SubSeq` of an appended sequence carry the arithmetic.

`InterceptProofs` proves for any sets of requests, operators and decisions:
type correctness, `NoLeakedEntry`, `FirstWins`, `AcceptedTwiceAtMost`, and
that every behaviour satisfies the safety part of `OneShot` under the mapping
of section 2 (`GateRefinesOneShot`). Assumption: `NoDecision` is not a
decision. `FirstAcceptedWins` is not inductive: the invariant adds that
before the receive the channel holds exactly what was accepted, that a call
which holds a channel belongs to a request that has entered `Await`, and that
after the receive `got` is the head of `accepted` and at most one more
decision waits in the channel.

`GateProofs` proves all safety properties of `Gate`. It instantiates
`InterceptProofs`: every step of `Gate` is a step of `Intercept` or leaves its
variables alone (`GateStep`), so that the gate's invariant holds in `Gate`.
For what is sent (`DroppedStays`, `DecisionIsSent`), `Progress` follows the
goroutine: before the toggle it is outside `Await` and has sent nothing; after
`Await` a message on its way to `forward` is the offered one, edited by what
`Await` returned, which was neither nothing nor a drop. The theorems then need
that `got` is the head of `accepted`. For what is shown (`TypeCorrect`,
`ShownAsSent`, `PublishedCurrent`), `Kept` relates a stored capture to the
goroutine that owns it: which message it shows, and that the event in hand,
once out, tells what the store holds. `Held` is about the flag `modified`,
which an admin call computes long before it is applied: a decision on its way
(being posted, in the channel or received) that is not marked either carries
what arrived, or its capture is marked already or gone. Without `Held` a rule
that rewrites the capture between the comparison and the release would refute
`CaptureShowsSent`. Assumptions: `GateAssumption`, `DecisionAssumption`, and
`NoneAssumption` (no capture is `None`). `GateAssumption` says that messages are
functions of the fields: it once gave only their domain, and the proof of the
types showed that this is not enough.

`ExchangeProofs` proves all safety properties of `Exchange`, for any requests,
kinds of tokens, rules, window and size of the ring: types, the stream
(`StreamIsFaithful`), the retry (`RetryJustified`), the record
(`CompletedWhole`, `EndedStays`), the events (`PublishedCurrent`), and the
refinement (`ExchangeRefinesAnswer`): every step of `Exchange` is a step of
`Answer` or leaves the client's view alone. None of them is inductive alone.
The invariant ties three things to the place of the goroutine: `Data`, what it
has read and sent (until the commit nothing was sent; after it what was read is
what was sent; a second attempt has a refusal behind it); `Standing`, the status
and the links of each stored capture (not final while the goroutine works on
it, `aup_refused` and linked when a later attempt exists); and `Shown` with
`OwnEvent`, that `published` and the one event in hand together tell the
capture. The proof has one lemma per stretch of the handler; what a step leaves
to *other* requests is a lemma of its own, as they meet in the ring only. Of the
ring, this proof and that of `Gate` need no more than that the list fits, that
what an `Add` or `Update` does not evict or name is as it was, and that what it
names is what was given (`AddList`, `AddStored`, `UpdateNamed`), and so hold
whatever other requests evict.
Assumptions: `ExchangeAssumption`, `NoneAssumption` (`None` is neither an
attempt nor a capture).

`EventsProofs` proves type correctness, which includes that no channel exceeds
its capacity, `NoSendOnClosed` and `ViewComplete`. The invariant adds that a loop
of `Broadcast` has an event to offer (`HasEvent`), without which the type of the
queues is not inductive. `OpenWhileOffered` rests on `Free`: a step that closes
a channel waits until no loop is under way, and a loop starts with the
subscribers of that moment. For `ViewSettles`, `Current` follows the last change
of a capture from the store to the page: as long as a page is connected and the
event of that change was not dropped, it has not been offered to it (`Unsent`), or
the last event in its channel that concerns the capture carries it (`Last`), or
nothing in the channel concerns it and the snapshot about to be written, or the
view, has it. It begins to hold because `Subscribe` comes first: a page starts
with an empty channel (`Channel`), and the snapshot that is read then has every
change whose event the page was not there for. A detail fetch is harmless up to
`late`, because what it brings was a version of some earlier moment (`Fetched`).
Assumption: `EventsAssumption`.

`ConsoleProofs` proves type correctness and `NeverForgotten` (`PausesKept`), for
any number of requests, posts, fetches and events. The invariant adds what the
queue relies on when it skips a request. What is on its way is true when it arrives
(`Truth`): an event, a snapshot or details call a pause over only if it is, and a
pause that is over stays so; a snapshot that calls it pending, or a
`capture_started`, does not come after the page was told, because events keep
their order (`Before`). So the page has a request it is owed as paused, or over
when it is (`Seen`), and the queue skips it for no other reason. An accepted post has
ended its pause (`Accepted`). For an operator who waits for each reply there is at
most one post and it is for the dialog (`Calm`): the code after its `await` closes
whichever dialog is open, and `Calm` says it is the right one. One lemma per
action. Assumption: `ConsoleAssumption`, in which `MaxEvents` is not 0: a
reconnect queues a snapshot, and with room for no event the type invariant is
false, as the attempt to prove it showed.

`ConfigProofs` proves `Alone => (Spec => []P)` for type correctness and the
three safety properties of `Config`, for any models and rule lists. `Alone` says
that there is at most one operator, so that admin calls follow one another: the
run that lets two calls overlap shows that the hypothesis is needed. The
invariant says how far the call in hand is. Between calls the files, memory and
both histories agree (`InForce`). During a call that sets one field
(`One`) the files hold what was in force before, until the write, and then what
the call wants; a call that sets the toggle and the model (`Two`) goes through a
third configuration, `Half`, in which only the toggle is new, and this is what
`CrashIsOldOrNew` is about. `Fetched` says that what a call has read is still in
force, without which the write could bring back an old value. A failed write
changes only which fields are promised (`Safe`), so `Kept` asks nothing of
them. The process may end or be killed at any step: what the files then restore
follows from `UpIsOldOrNew`, and nothing changes them until the restart.
Assumptions: `ConfigAssumption`, `NoneAssumption` (a missing file is not a
content).

`EngineProofs` proves the five properties of `MCEngine`. The bounds of its
inputs are constants, so the theorems are about rule lists, texts, streams,
reads and header values of any length. What a recursive function computes for
every input needs induction over data; the induction theorems of the library
take an operator as a parameter, which the provers cannot instantiate, so the
module derives its own, in which the property is given as a *set* of naturals
(`FirstPosition` from the well-foundedness of `<`, then `Inductive` and, from the
end of a text backwards, `Downwards`). That a recursive definition defines a
function at all is proved first (`RoundsExist`, `FromExists`, `KeptExist`,
`FlatExist`); its equations follow, and everything else uses the equations only.

- `PartsIndependent`: after any number of rounds a part is what the rules for
  that part alone make of it (`PartsAlone`), because a round rewrites the part of
  its rule and nothing else (`RoundParts`).
- `ReplayIsFaithful`: the flag tells of every change (`FlagTells`), so what is
  captured is what was sent (`CapturedIsSent`), and `Replayed` takes all of it.
- `RefusalIsSeen`: `Peek` is a minimum over a set of cuts. No earlier cut has a
  verdict, since a marker is in a prefix just when it ends there
  (`MarkedPrefix`); no induction is needed.
- `ChunksRewritten`: a plain rule whose matches do not lie across a cut rewrites
  the two texts apart as it does together (`Uncut`): behind the cut it makes the
  same from every position on (`RewritesBehind`), before it the same and then what
  comes behind (`RewritesBefore`). Rule by rule, the chunks stay the halves of
  the whole (`ChunksJoin`).
- `RetryAcceptable`: the loop over the tokens of two values is the loop over their
  concatenation (`KeptJoined`), so the tokens that are left are, in order, all but
  those removed (`TokensKept`), and no spelling of the header escapes.

Assumption: `EngineAssumption` (no verdict is a value of its own; the window is a
natural number).

Every safety and action property that a passing run checks is proved. Only
model-checked is liveness, which the prover does not reach: the fairness of
`OneShot` in `PromiseKept`, `DecidedRequestsFinish`, `GoneEnds`, `BroadcastEnds`,
`DeadPageReleased`, `SignalEnds`, `QueueMoves`.

## 5. Not modelled

- Rendering, search, filtering and the editors of the UI; the rules and replay
  dialogs, which post what their fields hold.
- The syntax of regular expressions, JSON and urls, hop-by-hop headers beyond
  `Skipped`, and url joining: pure functions of bytes, abstracted in `Engine`.
- Flag parsing, listening and the search for the rules file (`main.go`).
- How settings reach the pages (`Config` in section 2).
- Chunk deltas that a detail fetch may already hold (app.js 629): `Events` has
  the fetches and `Exchange` the deltas, for a page without fetches.
- A proxy client that keeps its connection but does not read: `Write` then
  blocks in TCP, for which the code has no deadline.
- Data races at the level of the Go memory model.

## 6. Plan

Done, in order of importance: ring and gate, the request side, the exchange,
configuration with shutdown, events, the console, the functions of bytes; and
the proofs of all safety of all of them. Next:

1. That `Verdict` of `Exchange` is `Peek` of the bytes its tokens stand for, so
   that `RefusalIsSeen` carries over to the exchange.
2. `System`: `Gate` followed by `Exchange`, for what spans both: the retry
   goes out without rules or gate although intercept mode is to "pause every
   request" (README.md 84).

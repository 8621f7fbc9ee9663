# Verification of the nvoken SDKs

TLA+ models of the parts of the nvoken client SDKs in which several actors, lost
messages and retries meet, checked with TLC on small instances and, for their
safety, proved with TLAPS for every instance.

nvoken runs Turns of AI agents. The service is not in this repository; the
repository holds four SDKs (Python, TypeScript, Go, Rust), a Go command-line client,
and the documents of the protocol. What all four do the same way (streams, admissions,
deliveries) is modelled after the Python SDK, whose code is the shortest statement of
it; what only one of them has is modelled after that one: the conversation controller and
its history window of the TypeScript SDK, and the shared tool results of the Go SDK. What the service does is modelled from
`docs/reference/streaming-protocol.md`, `openapi/nvoken.yaml` and the way the SDKs use
it, and is marked external in the source map.

## The system

| Component | State | Operations | Talks to |
|---|---|---|---|
| Stream reducer (`stream.py` `Reducer`) | saved messages, lifecycle changes, previews, latest attempt of each Turn, ended Turns, cursor | `apply` of a `message.delta`, `stream.resync` or `transcript.update` frame, `settled`, `snapshot` | fed by the stream loop, read by the application |
| Stream loop (`_read_stream`, `iter_turn`, `stream_conversation`, `parse_sse`) | where it stands between connections | connect with the reducer's cursor, read frames, wait, connect again, leave when a followed Turn is over | service, reducer |
| Turn handle (`facade.py` `Turn`) | the Turn as last read, the set of handled calls (shared by handles that `bind_tools` makes) | `status`, `result`, `updates`, `interrupt`, `bind_tools`, `_run_host_tools` | service, the application's tool handlers, stream loop |
| Admission (`_Runnable._start`, `Conversation`) | one lock per conversation, an idempotency key per admission | `start`, `run`, `text`, retry with the key of a `TurnTimeoutError` or `TurnAdmissionError` | service, Turn handle |
| Delivery receivers (`callback.py`, `webhook.py`, `signed_delivery.py`) | the application's result store; key table | verify, find, run, record, answer | service (at least once, out of order), application |
| Conversation controller (`conversation-controller.ts`) | authorization, conversation, pending send, claims on the active Turn, stream, actions in flight | send, retry, discard, reconnect, interrupt, start over, destroy; renewal by timer | authority, bounded reducer, service, application |
| Anonymous authority (`AnonymousAuthority`, same file) | access token and timer of a page; the visitor token in the browser's storage; the exchange in flight of a runtime; a web lock | authorize, renew, recover, start over | service, storage, other pages and tabs |
| Bounded reducer (`stream.ts`) and history window | messages, ended Turns, cursor, page token, what is loading | seed, apply, merge, evict; `loadEarlier` | fed by the controller's stream |
| Go tool execution (`agent.go`, `stream.go`) | results and running handlers of a Turn, shared by the handles `BindTools` makes | `Result`, `Updates`, `resolve`, submission | service, the application's handlers |
| TypeScript, Go and Rust clients | as the Python ones | as above | service |
| Command-line client, `authstore` | a credential file with profiles and a default | login, profile changes, last-used stamps | file system, other processes, service |
| Preflights, client tokens, `ask_user` | none | validation and signing of one value | |

What is hard about it:

- A stream is cut anywhere and resumed from an opaque cursor. The durable half
  (messages, changes) must come out as if it had never been cut; the live half
  (previews) may lose text but must not mix workers or outlive its Turn.
- Previews travel on a lossy bus beside the durable frames, so a fragment can be
  overtaken by the end of its Turn, by the message it belongs to, or by the
  fragments of the worker that replaced its own.
- Several coroutines may wait for one Turn and share its handled calls; each `await`
  lets another run, each can be cancelled, and a submission can fail with or
  without having reached the service.
- Admissions, callbacks and webhooks are repeated after timeouts and crashes, and a
  repeat can race the original.
- The controller swaps conversations and grants under operations that are waiting
  for an answer, and pages in several tabs share one visitor by storage that anyone may
  overwrite.
- The history window grows at one end, is extended at the other on request, and is cut
  by a rule that must know which Turns are over.
- Goroutines that resolve one tool call share its handler's result, and each may lose
  its context, or panic, at any point.

What makes each component correct:

- *reducer and loop:* the durable view is a beginning of the transcript, only grows, and
  knows of an end only with all that came before it; a followed end is reported
  in the end; previews are of one attempt, never of an ended Turn, and whole unless
  a connection was missing;
- *Turn handle:* a call is not run twice at a time nor after its result was taken,
  a call that was given up is taken up again, and the guard loses none;
- *admission:* one Turn per admission however often it is retried, one Turn at a time per
  conversation where that is promised;
- *receivers:* one answer per call, no run after a recorded answer, state that
  follows the highest sequence;
- *controller:* nothing of an abandoned conversation reaches the page, no send is
  duplicated or lost silently, the composer is closed while the page's Turn runs and
  opens again, one stream at a time, which comes back;
- *authority:* one visitor per browser, who is not lost, and a grant that is renewed;
- *history window:* nothing missing, no running Turn cut, a bound on memory;
- *Go tool execution:* a handler runs once, its result is the one that is submitted, and
  every wait ends.

## Modules

| Module | What it is |
|---|---|
| `Reducer` | `Reducer` of `stream.py`: one operator per branch of `apply` |
| `TranscriptStream` | EXTENDS `Reducer`: the loop of `_read_stream` and `iter_turn`, a connection, and the service's logs and bus |
| `TranscriptFeed` | the abstract specification: a growing transcript and a reader who is shown beginnings of it |
| `MCTranscriptStream` | instance: one Turn claimed twice |
| `TranscriptStreamProofs` | theorems about the two, the reducer's lemmas first |
| `HostTools` | `Turn.result`, `updates` and `_run_host_tools`, and the service's side of tool results |
| `MCHostTools` | instance: two waiters on one Turn object |
| `HostToolsProofs` | theorems about it |
| `CallbackReceiver` | `CallbackReceiver.handle`, the service's deliveries and the application's store |
| `AnswerOnce` | the abstract specification: at most one answer per call; of deliveries, and of admissions by job |
| `MCCallbackReceiver` | instance: three requests for two calls |
| `CallbackReceiverProofs` | theorems about it |
| `Admission` | `_start`, `Conversation.start` and `run`, and the service's side of admissions |
| `MCAdmission` | instance: three jobs on one Conversation, under two names |
| `AdmissionProofs` | theorems about it |
| `ConversationController` | `ConversationControllerImpl` of the TypeScript SDK, with its authority as one page sees it, and the service's side of it |
| `MCConversationController` | instances: a page of a host, a page of a visitor |
| `ConversationControllerProofs` | theorems about it |
| `AnonymousAuthority` | `AnonymousAuthority` of the TypeScript SDK: the pages of one browser, their storage, flights and lock |
| `MCAnonymousAuthority` | instance: three pages in two tabs |
| `AnonymousAuthorityProofs` | theorems about it |
| `HistoryWindow` | the bounded `Reducer` of `stream.ts` and `loadEarlier` |
| `HistoryWindowProofs` | theorems about it |
| `ToolExecution` | `Result`, `Updates` and `toolExecutionState` of the Go SDK, and the service's side of tool results |
| `MCToolExecution` | instance: two goroutines, two states |
| `ToolExecutionProofs` | theorems about it |

### Stream: `Reducer`, `TranscriptStream`, `TranscriptFeed`

The six variables of `Reducer` are the six attributes of the class. A message is its
sequence and the identity it is saved under; a change is its Turn, its
revision and whether it is terminal; a fragment is a number, so that the text of a
preview is the sequence of fragments it was made of and a hole shows. A cursor is opaque
in the code; here it is what the service reads in it, the number of messages
and of changes it has sent. Empty text stands for a key the dictionary does not hold.
`AppendPreview` and `RefusePreview` are `_append_preview`, `ApplyResync` is the
`stream.resync` branch, `ApplyUpdate` the rest of `apply` with its loops
over messages, then changes, then the cursor.

`TranscriptStream` adds the reader's `phase`, which is the place in the loop:
`connecting` (the request is out), `open` (`async for`), `waiting`
(`asyncio.sleep(retry)`), `returned` (`iter_turn` left) and `failed` (an exception went to
the caller). `Connect` hands `reducer.snapshot().cursor` to the new connection,
`ConnectFails` and `Drop` are the `TimeoutException`/`TransportError` branch and a
clean end, `ConnectRefused` the error status, `ReceiveTruncated` the
`json.loads` of a frame whose rest never comes. `ReceivePage` and
`ReceiveLive` fold a frame; the first also leaves when the followed Turn is settled.

The service keeps two append-only logs and an attempt per Turn; `CutPage`
sends the next rows, messages first, a change only with all messages
committed before it; `Publish` sends a fragment, which the bus may lose and then
announces by a resync. A worker that lost its claim goes on publishing. Pages and
live frames wait in two queues of the connection, so that their arrival
interleaves in every order the service can produce.

`TranscriptFeed` knows no connection, cursor, page or preview: it writes a transcript,
ends Turns and shows the reader longer beginnings of the transcript; the reader hears of
an end only when all of that Turn is shown. `TranscriptStream` implements it under
`log <- saved, over <- ended Turns, shown <- messages, known <- terminalTurns`.

### Host tools: `HostTools`

Each waiter is a coroutine in `result` or in `updates`, and `pc` is the `await` it is
suspended at: the status request (`asking`), its answer on the way (`answered`),
the consumer of `updates` (`yielded`), a handler (`handling`), the submission
(`submitting`), the pause (`resting`). Between two awaits a coroutine runs alone, so an
action is what happens from one to the next. `Receive` is the return of `status`,
which stores the Turn in the handle; a waiter in `result` goes on at once, one in
`updates` when its consumer asks (`Resume`), with its own status and the
handle's calls. `Begin` is one turn of the loop over `pending`; `FinishHandler` the return of
a handler, whether it answers or raises; `Accepted`, `Refused`, `TransportFails` and
`Cancel` are the four ways a submission ends, and `Cancel` also ends a waiter
anywhere else, as the timeout of `result` does. A submission given up stays on
its way (`strays`) and may be taken later. `taken` are the calls whose results the service has
taken from a submission, whether or not its sender heard of it; a waiter cancelled while it submits takes
its calls out of `taken` as it takes them out of the guard, which is the exception of `LoneCallNotRepeated`.

A `status()` or `interrupt()` called by the application writes the handle's `_resource`
as a waiter does that is cancelled after `Receive`; they have no action of their own.

### Callback deliveries: `CallbackReceiver`, `AnswerOnce`

Each HTTP request is a coroutine in `handle`, and `pc` is where it is suspended: in `find`
before the store is read (`finding`) and after (`found`), in the tool's handler
(`running`), in `put_if_absent` before the write (`putting`) and after (`put`).
`Arrive` is all that happens before the first `await`: key selection, verification, the
lookup of the tool. The signature is not computed: an honest sender's request fails
verification only where the key is not held (`keys`, which a restart may change) or the
clocks are too far apart (`RefuseTimestamp`). `Raise` is the `except Exception` that
answers 503, `Cancel` the cancellation it does not catch, `Restart` the end of the process.
The store is the application's and survives; a write that was on its way when its request ended
stays on its way (`strays`). A reply carries the request whose run produced
it, so that two runs never produce equal replies.

The service delivers a call once at a time, gives up waiting (`TimeOut`) while the receiver
goes on, and delivers again after a 503, as `docs/reference/callback-receivers.md` tells.
A reply that comes after the service gave up waiting is lost. `AnswerOnce` has two
variables, the answer of each call and what the service knows of it; the model implements
it with `given <- store, taken <- answer`. Without a store the only answer is
the one the service took.

The tool itself may run more than once: a delivery that arrives before the first run is
recorded runs it again, which the documents accept. What the models show is that
only one of the runs is ever answered with, and none starts once one is recorded.

### Admission: `Admission`

A job is something the application wants one Turn for, however many calls that takes. `pc` is
where the call made for it is suspended: waiting for the lock (`locking`), for the answer to
`create_turn` (`admitting`), for the Turn's result (`following`, in `run` only). Between calls a
job is `idle`, or `done` when the application has its Turn, or `lost` when a request may
have been admitted under a key that nobody knows any more: an error status or a
cancellation hands out no key (`Refused`, `Fail`), a timeout and a transport error do
(`AnswerLost`). The application makes another call only for an idle job, and passes the key it
has; a job of `OwnKey` has one from the start and keeps it through a `Restart`. A key is the job
and the number of the call that generated it, or 0, so that generated keys are fresh.

The lock is the queue of an `asyncio.Lock`, first in, first out. Which lock a call takes depends on
how it names the Conversation (`_lock_key`), so two locks may guard one Conversation.
The service admits one active Turn per Conversation and refuses others, as `if_active` defaults to, and
answers a key it has seen with its Turn. A request whose caller has gone may arrive at any time.

The timeout of `run` starts when the lock is held (`facade.py:1166`), so no action lets a
call in `locking` time out.

### Conversation controller: `ConversationController`

`page` is the record of the controller's fields. JavaScript runs one callback at a time, so an
action is what runs from one `await` to the next, and what is suspended in between is in
variables of its own: `requests` for the sends (`admitPending`), `refresh` for
`refreshConversationClaim`, `stopping` for `interrupt`, `page.boots` for `runBootstrap`,
`page.readers` for the stream's loop, `authority.exchange` for `authorize`,
`page.startingOver` for `startOver`. Each continuation looks at the page as it is by then, as the
code does or fails to do. The private methods (`ResetConversation`, `StartStream`, `Bootstrap`,
`HandleError`, `OnStreamUpdate`, ...) are functions from page to page, so that a handler is their
composition in the order of the code: `StartedOver` first lets the ready callback resume, then
stops the stream and resets, as `startOver` does.

A Turn is its number, the page's own ones that of their key; the service's `log` is the
lifecycle of each Conversation, one row when a Turn starts and one when it ends, and the
reducer is how far into it the page has read and from where (`Folded`). `resolveActivity`
is `Active`. A visitor's Conversation has the visitor's number. The authority is here only what one
page sees of it: a token, a timer, an exchange. `Readable` is what the credential may read.

A send that is given up while it is on its way may be admitted later (`late`, `AdmitLate`), even after a retry was
answered. An error "not found" is about the Conversation of its request when that cannot be read; a send may also get one that
names an AgentRevision (`openapi/nvoken.yaml:445`), and an exchange one that names the App, both of which the code takes
for a missing Conversation (`MisleadTo`). `history` has what the properties except: sends that overlapped another
(`overlapped`), sends that a discard, a reset or a start over took off the page (`dropped`), a start over that overtook a
request (`crossed`), and how often the page was misled (`misled`).

Left out: the history window, storage that fails, denials of history, and the texts of errors.

### One browser, one visitor: `AnonymousAuthority`

The state of a page is where its `authorize` stands: `waiting` for a flight, or `deleting` the
stored token in the recovery. `flights` is `anonymousFlights`, one exchange per runtime, with the
pages that wait for it; `Lock` is the web lock, which an exchange holds from the reading of
the stored token to its storing. `overs` are the exchanges of `startOver`, which take neither.
The service mints a visitor under the key of a request without a token, answers a key it has seen
with the same visitor, and may refuse a token (`Revoke`). An answer may be lost; the
exchange repeats the request under its key or gives up (`AskAgain`, `gaveUp`). `history` remembers
what the properties except: a start over, an exchange given up, a page that was destroyed
before it could store what it shares (`orphaned`), a recovery or an exchange that another
store has overtaken (`overtaken`), a token dropped by a page that had shown nothing (`unshown`), a failed
start over (`stopped`).

### The history window: `HistoryWindow`

A Conversation is a log of rows, messages and ends of Turns; `window` is the reducer (messages, ended
Turns, cursor) with the controller's history fields. `Receive` is `apply` of a frame,
`Bounded` is `enforceBounds`: its loop evicts the oldest message with its whole Turn while there are
too many and the Turn is known to be over, and the model says where that loop stops
(`StopsAt`, `GoneWith`). `LoadEarlier`, `Loaded`, `NotLoaded` and `NotFound` are the three parts of
`loadEarlier`; `StartOver` and `NotFound` change the Conversation under a page on its way. `evicted` and
`seed` remember what left the window and where it was read.

### Go tool execution: `ToolExecution`

A goroutine in `Result` or `Updates` is at a place of its own (`pc`), with the calls it
still has to resolve (`todo`) and the results it has (`collected`). `FromCache`, `CallHandler` and
`GiveUp` are the three ways out of the loop in `resolve`: the result is there, nobody runs
the handler, or somebody does and the context ends first; waiting for the channel is none
of them being enabled. `HandlerReturns` stores the result and closes the channel in one critical
section; `HandlerPanics` leaves both as they are, for nothing is deferred. A result is the number
of its handler's run and whether its context had ended under it. States are chosen by
`Start`: a handle and those `BindTools` makes of it share one, a recovered handle has its own. A
follower receives the changes of the Turn from the first on. The service takes the first result of a
call, acknowledges an equal one and answers a changed one with a conflict.

## Runs

| Run | Instance | What it shows |
|---|---|---|
| `turn_stream` | one Turn, two attempts with one message each, three lifecycle changes, two fragments a message, one page and one live frame on their way; fairness | the durable view is a beginning of the transcript, the end comes after the last message, nothing goes back, the stream implements the feed, and the end is learned |
| `live_previews` | the same Turn seen from a Conversation, three fragments, two pages on their way | attempts do not mix, an ended Turn has no preview, text has holes only through a reconnection |
| `host_tools` | two calls, a `result` and an `updates` on one handle, each started twice; fairness | the guard accounts for its calls; a call made alone is not run by two waiters, nor again once the service took its result, unless its sender was cancelled; an open call is served |
| `callbacks` | three requests for a call with up to three attempts and a call of an unknown tool, with and without a store, restarts with any keys; symmetry over requests | all successful answers to a call are the recorded one, a recorded call is not run again, and the endpoint implements `AnswerOnce` |
| `admission` | three jobs and three calls; one job has a stored key, one names the Conversation by its id; restarts; fairness | a job gets one Turn, a call is not refused for a Turn that a call of its own lock follows, the lock is handed on |
| `hosted_page` | a page of a host: two sends, a Turn of another client, the Conversation deleted, one failure, a request given up that arrives late; fairness | the page's own Turn closes the composer; a send of unknown outcome stays on the page until it is discarded, reset away, or dropped because a retry was refused or found the Conversation busy; the page leaves only a Conversation that is gone, unless a not-found of something else misleads it; the composer opens again |
| `visitor_page` | an anonymous page: one send, a second visitor, one failure; fairness | one stream, a start over that overtakes nothing carries nothing over, nothing comes back after `destroy`, a stream comes back with the grant |
| `window` | window of three messages, pages of two, frames of two rows, seven rows of up to three Turns, a start over; fairness | the window has no hole, evicts whole ended Turns, exceeds its bound only for a cause, loading ends |
| `visitors` | three pages in two tabs, three exchanges, one lost answer, one refused token, one start over; symmetry over the pages of a tab | one visitor, whose token is not lost, and renewals go on |
| `go_tools` | two calls, `Result` on one state and `Updates` on that one or another, each started once, one handler may panic; fairness | a handler runs once per state, a state does not conflict with itself, open calls are served, a cancelled wait ends |
| `repeated_call`, `start_over` | smaller | the disagreements below |

Bounds. `MaxAttempt`, `MaxChanges`, `MaxFragments` bound what the service does; two attempts
are what it takes to supersede one, three changes let a Turn be claimed, claimed again and
ended, and two fragments are the least in which order or loss shows (three
let a hole open in the middle). `MaxPages` and `MaxLive` bound what is
on its way; one of each already lets a page overtake a fragment and be overtaken, and
two pages let the loss of a connection hit both. `MaxStarts` bounds how often the
application starts a waiter; twice lets one be cancelled and come back. Two calls are the
least at which a plan has a rest, and two waiters the least that race. Three requests let two
handlers race and a third find what they left, after a restart too; with three attempts the
service takes the answer of the last one. Three calls are what it takes for a job to be called for, left
on its way, overtaken by another job and called for again.

Two sends are the least in which one follows another of unknown outcome; one failure of
any kind, beside the not-found answers of what is gone, which are not bounded, puts every request of a page in its
error path, and two visitors are one start over. The controller has one read of a
Conversation, one refresh of the claim and one exchange (next to that of a start over) on
its way at a time. Seven rows fill a window of three and evict from it twice, before
and after a page of history; three Turns are what it takes for one to be over before the
window is read, one to be evicted and one to run. Three pages are two that share a flight and one that does
not; three exchanges are one for each tab and one for the start over.

The runs without
fairness may stop anywhere; deadlock is not checked, since a stream
that has returned, a Turn that has ended, a page that was destroyed and waiters that were
started often enough rightly do nothing more.

Fairness. In the stream, the reader's own steps are fair (the event loop runs a coroutine that
can run) and the service sends what it has and gets a page through in the end
although connections keep breaking (strong fairness of `Connect`, `CutPage`,
`ReceivePage`: the loop retries for ever and a network that never delivers one
frame is outside what the code can answer for). No worker is made to go on. In the host
tools, coroutines run, handlers return, the service answers, and a frame that is on its
way arrives; nobody is made to start a waiter, to cancel one, or to ask for the next
update. In admissions, coroutines run, the service answers and Turns end (they have limits); nobody is
made to call, and no request that was left on its way is made to arrive. In the controller, reads,
connections, frames, exchanges and timers that are due happen; nobody has to press a button and
no Turn has to end. A page of history is answered. In the Go SDK, goroutines are scheduled, handlers return unless
they panic, and a request whose context has ended fails.

## Findings

Two disagreements are runs that TLC ends with a counterexample.

- **A handled call is repeated** (`repeated_call`). One waiter plans both calls of a Turn and runs the first. Another
  reads the Turn meanwhile, finds only the first in the guard, plans the second and starts it. When the
  handler of the first returns, the first waiter starts the second call too, while the other still runs it and before
  anything was submitted: the guard is not read again between handlers (`facade.py:1353`), where
  `sdk/python/README.md:109` says that replayed projections do not repeat a handled call. The Go SDK does not have this: its state is
  asked at every call (`HandlerRunsOnce`).
- **A start over carries over** (`start_over`). `startOver` replaces the visitor with "nothing carried
  over" (`conversation-controller.ts:335`), but neither cancels nor waits for what was asked for
  before. The first exchange of a page, answered after its start over, puts the old visitor's grant and
  Conversation back; a late receipt of a send, a late claim and a late renewal do so with theirs. `QuietStartOver`
  shows that nothing is carried over when nothing was on its way.

The others are in the models, and the properties that hold name them as exceptions.

- *Streams.* A resync makes the reducer forget the attempt it had reached (`stream.py:73`), so that
  fragments of a superseded worker are shown until a newer one comes, which
  `docs/reference/streaming-protocol.md:316` says to ignore. A fragment that comes after its message was saved
  brings the preview back (`stream.py:120`, against line 320 of the protocol). A connection
  cut inside a frame ends the reader, since `json.loads` raises out of the loop (`stream.py:272`),
  where line 376 says to reconnect (`ReceiveTruncated`; `EndIsLearned` excepts a reader that failed).
- *Host tools.* A submission that ends in a transport error stays in the guard
  (`facade.py:1378`), where `sdk/python/README.md:109` says that a failed submission clears it
  (`uncertain` in `GuardAccountsForCalls`). A waiter cancelled while it submits takes its calls out of the guard
  (`facade.py:1375`) although the service may have taken them, and a waiter whose reading is from before runs them
  again, a call made alone too (the exception of `LoneCallNotRepeated`).
- *Composer.* A page whose window is read when its own Turn is over already never clears
  `admitted`: the stream does not report on the Turn again, and the composer stays closed, which is what the
  comment in `onStreamUpdate` says the method prevents (`OverBeforeWindow` in `TurnLetsGo`).
- *Sends.* "The Turn may or may not exist. Keeping the input and the key is what makes a retry the same logical
  request" (`conversation-controller.ts:1007`), but the retry of a send that may have been admitted drops both when it
  is refused or finds the Conversation busy (`:1011`, `:1016`); the first attempt may have been admitted already, or may be
  later (`again` in `OwnTurnIsKept`).
- *Not found.* "A missing Conversation resets the page; a missing Turn is that operation's problem alone"
  (`conversation-controller.ts:1049`), but `handleTransportError` takes every not-found of a send, of the first exchange and of a start
  over for the Conversation's. The one of a missing AgentRevision (`openapi/nvoken.yaml:445`) resets a page whose
  Conversation exists, and with a running Turn of it forgotten the composer opens (`misled` in `LeavesOnlyTheGone` and
  `OwnTurnClosesComposer`).
- *Start over that fails.* "This way a failure changes nothing" (`conversation-controller.ts:784`), but
  `AnonymousAuthority.startOver` has cleared the renewal timer before the exchange (`:346`) and the grant
  runs out (`stopped` in `RenewalGoesOn`).
- *Bounds.* The window is seeded and merged without lifecycle changes, so Turns that were over
  before it was read are never known to be over and never evicted; and a Turn that was evicted
  and is loaded again in part is not either. `docs/design/009-browser-conversation-controller.md:38`
  says that memory is bounded by 500 messages (`BoundIsExceededForCause`, `EvictsWholeEndedTurns`).
- *Visitors.* The recovery of a refused token deletes what is stored by then, outside the lock (`overtaken` in
  `ContinuityKept`), and does so when the page itself has shown nothing, though another page has (`unshown` in
  `ShownVisitorIsKept`). When the page that owns the shared exchange is destroyed, the visitor is used by
  the others and stored by nobody (`orphaned`).
- *Stale answers.* A not-found or a failure of a request made for a conversation the page has left
  resets, or ends the loading of, the one it shows now (`LeavesOnlyTheGone` is stated of pages that nothing has
  crossed; `NotFound` and `NotLoaded` of `HistoryWindow`), and the failure of an earlier send takes a
  later one off the page (`overlapped` in `OwnTurnIsKept` and `OwnTurnClosesComposer`).
- *Go.* The error of a handler whose context was cancelled is kept and submitted as the result of the call by
  whoever waits next (`agent.go:587`), while `docs/design/001-public-sdk-repository.md:132` keeps a local cancellation
  apart from the Turn. A handler that panics under a recover leaves its call running, and other waiters
  wait until their contexts end (`agent.go:576`; `OpenCallIsServed` excepts it, `CancelledWaitEnds` bounds it). `Updates`
  settles the calls of every replayed change (`stream.go:313`), so that a recovered handle runs handlers of
  answered calls again, and a result that differs ends it with a conflict (the exception of `NoConflictOfOneState`).

## Proofs

`TranscriptStreamProofs` proves `Spec => []StreamInv` and from it type
correctness, `DurableViewIsLogPrefix`, `SettledAfterItsMessages`,
`NoPreviewOfSettledTurn`, `OneAttemptPerTurn`, `DurableNeverRetreats`, and that
the stream implements `TranscriptFeed`, for any finite or infinite sets of Turns,
messages and blocks and any bounds. It assumes what the modules assume of their constants:
each message has a Turn and an attempt, and a Turn's own stream carries that Turn only.

`DurableViewIsLogPrefix` is not inductive: that a page extends the view by the next rows needs
that pages on their way lead without gap from the cursor to the position of the service
(`InFlightInv`), and that an end in a page has its messages in it or before it needs
that a change knows how much of the transcript preceded it and that nothing is written after an
end (`LogsInv`). The module's first half shows once, for each branch of `apply`, that it keeps the
reducer's part (`ReducerInv`) and what it does to the durable half.

`HoleOnlyFromReconnect` is proved on top of it, from `HolesInv`: of every block that nothing was missed of, the text
and each fragment on its way are followed, among the frames behind, by the next fragment or by a resync that tells its loss, and
when there is no such frame, by nothing that was published (`GoesOn`). So a fragment can be accumulated only after its
predecessor. It takes that a fragment is of the Turn and attempt that write its message (`OfItsOrigin`), since the
reducer discards by Turn and attempt, and that the queue is empty between connections.

`HostToolsProofs` proves `Spec => []ToolsInv`, and from it
`GuardAccountsForCalls` and `LoneCallNotRepeated`, for any calls, waiters,
handles and guards. The argument for a call made alone: every reading that shows it shows
nothing else (`Apart`), because all earlier calls were answered when the Turn ran
again; so it is always the first and only call of a plan, is put in the guard in the
same step in which it was found missing from it, and leaves the guard only with the
waiter that put it there: refused, when the service has taken nothing, or cancelled, which is the named exception.
What the service has taken or may have got is in the guard from then on (`LoneInv`), so that no reading, however old, starts
it. For calls made together the statement is false, as `repeated_call` shows.

`CallbackReceiverProofs` proves `Spec => []CallbacksInv`, and from it
`AnswersAreTheRecord`, `RecordedCallIsNotRun` and `IsAnswerOnce`, for any calls, requests and number of
attempts. What has to be added to make it inductive: what `find` read or `put_if_absent` handed
out is the record already (`RecordInv`), since a record is written once; and without a
store nothing is ever on its way to one (`NoStoreInv`).

`AdmissionProofs` proves `Spec => []AdmissionInv`, and from it `OneTurnPerJob` and
`RefusedForTurnOfOthers`, for any jobs, locks, stored keys and number of calls. One Turn per job
needs more than the Turns: all that was ever sent for a job, arrived or not, carries one key, and the
next request for it, if there can be one, will carry that key again (`KeysInv`). The refusals
need that a call from its request to its end is the head of its lock's queue (`LockInv`).
`ImplementsTurnOnce` says the same to the application: with a job as the call, and the key of its Turn as the answer,
admission is `AnswerOnce`. A request, of a call or overdue, gives the job its Turn, or changes nothing; a call that
returns takes that Turn, which is there because whoever follows or is done has one admitted (`ReturnsItsTurn`).

`AnonymousAuthorityProofs` proves type correctness, `RenewalGoesOn`, `OneVisitor`, `ContinuityKept` and `ShownVisitorIsKept` for any pages, tabs,
runtimes and bounds. For one visitor, the inductive invariant says what every exchange can still
do: while no cause of a second visitor has come up, at most one exchange has been sent without a token and
not been answered, and as soon as a visitor exists either storage names it or the exchange that holds the lock will.
For continuity, that a holder of the lock sent what is stored, unless it was overtaken. With it goes what a page shows: while
nobody starts over, no page that has shown nothing drops the token, and every exchange is stored (`Calm`), nothing is
overtaken and each page's token is the stored one or none (`ShownInv`); an exchange is then granted the visitor that is
stored, or another one when none is stored and so no page has any.

`HistoryWindowProofs` proves type correctness, `NothingMissing`, `BoundIsExceededForCause`, `MergeWithinBound` and `EvictsWholeEndedTurns` for any sizes of the
window, of pages and frames, and any number of rows, Turns and Conversations. `NothingMissing` needs that a page
on its way, if it is for the Conversation that is shown, is the next one before what has been read, since only
one is asked for at a time (`CurrentLoads`); the bound needs that every end received since the
window was read is still known, or its Turn was evicted (`Heard`), and that the loop of `enforceBounds` stops only
at a Turn of which no end is known (`FullForCause`). Of the model's recursion-free form of that loop,
the lemmas show that the place where it stops exists, that what it leaves is within the bound
or headed by such a Turn, and that Turns go as a whole. `EvictsWholeEndedTurns` is about all Turns that were ever evicted, of which
no later frame and no page of history may bring a part back, but for what is older than the window that was read. It needs
that a log has nothing of a Turn after its end, and no gap in the Turns it begins (`TurnsInOrder`), and that the page has received the end of each Turn it
knows to be over or has evicted (`WholeInv`): then nothing the stream still brings is of such a Turn.

`ToolExecutionProofs` proves `ExecutionInv` and from it `HandlerRunsOnce` and `NoConflictOfOneState`, for any
goroutines, states, handles and calls. The argument: a call of a state has run exactly once as soon as it is among
the running or has a result, and never both (`RunsAreKnown`); results are never replaced, and everything collected,
submitted late or taken by the service is among them (`ResultsAreKept`); so what a waiter submits and what the service has of
the same state are equal. Two results more are proved of any instance and no run lists them: what a state or the
service has of a call is never replaced (`ResultsAreFinal`: a handler returns only where nothing is kept yet, because only one is
running), and the service has one result of a call at most (`OneResultOfACall`: a submission, late or not, is of one state,
which has one).

`ConversationControllerProofs` proves `TypeOK`, `OneStream`, `DestroyIsFinal`, `QuietStartOver`,
`LeavesOnlyTheGone`, `OwnTurnClosesComposer` and `OwnTurnIsKept`, for hosts and visitors, any number of sends, visitors, failures and deletions. It first says,
once for each action, what it does to the page (the `...Effect` lemmas), by way of a few relations between
two pages: one that shows the same (`Stays`), goes on (`Carries`, `Recovers`), is reset (`Resets`), or is granted
a Conversation (`Grants`). From then on a step is one of the kinds of `Kinds`, and no record is opened again.
The first three theorems follow from `PageInv`: with them it says that only a page with a Conversation
has a stream or a reducer, and that an open stream has a cursor of its own Conversation. That `OnStreamUpdate`
reads only what the log holds needs that no reducer is ahead of its log (`FoldedInv`). `QuietStartOver` needs that what
is on its way was asked for the visitor (`Asked`), that first reads are of the visitor's Conversation (`Shown`), and that
a page that was never authorized has asked for nothing (`Waiting`); those are kept only if the answers mean what they
meant when they were given, hence `TurnsInv`: an answer names a Turn that has started in the Conversation it was
asked about, and nothing has been written for a visitor who is yet to come, whatever arrives late. Then every error that says
"not found", but for those that misled the page, is about the Conversation that is shown, which is `LeavesOnlyTheGone`.
The last two relate a key, its request and the log. `Sends` is about the page and its requests alone: what is on
the page is the last send, and alone on its way unless it overlapped another. Then three facts hold together (`SendsInv`):
a key's Turn, and what may still arrive of a key, is in the Conversation its request named, and a first attempt that was not
given up has started nothing before it is admitted, and never will if it is refused (`Followed`, `Fresh`); a
send that is on its way, or has failed with its outcome unknown, is on the page unless the page dropped it (`Unforgotten`); and a page
that was not misled, with a running Turn of its own, has nothing on its way and knows of that Turn, from its receipt or from the stream
(`Own`). None is inductive alone: the receipt finds its key on the page by `Unforgotten`, and a send finds the composer closed by `Own`.

Only model-checked: the liveness properties `EndIsLearned`, `OpenCallIsServed` (of both SDKs), `LockIsHandedOn`, `TurnLetsGo`,
`StreamComesBack`, `LoadingEnds` and `CancelledWaitEnds`. They hold under fairness, which these provers cannot reason about; every
safety property of a passing run is proved.

## Not modelled

Generated transports and models are most of the repository's code: each is one request and one answer, and
has no state. The preflights, client tokens and `ask_user` are pure functions of one value with
conformance fixtures. The commands of the command-line client are a request and its output each; its
credential store loads, changes and saves one file, with no lock and no promise to other processes. The webhook
receiver verifies one delivery and keeps nothing. The Rust SDK, and what the TypeScript and Go SDKs have in common with the
Python one, are the same protocols again. A tool that calls for a Turn of the Conversation whose lock its own
caller holds waits for itself (`facade.py:1165`); `Admission` does not know which call was made by a tool. Of
the TypeScript authority, storage that fails and storage adapters of the application are left out, and all pages
have the same kind of storage; expiry is a choice at the failure of a renewal. How the service does what it does is not in
the repository.

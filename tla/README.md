# Formal models of web-form

TLA+ models, TLC configurations and TLAPS proofs for
[web-form](../src/README.md), a server that turns YAML definitions into HTML
forms, stores what users submit and notifies other systems about it.

## 1. The system

| Part | Source | State it keeps | Operations |
|---|---|---|---|
| Form handler and session | `internal/engine/form.go`, `internal/web/web.go` | none on the server: session in hidden inputs, XSRF token in page and cookie | `Serve`, `validateCode`, `submitForm`, `sendNotifications` |
| Storage | `internal/storage` | rows of a database, or one file per submission | `Store` of files, PostgreSQL, SQLite, dump |
| Notification queues | `webhook.Dispatcher`, `amqp.AMQP` | a buffered Go channel each | `Dispatch` of each destination |
| Webhook dispatcher | `internal/notifications/webhook` | one goroutine per message, its attempt counter | `Run`, `Send`, `trySend` |
| AMQP publisher | `internal/notifications/amqp` | per worker: connection, channel, attempt counter | `Run`, `sendTask`, `trySendTask`, `getChannel`, `getConnection`, `close` |
| Process | `cmd/web-form/main.go` | root context, listener, error group | `run`: start, serve, shut down |
| Form schema | `internal/schema` | immutable after start | `FormsFromFS`, `ParseForm`, policies, templates |
| HTTP engine | `internal/engine/server.go` | the routes, fixed at start | `New`, `ServeHTTP`, the listing |
| Login | `createAuth` and the middlewares in `main.go`, the library oidc-login | the session, in memory or in Redis | ask for login, callback, credentials |
| Captcha, views | `captcha`, `assets`, `utils` | none | - |

How they interact: the process loads the definitions once, mounts one handler per
form and asks for a login before all of them when OIDC is on. A POST runs `Serve`; after the checks `submitForm` parses
the fields, calls `Storage.Store`, renders the result page and only then starts
one goroutine per destination, each of which calls `Dispatch` and so blocks on
the queue of its sub-system; the handler waits for all of them. `Run` of the
sub-systems takes messages from the queues and tries to deliver them. One root
context, cancelled by SIGINT, is the parent of every request's context and of
every attempt.

What is hard here:

* *Concurrency*: handlers, goroutines per destination, queues, senders, workers.
* *Failure*: every attempt may fail half-way; an answer may be late or lost; a
  broker closes channels and connections when it likes; each step of a file
  write may fail; the process may be killed.
* *Ordering and time*: retry counters, timeouts, waits, shutdown while messages
  are queued or in flight.
* *State that travels with the user*: session, XSRF token, "fresh" flag, over
  several tabs and lost responses.
* *State that the tabs share*: the session of the login, read before a handler and
  written as a whole after it; forgotten by a restart.
* *Errors that come late*: a statement that returns its row and fails afterwards, an
  answer that is written when nobody listens any more.

What makes each part correct, in one line: a notification has exactly one
owner and is tried as often as documented; a worker never loses a connection;
a stored record is whole and the answer to the user true; the form page alone
submits, and an accepted code stays accepted; only admitted users see a form, a result
or a link, and a link leads to its form; handlers and process come to an end as long
as the broker answers, and without it the webhooks go on.
`PROJECT.json` lists the single hazards with their lines and the properties
that cover them.

## 2. The modules

| Module | Models | Composes |
|---|---|---|
| `Notifier` | abstract: what `Dispatch` promises, whatever the transport | |
| `DispatchQueue` | the queue, the callers' `select`, the retry limit | |
| `WebhookDispatcher` | `Run`, `Send`, `trySend`, with the remote server and the network | extends `DispatchQueue`, implements `Notifier` |
| `AmqpPublisher` | workers, cached handles, attempts, with the broker | extends `DispatchQueue`, implements `Notifier` |
| `RetryTimer` | settings and pace of one webhook message, with a clock | |
| `RecordStore` | abstract: what `Store` promises | |
| `FileStore` | `Store` and `atomicWrite`, with failures and kills | implements `RecordStore` |
| `FormSession` | `Serve` and the part of `submitForm` a browser sees, with one browser's tabs | |
| `FormFields` | `preRender`, the field part of `form.gohtml` and `ParseForm`, for one field, with the browser's input elements | |
| `Submission` | `submitForm` from `Store` on, `sendNotifications`, and the life of the process in `run` | uses `Notifier` for the sub-systems |
| `Portal` | `FormsFromFS`, `New`, the routes, the listing, `IsAllowed`, the login with its session, restarts | |
| `MC*` | instances for TLC | |
| `WebhookDispatcherProofs`, `AmqpPublisherProofs`, `FileStoreProofs`, `FormSessionProofs`, `FormFieldsProofs`, `SubmissionProofs`, `PortalProofs` | theorems about the module each extends | |

Operators whose name begins with `Wrong` are deliberately wrong variants of the
definition that follows them. No specification uses them; they are there to
show, by putting one in the place of its right counterpart, that a property
would notice the mistake (`PROJECT.json`, "mutants").

### From code to model

`DispatchQueue`. A task is one call of `Dispatch`: one destination of one stored
submission. `caller[t]` is the place of that call, `queue` the channel's buffer.
`Enqueue` and `ContextDone` are the two cases of the `select`; `Handoff` is a send
that meets a waiting receiver, the only way when the buffer has size 0. Templates
may fail, so `Dispatch` may return an error at once.

`WebhookDispatcher`. `loop` is `Run`, `sender[t]` the goroutine of `Send`,
`attempt[t]` its counter. `wire[t]` is the request of the current attempt: sent,
processed by the remote server with a good or a bad status, or none. A request
whose sender stopped waiting becomes `stray` if the server had not got it yet, and
may still arrive: this is how one message is received more than once. The loop may
go on taking messages after the signal, because Go's `select` picks any ready case.
Redirects and the client's own replay of idempotent requests (a webhook with
`method: GET`) belong to `net/http` and are left out.

`AmqpPublisher`. One `pc[w]` per worker follows `sendTask`, `trySendTask`,
`getChannel` and `getConnection` step by step. `conn` and `chan` are the cached
handles: nil, live, or dead because the broker closed them and the worker does not
know yet. `sockets[w]` counts what the broker holds open for the worker. A publish
puts the message on the wire and waits for nothing; a failed one may have done so.

`RetryTimer`. `Create`'s defaults, the attempts and the waits of one `Send`, in units
of five seconds. The pause after a failed attempt lasts as long as the timeout, since
that is what the code hands to `time.After`; the module is there for the run that
compares it with the documented `interval` (end of section 3). Timers fire when they are
due (`Tick` is disabled when one is). It is about webhooks only: the timeout of an AMQP
attempt does not end its handshake, which `AmqpPublisher` has.

`FileStore`. One action per system call that others can observe, each with its
failure; after a failure from the write on, `Remove` still runs (the deferred
calls). `Crash(p)` kills all calls of one process. ULIDs are taken to be unique.

`FormSession`. `tab`, `cookie`, `req`, `reply` are the browser's; a request is
answered in one step because its answer depends on the request alone. A value of
the session is kept as "which value, escaped how often" (`EmbedSession` escapes,
`parseSession` does not unescape, `submitForm` unescapes the time zone once). One
action per way out of `Serve`. `carried`, on pages, requests and rows, is history: how
many pages the zone has gone through since the browser's script wrote it; it only serves
`ZoneKept`. Requests no form of a page can make (HEAD, PUT) are
not modelled.

`FormFields`. `field` is the definition, `input` what the input element would send,
`sent` what the last submission brought and `stored` what it handed to the storage.
Texts are words with or without blanks around them; `Numbers` and `Matching` say
which words an integer or a string field takes ("integer" stands for the other
numbers and the dates as well: input elements that hold nothing else). A boolean field
takes the twelve words of `strconv.ParseBool` (`Trues`, `Falses`), of which those among
`Words` occur; `Parse` is the value a text stands for. `Shown` is the
template's choice of the element's state, with the browser's rules for drop-downs;
`Collected`, `Trimmed`, `Refused` and `Parsed` are the stages of `ParseForm`; the loops
of `Uniq` and `parseValues` are recursive functions of the number of values gone through.
`Posts` is what programs may post (`ApiPost`), values that no page offers included. The
other fields of the form only matter by refusing a submission (`Reject`).

`Submission`. `pc[r]` is the handler of one submission, `storage` the kind of
storage. `Execute` hands the row to it, `Commit` is the moment the row is there, and
`Undo` is PostgreSQL's other outcome: the row comes back and the statement fails at
its end, which `Store` does not notice. A database may report an error after the row is
there (`StoreFails`). `page` is what was rendered, `contact` the connection: "gone", by
the client, by a failed write or by `server.Close`, ends the request's context. A page
that waits in the server's buffers while the write timeout passes is lost without the
handler's knowing: `Return` says whether the client gets what was rendered. `stage` is
the state of each notification in `Notifier`, whose actions the handler and the
sub-systems take. `queued` is the buffers of the sub-systems: `Taken` needs room in the
buffer or, when it is empty, a receiver that waits; a worker of AMQP waits only when it
has nothing in hand (`Receives`), so a worker stuck with a silent broker fills the queue
and holds the handlers. `listener`, `closer`, `notifiers` are the members of the group in
`run`; `Exit` waits for the statements of PostgreSQL's pool only. `Kill` is SIGTERM or
SIGKILL, which `run` does not handle (`os.Kill` cannot be caught).

`Portal`. A path is the sequence of its segments. `Start` loads a directory of
definitions: it fails when a file is invalid or a name occurs twice; `Route` picks
the longest mounted path. A policy is the set of users it admits: what CEL computes
for a user is not modelled, nor is the handler behind a route, which `FormSession` has.
`Load` reads the session (`snap[t]`), and `AskLogin`, `LoggedIn` write it back as a
whole; between the two the other tab may have done anything. What the library
oidc-login and the provider do with each other is one step that may fail
(`LogIn`, `CallbackFails`). `wish[t]` remembers the address a tab had asked for, and
`alone[t]` that no other tab touched the login meanwhile; both only serve the properties.
`Stop` forgets the sessions unless they are in Redis, `SessionExpires` one of them. The
links of a page are taken relative to its directory, as a browser does.

## 3. What is checked

All runs finish within about two minutes on two cores.

| Run | Bounds | Shows |
|---|---|---|
| `webhook_buffered` | 3 messages, 1 slot; no retry, an invalid URL, the default of 3 retries | `SingleOwner`, `AttemptBudget`, `NoEarlyGiveUp`, `ImplementsNotifier`; under fairness `DispatchReturns`, `AcceptedResolved`, `ShutdownCompletes` |
| `amqp_workers` | 2 messages, 2 workers, 1 slot; one retry and none | `SingleOwner`, `NoSocketLeak`, `FreshRetry`, `PublishBudget`, `ImplementsNotifier`; with a broker that answers, `AcceptedResolved` and `ShutdownCompletes` |
| `filestore_crash` | 3 calls in 2 processes | `Leftovers`, `ImplementsRecordStore` |
| `form_tabs` | 2 tabs, one right and one wrong code, a zone that escaping changes, captcha, policy, expiring cookie | `OnlyFormsSubmit`, `CodeCarried`, `ZoneKept`, `OneLiveForm`, `InputCounts` |
| `fields_one` | every definition of a field over 8 defaults and 3 lists of options; posts of at most 2 values | `DocumentedOnly`, `StoredAsEntered`, `ChoiceKept`, `SameIfSentAgain` |
| `submission_server` | 2 submissions to a webhook (its template fails for one) and an AMQP destination; a buffer of 1 and of 0, 1 worker; three kinds of storage | `NotifiedOnlyIfStored`, `TruthfulPage`, `AnsweredAfterHandover`; under fairness `WebhooksUnaffected`, and with a broker that answers `HandlersEnd`, `SignalEnds` |
| `portal_login` | 2 tabs, 2 users, 3 directories of definitions; with and without OIDC, Redis, listing | `OnlyAdmitted`, `LinksOpen`, `LandsWhereAsked` |

The runs of the queues, of the files and of the form also check their `TypeOK`.

Why the bounds are enough. One slot for three messages makes the queue empty,
full and contended; three retries are the default and the largest number that
matters to the counter's comparison. A worker needs one competitor for the queue,
and one retry to go through failure, wait and reconnection. Tabs interact only
through the cookie, so two show every interference. Calls of `FileStore` share
nothing but the process that is killed. `MaxLayers` (2) is the least number of
escapings at which the time zone is lost; a value escaped more often behaves the
same. In `form_tabs` escaping leaves the codes alone and changes the zone, as it does
with every `Area/City`. ParseForm treats the fields one by one, so one field shows all it does; two
posted values are the fewest that can repeat, or be one too many. The options of
`fields_one` have values of their own, or no text at all (see `fields_labels` for the
others). Its defaults and words include "1" and "true" with and without blanks, which
ParseForm takes for true and of which the page only shows "true" as checked.
`StoredAsEntered` has one exception: of a boolean of which nothing was sent the default
is stored, because browsers do not tell an unchecked box from a missing one (the "corner
case" of parser.go:148). What that means for the user is said below. A multiple choice is
reached by programs only, since its page fails; `StoredAsEntered` and `DocumentedOnly`
cover their posts, `ChoiceKept` and `SameIfSentAgain` say nothing of it.
Two submissions are enough in `Submission`, whose handlers share the process and the
queues: with one slot for the webhooks, one worker and no buffer for AMQP, the first one's
message is all it takes to make the second one wait. The
tabs of `Portal` share only the session. Its directories are chosen for what may go
wrong between forms: a form whose address is below another's, policies that change with
a restart, a name from the file and the same name from the definition, used twice.
`MaxDepth` (4) leaves room for a link that is relative to the wrong directory.
`form_tabs` and `portal_login` use symmetry on the tabs, which no property and no
constant tells apart; the runs with liveness properties use none. Deadlock is not checked: all
these systems stop, when the process does.

### Fairness

* Goroutines and timers go on (weak fairness of `Receive`, `SenderStep`,
  `WorkerStep`, `HandlerStep` and so on). This is the Go scheduler's promise.
* Nothing is assumed of a remote HTTP server: an attempt ends by its timeout.
* `ResponsiveSpec` of `AmqpPublisher` assumes in addition that the broker answers
  or refuses each handshake. The code needs it: no deadline covers the handshake.
* `Submission` assumes that handlers, the goroutines of their destinations and `Run`
  go on, each when it can: a waiting `Dispatch` is not assumed to be answered, it needs
  room in the queue or a context that ended. A queue is emptied as long as `Run` waits
  for messages. The webhooks always do, and their `Run` returns after the signal
  (`ShutdownCompletes` of `WebhookDispatcher`, which assumes nothing of remote servers).
  Of a worker of AMQP with a message in hand nothing is assumed, nor that `Run` of AMQP
  returns while one has: `HandlersEnd` and `SignalEnds` have the premise `BrokerAnswers`
  instead, that no message stays in hand for ever, which is what `AcceptedResolved` and
  `ShutdownCompletes` of `AmqpPublisher` promise under `ResponsiveSpec`. Without it they
  do not hold, and `WebhooksUnaffected`, which has no premise, says what is left. The
  storage is assumed to answer: `Store` has no timeout of its own.
* `FormSession`, `FormFields`, `FileStore` and `Portal` assume nothing: users may leave,
  and calls may stop, at any point.

### Where the code differs from its documentation

Each is a run that TLC must find violated.

| Run | Property | What happens |
|---|---|---|
| `retry_interval` | `DocumentedInterval` | The wait between two attempts is the timeout (webhooks.go:123, and amqp.go:126 likewise); `interval` (docs/notifications.md:28) is filled in and only logged. With the defaults a failing server is called again after 10 seconds instead of 15. |
| `amqp_timeout` | `PublishTimeout` | The timeout covers the dial, not the handshake: a silent broker holds the worker, its queue and the shutdown for ever. |
| `form_escapedcode` | `CodeCarried` | An access code with characters that URL escaping changes opens the form and is refused when the form is submitted. `form_tabs` checks the property for codes that escaping leaves alone. |
| `fields_labels` | `ChoiceKept` | A drop-down whose options have labels only goes back to its first option when the form is rejected for another field: the template compares with the empty value. |
| `submission_undone` | `SavedBeforeNotified` | PostgreSQL's `Store` takes the first row for success and never asks `rows.Err`: a statement that fails at its end, by a deferred constraint or a lost connection, leaves no row, and the user sees success and the destinations get the message. `NotifiedOnlyIfStored` and `TruthfulPage` state what does hold. |

Met on the way and not given a run:

* A form with a multiple choice (`options` and `multiple: true`, docs/fields.md:33 and 75)
  cannot be opened: the template asks the default, a string, for its elements
  (form.gohtml:10), and `Render` answers 500 (page "failed" of `FormFields`). Such a form
  is a dead end for everybody with a browser, and no property claims otherwise.
* A box with a default cannot be submitted unchecked. ParseForm takes the default when
  nothing is sent (parser.go:147), so the user of docs/index.md:63, whose extra cheese
  has the default "true", gets it with the box unchecked. And the page compares the text
  of the default with "true" as it is (form.gohtml:47), while ParseForm trims it and takes
  what `strconv.ParseBool` takes: with the default "1", "TRUE" or " true " the box is
  shown unchecked, and left alone it is stored as true.
* A time zone whose name escaping changes, as every `Area/City`, is escaped by each page
  and unescaped once (form.go:141): after one rejection, or one page of an access code, it
  survives, after two the server's zone is used without a word, which the page promises
  only without JavaScript (form.gohtml:110). `ZoneKept` says exactly when.
* A submission without any value becomes an `INSERT` without columns (db.go:62), which
  neither database accepts.
* A form in a sub-directory is named by its path, although docs/form.md:18 speaks of
  the file name, and the relative links of the result page ("send one more time",
  success.gohtml:13) do
  not reach it, or reach another form. So does the link of a result that is shown
  below its form's address: a form answers there too (`/forms/shop/old`, bookmarked when
  it had a definition of its own, is served by `shop`), and from there "shop" means
  `/forms/shop/shop`. `LinksOpen` excludes both, and covers the listing's links, and
  the others where a form is at its own address.
* A POST that meets an expired login comes back, after the login, as a GET: the input
  is lost. Two tabs on their way through the login overwrite each other's address.
* The handler waits for full queues although the write timeout (5 s) has passed: the
  row is stored, and the user gets no answer. With a silent broker it waits until the
  client leaves.
* AMQP messages are published without confirmation, while docs/notifications.md speaks
  of at-least-once delivery.
* An access code is accepted without a captcha (docs/configuration.md names both).
* `Store` of files and dump returns fields together with an error (docs/template.md:
  the result is nil). Files are not synced: a loss of power may leave an empty one.
* A listener that fails leaves the process running without one until a signal comes;
  `--db.migrate` with a missing directory panics.
* The handler of an open form takes a request that is neither GET nor POST for a
  submission.

## 4. What is proved

TLAPS proves the following for every value of the constants: messages, workers, buffer,
retry values; calls and processes; tabs, codes and pages; words, definitions
of fields and posts of any length; submissions and destinations; users and directories
of definitions. All theorems are about `Spec`,
without fairness. Each invariant `IInv` was checked by TLC on the instances of section 3
before it was proved. Of every property that a passing run checks, other than liveness,
there is a theorem; `PROJECT.json` has the list.

`WebhookDispatcherProofs`:

* `TypeCorrect`, `SingleOwnership` (`SingleOwner`), `BoundedAttempts`
  (`AttemptBudget`), `NothingGivenUpEarly` (`NoEarlyGiveUp`) and `Refinement`
  (`ImplementsNotifier`).
* `IInv` has four parts. `OwnerInv` strengthens `SingleOwner`: the
  queue holds no task twice (`IsInjective`), which is what makes its head differ
  from its tail. `AttemptInv` ties the copies made so far to the attempt counter:
  without it the bound on copies is not inductive, since a late request adds a copy
  after the counter moved on. `OutcomeInv` says what each final state of a sender
  implies.
* The refinement follows by cases on the actions: each changes the stage of at most
  one task, except the end of `Run`, which abandons all tasks in the queue at once.

`AmqpPublisherProofs`:

* `TypeCorrect`, `SingleOwnership` (`SingleOwner`), `SocketsTracked` (`NoSocketLeak`),
  `RetriesAreFresh` (`FreshRetry`), `BoundedPublishing` (`PublishBudget`) and
  `Refinement` (`ImplementsNotifier`).
* `HandleInv` says, for each place of a worker, which of the two handles may be set and
  how many connections the broker holds: as many as the worker has handles to close,
  and one more during a handshake. `NoSocketLeak` alone is not inductive, because a failure between the dial and
  the assignment to `connection` is harmless only if nothing was held there before;
  `FreshRetry` is what the same invariant says of the start of an attempt.
* `OwnerInv` has one entry per task (`Place`): queued and with no worker, or with at most
  one worker and not queued. `BudgetInv` is a ledger: while a worker
  has a task, no more was written of it than attempts are over, and their number is
  below the budget.
* Most steps of a worker are alike for ownership and budget. The lemma
  `WorkerEffect` says once what any of them does: it moves one worker, ends its task or
  goes on with it, and writes only where it publishes. The invariants and the refinement
  are then proved from the effect, not from each step.
* The lemmas on the buffer and on the budget (`AppendRange` to `BudgetFacts`) mention
  neither webhooks nor AMQP; the proofs of both sub-systems begin with them.

`FormSessionProofs`:

* `TypeCorrect`, `FormsSubmit` (`OnlyFormsSubmit`), `SafeCodesCarried` (`CodeCarried`),
  `ZoneSurvivesOnePage` (`ZoneKept`), `AtMostOneLiveForm` (`OneLiveForm`) and
  `NoInputDropped` (`InputCounts`).
* `SessionInv` relates what a page embeds to what the user entered, for pages shown, for
  replies on their way and for requests: `ZoneKept` speaks of rows, but what decides it
  is in the hidden inputs of the page, several steps earlier. `ZoneOK` says that a zone is
  escaped once for each page it went through, or never if escaping leaves it alone, and
  `ZoneCarried` that a page made from such a request has the same. `EmbedKeepsVerdict` is
  the like fact for codes: a session that is embedded again, with a value that escaping
  leaves alone, gets the same verdict.
* `ZoneSurvivesOnePage` is about every zone. It does not say that the user's zone is used,
  since often it is not; it says exactly when.
* `TokenInv` says that all open pages and all replies on their way have different tokens.
  It needs that a fresh token can always be drawn (`FreshToken`, by counting: each tab
  shows a page and waits for at most one more), hence the assumption that the tabs are
  finite. That tokens do not repeat stands for 32 random bytes.
* `SafeCodesCarried` is `[](Codes \subseteq Safe => CodeCarried)`. The condition is not
  there to help the proof: for other codes the property is false (`form_escapedcode`).

`FormFieldsProofs`: `TypeCorrect`, `Documented` (`DocumentedOnly`), `Entered`
(`StoredAsEntered`), `Kept` (`ChoiceKept`) and `SentAgainAsBefore` (`SameIfSentAgain`).

* What the loops of `Uniq` and `parseValues` compute is shown for values of any number.
  The library's induction theorems take a predicate as a parameter, which the provers
  cannot instantiate; `BoundedInduction` takes a set in its place and follows from the
  least element of what is not in it. `LoopRuns` then says that a loop over n values has
  a result, hence that the recursive functions of the model are defined at all;
  `TrimmedLoop` and `UniqLoop` unfold them, and `TrimmedFacts` and `UniqFacts` say which
  values come out.
* `IInv` says of whatever is stored that the last post, by a page or a program, was
  accepted and that this is what was parsed from it. `Documented` and `Entered` follow from
  what `ParseForm` makes of any sequence of texts, multiple choices included.
* `Entered` has no condition but the property's own exception: of a boolean of which
  nothing was sent, the default is stored. It does not say what the page had shown.
* `KeptAfterRejection` ties the input of a rejected page to what was sent; without
  `PageForUser` (a page for the user has an input that the user could have set) it is not
  inductive, since what is shown is the next thing to be sent. `CanFill` is where the
  model's page "failed" shows: no page with a multiple choice is ever open.
* `Kept` is `[](ShownByValue(field) => ChoiceKept)`: for a drop-down whose options have
  labels only, the property is false (`fields_labels`). `SentAgainAsBefore`
  (`[](ShownByValue(field) => SameIfSentAgain)`) has the same condition: such a drop-down
  sends its first option the second time. Both say nothing of a multiple choice, which
  has no rejected page.

`FileStoreProofs`: `TypeCorrect`, `OnlyFailuresLeaveFiles` (`Leftovers`) and
`Refinement` (`ImplementsRecordStore`). The invariant says, for each place of
`atomicWrite`, what the two files of a call look like; the rename is the commit.

`SubmissionProofs`: `TypeCorrect`, `StoredFirst` (`NotifiedOnlyIfStored`),
`PagesTellTheTruth` (`TruthfulPage`) and `HandedOverBeforeAnswer`
(`AnsweredAfterHandover`).

* `HandlerInv` says what the place of a handler implies for its row, its page and its
  client; `TaskInv` ties each message to the page of its handler. The last theorem needs
  both: an answer that arrived has an open connection, so a refusal that the template
  does not explain would need the signal.
* The proof goes by what a step concerns: one submission (and it leaves the others
  alone), one notification, or the process.

`PortalProofs`: `TypeCorrect`, `Admission` (`OnlyAdmitted`), `LoginReturns`
(`LandsWhereAsked`) and `LinksLeadHome` (`LinksOpen`).

* `Admission` rests on two facts about directories: a name that was accepted belongs to
  one form (`OneFormPerName`), and `Route` finds a form wherever one is mounted
  (`RouteMounted`), since the rest of the path beyond an address is a natural number
  and some rest is the least.
* `LoginReturns` needs `LoginInv`: while a tab is alone on its way through the login,
  its address is in the session, and after the callback has loaded it, in the snapshot.
* `LinksLeadHome` is about the listing for all names, and about results of names without
  a slash, shown at the form's own address, while user and definitions stay. It needs `LinkInv`: the links of a page are to forms of the definitions
  it was made from, for whose user they are, and a tab that follows a link still shows
  the page that has it. `OwnAddress` is the fact about the routes: whatever else is
  mounted on the way, the address of a form is served by this form. The attempt to prove
  an earlier `LinksOpen`, without the condition on the address of a result, showed that it
  did not hold for all directories (section 3).

Assumptions on the constants, which TLC evaluates in the runs: `Buffer` is a natural number, `Retry` maps tasks to
integers, `ValidURL` is a set of tasks, `Brokered` is a set of destinations, `BadTemplate` of
notifications, `Buffer` and `Workers` of `Submission` are natural numbers, directories are sequences of definitions, paths may
contain "forms", the words of `FormFields` include the empty one, "true" and "false", its
definitions have the fields that schema.Field has and its posts are sequences of texts,
the switches of `FormSession` are booleans and its tabs are finite, and
the values that stand for "nothing" (`NoTask`, `None` of `FormSession`) are none of the
things they are compared with.

Only model-checked:

* all liveness, and that the liveness of the two sub-systems justifies the fairness of
  `Submission`: TLAPS treats neither fairness nor `ENABLED`;
* the runs that refute a claim of the documentation.

## 5. What is not modelled

Parsing of YAML and of flags, and the order in which the storage is opened and
migrated; the evaluation of policies and templates (their verdict is a choice, and
templates may fail); the text of SQL statements; the captcha service and the protocol
of the login (their verdict is a choice); Redis, beyond the sessions it keeps over a
restart; layout of views, template helpers and static files; what a file system keeps
after a loss of power. These are library calls or formatting, with no state of their own.

## 6. What could be added

1. `Submission` with the two sub-systems in the place of `Notifier`: that their
   composition implements what `Submission` assumes of `stage`, as a theorem on the
   mapping of the stages.
2. Properties for the hazards that have none: a statement without columns, the migration
   of a missing directory, and the input of a form that is submitted after the login has
   expired (`PROJECT.json`, "hazards", says why each has none).
3. The page of a multiple choice, should the template stop asking a text for its elements:
   the lemmas on a page's input would then have to speak of several values.

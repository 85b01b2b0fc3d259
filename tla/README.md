# Formal models of PuerkitoBio/exp

The repository holds three programs:

* **juggler** (`src/juggler`): remote procedure calls and pub-sub over
  websockets, with Redis as the broker between servers and callees;
* **pigeon** (`src/peg`): a generator of PEG parsers, with a hand-written
  bootstrap scanner and parser, a code builder and the runtime that is copied
  into every generated parser;
* **parser/lexer** (`src/parser/lexer`): an unfinished state-function lexer.

The models are TLA+ modules checked by TLC on small instances; the theorems are
checked by TLAPS and hold for every value of the constants.

## Parts of the system

### juggler

| part | state | operations | hard behaviours |
|---|---|---|---|
| client (`client/client.go`) | map of pending calls, stop channel, websocket | Call, Sub, Unsb, Pub, Close, read loop, expiration goroutines | answer before `addPending`, timeout against late result, Close against the read loop |
| server connection (`conn.go`, `server.go`, `handler.go`) | write lock, close-once, kill channel, two broker connections | ServeConn, Upgrade, receive, pubSub, results, Send, Close, Writer | three goroutines and two broker goroutines sharing one lock and one close, failed writes, lock timeouts, panics in handlers |
| broker queues (`broker/redisbroker/{broker,calls,results}.go`) | a Redis list and timeout keys per URI and per connection | Call, Result, Calls, Results | expiry between push and pop, capacity, lost replies, failure between BRPOP and PTTL |
| pub-sub (`broker/redisbroker/pubsub.go`) | Redis subscriptions | Subscribe, Unsubscribe, Publish, Events | OK before the subscription is effective, event after unsubscribe, channel and pattern both matching |
| callee (`callee/callee.go`, `cmd/juggler-callee`) | - | Listen, InvokeAndStoreResult | call that expires while it waits or runs, several workers |
| messages (`msg`) | - | New*, Unmarshal* | which message an ERR is for |
| programs (`cmd/*`) | flags, statistics | - | wait group of juggler-load |

A call goes from the client over the websocket to a server connection, which
pushes it on the Redis list of its URI. A callee pops it, runs a function and
pushes the result on the list of the connection, from which the connection's
`results` goroutine pops it and writes it to the websocket. Each hop has its own
notion of the call's timeout: the client's timer, the time to live of a key in
Redis, and the callee's clock.

### pigeon and the lexer

| part | what it does | hard behaviours |
|---|---|---|
| runtime (`builder/static_code.go`) | backtracking matcher with a value stack | position restored on failure, labels in scope, repetition of an expression that matches nothing |
| builder (`builder/builder.go`) | generates the grammar table and the code blocks | argument lists of code blocks agree with the runtime's value stack |
| bootstrap scanner and parser (`bootstrap/*.go`) | tokens and AST of a grammar | lookahead, comments, end of file |
| AST (`ast/ast.go`) | grammar data types, char-class parsing | escapes and ranges in character classes |
| generated parsers (`pigeon.go`, `bootstrap/cmd/bootstrap-pigeon/bootstrap_pigeon.go`, `test/`, `examples/`) | a grammar table and code blocks on the runtime | the runtime's, on a grammar of their own |
| programs (`main.go`, `bootstrap/cmd/*`) | read a grammar, write a parser | - |
| lexer (`parser/lexer`) | state functions that send tokens on a channel | `Back` at the start and at the end of the input, a consumer that stops |

## Modules

| module | models | extends |
|---|---|---|
| `Client` | the client package | |
| `RedisQueue` | one kind of queue of the Redis broker, calls or results | |
| `PubSub` | the pub-sub connection of the Redis broker, its subscribers and its readers | |
| `Load` | one client of juggler-load | `Client` |
| `Conn` | one connection of the server | |
| `CallService` | abstract: what happens to a call between submission and answer | |
| `Rpc` | two `RedisQueue` instances and the callee's workers | `RedisQueue` (INSTANCE), `CallService` (INSTANCE) |
| `PegRuntime` | the runtime of a generated parser | |
| `PegScopes` | the argument lists of the code blocks beside the runtime's scopes | `PegRuntime` |
| `PegGrammars` | the grammars of calculator, andnot and predicates as data, with their code blocks | `PegValues`, `GoStrings` |
| `JsonGrammar`, `PigeonGrammar`, `BootGrammar` | the same for `json.go`, `pigeon.go` and `bootstrap_pigeon.go` | `PegGrammars`; `BootGrammar`: `PigeonGrammar` |
| `PegBuilder` | from the syntax tree of a grammar to the tables and functions that are generated; character classes | `PegGrammars` |
| `Scanner` | the hand-written scanner | `GoRunes` |
| `BootstrapParser` | the hand-written parser on top of it | `Scanner`, `PegBuilder` |
| `PegTexts` | the `.peg` files, as texts | `GoStrings` |
| `PegValues`, `GoRunes`, `GoStrings` | Go values, runes and `strconv.Unquote` (external), the reserved words | |
| `PegAnalysis` | abstract: the grammars on which a parser always ends | |
| `PegReference` | abstract: the semantics of parsing expressions, as a recursive operator | |
| `RedisQueueProofs`, `ConnProofs`, `PubSubProofs`, `ScannerProofs`, `RpcProofs` | theorems about the module each is named after | |
| `ClientProofs` | theorems about `Client` and `Load` | `Load` |
| `PegRuntimeProofs` | theorems about `PegRuntime` and `PegScopes` | `PegScopes` |
| `RpcServiceProofs` | `Rpc` implements `CallService` | `RpcProofs` |
| `MC...` | constants for TLC | |

Beside the actions, a module defines variants of some of them just before the
original (for instance `TimerExpireAlways` before `TimerExpire`): plausible bugs
that show which property would notice them. No specification uses them.

### Client

State: `results` is the map of pending calls, `callPC` the progress of the
goroutine that called `Call`, `timer` the `handleExpiredCall` goroutine of a
call, `reader` the `handleMessages` loop together with the `stop` channel it
closes, `closer` the goroutine in `Close`, `conn` and `inbox` the websocket,
`dispatched` how many goroutines were started to give the Handler a message of
each type for each request, `handled` in how many of them it has run.

`Call` is three steps because other goroutines can run between them: the write
(`CallWrite`, or `CallFail`), `addPending` (`AddPending`) and the `go` statement
(`StartTimer`). The timer goroutine either sees the stop channel (`TimerStop`)
or its timer fires (`TimerFire`) and, later, `deletePending` decides whether it
or the reader tells the Handler (`TimerExpire`). `ReceiveRes`, `ReceiveErr`,
`ReceiveOK`, `ReceiveEvnt` and `SkipInvalid` are the cases of the read loop;
`deletePending` is atomic because it holds the mutex. A `go` statement only adds
to `dispatched`; the Handler runs in a step of its own (`Handle`), at any time
after it, also after `Close` has returned. Time is left out: a timer may fire at
any moment after it was started. The server is an environment that sends what
`ProcessMsg` and `doWrite` send, in any order the goroutines of a connection
allow: OK or ERR for a request, a RES later or an ERR in place of a RES that
exceeds the write limit, possibly the RES before the OK, and events.

### RedisQueue

State: `list` the Redis lists, `expires` the timeout keys, `link`, `pc`, `held`,
`read` the connection and the loop of each consumer, `chan` what its receiver
got, `reg` what the registration returned, `now` the clock. `serial` and
`pushed` are history variables.

`Script` is the Lua script of `registerCallOrRes`: it sets the key, pushes, and
on an exceeded capacity trims the newest messages and answers with an error
(the key stays until it expires). A registration succeeds, fails before Redis
or loses Redis's answer (`Register`, `RegisterFail`, `RegisterLost`). The loop
of a consumer is `Pop` (BRPOP over its keys in order), `Check` (the PTTL/DEL
script, which drops an expired message) and `Send` on the unbuffered channel;
`PopLost`, `PopFail`, `CheckFail`, `Break` and `CloseChan` are its failures and
its end. The Go duration is truncated to milliseconds (`TimeoutMs`), with zero
replaced by the default, and SET rejects a time to live that is not positive,
which aborts the script. Time is counted in ticks, `Resolution` of which make a
millisecond.

### PubSub

State: `wmu`, `pc` and `todo` are the goroutines inside `subUnsub`; `buf` and
`wire` the write buffer of the connection and what Redis has not served yet;
`subs` the subscriptions as Redis sees them, `out` what it has sent; `evch`,
`loop`, `held` and `err` the channel and the goroutine of `Events`; `rpc`, `got`
and `seen` the readers. `asked` is a history variable.

`subUnsub` is `Lock`, `WriteVerb`, `WriteName` and `Flush` (or `CallFails`), as
redigo writes a command piece by piece into a buffer; only wmu keeps two of them
apart. `CallEvents` is `Events` under `sync.Once`; its goroutine is
`ReceiveReply` (a message is decoded and kept to be sent, anything else is
skipped), `ReceiveError` (the connection is down, or Redis answers with an error
on one that is up), `Deliver` (the unbuffered send, with a reader of
`Conn.pubSub`) and `CloseEvents`, the deferred close. Redis is external:
`Serve` handles commands in order, `Publish` sends a message once for every
subscription that matches, in any order of the subscriptions.

### Load

`Load` replaces the free environment of `Client` by `runClient` of juggler-load:
calls until it is told to stop, `wgResults.Wait`, `Close`, the error of which
ends the program. `LoadHandle` is its Handler, the step `Handle` of the client,
so that it takes messages in any order; a wait group below zero panics. `app` chooses at the start whether the client is
used freely or by juggler-load, so that one run covers both.

### Conn

State: `serve` is ServeConn, `pc` the goroutines `receive`, `results`, `pubSub`
and those of the application that use the connection (`App`), `wmu` the write
lock (a channel of capacity one), `once`, `closeErr` and `kill` the state of
`Close`, `broker` the two broker connections, `ws` the websocket, `states` the
calls of ConnState.

A goroutine that writes goes through `Write`, `Lock` or `LockExpire`,
`NextWriter`, `WriteOK`, `WriteFail` or `Exceeded`, and `Release`. `Close` is
`CloseBegin` (the first caller takes `sync.Once`, the others wait for it),
`CloseBroker` twice, `CloseKill` and `CloseReturn`. The options of Server are
constants: `LockTimeout`, `WriteTimeout`, `WriteLimit`, `Recover` (PanicRecover
is used) and `Upgraded` (ServeConn was called by Upgrade, which closes the
websocket when it returns). A client may stop reading, so that a write without
write timeout never ends; it may go away; a broker connection may break.

### CallService and Rpc

`Rpc` composes a calls queue and a results queue, both `RedisQueue`, with the
goroutine of a caller that submits calls, the server connection's `results`
stream, and workers that take calls from one `callsConn`. Both queues share the
clock. `Take`, `Return`, `Expire`, `Store` and `End` are the steps of a worker in
`InvokeAndStoreResult`. `MaxFaults` bounds the failures of connections.

`CallService` gives each call a phase: new, waiting, running, stored, answered,
or lost from any of the first four. `Rpc` is checked to implement it under the
mapping `PhaseOf`, which reads where the call is: in a queue, held by a loop, at
a worker or in a channel. This is how "executed at most once, stored at most
once, answered at most once, in this order" is stated.

### PegRuntime, PegGrammars and PegReference

`PegRuntime` makes the Go call stack explicit: a frame of `stack` is a call of a
parse function with the savepoint it took and what it has accumulated, `ret` is
the result that was just returned to the innermost frame, and a step is what a
function does between two calls. There is one action per parse function
(`ParseRule`, `ParseSeqExpr`, ...); `Parse`, `ParseEnd` and `Panic` are the
function `parse` and its `defer`. `pt`, `vstack`, `rstack`, `errs` and `cur` are
the fields of the parser. A rune is one cell of the input, so offsets count
runes where the code counts bytes; a value is abstracted to the runes it holds.
A code block is an operator that gives the set of its outcomes (a value, an
error, a panic), from the labels in scope and the text.

The grammar modules are translated from the generated tables, one definition per
rule, with the code blocks as operators on labels and text. The parsers of
pigeon build trees (`Tree` of `PegValues`): a tag, a text and the children.
`PegReference` defines what a parsing expression matches at an offset and which
value it has, by recursion on the expression, without a parser state. Its
constant `Departs` chooses between PEGs as they are defined and PEGs with four
departures that the matchers of `static_code.go` have (below, under
disagreements); everything else that the parser does is compared with both.

### Scanner, BootstrapParser and PegBuilder

A step of `Scanner` is one round of a loop of a scan function: `at` is the place
in the text with its line and column, `sc` the scan function in progress with its
local variables, `errs` what was reported, `toks` what was returned. `ScanQuoted`
stands for `scanString`, `scanChar` and `scanClass`, which differ in their
delimiter, in what ends them and in the escape of the delimiter.
`BootstrapParser` has the call stack of the recursive descent, as `PegRuntime`
does; `tok` and `pk` are the current token and the one read ahead, and while
`want` is set the scanner runs. `Parse` ends with a tree and errors, with a panic
or, in `CharClassMatcher.parse`, not at all.

`PegBuilder` is the other half: `ParseClass` is `CharClassMatcher.parse`,
`WriteGrammar` the table that the builder writes, `WriteCode` the functions for
the code blocks with their names and their arguments. Its output is an expression
of `PegGrammars`, so that it can be compared with what the repository holds and
run by `PegRuntime`.

`PegScopes` states the same of the argument lists without recursion: the calls
of `writeExprCode` for a grammar are a set (`CodeCalls`), each with the labels on
top of `argsStack`, closed under the calls that a call makes (`WriteCalls`), and
`NewArgs` are the labels that a call adds. `BuilderAssumption` says so; TLC
evaluates it on what `PegBuilder` computes for every grammar of the run, and the
proof starts from it.

## What TLC checks

| run | expected | properties | instance |
|---|---|---|---|
| `client_outcome` | pass | `NeverBoth`, `LoadWaits`, `NoDispatchAfterClose`, `CallIsSettled`, `CloseEnds`, `LoadEnds` | one call, one other request, one event, any application or juggler-load |
| `client_ok_without_outcome` | violation | `OKCallGetsResOrExp` | one call |
| `client_err_then_final` | violation | `ErrIsFinal` | one call |
| `queue_safety` | pass | `InOrder`, `OnlyPoppedLeave`, `TTLWithinTimeout` | one list of capacity 2, three messages, two brokers, one consumer, three ticks |
| `queue_delivery` | pass | `AtMostOnce`, `EventuallyPopped`, `ClosedWhenDown` | two lists, two messages that may be sent again, two consumers, one tick |
| `pubsub` | pass | `SubscriptionInFlight`, `EventsInOrder`, `EndHasReason`, `EventDelivered`, `StreamEnds` | a channel, a pattern that matches it, three messages of which one is invalid, two subscribers with two calls, two readers |
| `conn_safety` | pass | `OneWriter`, `CloseComplete` | the three loops and an application goroutine, one message each |
| `conn_liveness` | pass | `ClosedEnds`, `BrokerLossCloses`, `LockWaitEnds` | the three loops, one message each, a write limit |
| `conn_receive_leak` | violation | `ReceiveEnds` | no messages, ServeConn without Upgrade |
| `rpc_service` | pass | `StoredInTime`, `ImplementsService`, `CallEnds` | two calls, two workers, calls queue of capacity 1, one fault, two ticks |
| `peg_runtime` | pass | `FailRestores`, `PositionTrue`, `NoSilentFailure`, `MatchesReference`, `CodeBlocksFit`, `Regenerates`, `NeverLoops`, `ParseEnds` | see below |
| `peg_bootstrap` | pass | `TokenIsText`, `Regenerates`, `RoundTrip`, `LiteralsAsGo`, `ClassReadable`, `ClassMeaning`, `ParseEnds` | see below |

Properties that are proved for every value of the constants (below) are model
checked only where a run is about them.

### What the passing runs show

* **Client.** A call gets a RES or an EXP, never both nor one twice; once
  `Close` has returned, nothing that the server sends is taken for the Handler
  any more, which may still run for what was read before; a call
  that was sent gets some final message unless the read loop has stopped;
  `Close` returns and leaves no goroutine behind. juggler-load closes its
  client only when every call it made has its answer and its wait group does
  not become negative, as long as no call is answered twice; it ends when it is
  told to, unless the connection is lost while it waits.
* **Queues.** A full queue rejects the new message without dropping one that
  was accepted, provided all brokers use the same capacity. A consumer sees a
  list in the order of the pushes, and no message is delivered twice, also when
  answers are lost. The time left that is handed to the receiver is positive
  and never ends more than a millisecond after the timeout. A queued message is
  popped while a consumer of its list is alive, unless a list that this consumer
  reads before has messages again and again: BRPOP serves its keys in order, and
  without that condition TLC finds a message that waits for ever behind a list
  that producers keep filled. The channel of a connection that is down gets
  closed.
* **Pub-sub.** `Subscribe` returns before Redis has seen the command, but the
  last command for a name is in effect or on its way behind all others. Readers
  get events in the order of publication, and a message that matches a channel
  and a pattern as two events; an event that Redis sent reaches a reader while
  the connection is up and no error was received. The channel is never closed
  without an error, which is the one that `EventsErr` returns to a reader whose
  range has ended; and when the connection is down, or after an error on one that
  is up, the goroutine and its readers end.
* **Connection.** One writer at a time; the kill channel is closed once, after
  CloseErr is set and the brokers are closed. When the connection is closed,
  its goroutines and its websocket end although the client may not read; the
  loss of a broker connection closes everything; with AcquireWriteLockTimeout
  nobody waits for the lock for ever.
* **Path of a call.** The queues and the callee implement `CallService`; a
  result is stored only if the function returned within the timeout plus the
  time the call waited for a worker; a call that runs is stored or dropped
  whatever connection is lost, the others move on while their connection is up,
  and the workers end when the calls channel is closed.
* **Parser.** A failed expression consumes nothing, although most functions
  restore nothing themselves; line and column are right however often the
  parser went back; a failure always has an error. Every call of a rule accepts,
  stops and returns what PEGs with the four departures of the matchers define.
  In the inputs where the two departures at the end of the input do not show, it
  accepts and stops as PEGs do, and for calculator, andnot, predicates and JSON
  the value is that of PEGs as well. Not compared are the ten rules of the two
  grammars of grammars that call each other, which are too deep for the recursion
  of the reference; for pigeon's own parser `Regenerates` checks what they return
  on `andnot.peg`. When a code block runs, one function has its name, and the
  arguments that the builder gave it are the labels in the runtime's scope. No
  parser of the repository has left recursion or repeats what may match nothing,
  so they end on every input, not only on those of the run.
* **Bootstrap.** Every token is the text at its place, with its line and
  column, and no comment runs past its end; the scanner and `strconv.Unquote`
  agree on literals but for U+E000; a class scanned without an error can be
  parsed; ranges are where the grammar has them; every token of a text that is
  accepted is in the tree once and in order. From `bootstrap.peg`,
  `calculator.peg` and `json.peg` the hand-written parser and the builder
  produce the tables of the parsers that are checked in, and from `andnot.peg`
  the generated parser and the builder do.

### Disagreements with the comments

* `client_ok_without_outcome`: `client.go:9-12` says a call acknowledged with OK
  generates a RES or an EXP, never none. `doWrite` replaces a RES beyond the
  write limit by an ERR, which deletes the pending call.
* `client_err_then_final`: `client.go:96` says no result follows an ERR. `Call`
  writes before `addPending`, so an early ERR finds nothing to delete.
* `conn_receive_leak`: `conn.go:260-261` says NextReader fails once the
  connection is closed. `Conn.Close` does not close the websocket; only Upgrade
  does.

The models also have the following behaviours, for which there is no run of
their own:

* `client.go:122` says that no more messages will be received after `Close`. None
  is read any more, but `Close` waits only for the read loop: a goroutine that
  this has started may call the Handler after `Close` has returned.
* The matchers of `static_code.go` depart from PEGs in four ways. `.` returns the
  rune after the one that it matched (`static_code.go:487-489`). At the end of the
  input an inverted class matches and consumes nothing (`static_code.go:537-539`),
  and so does a class or a literal with U+FFFD. `.` takes U+FFFD for the end of
  the input, be it in the input or for a byte that is not UTF-8. A class that
  ignores case returns its rune in lower case. No result of a parser of the
  repository depends on these values: its code blocks take the text from `c.text`,
  but for rule `B` of `predicates.peg`, which its first rule does not reach.
* `callee.go:55-56` says the result is dropped when the timeout is exceeded. The
  time a call waits for a worker after its time to live was read is not counted:
  `StoredInTime` has that term.
* `static_code.go:43-44` says `c.pos` and `c.text` are those of the match. In a
  code predicate they are those of the last action. No code block of the
  repository decides on them.
* `broker.go:116` says the error of `EventsErr` is only set once the channel is
  closed. It is set before the deferred close, as `EndHasReason` needs.
* juggler-load calls Done twice for a call that gets an ERR and then a RES or an
  EXP (`client_err_then_final`). If the connection is lost while it waits, nobody
  calls Done any more and only the watchdog of `main` ends the program.
* `scanComment` ends a comment at any slash after any star: `/* a*b/c */` ends
  after `b/`.
* A class that is not terminated is reported and still passed on: `A=[` makes the
  hand-written `Parse` panic and `A=[\p{W` makes it read for
  ever, against the comment at `ast.go:415` ("content of char class is necessarily
  valid"), which holds for classes scanned without an error (`ClassReadable`).
* `CharClassMatcher.parse` takes an escaped minus sign for that of a range, and
  one next to a Unicode class for one between its neighbours.
* A class with `i` is written with its bounds in lower case only.
* Errors that code blocks of pigeon.go return stay in the list when the
  alternative is given up; an octal escape above `\377` gives an empty literal
  without an error.
* The hand-written parser knows neither code predicates nor comments between
  tokens of a rule; a code block without end is a panic that `parse` recovers.

### Bounds

* **Client.** Calls interact only through the connection and the read loop; the
  races (answer against `addPending`, RES against timer, Close against
  everything) are between the goroutines of one call. One other request adds a
  message to the inbox that the call does not own, and one event (`MaxEvents`) a
  message that nobody asked for. The theorems cover any number.
* **Queues.** With capacity 2, three messages are the least that exceed it, and
  two brokers the least that compete for it. The timeouts are negative, below a
  millisecond, one millisecond, and not a multiple of one; the clock passes a
  millisecond boundary. In the delivery run one consumer reads both lists, the
  other shares one of them, and a message that was delivered or lost may be
  registered anew (`Renew` of `MCRedisQueue`), so that the load need not end.
  Messages are symmetric in the safety run only
  (symmetry is not sound for liveness).
* **Connection.** One message per goroutine lets all four compete for the lock,
  with a failure at every step. `MaxMsgs` bounds the messages; the safety
  theorems hold for any number.
* **Path of a call.** Two calls and two workers on one consumer make calls wait
  for a worker and for each other; one fault breaks any one connection at any
  step.
* **Pub-sub.** Two calls, of two goroutines, are the least that compete for the
  lock and the least that subscribe and unsubscribe; a pattern that matches the
  channel makes one message two events; the invalid message is between two valid
  ones. Two readers share the channel, as two callers of `Events` would.
* **juggler-load.** One call: with it the wait group is already zero when a second
  answer arrives. The connection may break and the server send any answer.
* **Parser.** Inputs are all sequences up to four runes for the calculator (two
  alphabets, that cover its operators, parentheses that do not nest, and space),
  `andnot` and a grammar with the expressions the others lack (ignore case,
  inverted class, a missing rule, bytes that are not UTF-8, and an alternative
  that fails after it has bound a label, before one with a code block); up to two for `predicates` and three
  for its second rule alone. Four runes reach a parenthesised expression and one
  more rune, and a second iteration of every repetition. The parsers of JSON and
  of pigeon have alphabets too large for that: their inputs are texts chosen to
  reach every rule, with repeated keys, escapes, errors of every kind and texts
  that end too early.
* **Bootstrap.** Three grammars of the repository; rules of up to three tokens out
  of ten; classes of up to six runes out of `a`, `c`, `-` and up to three of seven
  escapes and signs; quoted literals of up to four runes out of a backslash, a
  digit, a letter and both quotes, and every kind of escape at its limits;
  comments of up to four runes; and a list of texts with every other error.
  Code blocks are empty, as the parser copies them.

### Fairness

* **Client.** A goroutine that is not blocked runs: a `Call` that has written
  goes on, a timer fires, the read loop takes what was received and notices a
  dead connection, `Close` returns once the loop has, and the goroutines that call
  the Handler run. Nothing is assumed of the server or of the application.
* **Queues.** The loop of a consumer runs, its receiver keeps receiving (the
  `range` loops over the channels leave only when they are closed), and an
  operation on a dead connection fails. Producers and faults are free.
* **Pub-sub.** The goroutine of Events runs when Receive can return; Redis need
  not answer with an error. Readers come back to the channel: `Conn.pubSub` does
  so after it has sent the event to its client, which supposes a client that
  reads, or a write timeout. Nobody has to subscribe, publish or close.
* **juggler-load.** As for the client; `main` tells it to stop after a while, and
  its Handler, a goroutine for every message, runs.
* **Connection.** ServeConn and the steps of every goroutine except what the
  environment decides; CloseWS only if Upgrade is there to call it. A write to a
  client that does not read may last for ever.
* **Path of a call.** As for the queues, and functions return: the callee has
  no way to interrupt one.
* **Parser and bootstrap.** Sequential code that nothing blocks. Deadlock is
  checked in the parser runs, where a finished parse stutters explicitly. The
  other systems may stop: all messages are handled, all goroutines ended.

## What is proved

All theorems are of the form `Spec => []P`, `Spec => [][A]_vars` or, for a
refinement, `Spec => OtherSpec`, for every value of the constants that satisfies
the named assumptions of the module.

| module | theorems | assumptions |
|---|---|---|
| `ClientProofs` | `TypeCorrect`, `ClientNeverBoth`, `ClientPendingHasTimer`, `ClientHandlesDispatched`, `ClientNoDispatchAfterClose`; of juggler-load `LoadUsesClient`, `LoadWaitsForAnswers` | calls are not other requests (`RequestsAssumption`) |
| `RedisQueueProofs` | `TypeCorrect`, `QueueCapRespected`, `QueueOnlyPoppedLeave`, `QueueTTLWithinTimeout`, `QueueInOrder`, `QueueAtMostOnce` | types of the constants, `Resolution` and `DefaultMs` positive (`QueueAssumption`) |
| `RpcProofs` | `CallsQueue`, `ResultsQueue`, `RpcStoredInTime` | the same of the constants of `Rpc` (`RpcAssumption`) |
| `RpcServiceProofs` | `RpcImplementsService` | `RpcAssumption` |
| `ConnProofs` | `TypeCorrect`, `ConnOneWriter`, `ConnCloseComplete`, `ConnStatesInOrder`, `ConnFirstCloseErr` | types of the constants (`ConnAssumption`) |
| `PubSubProofs` | `TypeSafety`, `WholeCommands`, `LastCommandCounts`, `OrderedEvents`, `ReasonedEnd`, `ClosedStays` | channels and patterns are different and finitely many, types of the constants (`PubSubAssumption`) |
| `PegRuntimeProofs` | `PegInvariant`, `PegTypeCorrect`, `PegOffsetsNested`, `PegFailRestores`, `PegScopeBalanced`, `PegPositionTrue`, `PegNoSilentFailure`, `PegCodeBlocksFit` | the first rule of a grammar is a rule, inputs are sequences, a line feed is not what cannot be decoded (`GrammarAssumption`, `InputAssumption`, `RuneAssumption`); for the last one `BuilderAssumption` |
| `ScannerProofs` | `ScannerTokenIsText` | inputs are sequences of runes, none of which is the mark of the end, which is no letter or digit (`InputAssumption`, `RuneAssumption`, `EndAssumption`) |

* **Client.** `NeverBoth` is not inductive: nothing in it says that a pending
  call has no final message yet. `OutcomeInv` adds that, and that a call is not
  pending before `addPending`. `TimerInv` relates the timer goroutine to `Call`:
  it exists from the moment `Call` returns and ends only after `deletePending`
  or after the stop channel is closed. `HandledInv` says that the Handler has run
  at most as often as it was dispatched, which bounds what may still run after
  `Close`.
* **juggler-load.** Every step of `Load` is one of `Client` or leaves it alone
  (`LoadUsesClient`), so the theorems above hold under load. `LoadWaits` rests on
  `Counted`: the wait group is the number of calls that were made and whose answer
  the Handler has not counted, as long as no call is answered twice. That the
  goroutines of the Handler count no message twice follows from `HandledInv`.
* **Queues.** The capacity is preserved because the script trims to it whenever
  it pushes beyond it (`ScriptList`); for equal capacities at most the pushed
  message is trimmed (`SharedCap`). `TTLWithinTimeout` needs that the key of a
  message agrees with its registration (`KeyExpiry`), that a message being sent
  carries a right time (`ReadWithin`), and that an unregistered message has left
  no trace (`NewUnused`), because a registration overwrites its history. The
  rounding to milliseconds at both ends is the lemma `MsArithmetic`. `InOrder`
  and `AtMostOnce` say nothing about a message between the list and the channel:
  `OrderInv` adds that a list is sorted by the number of the push (`ListOrder`),
  that a message a consumer holds comes after what it has delivered and before
  what is in the list, and that nobody else has it (`HeldOrder`), and the same of
  what was delivered (`ChanOrder`).
* **Path of a call.** The queues of `Rpc` take only steps of `RedisQueue`
  (`CallsQueue`, `ResultsQueue`), so the proofs about one queue are instantiated
  twice and not repeated. Between them, `Handover` says that the call of a worker
  has left the calls queue, is at no other worker, and has no result yet. `OnTime`
  relates what a worker knows of the time to what it was delivered, from which
  `StoredInTime` follows with `QueueTTLWithinTimeout`. For the refinement,
  `OnePhase` says that the places `PhaseOf` looks at exclude each other; then
  every step moves at most one call, and to the next phase or to lost.
* **Connection.** `LockInv` treats the channel as a token that at most one
  goroutine holds. `CloseInv` gives the order of the steps of `Close` and says
  that only the goroutine inside `sync.Once` takes them. `ServeInv` ties the
  calls of ConnState to the start of the goroutines and to the end of Close.
* **Pub-sub.** `LockInv` and `BufInv` say that the write buffer holds what the
  holder of wmu has written of its command and nothing else, from which follow
  whole commands and, with the order of the wire, `SubscriptionInFlight`. The
  order of events is an order of four places: what a reader has got comes before
  what the goroutine holds, before what Redis has sent, before what is published
  later (`GotInv`, `HeldInv`, `OutInv`). `LoopInv` ties the channel, the goroutine
  and the error together: the error is there before the channel is closed.
* **Parser.** The grammar is arbitrary. The invariant `IInv` describes the whole
  call stack: adjacent frames are linked (`Chain`: the callee began at or after
  the caller's savepoint, exactly there for the functions that restore nothing,
  and found the stacks deeper by the scopes the caller opened), the innermost
  frame agrees with `vstack`, `rstack` and `pt` when it begins (`Calling`) and
  when a result arrives (`Returning`), and no read can leave the input
  (`Placed`). `FailRestores` then follows for the functions that restore
  nothing from the calls they make. Every step is one of three kinds (a call, a
  return, a step within a call), for each of which one lemma shows that `IInv`
  is preserved; each parse function is then shown to make only such steps.
  `PositionInv` says of the current position and of every savepoint that line and
  column are those of the offset, so that going back restores what was right;
  `ErrorInv` that what was consumed without an error is UTF-8, and that a parse
  that ended without success has one.
* **Scopes.** `CodeBlocksFit` relates two programs. `ScopeInv` says that for every
  call in progress there is a call of `writeExprCode` for its expression, whose
  set of arguments is the set of labels that the parse function found in its
  scope (`KnownFrames`, linked from call to call by `Awaiting`); that the scope
  below one that a call has opened is as the call found it (`Outer`); and that the
  innermost one holds, when a call returns, at least what it found and at most that and what the
  builder adds for the expression, and exactly that when it matched (`Here`,
  `Found`). A failed sequence may leave labels behind. That nobody sees them is
  because a failure ends the sequences around it, up to an alternative, which
  drops the scope, or to a lookahead or a repetition, which goes on in it. The
  latter is why `BuilderAssumption` excludes labels there: with one, a code block
  may take a label that has no value. The grammars of the repository have none.
* **Scanner.** `ScanInv` describes a scan function in progress that has reported
  no error: its literal is the text from the token's position to the current
  rune, with what each function still has to see (`Going`); and at any time the
  line and column of the current rune (`PlaceOK`). The theorem is about the scanner
  with any caller that calls Scan, takes the token and may report errors of its
  own in between (`CallerErrs`), which `BootstrapParser` is.

Only model-checked: all liveness (`CallIsSettled`, `CloseEnds`, `LoadEnds`,
`EventuallyPopped`, `ClosedWhenDown`, `EventDelivered`, `StreamEnds`,
`ClosedEnds`, `BrokerLossCloses`, `LockWaitEnds`, `CallEnds`, `ParseEnds`), as
fairness and ENABLED are outside the proof system's reach here; and what is
computed by recursion on grammars, trees and texts, where a proof would need
induction over data: `MatchesReference`, `NeverLoops`, `Regenerates`,
`RoundTrip`, `LiteralsAsGo`, `ClassReadable` and `ClassMeaning`. That
`PegBuilder` computes what `BuilderAssumption` says is evaluated by TLC for the
grammars of the run, not proved.

## What is not modelled

* Encodings: JSON, the websocket framing, the wire protocol of Redis.
* Real time in the client and in the connection: a timeout may expire at any
  moment after it was set, which includes the real behaviours.
* Concurrent writes of several client goroutines to one websocket, which the
  websocket package forbids and the client leaves to its user.
* The programs under `cmd/`, apart from the worker loop of juggler-callee and
  `runClient` of juggler-load: flags, terminals, files and statistics. The
  watchdog of juggler-load, which ends the program after five seconds, is left
  out on purpose, as it would hide that `runClient` waits for ever.
* The text that the builder writes, and the text of code blocks.
* What Unicode classes hold, but for letters and digits of one byte.
* Read errors of the scanner's reader other than the end (`scan.go:545-551`): it
  goes on as at the end, with one more error reported.
* Rules and labels without a name (`static_code.go:568` and `645-647`), which the
  builder never writes.
* The positions of the nodes of a syntax tree, and their String methods.
* `parser/lexer`: its JSON states refer to a function that does not exist, and
  nothing but a test uses the rest.
* The helpers of the tests, which start servers.

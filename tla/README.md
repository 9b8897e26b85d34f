# iop-hal in TLA+

iop-hal is a hardware abstraction layer: one C++17 interface (`include/iop-hal`)
over several backends (`src/arduino`, `src/posix`, `src/cpp17`, `src/openssl`,
`src/noop`). This directory holds TLA+ models of the parts whose behaviour is
iop-hal's own, model-checked with TLC and, where it pays, proved with TLAPS.
Paths below are relative to the repository.

## 1. The system

The application defines `iop_hal::setup()` and `iop_hal::loop()`; the runtime
(`src/posix/runtime.hpp`) calls the first once and the second for ever, 50 ms
apart. Everything is synchronous: a call blocks until its work is done. There is
no scheduler of iop-hal's own; what interleaves with a call is the kernel, the
network, the peers, the callbacks the call itself makes into the application,
and, on Linux, the polling threads that GPIO interrupts start.

| component | state it keeps | operations | talks to |
| --- | --- | --- | --- |
| HttpServer, HttpConnection (`src/posix/server.hpp`) | listening socket, address, re-entrancy flag, routes; per request: client descriptor, route, payload, response headers, content length | begin, close, on, onNotFound, handleClient; send, sendData, sendHeader, setContentLength, reset, arg | kernel, peers, the application's route handlers, Log (shouldFlush), Panic |
| HTTPClient, Session (`src/openssl/client.hpp`) | keys to collect; per call: socket or OpenSSL objects, parser state | headersToCollect, begin, sendRequest, addHeader, setAuthorization, setup | kernel, OpenSSL, Wifi (status), the caller's callback, Panic |
| Storage (`src/storage.cpp`, `src/cpp17/storage.hpp`) | a buffer of fixed size, the file eeprom.dat | setup, get, set, read, write, commit | file system, Panic |
| Network (`src/network.cpp`) | the update hook, initialised flag, one HTTPClient | httpRequest and its wrappers, setup, setUpdateHook, takeUpdateHook, isConnected, update | HTTPClient, Wifi, Device, the hook |
| Wifi (`src/posix/linux/wifi.hpp`, ESP variants) | Linux: whether it ever probed; ESP: SDK state | status, setup, connect, access point, credentials | HTTPClient (a nested begin), SDK |
| Update (`src/cpp17/update.hpp`) | the binary, its `.old` copy, a temporary file | run | Network, file system, a child process |
| Panic (`src/panic.cpp`, `src/thread.cpp`) | isPanicking, the hook | panicHandler, setPanicHook, takePanicHook, halt, abort | Log, the application's hooks |
| Log (`src/log.cpp`, `include/iop-hal/log.hpp`) | the line state shared by all loggers, hook, flags | trace .. crit, their ln forms, setup, setHook, takeHook, shouldFlush, Tracer | stdout, Wifi (Tracer) |
| GPIO (`src/posix/linux/io.hpp`) | one thread per callback with its last value | setMode, digitalRead, setInterruptCallback | sysfs, Panic |
| Device (`src/cpp17/device.hpp`) | cached MD5 and MAC | firmwareMD5, macAddress, deepSleep, ... | file system, MD5 |
| MD5 (`src/cpp17/md5.hpp`) | context of a hash | Init, Update, Final | - |
| CertStore (`src/arduino/esp/esp8266/cert_store.hpp`) | one trust anchor | findHashedTA, freeHashedTA | BearSSL |
| ESP HttpServer, CaptivePortal, HTTPClient, Update | pointers to the vendor's objects | forwarding | Arduino cores |
| Strings, Thread, Runtime, no-op backends, build scripts, example | none of interest | | |

Hard behaviours, and what would make each component correct:

* **HttpServer.** Route handlers run inside `handleClient()` and may call the
  server again; every early return must put the flag back; each accepted
  descriptor must be closed exactly once, also when the handler hung up; only
  one successful `read()` is looked at, so a request the network cuts is parsed
  as far as it came; `begin()` has early returns that keep or lose a socket.
  Correct means: one connection at a time, each closed once, nothing left
  between calls, handlers given what was sent, forms read as they were filled
  in, calls that return.
* **HTTPClient.** The response is parsed piece by piece while it arrives; twelve
  calls may fail on the way to a session, each with its own list of objects to
  free; the end of a connection is indistinguishable from the end of a response.
  What it asks is cut out of a URI by searches for separators.
  Correct means: what is asked is what the URI names, one outcome per call, an
  error or the truth, and nothing kept.
* **Storage.** `commit()` truncates the only copy and writes it anew; the process
  may stop, or the write fail, at any point. Correct means: what a successful
  commit saved is what later setups find, and two commits never mix.
* **Network, Wifi.** The hook may be set or taken at any time; one setup per
  process although `isConnected()` may come first; a status the client cannot
  classify; a probe that runs the client inside the client.
* **Update.** Two renames and a remove, with a crash in between; a cached hash
  that outlives the binary it is of. Correct means: whatever fails or stops, one
  binary is the device's, and it changes only to a received one, while the old
  process does nothing more.
* **Panic.** Re-entry from a hook, two threads panicking at once, `halt()` on a
  system where sleeping for ever is a conversion away from not sleeping at all.
* **Log.** A line is built by several calls, and all loggers, levels and threads
  share one line state, which moves even for calls that the level hides. The
  functions of a hook may log, and are set one by one while others print. The
  server turns flushing off while a handler runs. Correct means: calls that do
  not overlap make whole lines, overlapping ones do no lasting harm, and what is
  printed is flushed.
* **GPIO.** Polling misses edges between two reads; callbacks run on a thread of
  their own beside the main loop. Correct means: no call without a change, and a
  change that lasts is heard.

## 2. Modules

| module | what it is |
| --- | --- |
| `ByteStreams` | sequences of bytes: `Find` (`string_view::find`), `Take`, `Drop`, what a `read()` may return |
| `SerialService` | abstract: connections served one after the other |
| `HttpServer` | the POSIX server, detailed; implements `SerialService` |
| `HttpForm` | what a handler reads of a form: `arg()`, `percentDecode()`, over the state of `HttpServer` |
| `HttpUri` | what the client takes from a URI: scheme, host, port, path |
| `HttpExchange` | abstract: a call has one outcome, an error or the truth |
| `HttpClient` | the desktop client, detailed, over `HttpUri`; implements `HttpExchange` |
| `DurableStore` | abstract: what a successful commit saved is found again |
| `Storage` | the desktop storage, detailed; implements `DurableStore` |
| `Network` | requests, hook, probe and the cached hash, as a stack of calls |
| `FirmwareSlot` | abstract: a device runs the binary in its slot, and only a process that runs it puts another there |
| `Update` | composes `Network` with the updater, the files, a server, stops and restarts; implements `FirmwareSlot` |
| `Panic` | the panic handler, the hook, `halt()`, in a process of several threads |
| `Log` | the logger: lines built by several calls, threads and hooks, and who flushes them |
| `Gpio` | composes `Panic` with the polling threads, their pins and the application |
| `MCHttpServer`, `MCHttpClient`, `MCStorage`, `MCUpdate`, `MCGpio`, `MCLog` | small instances for TLC |
| `*_proofs` | theorems, checked by TLAPS; `HttpParser_proofs` has those on what the server parses |

**Bytes.** A request or response is a sequence of tokens: CR, LF, a method
word, a path, a header line, a piece of payload. All offsets the code computes
fall on or between such runs, except where a read cuts a run; there the outcome
the code gets is enumerated (no method found; no line end found). In a URI and
in the body of a form a token is a single character.

**HttpServer.** State: the members of `HttpServer` and `HttpConnection` under
their own names, `pc` for how far `handleClient()` is, the peers with what they
sent and what has not been read, and two history variables (what a handler was
given, what was written). `handleClient()` is cut into steps where the kernel,
a peer or a callback decides what comes next: `Accept`, `Read*`, one action per
branch of the header loop, `Dispatch`, each call a handler may make
(`SendHeader`, `SetContentLength`, `Send`, `SendData`, `HandlerReset`, and every
operation of the server itself, since `Application` includes "handler"), and
`HandlerReturns`. Every return is `Return`, which includes `Reset`, as each
return in the code calls `conn.reset()`. The member `address` is not
initialised by its class, so it starts as garbage or as null.

**HttpForm.** `Arg` and `PercentDecode` read `currentPayload` and change nothing,
so they are operators, and `ArgsAsFilled` compares them with how a form is sent:
each byte of a value as it is or as an escape. The table of hexadecimal digits
is one of plain `char`; where that is unsigned, as it is in Linux on ARM, its -1
is not below 0 and a bad escape is not refused. The model is of a build where it
is signed. A "+" stays a "+", and of a form that begins with an ampersand the
first value begins with "=": neither is promised.

**HttpClient.** `begin()`'s way to a TLS session is a table, `Ladder`: one rung
per call that may fail, with what it allocates and what its early return frees.
`sendRequest()` is a step per `recv()` and per turn of its two loops. A session
keeps its own copy of the headers to collect and those to add; the client's may
be changed at any time, also by the callback. `HttpUri` follows the searches and
cuts of the code, `uri` being what a caller means by it. Three things are not
promised by `AskedAsNamed`: a port of more than 16 bits is cut to 16; a path that
holds "://" may be cut at the wrong place; a colon in a path is taken for the
port's, after which no host is found and nothing is sent.

**Storage.** `CommitOpen` truncates, `CommitWrite` lets any further part of the
buffer reach the file, `CommitDone` and `CommitFails` return, `Crash` may happen
between any two of them.

**Network.** Calls nest in one process: a response may call the hook, which may
send a request, and the first `Wifi::status()` sends one from within `begin()`.
`calls` is that call stack, a record per request; its place (`begin`, `sent`,
`received`, `hook`) is how far `httpRequest()` is, and only the innermost one
moves. A request's HTTP is one step (`Answered`, `Fails`); `HttpClient` is about
that. Binaries stand for their MD5: `LATEST_VERSION` is compared with the hash of
the file at the path when it was first asked for (`FirmwareMD5`).

**Update.** `phase` is the statement `run()` is at. The process modelled is the
innermost one: the old process only waits in `system()` and exits with its child,
so `Execute` is the start of a process with fresh statics. `Stop` is anything
that ends it (a kill, a panic, an exception out of a `noexcept` function),
`Restart` what starts the device again, which needs a file at the path. In terms
of `FirmwareSlot`, the slot holds what is at the path or, between the renames, what
the process saved of it; it is startable when the path is not free.

**Panic.** `panics[t]` is the stack of `panicHandler()` calls of a thread, as a
function of the hook that the application wrote may panic. `defaultEntry()` looks at
`isPanicking` and sets it in two steps, as nothing makes them one. A thread in
an application's function may stay there for ever, so `Panicking` has no
fairness. `Seconds` is the conversion of `deepSleep()`, at any width. The two
overloads of `panicHandler()` differ only in what they print.

**Log.** `calls[t]` is the stack of a thread's calls within `log()`, each at one of
its statements, as a function of a hook may log itself; the state is read when a
call starts and stored by a step of its own. `logType` is a reference, so that
each statement looks at the state as it is then. `copying[t]` is what `setHook()`
has yet to assign, and `script[t]` what a function of the library has yet to
log: scopes of the tracer, memory figures with `Wifi::status()` in the middle of
a line, a panic, a server that turns flushing off for its handler. `open`,
`unflushed`, `alone` and `torn` are history: whose line is unfinished, whether
text waits for a flush, whether the call has the logger for itself, whether the
line is one that its calls alone made. Simplified: the functions for text in
flash and in memory print alike, but for which one a hook replaced; the two
pointers of a hook for TRACE are one; the four prints of a line's label are one
step; parts of a line after the second change nothing and are left out; one line
stands for the sizes of all kinds of memory; only threads of `Scripted` set hooks
and run the library's own logging, which does one such thing at a time but for a
panic in a handler; tracing inside panics is left out.

**Gpio.** `at[t]` is the statement a polling thread is at; it acts while it
`Runs`, i.e. does not panic and the process lives. `digitalRead()` yields what the
file says, or, as an unreadable file counts as HIGH, a wrong level
(`glitches`); `iop_assert` on a file that does not open is `Panics`.

## 3. What the runs check

| run | instance | checks |
| --- | --- | --- |
| HttpParse | 1 connection, 6 kinds of request and 2 forms in 2 encodings each, all faults, all handler calls | the handler's payload is what was sent (`PayloadAsSent`); its path is the request's (`RoutedAsAsked`); a whole request with a header never trips the parser's assertions (`OneReadNeverPanics`); `arg()` finds what was filled in (`ArgsAsFilled`); "FD not found" needs a garbage address (`AddressNeedsSocket`) |
| HttpSerial | 2 connections, 2 requests, handlers that call back | the inductive invariant of the proofs, types included; the flag is up exactly during a call; closed exactly once; idle is clean; refinement of `SerialService`; calls return; waiting connections are served |
| HttpPathTooLong | 1 connection, nothing fails | refutes "bytes don't contain newline, the path is too long" (`server.hpp:222`): a first `read()` that ends within a short first line stops the process too |
| Client | 10 URIs, 8 responses, every cut, every failing call | the invariant of the parser, types included; nothing leaks but the socket of a failed `connect()`; what is asked is what the URI names; a response sent to its end is reported whole; refinement of `HttpExchange`; a request ends, as each of its steps leaves less of it to do (`WorkShrinks`) |
| ClientShortLine | 1 response, nothing fails | refutes "Header line used more than 4kb" (`client.hpp:257`): a cut in a short line panics as well |
| Storage | sizes 2 and 3, two byte values, crashes, failing files | types; the file is one commit; sizes are fixed; refinement of `DurableStore` |
| StorageLastBytes | size 2 | refutes "returns std::nullopt if address is out of bounds" (`storage.hpp:37`) as a description of when it does: the array that ends where the storage does is refused too |
| Firmware | 2 versions, 1 hook, a request in the hook, stops anywhere | the inductive invariant; one probe; a process runs and announces what is installed; a way back after every stop; no partly written binary in place; an offered version reaches the hook; refinement of `FirmwareSlot` |
| FirmwareCut | the same | refutes "The payload is always downloaded, since we check for its size" (`network.cpp:175`): a cut binary replaces the running one |
| Logging | 2 threads, builds that show all levels and only INFO and above, 1 hook | the inductive invariant; calls that do not overlap make whole lines (`LinesAreWhole`); what is printed is flushed, unless flushing is off (`NothingStuck`); a line end mends what overlapping calls broke (`Heals`) |
| Threads | main and a polling thread, 2 nested panics, one hook | the inductive invariant; nested panics get through the default entry once; only a reentry aborts uncleaned; a panic does not return; no callback without a cause; a change that lasts is heard |
| HaltAborts | the same | refutes "Pauses execution and never comes back" (`thread.hpp:45`): the longest sleep is one of -1 seconds |

Five violation runs are disagreements between the code and what it says of
itself; the others pass. `PROJECT.json` names, for every property, a change of
the code (an operator such as `ResetKeepsClient` or `CommitOpenKept`, marked
"mutant" in its module) under which the property fails.

**Bounds.** One connection is enough for parsing, since handleClient() shares
nothing between connections but what `IdleIsClean` says is reset; two are the
least for "serially", "exactly once" and "is served". The requests cover every
branch of the parser: no header, one, two, a body, a body with line ends, a
header naming another method, an unknown method, and forms with a name that ends
another, a name within a value and a name twice. `BufferSize` 24 holds each of
them whole. `MaxWrites`, `MaxHeaders` and
`MaxLeaks` cap counters that no guard reads. For the client, the responses cover
every branch of its parser, a repeated header and a body that looks like one;
`BufferSize` is the whole response in tokens, and all shorter reads are
enumerated, so that a smaller buffer adds no cut. The URIs have each part and lack
it, ports at and above 16 bits and one that is no number, and colons and a scheme
in the path. For the storage, two sizes are
the least for a file of another size than the buffer, two byte values the least
to tell two commits apart. For logs, two threads are the least that overlap, and
with `MaxCalls` 2 calls at once either two threads log or one does from within a
hook's function; the builds are one that hides nothing and one that hides two
levels. For updates, two versions are the least for an offer
and an update, and `MaxDepth` 2 for a request within a hook; a third level adds
no transition, as only the innermost call moves. For panics, two threads are the
least that race, and a panic within a panic within none is the first that can
be a reentry (`MaxDepth` 2); the hook has an application's entry, view and halt,
and mixes with the default one when it is set or taken in the middle of a panic.
`Width` 4 stands for 64: `Seconds(0)` is -1 at every width. `MaxEdges` 2
is a change and one back, at any two points of the loop, and `MaxGlitches` 1 a
wrong reading between; a pin may change any number of times unheard. The
theorems hold for all values of these constants.

**Fairness.** `loop()` is called for ever and an application that has begun a
server calls `handleClient()` from it (`Accept`); the code between two kernel
calls runs on (`Parse`, `Parsing`); a handler returns. A peer that connects sends
something or hangs up, and a server that was asked answers or closes: without
this neither `handleClient()` nor `sendRequest()` returns, as both wait without a
timeout. A polling thread is scheduled, its 100 ms end and its callback returns (`Poll`).
Nothing is assumed about applications beginning a server, peers connecting,
handlers writing, pins or panics. If peers need not send or hang up and servers
need not answer, `HandleClientReturns`, `WaitingIsServed` and `RequestEnds` are
false of the code; they are conditional on it.

## 4. What is proved

For every value of the constants:

* `HttpServer_proofs`: `ServerInvariant`, `TypeCorrect`, `FlagCorrect`,
  `ConnectionsClosed`, `IdleClean`, `AddressCorrect`, `ImplementsSerialService`.
  `ServerInv` is inductive. The flag, the descriptor and the flush switch are
  only correct together: that a `Return` closes once needs that the current
  client is not closed yet (`ClosedExactlyOnce`) and that a step of the parser
  has a current client (`Serving`); that idle is clean needs that logs are held
  back only while a handler runs (`Serving`). `Serving` is the strengthening, the
  other conjuncts are checked as properties of their own. The refinement maps a
  connection's stage from `peer` and `closes`; its proof has a case per action
  of `Next` and uses the invariant for the steps that finish a connection.
* `HttpParser_proofs`: `ParserInvariant`, `PayloadCorrect`, `RouteCorrect`,
  `OneReadIsSafe`, `ArgsCorrect`. The invariant of the header loop says that the buffer is a
  piece of the request, and that the empty line is still ahead, or was cut by
  the end of the read after its first half was dropped, or is what was dropped
  last. The lemma `Turn` is one turn of the loop: the two searches of the code
  agree only at the empty line. `FirstFieldIsRead` is about `arg()`: of a form
  that does not begin with an ampersand it reads the first field of exactly the
  name it is given. `DecodingUndoesEncoding` is about `percentDecode()`: it gives
  back every value from every encoding of it. Both are put together by
  `FormIsRead`, for any form, and `ArgsCorrect`, for any execution. Three of its
  steps are inductions, over the bytes of a value, the pieces of its encoding and
  the fields of a form; each takes the least counterexample (the lemma
  `Smallest` of `ByteStreams_proofs`) where a rule of induction would be cited.
* `HttpClient_proofs`: `Released`, `TypeCorrect`, `ClientInvariant`,
  `AllIsReported`, `KeepsItsPromise`, `AsksWhatIsNamed`, `WorkAlwaysShrinks`. For `Released` the
  invariant says which objects `begin()` owns at each rung; each early return
  must free exactly these. The twelve rungs are constants of the code, so their
  lists are checked one by one. `ParserInv` is an account of a response: what
  was dropped from the buffer, what is in it, and what has not arrived make it
  up; the headers are those of the lines dropped (`Parsed`), and none of what is
  dropped is part of the empty line before that is found. Lemmas say how the
  head of a response begins, grows line by line and ends. The refinement has a
  lemma for what the steps of `HttpExchange` are (`ExchangeSteps`), and then a
  case per group of actions. For the URI, lemmas place the separators in a text
  made of host, port and path, and show what each search finds. `Work` counts a
  token that has not come four times and one in the buffer once, as a token may be
  looked at by two steps; that a turn of the header loop lowers it needs that a
  line end is in the buffer when it looks for one (`ParserInv`). What `RequestEnds`
  says beyond `WorkAlwaysShrinks` is that the next step is made.
* `Storage_proofs`: `StorageInvariant`, `StorageTypeCorrect`, `FileCorrect`,
  `SizeIsFixed`, `ImplementsDurableStore`. The strengthening is
  `CommitIsOfBuffer`: what is being committed does not change meanwhile.
* `Update_proofs`: `FirmwareInvariant`, `FirmwareSurvives`, `FilesAreWhole`,
  `FirmwareAnnounced`, `OneProbe`, `OfferAlwaysReachesHook`, `ImplementsFirmwareSlot`.
  `FirmwareInv` adds to
  the properties what one statement of `run()` leaves to the next (`Replacing`:
  the path is free exactly between the renames, the temporary file is the whole
  payload from the first rename on) and that every payload on the stack was sent
  (`AnswersWereSent`). The stack comes first, with a lemma per way a step changes
  it (a call pushed, continued, returned), then each action. The refinement rests on
  the same account: between the renames the saved binary is the one that runs, and
  what the second rename puts in place was received.
* `Log_proofs`: `LogInvariant`, `LinesWhole`, `NothingIsStuck`, `Mended`. `LogInv`
  adds that a call which has the logger for itself is the only one there is, and
  what it stored is still there (`AloneInv`); what it finds printed at each of
  its statements (`WholeInv`); and that a script which turns flushing on flushes
  next, and a hidden call only ever stores (`CallsInv`). Lemmas treat the steps
  by what they do to the calls: one more, one that goes on, one less.
* `Gpio_proofs`: `ThreadsInvariant`, `ReentryEnds`, `CleanedUnlessReentry`,
  `CallsCorrect`, `PanicNeverReturns`. That one panic of a thread claims needs
  that `isPanicking` outlives every claim, and that a panic between the check
  and the claim is the innermost, of a default entry, with no claim below it
  (`PanicInv`). That calls have causes is an account: calls made, plus the call
  the next comparison makes, plus the one the pin's level would make, never
  exceed changes plus twice the wrong readings (`CallsAndPending`).
* `ByteStreams_proofs`: `FindIsFirst`, that `Find` returns the first occurrence,
  and the lemmas on pieces of byte strings that both parsers rest on.

The proofs assume only the named `ASSUME`s of the modules. Those that say more
than the type of a constant: a request has a method and a path
(`RequestAssumption`), a response at least two tokens (`ResponsesAssumption`), the
lines of an HTTP response's head end in CR LF and names of headers are at the
beginning of one (`HttpAssumption`), a header that is sent has a value
(`ValueAssumption`), hosts and ports have no separators in them
(`UrisAssumption`), the names of a form have none either (`FormsAssumption`),
and what separates fields and begins escapes is no hexadecimal digit
(`HexAssumption`).

**Model-checked only**: liveness (`HandleClientReturns`, `WaitingIsServed`,
`RequestEnds`, `LastingChangeHeard`), which is beyond the prover.

## 5. What is not modelled

Within the components that are: the bytes of a request and of a reply's head;
moving a client, or the payload out of a `Response`; log texts. `SIGPIPE` is an
outcome of a write in the client; the server's writes report it as a failed
write. Two processes that update one path at once (a waiting parent killed
alone), temporary files left behind, and exit codes. Short pulses that fall
between two readings of a pin are missed by the code and the model alike; no
property promises them. `Panic` copies a hook's five pointers in one step,
although two threads may tear it; in `Log` the pointers are assigned one by one.
A log hook that panics. `GPIO::setMode()` writes two files of sysfs and keeps
nothing.

Whole components, with the reason:

* `Md5` is a copy of a public-domain implementation of a published algorithm,
  called once per process on a whole file. A binary stands for its hash.
* The ESP and Arduino variants of HttpServer, CaptivePortal, HTTPClient, Storage,
  Update, Wifi, Device and Log forward to vendors' libraries. What could go wrong
  depends on what those promise, which the repository does not hold; iop-hal's
  own part is a pointer, and a flag around a call. `CertStore` allocates in one
  callback of BearSSL what it frees in the other: in which order BearSSL calls
  them is not the repository's either.
* Strings, Thread and the other queries of Device convert or read, without state.
  Runtime is the loop that justifies the fairness of `HttpServer`. The no-op
  backends do nothing; the build scripts run before there is a device; the
  example does not compile against this version.

## 6. Plan

Done: the server, its parser and its forms, the client and the storage with
their abstract specifications and the proofs that they implement them; network
and updates; panics and GPIO; the logger. What a next step could add:

1. An abstract specification of `Panic` (a panic is entered, cleaned up, over) as
   a refinement.
2. A header whose name begins with a collected key (`client.hpp:324`): no key the
   repository collects is the beginning of another, so nothing tells yet.
3. Another disagreement to settle with a run: `LAST_VERSION` (`network.hpp:15`),
   a header the code calls `LATEST_VERSION`.
4. `CertStore`, once what BearSSL promises about its callbacks is written down.

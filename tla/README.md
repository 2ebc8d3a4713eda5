# php-trace in TLA+

php-trace is a PHP extension in C++: it hooks the calls of the interpreter, turns
traced calls into spans, keeps them in a ring buffer, and a background thread posts
them to Loki or Tempo. These modules model its stateful parts and its pure functions;
TLC checks them on small instances, and TLAPS proves every safety property of them for
every instance.

    server: load, fork, reload, kill
    MINIT ... MSHUTDOWN  (Lifecycle)  --start, stop-->  exporter thread        backend
    RINIT ... hooks ... RSHUTDOWN  --try_push-->  ring  --drain-->  batch  --HTTP-->
    (Tracer)                                  (SpanBuffer)     (LokiExporter)
                                                    \-- implements --> SpanQueue
    what a span says:  Zval, SpanIds  -->  SpanContent  -->  Payload  -->  reader

## Inventory

| Component | State | Operations | What makes it correct |
|---|---|---|---|
| `SpanBuffer` (`span_buffer.*`) | `write_pos_`, `read_pos_` (not atomic), slots with `has_data` and a span, two mutexes, a condition variable, three totals, `shutdown_` | `try_push`, `push`, `drain`, `drain_all`, `shutdown`, readers | A slot has one user at a time; FIFO, nothing lost uncounted or repeated; no call hangs |
| `LokiExporter` (`loki_exporter.*`) | `running_`, `stop_requested_`, the thread, its batch, the curl handle, four counters | `start`, `stop`, `worker_loop`, `send_to_loki` | Every span taken is stored or was given up after all retries; bounded duplicates; `stop()` flushes and returns |
| Request tracing (`php_trace.cpp`) | the thread's `TraceContext`; the locals of the hooks on the C stack | `RINIT`, `RSHUTDOWN`, both execute hooks, `php_trace_create_span`, `php_trace_finalize_span` | The context follows the call stack; one span per traced call, with its own start, depth, parent and trace |
| Module lifecycle (`php_trace.cpp`) | `g_span_buffer`, `g_loki_exporter`, `hook_installed`, `original_execute_ex`, `original_execute_internal` | `MINIT`, `RINIT`, `RSHUTDOWN`, `MSHUTDOWN`, `install_hook`, `remove_hook` | Calls reach the engine through our hook once; one live worker per process, outlived by what it uses |
| Span data and ids (`span.*`) | a counter per thread | `Span::create`, `generate_id` | Trace ids differ; span ids of one time, or of one counter, differ |
| Value conversion, trace header (`php_trace.cpp`) | none | `zval_to_string`, `capture_args`, `capture_return`, `extract_trace_context` | Bounded recursion; one cut; a header is adopted only when it is complete |
| Payloads (`loki_exporter.cpp`) | none | `json_escape`, `build_payload`, `build_tempo_payload` | Both backends show the span that was pushed |
| Status (`php_trace.cpp`) | none | `php_trace_status` | Counters read one after another make sense together |
| Filter | none | `should_trace` | Limits hold on every path |
| Configuration | INI entries, all `PHP_INI_SYSTEM`, and environment variables | read at `MINIT` | Constants of the modules |

The components meet in three places: hooks call `try_push` on the PHP thread; the
exporter drains on its own thread; `MINIT`, `RINIT` and `MSHUTDOWN` create, start and
stop. What is hard: the two sides of the ring share no lock and one of the shared
words is not atomic; wake-ups can be missed; HTTP answers are lost; `stop()` races with
everything; fatal errors and Fibers break the pairing of call and return that the
context relies on; a fork copies flags and no threads; the hook pointers belong to every
extension. `PROJECT.json` lists each hazard at its line.

## Modules

**SpanQueue** is what the ring promises: a bounded FIFO queue with `Accept`, `Refuse`
and `Take`. `LokiExporter` is written against it, `SpanBuffer` is shown to implement it.

**SpanBuffer** has one action per access to shared memory. `try_push` is `push` with a
deadline that has passed, `drain_all` is `drain` without a wait or a limit. The data
race on `read_pos_` is `lag`, the number of stores that the producers do not see yet
(`ReadPosVisible`), or -1 when the store became visible before the consumer had finished
with the slot (`ReadPosEarly`), which the source allows since nothing orders a plain
store. The condition variable has missed notifications, spurious wake-ups and time-outs.
Spans are numbers of push calls; `accepted` and `taken` are histories.

**SpanStatus** adds to SpanBuffer the PHP threads that are in `php_trace_status()`, which
loads `total_pushed`, `total_dropped` and `total_drained` one after another while other
threads push and drain. What a reader has found is kept in `status`, with two histories:
how many push calls had returned when it began to read, and how many had begun when it
ended. A thread that reads does not push. The loads are taken to see the counters in
program order; a sole PHP thread sees its own two counters exactly on any CPU.

**LokiExporter** has the worker loop with its retries, the thread that starts and stops
it, and a backend that may store a request although the attempt failed. One thread at a
time calls `start` and `stop`. The blocking wait of `drain` is not a step: it may end at
any time by data, shutdown or time-out, and what it leaves open is checked in SpanBuffer.

**Tracer** is one PHP thread. A frame is the C++ frame of one hook invocation with the
hook's locals; a call of a generator's body counts as a call, as it does for the hook.
A Fiber takes its frames with it when it suspends; a fatal error discards all running
frames, and shutdown functions run after it; session handlers may run PHP code after
`RSHUTDOWN`. Clock readings and ids are distinct numbers: a call's start time is its number.
Frames of internal calls return only where the hook has an original to call, that is, when
another extension had hooked internal calls before (see `lifecycle_internal`).

**Lifecycle** gives each process a copy of the globals and of the exporter's fields. A
process is loaded, initialised, idle (`up`) or serving a request, and shuts down in the
order of `MSHUTDOWN`: ask the worker to stop, join it, delete the exporter, remove the
hooks, delete the buffer. Another extension may hook the same two pointers before this
module or after it; the server may fork an idle or a serving process, start the engine
again in the same process, as Apache does, or lose a process at any moment. A fork
copies everything but the worker, whose `std::thread` object is then `copied`. To assign to
a `std::thread` that is live, ended or copied, or to destroy it, calls `std::terminate`, which
`terminated` records. The worker is reduced to draining and ending, the buffer to whether it
holds spans.

**Zval**, **SpanIds** and **Payload** are pure: the text of a PHP value in a heap with
references, the arithmetic of ids on words of `Width` bits, and the two payloads with
what a JSON parser reads back. What recurs in them (a conversion and its depth, powers and
bits, a parser and its position) is a recursive function, about which one can reason.
**SpanContent** drives them: each behaviour takes one input (a call, a manual span, a header,
a value, a clock reading with a counter), runs it through the code's functions and keeps
input and result for the invariants; the texts TLC tries are in MCSpanContent. A text is a
sequence of bytes, one for each kind that `json_escape` treats alike; what is spelled out
by the code (a number, a marker, a key) is one symbol. Loki's line carries `depth` and the
span's own `service_name` besides what Tempo gets too; the stream's label takes the
configuration's name when the span has none, the line does not. The labels `job` and `kind`
and the configured extra labels are left out.

Operators named for a fault (`NeverFull`, `DropUncounted`, `InstallAgain` ...) are no part
of a specification. Each stands before the definition it is a broken variant of, and is
used to show that a property fails when the code is wrong in that way.

## Runs

| Run | Instance | Shows |
|---|---|---|
| `ring_safety` | ring of 3 slots, 2 PHP threads that push (4 pushes) or read the counters, 1 consumer, `drain` of 1 or 2 | the ring is a bounded FIFO queue under every interleaving and every value of the racy load; implements SpanQueue; what `php_trace_status` loads, one counter after another, makes sense together |
| `ring_liveness` | ring of 2 slots, 3 pushes, `drain` of 1 | published spans are taken, calls return |
| `exporter` | queue of 3, batches of 2, 1 retry, 4 spans, 2 starts | nothing vanishes, bounded duplicates, consistent counters, flush on stop; the buffer is emptied in the end, `stop()` returns |
| `tracer_request` | 1 request, 3 traced calls of both kinds, 4 frames, `max_depth` 2, a manual span | context, starts, parents |
| `tracer_fibers` | 2 requests, 1 fiber, 3 traced calls, 3 frames, fatal errors | no call without its span or with two; what one request broke does not reach the next |
| `tracer_parents` | 2 traced calls | *violated*: a nested call does not get the call around it as its parent, `php_trace.cpp:587` |
| `tracer_unsampled` | an unsampled request | *violated*: `php_trace_finalize_span` pushes a span without a trace id, `php_trace.ini:54` |
| `lifecycle` | 3 processes (a child and a grandchild), 1 reload, every configuration | user calls reach the engine, the worker has its buffer, `MSHUTDOWN` flushes, no joinable thread object is assigned to or destroyed |
| `lifecycle_fork` | 2 processes | *violated*: a forked process has `running_` and no worker, `loki_exporter.h:76` |
| `lifecycle_internal` | 1 process | *violated*: the hook for internal functions calls nothing, `php_trace.ini:81` |
| `span_content` | texts of 2 bytes, headers of 7 characters, values of 3 cells, 4-bit ids | what a span says arrives at the reader of either backend; headers, cuts, recursion, ids |
| `span_service` | as above | *violated*: Loki's label prefers the INI file's service name to the environment's, `php_trace.cpp:115` |

**Bounds.** Four pushes go round a ring of three slots and fill it, refuse a span while two
are in it, and use the first slot a second time. They leave pushes of the other thread before,
during and after each load of a reader. `ring_safety` counts states up to an exchange of the
two producers, which do the same, has one reader at a time (`OneReader`; readers change
nothing), which returns when it has loaded everything (`ReaderReturns`), and none after
`shutdown`, which the exporter calls when PHP code has ended (`ReadersAreGone`); the theorem
`StatusIsSensible` does without these three. Two producers are enough for contention on the mutex, and the mutex makes a
third one like the second. Four spans let a batch be full, short and followed by a final
drain with the buffer refilled; one retry separates first, middle and last attempts; two
starts cover one that fails or the state a former worker leaves. Three traced calls give
nesting and siblings with `max_depth` 2 in reach; a fiber that takes one of them away
reaches every order of return. A grandchild is forked by a process that is itself a copy;
one reload is what Apache does. Two bytes of a text give each escape a neighbour; seven
characters hold four dashes and a field between each two, or no dash at all; three cells
are an array, a reference back to it and an element beside it, and reach the limit on
depth since the reference goes round; strings in them are up to one byte longer than the
limit on length, and arrays that hold them longer still. Four bits are more than both shifts, so that each
part of an id has bits of the clock alone and of both. `MaxSpans`, `MaxStarts`,
`MaxRequests`, `MaxNesting`, `MaxCalls`, `MaxIds`, `MaxManual`, `MaxReloads`, `MaxText`,
`MaxHeader`, `MaxCells`, `MaxElements` and `MaxString` bound the behaviours and stand for nothing in the code.

**Deadlock** is checked except where a system may rest: a stopped exporter with no span
left to offer, a server whose processes are all gone, and SpanContent after its one input.

**Fairness.** A started push or drain goes on (threads are scheduled; a mutex is released
after finitely many steps), `wait_for` times out (strong fairness: the consumer sleeps
again and again), deadlines pass, pending stores become visible, and the worker drains
again and again while it runs. HTTP attempts end because `CURLOPT_TIMEOUT` is set. No
fairness is assumed of PHP code, of `start`, `stop` or `shutdown`, nor of a server.

## What the checks show

- The race on `read_pos_` is benign for the content of the slots, even with an early
  visible store, because one slot always stays free. It is proved, not only checked.
- The busy wait for `has_data` is never entered; `write_pos_` already orders the fields.
- `php_trace_status` can show more spans drained than pushed only by as many as there are
  push calls of other threads while it reads; a process with one PHP thread never shows that.
- Missed notifications cost at most one `flush_interval` of delay.
- Delivery is neither at most once nor at least once: unconfirmed attempts are repeated,
  and a batch whose attempts all fail is dropped.
- `spans_exported` can be trusted inside the loop only; the final drain counts failures.
- One span per traced call survives fibers and fatal errors; start times survive fatal
  errors but not fibers, `depth` survives neither; each request begins clean.
- Parents are previous siblings or cousins and never callers, so they have always been pushed.
- Under a prefork server the children export nothing, unless they were forked from a
  process whose exporter never started. This is the gravest disagreement found.
- `trace_internal` before PHP 8.3 replaces internal functions by nothing, unless another
  extension hooked them first; the hook then also stays in place after `MSHUTDOWN`.
- The order of `MSHUTDOWN` is right, and repeated `RINIT`s, forks and reloads never
  assign to a joinable `std::thread`, nor make the hook its own original.
- Escaping, once for Tempo and twice for Loki, is lossless for every byte.
- Trace ids differ whenever the clock or the counter does, as the multiplier is odd and the
  counter enters the two halves at different places. Span ids, of half the bits, differ when
  the clock or the counter does and the other is the same: a clock that stands still, and a
  child that inherits the counter, repeat none. Span ids of two threads, or of two calls of
  one, that share neither can coincide.
- `PHP_TRACE_SERVICE_NAME` reaches Tempo; for Loki the INI value wins, against the order the
  code announces, and since it has a default the environment counts only when the INI value
  is set to be empty. Then Loki's label names the configuration's service while the line
  inside the same entry names none.

Facts met while reading that no run checks: a full ring drops the span it is offered
(`Drop`), while `span_buffer.h:10` says that the oldest is dropped, and so does
`php_trace.ini:60`; the final request of `stop()` is not limited to
`batch_size`, against `loki_exporter.h:48`; the filter patterns are matched against the bare
function name, so that the default pattern's `PDO::` never matches, against
`php_trace.ini:84`; attributes given to `php_trace_create_span` are lost with its span, so
that doubles and Booleans are never exported; the exporter is started by `RINIT` even when
the extension is disabled; a header with an empty trace id keeps its parent id and gets a
new trace id; the parent's `depth` of a shutdown function after a fatal error is not 0.

## Proofs

`SpanBufferProofs` proves, for every `Capacity`, every set of producers and consumers and
every number of pushes, `TypeOK`, `SlotExclusive`, `Fifo`, `NeverSpins`, `EveryPushAccountedFor`
and, for SpanStatus, `StatusMakesSense`. The only assumptions are those of the module: a positive capacity,
natural bounds, and `Nobody` not a thread.

None of the properties is inductive. `IInv` adds, besides types: a mutex is held by
exactly the thread whose step says so; `write_pos` and `read_pos` are the lengths of
`accepted` and `taken` modulo `Capacity`, corrected for the step under way; the difference
of the lengths, together with what the producers have not seen, stays below `Capacity`;
each occupied slot holds the span that its place in `accepted` says, with its flag set;
the slot at `write_pos` is free or being filled. A producer that finds room knows that its
slot is not in the consumer's hands, because it compares with a position at most one ahead
of the truth and one slot is kept free: this is the step from `Full` to `SlotExclusive`.
The proof has a lemma per action that disturbs the ring and one for all that do not; modulo
arithmetic is confined to the first lemmas. TLC checked `IInv` as an invariant first.
`EveryPushAccountedFor` has an invariant of its own: a call that begins, drops or publishes
changes the set of unfinished calls by one element, and that set stays finite.
`StatusMakesSense` needs both: at any one time the counters fit the push calls that have
begun and returned (`CountersNow`), they only grow (`CountersGrow`), and what a reader has
found so far stays true of the counters as they become (`StatusSoFar`). That readers change
nothing of the buffer makes its invariants theirs (`ReadersOnlyRead`). `OneThreadReads` adds
that when there is one producer, no call begins while it reads.

`LifecycleProofs` proves, for every set of processes, every number of reloads and every
configuration, `TypeOK`, `UserCallsReachZend`, `WorkerHasBuffer` and
`ThreadNeverOverwritten`, and the action property `FlushedBeforeFreed`. The invariant is a predicate
on one process: its status determines whose hooks are installed and in which order they
point at each other (`ChainState`), and whether it has a thread, flags set, an exporter
and a buffer (`ThreadState`). Thus the hook chain has no cycle because `hook_installed` is
true exactly from `MINIT` to the end of `MSHUTDOWN`, whatever the other extension does in
between; and a thread is made only where `running_` is false, which means that there is
none, not even a copied one, and the exporter is deleted only then. The proof has a lemma per callback, on records, and one that says that a step of a
process leaves the others alone. The only assumption is `LifecycleAssumption`, and TLC
checked this invariant too before it was proved.

`SpanBufferRefinement` proves `ImplementsQueue`: the ring implements SpanQueue. Publishing a
span is `Accept`, giving up a push is `Refuse`, and `Take` is not the consumer's store to
`read_pos_` but the moment when the producers can see it (`ReadPosVisible`, `ReadPosEarly`,
or the store itself when it is seen at once), since until then they refuse spans as if the
slot were taken; every other step is a stutter. Under this mapping the queue is the part of
`accepted` behind `Released`, the number of positions the producers have seen go by. The
steps need more than `IInv`: `RefInv` says that a call under way carries the number of a push
and that no store to `read_pos_` is outstanding without a span taken, so that `Released`
grows one at a time and never runs ahead of `accepted`. The guards of `Accept` and `Refuse`
then follow from what `write_pos_` and the position the producer sees have in common with
the two lengths, modulo `Capacity`.

`LokiExporterProofs` proves, for every size of the buffer and of a batch, every number of
retries, spans and starts, all seven safety properties of LokiExporter. `IInv` says for
each step of the worker what has become of the batch in its hands: how many attempts have
been made with it at most and how often it can have been stored (`AttemptInv`), what stop()
has still to flush (`FlushInv`), how many attempts there were since it was called
(`LateInv`), and that what the first worker counted is stored and no part of its batch
(`StoredInv`). Spans are numbered in the order they were offered (`OrderInv`), so that none
is in the batch twice and a retry concerns spans no earlier batch had. `NothingVanishes`,
`DuplicatesAreBounded` and `CountersCoverSpans` are inductive only together with these; the
other properties follow from them. The proof has a lemma per action and part.

`TracerProofs` proves, for every set of fibers, every nesting, `max_depth` and number of
requests and calls, all seven properties of Tracer that its passing runs check. It has three
inductive invariants, one on top of the other. `BaseInv` is about requests and fibers: the
running fibers lie one above the other and have nothing parked; a context that is in a trace
belongs to the request being served; the frame of a traced call finds a context in a trace
when it returns, and its parent is the client's or was pushed. From it follow
`CallSpansHaveTrace` and `ParentsWerePushed`. `StackInv` compares the context with the stack:
as long as no fiber took a traced call away, `depth` and the depths saved in the frames are
never below the number of open traced calls, and `span_stack` ends with the start times of
the open user calls, above whatever fatal errors left there; until a fatal error, both are
exact. `NestingIsLimited`, `StartsMatch` and `ContextMatchesStack` are its three parts read
off. That a call after a fatal error still pops its own start time is the point of counting
from the top of `span_stack` and not from its bottom. `AccountInv` adds to
`EveryCallAccountedFor` that no traced call has two frames, on one stack or on two. Each step
either begins a traced call, ends one, unwinds the stack or leaves the counts alone
(`StepKinds`), which saves a proof per action for the last two invariants.

`SpanContentProofs` proves, for texts of any bytes and length, headers of any length, values
of any number of cells, every `max_arg_length` and words of every width, all seven invariants
of SpanContent. The inductive invariant `ContentInv` says only that the result of a topic is
what the code's functions make of an input it can have, since each behaviour takes one input;
the work is what those functions compute.

- Induction. The prover cannot instantiate a theorem with an operator for a parameter, so
  `DataInduction` states induction over sets: a set that holds 0, and with n also n + 1, holds
  every natural number, since a least one missing would contradict the well-founded order of
  the numbers. Sequences that grow at their end follow from it, and so does that a function
  with a given first value and step exists, which a recursive definition needs before anything
  can be said of it. `FlattenSeq` is shown to read its sequences in turn.
- Escaping. A parser that has read an escaped text has the text and is not behind a backslash
  (`ReadEscaped`, by induction over the text, two bytes at a time where one was escaped). As
  the digits of an escape are themselves symbols, `EscapeRoundTrip` applies to the text that
  Loki gets twice escaped. `BackendsShowSpan` and `OutcomeIsShown` follow from it and from
  `PushedSpans`, which says what the hooks put into a span.
- Headers. The ends of the fields are told apart by the number of ends before them. A malformed
  header has no more than four ends, also when `find` starts over after `npos`; in any other
  the three dashes found are the first three ends after the beginning (`HeaderIsParsed`).
- Values. A conversion looks one level down, and the deepest returns at once, so that texts
  exist from there upwards. `Alike` relates two texts that agree as far as the limit goes;
  cutting a string gives an alike one, concatenation keeps alike texts alike, and the last cut
  makes them equal (`CutOnce`). Each level adds one call to the stack (`RecursionIsBounded`).
- Ids. `SpanIdsProofs` works on numbers that agree in their lowest k bits. When two
  exclusive ors are equal, the second operands agree in every bit up to which the first do; a
  shift by at least one place turns agreement in k bits into agreement in k + 1, and an odd
  multiplier neither adds nor removes any. So the two halves of a trace id determine first the
  lowest bit of the counter, then that of the clock, then the next of each; a span id
  determines the counter in the same way once the clock is known, and the clock once the
  counter is. This is why the multiplier
  must be odd, and why `counter` must be shifted in one half and not in the other (`IdsDiffer`).

Texts, headers and values are bounded by constants, and the configured names are taken from
sets that are constants, so that TLC can enumerate them; the proofs never use the bounds.

Every inductive invariant above was first checked by TLC on the instances of the passing runs,
except `ContentInv`, which is the text of the actions. The assumptions are those the modules
declare and the runs evaluate, and nothing else.

Model-checked only: liveness, which needs `ENABLED`, and the violated properties, of which TLC
finds a behaviour that refutes them.

## Plan

1. `size()` with its two unsynchronised reads, the exporter's counters in
   `php_trace_status`, and the name patterns of `should_trace` as a pure function.
2. Several attributes of a span and several spans of a request in Payload, with the separators
   between them.

## Not modelled

Regular expressions, phpinfo and the rest of `php_trace_status` hold no state that outlives
a call; `size()` is one of them, which reads `read_pos_` twice and can wrap round. A
thread-safe (ZTS) build is not modelled: the ids that `PHTRACE_G` and `PHTRACE_TLS` use
there are declared and never allocated, so no such build gets past `MINIT`. What a JSON
backend does with malformed UTF-8 is left out, although `max_arg_length` can cut a
character in two, and so is what the engine leaves of a call's arguments after it
returned. `zval_to_string_simple`, `events`, `links` and `trace_state` are never used.
Allocation failure is left out everywhere: an exception thrown by `push_back` in the worker
ends the process. One order of memory is abstracted: apart from `read_pos_`, accesses of a
thread take effect in program order, which the release and acquire operations on `has_data`
and `write_pos_` justify for the fields the other side reads. Spans pushed by several PHP
threads meet in SpanBuffer; Tracer has one thread because a context belongs to one.

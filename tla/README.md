# pyvoy in TLA+

pyvoy is a dynamic module of Envoy that runs Python applications, over WSGI
and ASGI, inside the proxy. Its Rust crate (`src/src/`) sits between Envoy's
worker threads, which call filters back and must never block, and Python
threads or event loops, which run the applications. What is hard in it is the
traffic between those threads, and this project specifies that: which steps
interleave, what each side may have missed, and why nothing is lost, doubled or
left waiting.

Paths such as `src/wsgi/queue.rs` are relative to the repository.

## The system

| Part | State | Operations | Talks to |
|---|---|---|---|
| Event bridge (`src/eventbridge.rs`) | closed, empty, one event, or a vector of them, in a mutex | `send` (Python), `process`, `get`, `close` (Envoy) | every filter and every Python-side object |
| Work queue (`src/wsgi/queue.rs`) | items, idle list, closed flag; a flag and a park token per thread | `push` (Envoy), `pop` (workers), `close` | WSGI filter, WSGI executor |
| Blocking pool (`src/wsgi/pool.rs`) | shutdown flag, disconnect signal, thread count | `execute`, `shutdown`; its threads | WSGI executor, WSGI HTTP client |
| WSGI executor (`src/wsgi/python.rs`) | the work queue, its threads, the pool | `execute_app`, `shutdown`, the application's calls | filter, through bridges and channels |
| WSGI response sender (`src/wsgi/response.rs`) | pending start event, headers_sent, closed | `send` of start, body, trailers | response bridge |
| WSGI filter (`src/wsgi/filter.rs`) | request_closed, response_closed, pending_read, read_buffer, watermark level | Envoy's callbacks, `on_scheduled` | bridges, channels |
| WSGI HTTP client (`src/wsgi/transport.rs`) | per-request channel, `ended`, deadline, request iterator | `execute_sync`, iteration, `close` | WSGI filter, pool |
| Event loops (`src/asgi/shared/eventloop.rs`) | task queue, wake_pending, waker; threads | `dispatch`, the drainer, `stop`, `join` | ASGI filters |
| Lifespan (`src/asgi/shared/lifespan.rs`) | state of the startup and shutdown protocol | `execute_lifespan`, `shutdown` | event loops |
| ASGI filter and executor (`src/asgi/filter.rs`, `src/asgi/python/`) | bridges of receive and send futures, watermark level | `receive`, `send`, Envoy's callbacks | event loops |
| ASGI HTTP client (`src/asgi/transport.rs`) | response body state, pending future, headers future | `execute`, `__anext__`, `aclose` | ASGI filter |
| WebSocket (`src/asgi/websocket/`) | handshake and close states of filter and application | network filter callbacks, `send`, `receive` | event loops |
| Configuration, types, tracing, server process (`src/lib.rs`, `src/types.rs`, `src/tracecontext.rs`, `pyvoy/*.py`) | configuration | parsing, conversion, process management | everything |

Two patterns recur. An application hands an *event* to its filter by sending it
on an event bridge and then *committing* a callback to Envoy's scheduler; the
filter's `on_scheduled` drains the bridge. And a filter answers an application
through a channel (WSGI, where the application's thread blocks) or by
dispatching a task to an event loop that completes a future (ASGI). Both are
two-step: send and commit, take and answer. Between the steps the stream may
end, the client may disconnect, and the other side may act.

### What makes each part correct

* **Event bridge.** Events are taken in order, once; a closed bridge stays
  closed even though `process` swaps its contents out and may run after `close`.
* **Work queue.** No item waits while a worker sleeps that nobody will wake; no
  stale notification ends a later wait; `close` lets every worker go, after the
  items that are left.
* **Executor and pool.** Shutdown returns, after every queued request and every
  body iteration; the pool takes no job after its flag is set.
* **Request body.** Reads are answered once, in order, with the right bytes, and
  never block once an answer is possible; Envoy's buffers are drained only on
  request, so that Envoy can push back on the client.
* **Response.** One set of headers, the whole body, one end; an application
  thread that waits for the filter is always released; events are not stranded
  by a high watermark.
* **Event loop dispatch.** One wake-up per burst and none missed; order kept;
  the loop's other callbacks not starved.
* **ASGI requests.** Every future is completed exactly once, whatever becomes of
  the stream; sends and the end of the response keep their order.
* **HTTP clients.** Every call of the application returns, at the latest when
  the server request it belongs to has ended (with one exception in ASGI, see
  below); no chunk of either body is lost, doubled or reordered; what broke off
  never passes for complete; a request that is given up leaves no stream and no
  iterator behind.
* **WebSocket.** Every future is completed once, whatever the order of
  handshake, messages, closes and the end of the connection; messages keep their
  order in both directions; what `send` and `receive` return is true.

## The modules

| Module | Models | Run |
|---|---|---|
| `Bridge` | the promised bridge as operators on a record, for the filters' modules | - |
| `BridgeSpec` | the same as a system: senders, drain, handling outside the lock, close | refined by `EventBridge` |
| `EventBridge`, `MCEventBridge` | `src/eventbridge.rs`, the four-case representation; the second as an instance, with names that leave room for another component | `event_bridge` |
| `WorkQueueSpec` | the promised queue: FIFO, one worker per item, workers let go | refined by `WorkQueue`, used by `WsgiExecutor` |
| `WorkQueue` | `src/wsgi/queue.rs` | `work_queue` |
| `Queues_proofs` | theorems about it, about `EventBridge` and about `LoopDispatch` | - |
| `WsgiInputSpec` | the promised `wsgi.input`: a blocking file | refined by `WsgiRequestBody` |
| `WsgiRequestBody`, `MCWsgiRequestBody` | `RequestInput` and the request half of the WSGI filter | `wsgi_request_body` |
| `WsgiResponse` | `ResponseSender`, the return paths of `execute_app`, the response half of the filter | `wsgi_response`, `wsgi_response_write` |
| `WsgiResponse_proofs` | theorems about it | - |
| `WsgiExecutor`, `MCWsgiExecutor` | the worker threads, `src/wsgi/pool.rs`, `Executor::shutdown`; the second as an instance, for the same reason as `MCEventBridge` | `wsgi_executor` |
| `WsgiServer_proofs` | theorems about it and about `WsgiRequestBody` | - |
| `LoopDispatch`, `MCLoopDispatch` | `LoopHandle::dispatch`, the waker thread, `LoopDrainer`; the second as an instance, likewise | `loop_dispatch` |
| `AsgiReceive`, `MCAsgiReceive` | `receive` (`RecvCallable`, `EmptyRecvCallable`) and the request half of the ASGI filter; the second as an instance, likewise | `asgi_receive` |
| `AsgiSend` | `send` (`SendCallable`), the done callback, and the response half of the ASGI filter | `asgi_send` |
| `AsgiServer_proofs` | theorems about it and about `AsgiReceive` | - |
| `AsgiTransport` | `src/asgi/transport.rs` and the part of the ASGI filter that makes outgoing requests | `asgi_transport` |
| `AsgiTransport_proofs` | theorems about it | - |
| `WsgiTransport` | `src/wsgi/transport.rs` and the part of the WSGI filter that makes outgoing requests | `wsgi_transport` |
| `WsgiTransport_proofs` | theorems about it | - |
| `WebSocket` | `src/asgi/websocket/`: receive, send, the network filter | `web_socket` |
| `WebSocket_proofs` | theorems about it | - |
| `SequenceFacts` | what adding, taking off or joining does to a sequence, for the proofs | - |

Definitions whose comment calls them broken (`PopIdleStale`,
`TakeBatchLeaveRest`, ...) belong to no specification. Each stands before the
definition it could be mistaken for, and is a bug that one of the properties
was made to exclude: with it in the place of the right definition TLC reports
that property violated.

### Work queue

The grain is the code's: each critical section of `State`'s mutex is a step
(`Push`, `Close`, `PopItem`, `PopClosed`, `PopIdle`); the store to `notified`
and the `unpark` are two (`NotifyStore`, `NotifyUnpark`), as are the load in the
wait loop and the `park` (`CheckNotified`, `Unparked`). `token` is the park
token of the standard library, and `park` may return without it
(`SpuriousReturn`). A pusher is named after its item, so pushes interleave
freely. Interleaving is a sound account of the relaxed store of `FALSE` in
`pop`: it happens inside the mutex before the parker is listed, and whoever
stores `TRUE` found it on the list under the same mutex.

`NoLostWakeup` says why one wake-up per push is enough: while a thread stays
listed, there is no more work than threads that will look for it. It is
inductive together with what the parkers are known to be
(`WakeupsReachSleepers`). `ImplementsQueue` shows the
refinement of `WorkQueueSpec`, liveness included; `WsgiExecutor` uses the latter.

### Event bridge

`process` is one step that takes the contents (`Process`) and one per event
that it works on outside the lock (`Handle`), between which anyone may send or
close. `accepted`, `refused`, `dropped` and `handled` are history. The
refinement `ImplementsBridge` licenses the filters' modules to hold a bridge as
`[closed, events]` and to apply `Sent`, `Drained` and `ClosedBridge` to it.

### WSGI request body

Bytes are numbered, so that order and loss show. `arrived` is what the client
has sent; `buffered` what Envoy holds. A callback of the filter is one step,
since they all run on one thread; `do_read` is three (send, commit, receive),
with a fourth for the failing receive when the filter has been destroyed.
`ProcessRead` follows `process_read`; it reads buffered and received bytes as
one sequence, as all three of its branches do. Envoy's part is external: it
stops reading from the client at `Window` buffered bytes, runs committed
callbacks (also after `on_stream_complete`), and destroys a filter, cancelling
what it had scheduled. Reads are made one at a time, which `&mut self` and the
lock in `do_read` enforce.

### WSGI response

`StartResponse`, `Write`, `SendTrailers`, `ReturnList`, `ReturnIterator`,
`Yield`, `Exhausted` and `Raise` are what an application can do, in any order
the code lets it; calls that raise change nothing except where the code changes
something first (a last body before `start_response` has already set `closed`).
An item that is empty is a chunk like another, as the filter sends a data frame
for it, except with the end of the response. The filter acknowledges a chunk
*before* it sends it (`Acknowledge`, `HandleEvent`), so an iterating application
may be two chunks ahead for that moment (`IterationIsHeldBack`). Sending an end
of stream re-enters `on_stream_complete`, and an `Exception` that follows in the
same batch finds `response_closed` set. `usesWrite` is chosen at the start and
never changes.

### WSGI executor and pool

The work queue is `WorkQueueSpec`, which `WorkQueue` implements. Requests submit
at most one job each, named after the request. `HandOver` is the `try_send` on
the rendezvous channel, which succeeds only when a thread is waiting in
`select!`; `CountThread` and `SpawnThread` are apart, as the count is raised
under its own lock. `Uncount` is the drop guard, run after a panic too. The
condition variable may wake spuriously. `Push` stops with the start of the
shutdown: `Config::drop` runs when no filter of the configuration is left
(`Arc::get_mut` in `shutdown` insists).

### Event loop dispatch

`dispatch`'s critical section and its wake-up are two steps, and `watches`
chooses between the two kinds of waker. The loop is external: it polls, runs the
callbacks that were ready then as a round, and lets new ones wait for the next,
as asyncio and uvloop do with their ready queue and trio with the callbacks of
`run_sync_soon`. A readable socket
makes the drainer ready at every poll until it is read. `OtherReady` stands for
every other callback of the loop; `overtaken` counts the tasks that run while one
is ready.

### ASGI requests and responses

A future is a number. It is on a bridge, in the filter, or in a completion
dispatched to the loop, and `OneHolder` (`OneHolderPerReceive` is its name in `MCAsgiReceive`) says that it is in one of these while
the application waits for it, and in none once it has its result:
`docs/design.md:46` insists that a future that is never completed hangs Python.
`loop` is the first-in-first-out queue that `LoopDispatch` shows a loop to be.
The drop of a `RecvFuture` or `SendFuture`, which in Rust happens where its
owner goes out of scope, is part of the step that drops it: of
`OnStreamComplete` for those on the bridge, of `Receive` and `SendEvent` for one
that the closed bridge refuses.

`receive` and `send` are two steps, up to the event on the bridge and then
`Commit`, since Envoy's thread runs in between. The loop's thread does nothing
else meanwhile. An application may call `receive` again without awaiting (tasks of
its own), may cancel what it awaits (`CancelReceive`, `CancelSend`), and may or
may not await its sends (`awaits`). A completion for a cancelled future changes
nothing: asyncio raises `InvalidStateError`, which is logged, and the trio future
ignores it. What the completion carried is lost, so of an application that cancels
a `receive` `EventsAreTruthful` says only that no byte comes twice or out of
order.

In `AsgiSend` the events of one drain are handled one by one (`batch`). Sending
an end completes the stream inside the call (`Completed`), as the comment at
`asgi/filter.rs:439` says, and the events drained with it are handled after
that. The wire (`wire`) is what the filter calls Envoy with, whether or not there
still is a response: `process_send_events` does not look at `response_closed` (the
WSGI filter does), so an exception drained with the end is answered behind it.
`send_response` answers with an error page or, once anything was sent, resets.
What a body event does takes two steps if its send waits: the completion is
dispatched (`HandleBody`, which leaves the frames in `sending`), and the chunk is
sent after that (`SendChunk`); the loop's thread may run, and the application put
its next chunk on the bridge, in between. A call of `send` that fails shows the
application an exception and changes nothing, but for the last trailers message,
which takes the response for done before it fails (`SendTrailersFails`). The two
modules share no state but the end of the stream, so they are checked apart.

Not owed by the code, and so not stated: an ASGI application that returns
without completing its response leaves the stream to Envoy's timeouts, as
`AppFutureHandler` acts on exceptions only.

### The ASGI HTTP client

One outgoing request of one server request is followed. `Execute` puts the
start on the transport bridge and commits, in one step, since the loop's thread
does nothing between the two; Envoy's thread drains the bridge (`OnScheduled`) and
handles the events one by one (`HandleEvent`), starting the stream, sending
chunks, ending or resetting it. `stream`, `answer` and `fed` are the upstream's
part, external. Its headers, data, trailers and reset (`UpstreamHeaders`,
`UpstreamData`, `UpstreamTrailers`, `UpstreamReset`) come in the order HTTP
allows, also before the request has been sent in full, and follow the filter's
`on_http_stream_*` callbacks.

`entry` is the request's place in `transport_responses`; it moves with the
response's future from *waiting* to *answered*. The `ResponseContentState` that
Envoy's thread and the loop share behind a mutex is the group `pendingFuture` to
`trailersShown`: each critical section is one step. A read (`ANext`) takes what
is there or leaves its future for a completion (`Notify`), which the filter
dispatches when it adds data, and which finds the read cancelled (`CancelRead`),
answered already, or waiting. The task that forwards the request's body
(`ForwardChunk`, `ForwardFinish`) is a second actor of the application: it
starts when the stream does, and is cancelled when the response's future was,
when the request fails, or by the application, to which the response hands it.

### The WSGI HTTP client

The same on threads. The application's thread sends the start and blocks on the
request's channel, for the stream, then for the headers (`Started`, `Response`,
`Fails`, `HeadingTimedOut`), and later for every chunk (`NextBegins`,
`NextData`, `NextEnds`, `NextTimedOut`). `expired` is the deadline, which may
pass between any two steps, also while the answer is in the channel: a receive
that began before it may take the answer or time out, and one that begins after
it (`late`) does not look at the channel at all. `close` is three steps, the
test of `ended` (`BeginClose`), the reset on the bridge (`CloseReset`) and the
request's iterator (`CloseIter`); the threads `reader` and `closer` both do it,
and the closer may do it while the reader reads. `raced` marks the order that
only a Python without a GIL allows: a close that finds `ended` set passes the
one that set it and has not yet sent its reset.

The worker (`WorkerAsks`, `WorkerYields`, `WorkerFinishes`) iterates the body of
the request and puts chunks on the bridge. It learns that the request is over
when its iterator was closed (`iterClosed`) or the bridge refuses an event.
`requestIter` says whether the iterator still has an owner who will close it.
`Completed` is the close of the bridge in `on_stream_complete`, which drops the
channels' senders with the requests that were not started.

### WebSocket

A callback of the network filter is a step, but for the events of one drain of
the send bridge, which are handled one by one (`HandleEvent`). `state` is
`Filter.state` (start, handshake, accepted, done, not a WebSocket at all,
destroyed), which each callback takes out and puts back. tungstenite is
external and modelled by what the filter asks of it: *active*, *closedByUs* (a
close frame was written, the answer is awaited) or *terminated*. `inbound` is
what the client has sent and the filter has left in Envoy's buffer, because no
`receive` waits for it. `OnReadHandshake` and `OnRead` are `on_read` by state;
`OnScheduledRequest` and `OnScheduledResponse` are the two scheduled callbacks, of
which the second does nothing above the watermark; `OnDestroy` completes what is
left. `Accept`, `Refuse` and `Abort` are what the first event of `send` makes of the
handshake.

A future of `send` whose event is dropped, by a closed bridge or a connection
that is closing, is *refused* (`ClientDisconnectedError`). The application may
call `receive` ahead, cancel it, send without awaiting, and end in any state;
its end sends *abort* or *exception*.

## The runs

| Run | Instance | Distinct states | What it shows |
|---|---|---|---|
| `work_queue` | 2 pushes, 3 workers, 1 close | 331 453 | no wake-up is lost or goes astray; refinement of the FIFO queue with liveness |
| `event_bridge` | 4 events | 1 985 | accounting of every event, refinement of the sequence with a closed flag |
| `wsgi_request_body` | body of up to 5 bytes with a newline in it, window 3, 5 kinds of read | 19 639 | bytes conserved and none taken unasked, one answer per read, refinement of the blocking file, reads return |
| `wsgi_response` | 3 chunks, 2 start_response calls, 2 watermark levels | 79 782 | well-formed and whole responses, iteration held back, the writer resumes, the response ends |
| `wsgi_response_write` | 2 chunks | violation | `write()` is not held back |
| `wsgi_executor` | 3 requests, 2 workers, 3 pool threads | 33 930 | count exact, shutdown complete and no job dropped, shutdown returns |
| `loop_dispatch` | 5 tasks, batches of 2, both wakers | 194 165 | order, no missed task, one wake-up, no starvation, every task runs |
| `asgi_receive` | body of up to 3 bytes, window 2, 3 calls of `receive` | 32 863 | each future completed once, bytes conserved, `more_body` and disconnections truthful, receives return |
| `asgi_send` | 2 chunks, 2 trailers messages, 1 high watermark | 421 733 | each future completed once, well-formed and whole responses, trailers included, with a reset behind the end at most, the sender held back, sends return and the response ends |
| `asgi_transport` | 2 chunks each way, 2 reads, 1 close | 1 088 518 | each future accounted for, no chunk lost, nothing that broke off passes for complete, calls return |
| `wsgi_transport` | 1 chunk up, 2 down, 2 reads, 2 threads that close, a deadline | 1 235 072 | no stream or iterator is left behind, chunks in order, ends truthful, nobody blocks for ever |
| `web_socket` | 2 messages of the client, 2 receives, 2 sends, 1 cancelled receive, 1 high watermark | 3 027 540 | each future completed once, messages in order, results truthful, what can be served has a callback on its way |

Type correctness has no line of its own: the first invariant of a run begins
with `TypeOK` (`OneReadOneAnswer`, `WellFormedResponse`, `WorkersCounted`,
`OneHolder`, `FuturesAccounted`, `NothingIsLeft`). For `WorkQueue`, `EventBridge` and
`LoopDispatch` it is a proved theorem instead (`TypeCorrect`, `BridgeTypeCorrect`,
`LoopTypeCorrect`).

Deadlock is checked in every run; the modules whose system may end say so with
a `Terminated` step.

### Bounds

* Two pushes and three workers have every situation of the queue in them: a
  pusher that wakes a thread another one overtakes, two pushers notifying two
  threads, a close that notifies several, a worker with a stale token. The
  theorems lift the safety part to every number.
* Four events pass through every case of the bridge twice and have a send after
  each kind of drain. The theorems hold for any set of events.
* Five bytes and a window of three make a body that does not fit Envoy's buffer,
  a line that ends inside one and one that spans two, and reads of two that
  leave bytes over. `SomeReads` has a read of nothing, of some, of all, of a line
  and of a limited line.
* Three chunks are a first with headers, one in the middle and a last; two calls
  of `start_response` have one replace the other; two levels and two raises of
  the watermark have them nest. Raises are bounded (`MaxRaises`) because
  liveness needs downstream to fall below its watermark in the end.
* Three jobs on two workers have a hand-over, a spawn and a wait at the same
  time; three pool threads are enough for every job to have its own.
* Five tasks in batches of two are a full batch, a second full one and a rest,
  with dispatches in between, and one task more than a ready callback may wait
  for.
* Three receives are one that is answered, one that waits with it or is cancelled,
  and one after the end; three bytes do not fit the window of two.
* Two chunks have a first with the headers and a last, or neither of them last;
  an empty last message is a third. Two trailers messages are one to gather and
  one to send. (Three chunks and one trailers message were run once as well, and
  hold: 1 049 411 states.)
* Two chunks each way are a first and a last of each body, and two that can be
  merged by a read that comes late or reordered by one that comes at the wrong time.
  Two reads are one that is cancelled or waits and one that finds what it left
  behind. One close is enough: the reset of a second one finds the stream gone.
* In `wsgi_transport` the request has one chunk, since a worker that is at its
  second meets what it met at the first (two were run once as well, and hold: 2 223 139
  states). Two reads are one with a chunk or a failure, and one after it.
* Two messages of a client are one that a `receive` waits for and one that stays in
  the buffer; with a close, they put a frame behind another. Two receives and
  two sends have one of each after the close or the refusal.

### Fairness

Threads that can take a step of their own take it (weak fairness per thread):
the operating system's part. Envoy runs what was committed to a live filter,
destroys a filter whose stream is complete, and, for a client above its
watermark, either sees it read or ends the stream (idle and stream timeouts).
Nobody is assumed to push, dispatch, send a body, read, close or shut down.
Applications are assumed to return only where the property is about that:
`ShutdownReturns` (`ExecutorInner` waits for them by design). `KEEP_ALIVE`
is never relied on. Spurious returns happen but are not owed.

An upstream need not answer, but every stream of Envoy's has a timeout, at which
Envoy resets it (`WF_vars(UpstreamReset)`): this is what `CallsReturn` rests on for
a server request that goes on. The deadline of the WSGI client is not relied on,
as a client may have none. `CallsReturn` of `AsgiTransport` is about a request
that the filter has taken up (`NotTakenUp`, below). `web_socket` checks no liveness;
`NobodyWaitsInVain` is the safety half of it, that whatever the filter
could serve has a callback on its way.

## Disagreements with the documentation

`README.md:20` of the repository promises request and response backpressure.
The response half holds of iteration (`IterationIsHeldBack`): the thread waits
for the filter after each item, and the filter ignores its callback while
downstream is above the watermark. It does not hold of the `write()` callable,
which sends and returns (`src/wsgi/python.rs:603`): with downstream full, a
second chunk is taken while a first one waits, and so on. The run
`wsgi_response_write` is that behaviour. A related effect is visible in the
model: every acknowledgement of a written chunk releases one later wait of the
iteration early.

The following were met in modelling and have no run of their own; unless it is said
otherwise, the models contain them, and the properties name what they exempt. The
three statements of `AsgiSend` that do not hold (`CompleteIsFinal`, `SentIsWritten`,
`DoneIsEnded`) stand beside its properties: added to `AsgiSend.cfg`, each is violated.

* **An ASGI request that the filter has not taken up.** `on_stream_complete` of
  the ASGI filter closes the receive and send bridges but not the transport
  bridge (`src/asgi/filter.rs:175`; the WSGI filter does,
  `src/wsgi/filter.rs:161`). A start that is still on the bridge then is never
  handled, nor is its future completed or failed, which `docs/design.md:44-47`
  says must not happen. `NotTakenUp` is that case, and `CallsReturn` exempts it.
* **Exception after the response is complete.** The test of that name
  (`tests/test_kitchensink.py:307-312`) expects that the client has the whole
  response. The filter answers an exception with `send_response(500)` even if it
  was drained together with the event that ended the response
  (`src/asgi/filter.rs:456-467`; `src/wsgi/filter.rs:520` has a guard). What the
  client sees then is up to Envoy, which may ignore the call: the model says only
  that it is made. `CompleteIsFinal`, that nothing follows an end, does not hold;
  `WellFormedResponse` allows this one frame behind an end, of an application
  that has raised, and no other.
* **The future of a send** is described as one "to notify when the body is
  completed writing" (`src/asgi/python/mod.rs:686`). It is completed before the
  chunk is given to Envoy (`src/asgi/filter.rs:415-427`, `433-436`), and
  `SentIsWritten`, that a send which succeeded has its chunk on the wire, does not
  hold. So an application that awaits its sends is one chunk ahead of what the
  filter has begun to send, and for a moment two ahead of the wire, which is what
  `SenderIsHeldBack` says.
* **Done without an end.** `send` sets `next_event` to `Done` before the headers of
  the last trailers message are extracted, which may raise
  (`src/asgi/python/mod.rs:640-644`). If the application catches that, the filter
  never hears of the end; further messages are refused as coming "after response
  already completed" (664), and the stream is left to Envoy's timeouts.
  `DoneIsEnded`, that a response ends once it is taken for done, does not hold;
  `SendsAndResponsesEnd` exempts the case (`trailersFailed`).
* **A WebSocket close that nobody reads.** A close frame of the client stays in
  Envoy's buffer while no `receive` waits. When the application then closes, the
  filter writes its own close frame and reads on only when a callback to read
  comes (`src/asgi/websocket/mod.rs:346-354`), though the comment at 518 expects
  that it "will be done". `ClosingFinishes` states that a connection both sides
  have closed ends; it does not hold, and no run has it as a property.
* **A read after a cancelled read.** The future that the cancelled `__anext__`
  left pending makes the next one return `b""` at once instead of waiting
  (`src/asgi/transport.rs:558`). An iteration that looks for the end of the body
  sees an empty chunk; `ResponseIsTruthful` holds, as nothing is lost.
* **Two closes of a WSGI response without a GIL.** `src/wsgi/transport.rs:551`:
  the close that finds `ended` set goes on to close the request's iterator
  before the other has sent the reset; the worker may then send the end of a
  request that was cut short. `RequestIsTruthful` exempts exactly this
  (`raced`).
* **An iterator that is running.** The comment at
  `src/wsgi/transport.rs:626-629` guarantees that closing the iterator unblocks
  the worker; a generator that is running cannot be closed
  (`pyvoy/_glue.py:16-24`), and its worker goes on until it yields.
* **The first message of a WSGI request.** `src/wsgi/transport.rs:72-74` says
  that the first is always `Started`; for an unknown cluster it is the reset.
* **WebSocket details.** A message that is handed to a `receive` that the
  application has cancelled is lost. Every `receive` before the handshake is
  answered gets a connect event of its own (`mod.rs:237`). A `receive`
  after a refused handshake waits for the end of the connection and gets code
  1005, although the comment at `mod.rs:305-306` sets a close frame for it. A
  `websocket.close` whose reason is no string raises, but leaves the side closed with
  nothing sent (`websocket/executor.rs:577-583`); the model leaves that call out.
* **A client that disconnects from a WSGI application.** `docs/design.md:63-65` says that
  a channel receive which fails terminates the application. Reads of the body do
  raise; the wait after an item ignores the failure (`src/wsgi/python.rs:403`), and
  so does the send of the next one (`src/wsgi/response.rs:119-124`): the
  iteration goes on to its end, and its items are dropped.

## The proofs

Proved by TLAPS, for every value of the constants that satisfies the named
assumptions: the sets of threads are finite, and there is an application thread
at least; bounds are natural numbers, and the size of a batch of tasks is a positive
one; names that stand for nothing (`NoItem`) are no item.

For each component one invariant is inductive, `IInv` (`BridgeInv`, `LoopInv`,
`ExecutorInv` and `ReceiveInv` for the further components of a module, which it has
as instances): it implies the properties, its
conjuncts are named for what they say, and it is proved from `Init` and every
action. TLC has checked each of them too, on the instances of the
runs.

* `Queues_proofs`, about `WorkQueue`: `TypeCorrect`, `WakeupsSuffice` (`NoLostWakeup`),
  `ParkersAreReleased` (`WakeupsReachSleepers`) and
  `QueueRefines` (steps of the queue are steps of the abstract one). The
  inductive invariant adds to these what no run asks for by itself: a
  notification is owed to a thread by one notifier at most (`OwedOnce`). Without
  it a second notification could come after the thread has been listed again,
  and `ListedOnlyWhileWaiting` would not be preserved by `NotifyStore`; without
  that, `NoLostWakeup` fails at `CheckNotified`, where a listed thread would
  leave the wait.
* `Queues_proofs`, about `EventBridge` (the instance `Bridge`): `BridgeTypeCorrect`,
  `EventsAccountedFor` (`NothingLost`), `StaysClosed`, `BridgeRefines` (the whole of `ImplementsBridge`, which has no
  liveness). With them `BridgeInv` needs only that an open bridge has dropped nothing
  (`OpenDropsNothing`); the case `Multiple` has to be known
  non-empty for `get`.
* `Queues_proofs`, about `LoopDispatch` (the instance `Loop`): `LoopTypeCorrect`, `InOrder` (`TasksInOrder`), `NoneMissed`
  (`NoMissedTask`), `WokenOnce` (`OneWakeup`). The last two follow from one
  invariant, `OnePath`: a pending wake-up is in exactly one of four places (with
  the thread that sends it, on the socket or in the waker's channel, among the
  loop's ready callbacks, or with the drainer that is about to take tasks). The
  case in the middle is the delicate one. The socket stays readable while the
  drainer is ready, and polling again would make the drainer ready a second time;
  the invariant says that the drainer is then within the current round, so
  that it reads the socket before the next poll.

  `OthersTakeTurns` (`OthersGetTheirTurn`) adds `Turns`: what has overtaken a
  callback, with what is left of the batch and what a drain that comes before the
  callback may still take (`Due`), is never more than two batches.
* `WsgiServer_proofs`, about `WsgiRequestBody`: `TypeCorrect`, `BodyIsNeverLost`
  (`BodyConserved`), `EveryReadHasItsAnswer` (`OneReadOneAnswer`) and
  `InputRefines` (the whole of `ImplementsInput`, which has no liveness), for any
  body, any placing of its newlines and any reads. The bytes are numbers, so
  `Numbered` can say of each place that holds some, by position, which ones these
  are, and `Counted` that together they are all that arrived. `ReadInOnePlace` is
  `OneReadOneAnswer` with what the places hold. `Gathering` says that what
  `process_read` has set aside is no answer yet: no newline is in it, and it is
  shorter than the read. Without it, bytes found later could not be
  searched from where they begin (`LineEnd`), and an answer could be longer than
  its read. `AnswerFits` says that the answer in the channel is one that the
  abstract file may give (`Input!Fits`), and says that the body is over only if it
  is. It has to be kept by the arrival of more of the body while the
  answer is on its way, and is what the step `Receive` needs to be a `Return`.
  `ClosedAtEnd` does the same for reads that return at once because an earlier
  answer said so. The search for the newline is the least element of a set
  (`MinFacts`, by the well-foundedness of `<`).
* `WsgiServer_proofs`, about `WsgiExecutor` (the instance `Exec`):
  `CountIsThatOfThreads` (`WorkersCounted`) and `ShutdownLeavesNothing` (`ShutdownIsComplete`). The count is that of the
  threads that exist and of those about to be spawned (`CountIsExact`, by
  cardinalities). That no job runs twice needs `RequestsApart`, that a request is
  in the queue or with one application thread, and `JobsApart`, that a job which is
  being handed over is not on a pool thread. `ShutdownStages` ties shutdown to what it has
  waited for: no application thread is left when the pool's flag is set, so that
  none can submit a job the pool would refuse.
* `WsgiResponse_proofs`: `TypeCorrect`, `ResponsesAreWellFormed` (`WellFormedResponse`)
  and `IterationsAreHeldBack` (`IterationIsHeldBack`). The chunks that are sent
  and those on the wire are numbers, so `InThePipe` says by position what the drained
  events and then those of the bridge are: the k-th has the chunk that comes k after
  those on the wire, headers go with the first only and if none are on the wire yet,
  and an exception is the last. `Beginning` counts them: while no end is among them,
  what was produced is what is on the wire and in the pipe. `OnWire` says the same
  of the frames. `HeldBack` is what iteration needs: what was produced, together
  with the acknowledgements the application has not read (`written`), is no
  more than what is on the wire, the one item it waits for and the one that is
  acknowledged but not yet sent. The unread ones are what it must not forget, since each
  lets a later wait return at once.
* `AsgiServer_proofs`, about `AsgiReceive` (the instance `Rcv`): `ReceivesHaveOneHolder`
  (`OneHolderPerReceive`) and `ToldTheTruth` (`EventsAreTruthful`). Both rest on
  `ReceivesNumbered`: the futures on the loop and then those on the bridge are the last
  ones that `receive` returned, in order. `EventOf` is what a future has been told or will be by a completion on the
  loop; `BytesInOrder` and `BytesArrived` say of that and of the filter's buffer, two
  by two, what `EventsAreTruthful` says of the bytes received all together, which
  spares the proof an induction over the concatenation.
* `AsgiServer_proofs`, about `AsgiSend`: `FuturesHaveOneHolder` (`OneHolder`), `WireIsOneResponse`
  (`WellFormedResponse`) and `SenderHeldBack` (`SenderIsHeldBack`). While the filter is
  live, what each position of the pipe (the drained events, then the bridge)
  holds follows from how many chunks, trailers messages and exceptions were sent
  and how many are downstream (`InThePipe`, `Sizes`, `Beginning`); `OnWire` and
  `Truthful` say the same of the wire. A chunk whose send was completed and which
  is not yet sent stands between the two (`Underway`): the proofs count the frames in
  `sending` as downstream already (`Response`), so `SendChunk` changes nothing
  they speak of. `Overdue` says what can still be in the drained events once the
  response has ended, an exception of an application that raised and nothing
  else, which makes the one late reset (`LateReset`) the last frame. `HeldBack` is the bound
  of `SenderIsHeldBack` with the chunk that is being sent counted as sent. The empty last body, which carries no
  chunk, is the case that makes the counting delicate.
* `WsgiTransport_proofs`: `GivenUpLeavesNothing` (`NothingIsLeft`),
  `ReadsAreTruthful` (`ResponseIsTruthful`) and `UpstreamIsToldTheTruth`
  (`RequestIsTruthful`). Of the response, what each position of the request's
  channel holds follows from what was taken out of it before and how far the
  upstream has come (`Delivery`). Of the request, the upstream sees the events of the
  bridge up to the first reset (`Seen`), and these are chunks in order, an end only
  after all of them (`Pipe`). A request that was given up has a reset on its way or
  a stream that is gone, and its iterator an owner who closes it (`Left`), but for
  the two cases the property exempts (`Excused`).
* `AsgiTransport_proofs`: `EveryFutureHasAHolder` (`FuturesAccounted`),
  `ReadsAreTruthful` (`ResponseIsTruthful`) and `UpstreamIsToldTheTruth`
  (`RequestIsTruthful`). `OnePlace` and `Beginning` say where the response's future is:
  with the start of the request, which is then alone in the pipe; in the entry; or
  with one task of the loop. `Forgotten` says that a stream whose entry went is
  not taken up again: without it a reset could set the reason of a response that
  still delivers, and `Reads` would not be preserved by the data that follow. `Seen`
  is that of the WSGI client, but the end of the body is tied to the state of the
  task that forwards it.
* `WebSocket_proofs`: `TypeCorrect`, `FuturesAreAccounted` (`FuturesAccounted`),
  `SendsTellTheTruth` (`SendsAreTruthful`), `ReceivesTellTheTruth`
  (`ReceivesAreTruthful`) and `NobodyIsForgotten` (`NobodyWaitsInVain`). The futures of
  the receives leave their bridge in order, so one number, `Told`, divides those that
  have left from the rest (`Receiving`), and a completion on the loop has nothing but
  waiting receives after it. The sends come one after the other as well: those
  that are written, and those whose completion is on its way, are from before
  those in the pipe (`Sending`), and so no send is both written and refused. Of the messages,
  those that were handed on are the first ones (`HandedOn`), and those left in
  Envoy's buffer come next, up to a close frame at its end (`Incoming`). `Handshake`
  is what the code takes for granted when it unwraps an event during the handshake:
  each callback that is on its way has one on the bridge, since nothing but
  these callbacks takes any off. `Closing` says that no close frame is on the
  wire as long as tungstenite takes messages. The steps are proved to keep
  the invariant in two parts, the futures and messages (`Core`) and the two sides
  (`Shell`).

`TypeCorrect` of the queue, the bridge, the loop and the request body is in no run's
list of properties: the run would say less than the theorem does.

Only model-checked:

* All liveness (`ImplementsQueue`'s fairness, `ReadsReturn`, `WriterResumes`,
  `ResponseEnds`, `ShutdownReturns`, `TasksRun`, `ReceivesReturn`,
  `SendsAndResponsesEnd`, `CallsReturn`), which is beyond the prover.

Every invariant of the passing runs is proved.

## Not modelled

* Data: header and scope conversion, names, statuses, log and error texts.
* `src/tracecontext.rs`, `src/lib.rs`, `src/types.rs`: pure functions of their
  input. `pyvoy/*.py`: generation of Envoy's configuration and a child process.
* The life cycle of the event loops (`EventLoop::new`, `stop`, `join`) and the lifespan
  protocol. It runs once per process, one thread waiting for another, and what
  could go wrong in it is a failure half way through creation and a `stop` that
  waits for an application without a limit. It is the one stateful component left, and
  next in the plan.
* Several outgoing requests of one server request: they share the transport
  bridge and the map of responses, which is keyed by stream. A call of
  `start_http_stream` that calls back before it returns. A pool that refuses the job of
  an HTTP client because it is shutting down (`WsgiExecutor` has the pool).
* WebSocket: reading in blocks of 256 KiB, partial frames, pings and pongs, a
  `send` that the application cancels.
* Exhaustion of threads or memory; a panic inside a filter (`CatchUnwind`).
* Trailers sent without `start_response`: the code passes them on, and what
  Envoy does with them is outside the repository.
* A stream that Envoy resets from inside a call that sends a chunk: the stream
  ends between two steps of the filter, or with the end of the response.

## Plan

Done: `WorkQueue`, `EventBridge`, `WsgiRequestBody`, `WsgiResponse`,
`WsgiExecutor`, `LoopDispatch`, `AsgiReceive`, `AsgiSend`, `AsgiTransport`,
`WsgiTransport`, `WebSocket`; for each of them proofs of the invariants its run
checks, and of the refinements of the queue (step by step), the bridge and the
request body.

Next, in this order:

1. `EventLoops` with the lifespan protocol: start, stop and join.
2. Several outgoing requests of one server request, which share a bridge and a
   map of responses.

# A TLA+ model of ponkan's streaming capture

ponkan reads video from a capture board inside an N3DSXL.  A program opens a capture, asks
for frames and closes it.  Underneath, a streaming engine keeps a few raw buffers submitted
to an asynchronous USB backend, collects completions from the backend's threads, decodes
them on the program's own thread and queues the decoded frames.

The modules in this directory model that engine, the two backends it runs on, the reader on
top of it, and the way there: listing the boards, opening one over libusb or the D3XX driver,
setting it up, and closing it whatever failed.  TLC checks them on small instances.  TLAPS
proves every invariant of the passing runs for every value of the constants: the engine's for
any number of slots, any queue size and any number of reads, on the D3XX worker pool with any
number of workers and on the native backend whatever its driver answers; the reader's; and, for
any boards and bounds, what opening, connecting and closing may leave held and that the right
board is set up.  Source paths below are relative to `src/ponkan/`.


## 1. The system

### Parts

| part | source | state | operations |
|---|---|---|---|
| capture reader | `capture.py` (`CaptureReader`) | `_started`, `_closed` | `read`, `read_frame`, `stats`, `close` |
| opening a capture | `capture.py` (`open_capture`, `_open_d3xx_engine`) | none | resolve the configuration, open, connect, build backend and engine |
| streaming engine | `streaming/engine.py` | `_running`, sequence counter, completion queue | `start`, `stop`, `process_completed`, `frames`, the completion callback |
| raw slot pool | `streaming/buffers.py` | `in_use`, `sequence` and bytes of each slot | `checkout`, `release`, `in_use_count` |
| decoded frame queue | `streaming/policies.py` | a deque of frames | `put_frame_with_policy`, `get_nowait` |
| counters | `streaming/stats.py` | nine counters, timing samples | increments, snapshots, percentiles |
| async backend protocol | `transport/libusb_async.py` | (an interface) | `submit_read`, `cancel_all`, `drain`, `release` |
| D3XX worker backend | `transport/d3xx_streaming.py` | futures, cancel flag, thread pool | the protocol |
| D3XX native backend | `transport/d3xx_native_streaming.py`, `d3xx_native.py` | native slots (`in_flight`, overlapped structure, buffer), pump thread | the protocol |
| D3XX device handle | `transport/d3xx_backend.py` | `_closed`, `_stream_pipes`, the driver's handle | open, reconnect, pipe reads and writes, stream mode, close |
| N3DSXL connect sequence | `protocol/n3dsxl.py`, `protocol/sizes.py` | none of its own; the device's SPI access and stream mode | `connect`, `read_raw_frame` |
| FTD3 pipe over libusb | `transport/ftd3_pipe.py`, `ftd3_backend.py`, `libusb_backend.py` | command identifiers, claimed interfaces | the pipe operations, each a command and a transfer |
| device session | `devices/n3dsxl_ftd3.py` | claimed interfaces, `_closed` | classify, open, close |
| frame decoding | `image/frame.py`, `protocol/layout_3ds.py` | none | bytes to pixels |
| hardware gate, artifacts, command-line tools | `hardware_gate.py`, `artifacts.py`, `tools/` | none | arguments, environment checks, files |
| errors, exports | `errors.py`, `__init__.py` | none | none |

### How they interact

* One *caller's thread* runs the reader and, inside it, the engine's methods.  The engine
  calls the backend (`submit_read`, `cancel_all`, `drain`, `release`) on that thread.
* One or more *backend threads* end reads and call `_on_transfer_complete`, which reads the
  slot, puts a result in the completion queue and counts it.  With the worker backend these
  are pool threads that read synchronously; with the native one it is the completion pump,
  or the caller's own thread when a read ends at once.
* The two sides share the slots and their bytes, the completion queue and the counters.  The
  queue is thread-safe; **the pool and the counters have no lock**.  Their safety rests
  entirely on who may touch a slot when, which is what the core of this project is about.
* The *device* ends reads in the order of their issue and can be aborted.
* Before all that, one thread opens the board: `capture_raw` over libusb, `open_capture` over
  D3XX, `open_ftd3_transport` over libusb or else D3XX.  Each driver call may raise, the
  boards on the bus may change between any two calls, and the board itself remembers what
  earlier sessions left it in.

### What is hard

* Slots are handed between threads without a lock.  A slot freed too early is written to
  while it is decoded; one freed on the wrong path never returns to the stream.
* `stop()` meets reads that are queued, running, finished but not yet posted, posted but not
  yet counted, and waiting to be decoded.
* Every call of `stop()` may raise half way, after which any method may be called again.
* Two threads may settle the same native read, and the driver remembers old results.
* Counters are updated out of step with the queues they describe.
* The queue policies decide which frames a slow consumer sees.
* Opening and connecting is some fifty driver calls in a row, with cleanup in nested `except`
  and `finally` clauses; what is left behind depends on which one fails, and on whether the
  cleanup fails too.
* What the program knows of a board (its index, its descriptors, the pipes in stream mode)
  was true when it was read.

`PROJECT.json` lists these hazards at their lines, with the properties that would catch
each going wrong, and notes for the ones no property covers yet.

### What makes each part correct

* *Engine and pool*: a slot has one owner; a frame shows the bytes of its own read; a read
  yields at most one frame; the completion queue never overflows; the counters add up; a
  stream that is polled never stalls; `stop()` ends, with the handle closed and nothing in
  flight.
* *Queue*: never beyond its capacity; only the frames the policy names are lost.
* *Backends*: they keep the protocol the engine relies on; one thread per buffer;
  completions in order, so the last queued frame is the newest; `drain()` means done.
* *Reader*: what it returns is current, calls return, `close()` leaves nothing open.
* *Handle, connect sequence, pipe, session*: whatever step fails, every interface is
  released and the handle closed once; command identifiers are never reused; the device is
  not left in configuration mode; pipe timeouts are restored.


## 2. The modules

```
  FrameQueue     BufferPool                 FrameQueue
       \           /      \                      |
      StreamingEngine   AsyncBackend        FrameStream   (abstract)
         |        \        /                     ^
         |     StreamingSystem --------- StreamingRefinement
         |        ^   |     \
         |        |   |      StreamingProofs -- StreamingAccountProofs
         |        |   |           |                     |
         |        |   CaptureReader -- ReaderProofs     |
         |        |                                     |
         |     D3xxStream -- D3xxAsync              D3xxProofs
         |
         +---- NativeStream -- D3xxNative
         |          |
         |     NativeProofs
         |          |
         +---- EngineProofs -- StreamingProofs

  DeviceListing -- DriverCalls -- UsbSession ---- Ftd3Pipe --+
                             \                   /           |
                              N3dsxlProtocol ---+            |
                                        \                    |
                                         D3xxHandle -------- CaptureOpening
                                                              |          \
                                                      MCCaptureOpening   CaptureOpeningProofs
                                                                               |
                                                                           BoardProofs
```

Arrows point from a refinement to what it refines; other lines are EXTENDS, except that
`D3xxProofs` extends `D3xxStream` and instantiates `StreamingAccountProofs`, which extends
`StreamingRefinement` too.

| module | models | state and its counterpart |
|---|---|---|
| `FrameQueue` | `policies.py` | no variables: `Full`, `Retains`, `Drops`, `PutFrame` on a sequence |
| `BufferPool` | `buffers.py` | no variables: the slot record and `Checkout`, `Release`, `InUse` on a function of slots |
| `StreamingEngine` | `engine.py`, the counters of `stats.py` | `running`, `slots`, `nextSequence`, `completionQueue`, `outputQueue`, `stats` as in the code; `buffer` is the read whose bytes a slot holds; `pc`, `cursor`, `current` are where the caller's thread is |
| `AsyncBackend` | the protocol of `libusb_async.py` | `transfer[i]` is what the backend does with slot `i`; `cancelling`, `released` |
| `StreamingSystem` | engine and protocol together | the union; the properties of the core |
| `FrameStream` | (abstract) what the engine promises the program | reads issued, flying and arrived; the output |
| `StreamingRefinement` | the refinement of `FrameStream` by `StreamingSystem` | the mapping |
| `EngineProofs` | lemmas about the engine's own steps and the two queues, for any backend | |
| `StreamingProofs`, `StreamingAccountProofs` | theorems about `StreamingSystem`, and its steps as those of `FrameStream` | |
| `D3xxAsync` | `D3xxAsyncBackend` | `jobs` are the futures not yet running; `worker[w]` what a pool thread does; the cancel flag, the handle |
| `D3xxStream` | engine and worker backend, and its refinement of `StreamingSystem` | the union |
| `D3xxProofs` | theorems about `D3xxStream` | |
| `D3xxNative` | `D3xxNativeFastPathBackend` | `inFlight` as in the code; `thread` where the caller and the pump are in `_settle_slot`; `polls` the rest of a pump round; `status` and `pipe` the driver's side |
| `NativeStream` | engine and native backend | the union |
| `NativeProofs` | theorems about `NativeStream` | |
| `CaptureReader` | `CaptureReader` on `StreamingSystem` | `started`, `closed`, `latest` as in the code; `waiting`, `newest` are history; `budget` is what is left of the limit of `process_completed`; `at` is where the thread is |
| `ReaderProofs` | theorems about `CaptureReader` | |
| `DeviceListing` | `classify_n3dsxl_device`, `list_n3dsxl_devices` and how libusb and D3XX describe a board | no variables: which boards are candidates, when two descriptions match |
| `DriverCalls` | the control flow the modules below share | `todo` are the driver calls the current operation has still to make, `raised` the exception on its way out, `bus` the boards plugged in |
| `UsbSession` | `Usb1Backend.open`, `_Usb1Handle`, `N3DSXLDevice` | `claimed` as in the code; `usb` what libusb has given out and nobody has tried to give back: context, handle, interfaces |
| `N3dsxlProtocol` | `N3DSXLProtocol`, and of the board what it has to bring about | `plan`, the pipe operations still to start; `config`, each board's SPI access, firmware and stream mode; `short`, a history variable |
| `Ftd3Pipe` | `Ftd3Pipe`: commands and the transfers they announce | `nextCommandId` as in the code; `lastId`, `prepared` what the board has seen |
| `D3xxHandle` | `D3xxHandle`, `D3xxBackend.open`, `_pipe_timeout` | `handle` and `target` as in the code; `driver` the driver's side, pipe timeouts included |
| `CaptureOpening` | `open_ftd3_transport`, `open_capture`, `capture_raw` and a caller of a transport, over all of these | `at`, `entry`, `kind`, `candidate`: which program, and where it is; `moved`, a history variable |
| `MCCaptureOpening` | three boards and what may be plugged in | |
| `CaptureOpeningProofs`, `BoardProofs` | theorems about `CaptureOpening` | |

**Grain.**  A step is what other threads see as one.  The caller's methods are cut where a backend
thread may come between: before and after each `submit_read` (so that a read may complete before
it is counted as submitted), between taking a result, decoding it, freeing its slot and
resubmitting it, and between the calls of `stop()`.  A callback is cut between its `put_nowait`
and its last line, the counter.  `_settle_slot` is cut at its lock, at its check of the cancel
flag, at the copy of the bytes and after its callback.  `frames_async` is the same step as
`frames`.

Opening, connecting and closing run on one thread.  There every *driver call* is a step, since
each may raise and a board may be unplugged in between.  An operation puts its calls into
`todo` when it begins; a call that returns takes itself off; one that raises replaces the rest
by the calls that the code's `except` and `finally` clauses still make.  A program ends with
`Forgotten`: what it holds at that moment is lost, and the next one starts with objects of its
own.  (That a handle which was lost is still open in the driver, so that a later `FT_Create` on
its board may fail, is one of the reasons for which any call may raise.)

A reader counts as "connected" until its first read and as "streaming" after.  Of its `close()`,
`CaptureOpening` has only what the handle sees of `CaptureReader` and the engine: nothing before
the first read, and afterwards either the close or an exception that left `engine.stop` first.

**Data.**  Bytes are the sequence number of the read that wrote them, so "this frame shows
another read's bytes" can be said.  A read ends "full", "short" or with an "error", the
three cases `_process_result` tells apart; the decoder succeeds, raises `DecodeError`, or
raises something else.  Timestamps, timing samples and messages are left out.

Payloads of pipe operations are named by their purpose.  The board obeys what is sent over SPI
only while that access is enabled, forgets everything when it is unplugged, and obeys or not
when the call that carried a command failed.

**Failures.**  In `CaptureOpening` every driver call may raise, closing calls included, a write
may arrive in part, a product string may be unreadable one time and readable the next, and boards
come and go at any moment.  `ShutdownCanFail` lets `cancel_all`, `drain` or `release` raise at any
time, any number of times.  `SubmitCanFail` (in `CaptureReader`) lets a submission raise.
`NativeCallsFail` lets `abort_pipe` and `release_overlapped` raise and `drain` and `join` time
out; an `abort_pipe` that fails in `_settle_slot` is suppressed there. `ReadsEndAtOnce` lets
`FT_ReadPipeEx` answer without `FT_IO_PENDING`, and `StaleStatus` lets a poll of a read that is
not issued yet report a result.  `Reports` is the one place where that is decided: `submit_read`
resets nothing of the driver's.  The last two and the order in which pending reads finish describe
the driver, which is not in the repository; they are constants so that a run states which driver
it is about.


## 3. What is checked

Every bound is a constant: `RawSlots`, `OutputQueueSize`, `MaxWorkers`, `ProcessLimit`, and
`MaxSubmits`, the number of sequence numbers a behaviour may use (where calls of `stop()` can
fail, it also bounds how often they do, through the counter they advance). Two slots are the
code's default and enough for any race over one slot while another goes on; three are used
where the order among slots matters. Four sequence numbers let both slots be submitted again,
or `start()` be called again after `stop()` (six with three slots). Where two threads race for
one slot, one slot is enough, and three sequence numbers give it a submission before and after;
where it matters that a newer read is under way meanwhile, there are two.  The reader has as many
slots and as much room for frames as `ProcessLimit`, so that several results wait, several frames
are drained at once, and a round reaches its limit with results left.

`CaptureOpening` has three boards (one with a serial number, one without and with its D3XX
numbers in the other order, one of the same vendor that is no N3DSXL) on three buses, among
which they change without a bound, so that an index can name another board than it did.
`ReadAttempts` is 2 instead of 8, which has a first and a last attempt.  `MaxCommandId` is 27
instead of 2^32 - 1: one connect takes 25 numbers, so a connect that follows a failed one reaches
the limit, and the reads after it run past it.  `MaxUsed`, a bound of the model, lets a pipe
that has taken up to three numbers be set up again, which a first connect that failed early
has; over D3XX, which takes no numbers, connecting again is not bounded.

Runs that hold:

| run | instance | shows |
|---|---|---|
| `engine_safety` | 2 slots, queue 1, 4 reads, shutdown may raise; 1.3 M states | slot ownership, genuine bytes, no duplicate read, room for every callback, balanced counters, a handle closed only when quiet, whatever is called after an interrupted `stop()`; `IndInv`, the invariant of the proofs |
| `engine_promises` | 2 slots, queue 1, 4 reads, `drop_newest`, a caller that polls; 0.16 M | the engine implements `FrameStream`, fairness included; `stop()` ends; the slot of every result is submitted again; a `stop()` that does nothing has nothing to do |
| `d3xx_stream` | 3 slots, queue 2, 6 reads, 1 worker; 0.23 M | the worker backend keeps the protocol (as a refinement of `StreamingSystem`, fairness included); with the one worker it is built with, completions keep the order of submission along the whole pipeline |
| `native_stream` | 2 slots, queue 1, 3 reads, reads that end at once; 81 k | a late result may settle the wrong read, but then it brings bytes that are too old: no frame shows the bytes of a read submitted after its own; the handle outlives the pump, every read is settled and `stop()` ends |
| `native_hostile` | 1 slot, queue 1, 3 reads, reads that end at once, stale polls, failing calls; 2.1 M | each submission is settled by one thread and yields one result; the engine holds the raw slot of every read in flight; no frame shows bytes of a later read, with stale polls too |
| `connection` | 3 boards, 3 buses, `ReadAttempts` 2, `MaxCommandId` 27, `MaxUsed` 3; 0.5 M | what a program may leave held when it ends; connect leaves the board configured; a D3XX handle drives the board that was listed; command numbers are fresh; transfers follow their announcement; pipe timeouts are restored; every call ends |
| `reader` | 2 slots, queue 2, limit 2, 4 reads, failing submissions and starts; 0.45 M | `read_frame` returns the frame decoded last, and only when what waited was handled; `close()` of a used reader closes the handle with nothing in flight; `read_frame` with a deadline and `close()` return |

`connection` is the composition of five modules, and its properties are about the seams:

* `NothingElseIsLeft` looks at the step that ends a program.  It relates what the drivers have
  given out, on any of the paths in, to what the cleanup clauses give back; a call that was made
  and failed counts.  Two cases in which the code does leave something are named in `MayBeLeft`:
  the libusb context when `Usb1Backend.open` is left while it looks through the boards, and the
  D3XX handle when `CaptureReader.close` had nothing to stop
  (`reader_never_read`) or was left by an exception of `engine.stop` (`stop_interrupted`).  Then
  nothing but that one resource is left.
* `ConnectedMeansConfigured` starts from any state earlier sessions, failed connects and
  retries have left the board in.  It sets aside writes that arrive in part, which connect does
  not look at, and boards that were plugged in again.
* `DrivesTheListedBoard` is why `_open_identifier` prefers serial numbers: with one, the handle
  is on the listed board whatever happens on the bus, also after it was reopened.
* `CommandNumbersAreFresh` includes commands that failed, since the board may have seen them.
* `TransfersAreAnnounced` fails as soon as a partial write of a command is let pass.
* `TimeoutsAreRestored` covers transfers that fail; `disturbed` excuses timeout calls that do.

No run turns deadlock checking off: in every model the caller may call a method that does
nothing, or the backend goes on.

### Where the code and its documents disagree

Each of these runs checks one documented sentence and TLC refutes it; `PROJECT.json`
quotes the sentence.

* `stop_interrupted`: an exception in `cancel_all` or `drain` skips the release and the
  close that the specification promises.
* `native_drain`: the native `drain()` waits for `in_flight`, which is cleared *before* the
  callback, so it returns with a completion still to be posted.  `stop()` then frees the
  slot, and the late callback posts a result without its sequence number.
* `native_order`: the pump settles slots in index order, so an older read may be queued
  after a newer one, and `read_frame` returns the older.
* `native_at_once`: a native read that ends at once is settled by the caller's thread, while the
  pump may have polled the same result and wait at the lock of `_settle_slot`.  The caller's frame
  is decoded and the slot submitted again before the pump goes on, and its old result then settles
  the new read: a result's `sequence` is of one read and its `view` of another.
* `reader_never_read`: `close()` of a reader that never read does nothing, since
  `engine.stop()` does nothing before `start()`; the device stays open, and with the native
  backend its pump thread stays alive.

Other differences met on the way have no run:

* `Usb1Backend.open` creates its `USBContext` and goes through the boards outside its `try`, so
  what `getDeviceList` or the reading of a descriptor raises leaves the context open, though
  release and close are promised on every failure of open (`MayBeLeft` names this case).
* What libusb1 raises from `detach_kernel_driver`, `set_configuration` and `claim_interface`
  leaves `N3DSXLDevice.open` as it is, and is no `DeviceOpenError` as documented
  (`n3dsxl_ftd3.py:161`).  `open_ftd3_transport` catches only that, so a driver mismatch that
  shows in one of these calls does not fall back to D3XX.
* `stop()` adds every slot in use to `cancelled`, completed reads that wait to be decoded
  included, while `stats.py` calls them in-flight transfers.
* The worker backend says completions after cancellation are ignored, but a worker that
  passed its check of the flag still posts one; `d3xx_stream` shows that this does no harm,
  because `drain` waits for it.
* `drop_policy="block"` neither blocks nor drops (`policies.py:87`): the queue has no bound
  under it, though a maximum is documented.  `OutputBounded` therefore speaks of the others.
* A poll between line 196 and line 198 of `d3xx_native_streaming.py` reaches the driver before the
  read does.  What it answers is not the code's, so no run blames the code for it; with a driver
  that reports the previous result, frames are wrong in the way `native_at_once` shows.
* `connect` documents an error for any command or transfer that fails, but ignores how much
  of a bulk write arrived (`n3dsxl.py`, `write_pipe`).
* `open_ftd3_transport` documents the candidate to open; its fallback opens the first board
  D3XX lists (`ftd3_backend.py:261`), which with several boards may be another.
* Without a serial number a board is opened by its index in an earlier listing; a board that
  was plugged in meanwhile may have it (`DrivesTheListedBoard` leaves this case out).
* A second `connect` on one D3XX handle keeps the IN pipe in `_stream_pipes`, so its setup
  reads use `FT_ReadPipeEx` (`d3xx_backend.py:303`).
* With more than one worker, two reads may save and restore one pipe's timeout in the wrong
  order (`d3xx_backend.py:779`); the backend is built with one.
* `tools/stream_n3dsxl.py` does not stop an engine whose `start()` failed half way.

### Fairness

`Spec` of `StreamingSystem` assumes that a method that was entered goes on (a thread is
scheduled), that every read ends (its pipe has a timeout, and cancellation ends it otherwise) and
that a callback that began returns (it takes no lock that is held while waiting).  It never
assumes that the program calls a method: `PollingSpec`, the specification of `engine_promises`,
adds that `process_completed` is called again and again, which only `SlotsAreResubmitted` needs.
`D3xxStreamSpec` assumes the same of each pool thread, and that suffices to refine the fairness of
`Spec`.  `NativeStreamSpec` assumes a caller inside a method, a pump that keeps polling, and a
device that ends pending reads at their timeout.  `ReaderSpec` adds that the deadline of
`read_frame` passes: strong fairness on the timeout, because a round that finds nothing alternates
with a poll, and the clock does not go back; a reader without a deadline (`read_timeout` `None`)
is outside this.  `Spec` of `CaptureOpening` assumes that a library call that was entered goes on,
which is to say that every driver call returns or raises (each has a timeout): weak fairness of
the program's own steps while it is inside a call.  Boards may come and go for ever meanwhile.


## 4. What is proved

`StreamingProofs` proves, for `StreamingSystem` and every value of its constants allowed by
their assumptions (`RawSlots`, `OutputQueueSize` positive, `MaxSubmits` a natural number, the
three policies, shutdown that may or may not fail, and a `None` that is no number, no result and
no outcome):

| theorem | says |
|---|---|
| `TypeInvariant` | types of all variables |
| `SlotsAreOwned` | `SlotOwnership`: no slot with two owners, none written while free, none lost before the first `stop()` |
| `HandleClosedWhenQuiet` | `ClosedWhenQuiet`: the handle is closed with nothing outstanding |
| `CallbackFindsRoom` | `QueueHasRoom`: the `queue.Full` branch of the callback is dead code |
| `InductiveInvariant` | `IndInv` |
| `FramesAreGenuine` | `FrameIntegrity`: a frame shows the bytes of the read it names |
| `OutputStaysBounded` | `OutputBounded`, for every policy but `"block"`, under which the code appends to a full queue |

The inductive invariant is `IndInv == TypeOK /\ OwnershipInv /\ BytesInv`.  None of the safety
properties is inductive alone:

* `SlotOwnership` needs to know that a slot in the queue or in hand is checked out while the
  stream is not cancelled (otherwise `start()` could submit it again) and that `"release"` is
  reached only when all is quiet (otherwise freeing every slot would free one in flight).
  `OwnershipInv` adds these.
* `FrameIntegrity` speaks of queued frames only.  `BytesInv` follows the bytes back: a settled
  transfer has written the slot's current sequence number, and a completed result still
  matches its buffer, because nobody else may write there until the caller lets go.  That
  step uses `SlotOwnership`.
* `QueueHasRoom` follows from ownership by counting: the results that wait are of different
  slots, and a slot whose callback runs is not among them, so fewer than `RawSlots` wait.
  Lemma `RoomForOneMore` is that pigeonhole.

Each invariant has one lemma per group of actions (`TypeCallerStep`, `OwnershipSubmit`,
`BytesComplete`, ...), one that combines them for `[Next]_vars`, and a theorem that closes
with the rule of temporal induction.  `AppendedSlots` and `TakenSlots` say what an append and
a take do to the set of queued slots; `PutFrameType`, `PutFrameGenuine` and `PutFrameBounded`
what a policy does to the queue.

`StreamingAccountProofs` goes on from there, under the same assumptions:

| theorem | says |
|---|---|
| `CountersAccountForReads` | `StatsConservation`: the counters account for every read and every frame |
| `ReadsAreFoundOnce` | `NoDuplicateRead`: no sequence number is at two places of the pipeline |
| `StopHasNothingToDo` | `NoOpStopIsClosed`, with `ShutdownCanFail = FALSE`: where shutdown may raise, it is false, see `stop_interrupted` |
| `KeepsItsPromises` | every step is one of `FrameStream`, or shows the program nothing: `ImplementsFrameStream` without its fairness, on any backend that keeps the protocol, shutdown that raises included |

* `Accounts` states `StatsConservation` in four parts, one for each place a read can be lost
  (`Issued`, `Fates`, `Frames`, `Deliveries`), and is inductive with `IndInv`: that a callback
  is counted needs room in the queue, and that a resubmitted slot adds one transfer in flight
  needs that it had none.
* `NumbersInv` adds to distinctness that every number in the pipeline was given out, so that
  the next one is new.  `AppendNumbers`, `TailNumbers` and `PutFrameNumbers` say what the queue
  operations do to the set of numbers; `ConcatDistinct` puts the places together.
* `StopInv`: a stream that is not running is being stopped, or its handle is closed, or none
  was started.
* `KeepsItsPromises` reads the stream off the engine: `Flying` are the reads of the slots in
  flight, `Undecoded` the result in hand and then those that wait, `Shown` the bytes behind each
  queued frame.  It needs no invariant of its own.  At most `RawSlots` reads are outstanding
  because each has its slot (`RoomToIssue`, by `SlotOwnership`); a read that lands was flying
  once (`LandedFlight`, by `NumbersInv`); a frame shows its own bytes by `BytesInv`.
  `StreamSteps` states each step of `FrameStream` on those views, one lemma per group of actions
  matches the engine's steps with them, and `FieldAppend`, `FieldTail`, `Prepended` and
  `HeadThenTail` carry an append or a take through them.

`D3xxProofs` proves, for `D3xxStream` and any number of slots and workers:

| theorem | says |
|---|---|
| `WorkersKeepTheProtocol` | every step is one of `StreamingSystem`, or leaves it alone: `ImplementsStreamingSystem` without its fairness |
| `D3xxStreamTypes` | `D3xxStreamTypeOK` |
| `D3xxStreamIsSafe` | the safety properties of `StreamingSystem` hold on this backend |
| `WorkersKeepThePromises` | every step is one of `FrameStream`, or shows the program nothing |
| `FramesInOrder` | `InOrder`, with `MaxWorkers = 1`: with two workers a later read may end first |

* `Transfer` reads a slot's transfer off the job queue and the workers.  For a step to move one
  transfer only, a slot must have one job, which waits or is with one worker (`OneJobEach`);
  that holds because the engine submits only slots that are idle, which is `SlotOwnership`.  So
  the invariant `D3xxInv` holds both sides: the pool's, and the one of `StreamingSystem` under
  the mapping.  It also counts `posted` by the workers that return from a callback, without
  which a `drain` that waits for the workers would not be the `drain` of the protocol.
* `JobAdded`, `JobTaken`, `JobCancelled` and `WorkerMoves` say what each operation does to
  `Transfer`, without the engine; `SubmitIs`, `StopIs` and `WorkerIs` then match the steps.
* `OrderInv` splits the pipeline into its five places: numbers rise within each, and everything
  at one is below everything at the next.  A submission takes a number above all (`NumbersInv`),
  and each other step moves the lowest number of a place to the end of the next, or drops some.

`CaptureOpeningProofs` proves, for `CaptureOpening` and any boards, buses, number width and
bounds (`Buses` are sequences of boards, the others natural numbers, `ReadAttempts` positive):

| theorem | says |
|---|---|
| `NothingElseLeft` | `NothingElseIsLeft`: an ended program has tried to give back everything of either driver but, in the two cases named in `MayBeLeft`, one thing |
| `FreshNumbers` | `CommandNumbersAreFresh`: no number is taken twice in a session |
| `AnnouncedTransfers` | `TransfersAreAnnounced`: a bulk transfer directly follows its own prepare command |

`NothingElseIsLeft` is about the step that ends a program, so the work is in
`HeldInv == Typed /\ HeldType /\ Phase /\ Session /\ Native`:

* `Phase` ties what calls may be under way to where the program is; without it a pipe operation
  could put a `"claim"` into a session that is being closed.
* `Session` relates what libusb has given out to the position in the call sequence.  While
  opening, `todo` is what is left of `SessionOpenCalls` (`LeftOf`), and its length bounds what
  is held.  While closing, or after a failed open, `todo` ends with the handle and the context
  (`IsRelease`), and everything still held is still going to be given back (`Covers`).  For
  that every claimed interface has to be in `claimed`.
* `Native` does the same for the D3XX handle, which is closed as soon as nothing is left.

`LeftAtTheEnd` then goes through the steps that end a program.

`WhereCall` reads off the invariant where the program must be for a given call to be next.  The
steps then fall into three groups, calls of a session (`SessionCallStep`), of the pipe
(`PipeCallStep`) and of the D3XX handle (`D3xxCallStep`), and the steps of the programs between
their calls (`ProgramStep`).  `FreshNumbers` needs no more than `Numbering`, which is
inductive with the types of the numbers.  `AnnouncedTransfers` needs `Announced`: a bulk
transfer in `todo` is either next and announced, or second behind its prepare command; that no
other calls get between them uses `HeldInv`.

`BoardProofs` goes on from `CaptureOpeningProofs`, for the same constants:

| theorem | says |
|---|---|
| `OpeningTypes` | `TypeOK` of `CaptureOpening` |
| `ListedBoardIsDriven` | `DrivesTheListedBoard`, if no two boards that describe themselves differently have one serial number (`SerialsIdentify`) |
| `PipeTimeoutsAreRestored` | `TimeoutsAreRestored` |
| `ConnectConfigures` | `ConnectedMeansConfigured` |

* `Planned` finds the operation under way in the position of connect's sequence: every call in
  `todo` belongs to it, and while nothing is under way the plan is what is left of the sequence.
* `Known` and `Listed` follow a board from the listing through `FT_Create` to the reopening after
  the drain.  The serial number is what finds it again; where there is none, its place on a bus
  that has not changed is.
* `Timing` says at each point of a transfer whether a timeout has been saved, changed or put
  back.  `Timely` fixes in which order the calls of `_pipe_timeout` may still stand in `todo`.
* `Progress` is the long one.  `Reached(state, n)` is what the board has to be with
  `n` operations of connect left: SPI access open when its firmware is selected, selected from
  then on, SPI access closed three operations before the end, and streaming at the end.  It says
  nothing of what no operation has set yet, because failed connects leave any state behind.
  `Remaining` counts an operation as undone until the call that reaches the board has returned.
* `Flags` and `Claims` give the types of the remaining variables; how many interfaces are
  claimed follows from how many calls of opening are left.

`NativeProofs` proves, for `NativeStream`, any number of slots and either answer to each question
the driver leaves open, unless said otherwise:

| theorem | says |
|---|---|
| `NativeInvariant` | `NativeInv`, the inductive invariant |
| `NativeTypes` | `NativeStreamTypeOK` |
| `ReadsYieldOneResult` | `OneResultPerRead`: one thread settles a read, one result, for which there is room |
| `ReadsInFlightAreHeld` | `InFlightIsHeld`: a read in flight has its raw slot |
| `HandleClosedAfterPump` | `ClosedAfterPump`, with `~NativeCallsFail` |
| `FramesShowNoNewerBytes` | `NoNewerBytes`: until cancellation no frame shows the bytes of a read submitted after its own |

* `NativeInv == NativeStreamTypeOK /\ Places /\ Held /\ Stopped`.  `Held` is ownership as this
  backend gives it, weaker than `SlotOwnership`, which is false here: a slot in flight is checked
  out and neither queued nor in hand, two threads never settle one slot, and the rest only
  while the stream is not cancelled, since `drain` returns before a callback that is on its way.
* `HandleClosedAfterPump` needs `Closing`: once released no read is at the device.
* `FramesShowNoNewerBytes` follows the bytes from the pipe to the native buffer, the slot's buffer
  and the frame (`BytesInv`).  Each of these places holds at most the number of the slot, and a
  slot's number only rises, so that a late result can only bring older bytes.  What has to be
  shown is that no newer read gets to a raw slot whose frame is still to be decoded: a thread
  that copies has claimed the slot, and by `Held` the slot is then neither queued nor in hand.
  It does not survive cancellation, after which `stop()` frees slots under a completion on its way.

`ReaderProofs` proves, for `CaptureReader`, any number of slots and any limit:

| theorem | says |
|---|---|
| `ReaderTypes` | `ReaderTypeOK` |
| `UsedReadersRelease` | `UsedReaderReleases`, with `ShutdownCanFail = FALSE` |
| `LatestFrameIsReturned` | `LatestIsReturned`, with `RawSlots <= ProcessLimit` |

* `ReaderInv == ReaderTypeOK /\ Position /\ Shutdown /\ Numbering` says where the engine is when
  the reader is at each of its points.  It uses nothing of slot ownership, which a
  submission that raises breaks (it loses the slot).
* `Ahead` compares what is left of the limit with how deep in the queue the results lie that
  waited when `read_frame` was called.
* `Newest` finds the frame decoded last: at the end of the queue, or in `latest` when the queue
  has been drained.
* The code's limit is 8 and its default two slots, but `CaptureConfig.raw_slots` has no upper
  bound: with more than 8 a caller can get a frame that is older than one that was ready.

**The assumptions of these theorems** are each needed: with `NativeCallsFail` or
`ShutdownCanFail` true, `ProcessLimit` below `RawSlots`, or two different boards of one serial
number, TLC finds the property violated.  The serial numbers are about the boards; the others
restrict the theorem to a part of the configurations, and the section on disagreements says what
happens in the rest.

**Only model-checked.**  Liveness (`StopEnds`, `SlotsAreResubmitted`, `NativeStopEnds`,
`NativeReadsEnd`, `CallsReturn`, `CallsEnd`), which is outside what the prover does, and the two
refinements with their fairness; the initial states and the steps of both are proved.


## 5. What is not modelled, and the plan

Not modelled, and not planned: timing samples and percentiles, pixel conversion, resolving a
configuration (it raises before anything is opened), the command-line tools but for the session
`capture_raw` opens, the hardware gate and artifact files (input and output around the parts
above, without state of their own), `LibusbAsyncBackend` (its operations raise
`UnsupportedOperation`), and the FTDI driver beyond its answers.

The modules do not yet meet in one place: `CaptureOpening` ends where `open_capture` has built
a backend and an engine, and `CaptureReader` and the stream modules begin there; of the reader
`CaptureOpening` has the three outcomes of its `close()`.  The pump thread of a native backend
whose engine cannot be built is in neither.

The order of work, the most important behaviour first:

1. *Done.*  `FrameQueue`, `BufferPool`, `StreamingEngine`, `AsyncBackend`,
   `StreamingSystem`; the abstraction `FrameStream`; `StreamingProofs`.
2. *Done.*  `D3xxAsync` with `D3xxStream`; `D3xxNative` with `NativeStream`;
   `CaptureReader`.
3. *Done.*  `DeviceListing`, `DriverCalls`, `UsbSession`, `Ftd3Pipe`, `D3xxHandle`,
   `N3dsxlProtocol`, and `CaptureOpening` over them; `CaptureOpeningProofs`.
4. *Done.*  `StreamingAccountProofs`; `D3xxProofs`; `EngineProofs` with `NativeProofs` and
   `ReaderProofs`; `BoardProofs`.  The native backend has no refinement to prove: its `drain`
   returns before the last callback (`native_drain`), so it does not keep the protocol, and
   its properties are stated of `NativeStream` itself.
5. The composition of opening, reader and native backend, for a failed build of the engine.
6. Pure operators for `protocol/layout_3ds.py` against a reference definition.

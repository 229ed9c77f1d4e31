# A verification development of the YiFPGA debug platform

YiFPGA (OpenFPGA Studio) observes a running FPGA design: RTL blocks inside the
FPGA produce framed debug messages, a UART or a JTAG mailbox carries them to a
host, and a web viewer parses, assembles, shows and diagnoses them. This
directory holds TLA+ models of both ends, the TLC runs that check them on small
instances, and TLAPS proofs, for every value of the parameters, of nearly every
safety property the runs check.

## 1. Inventory of the system

All paths are relative to the repository. Almost every RTL file ends in an
`openfpga_*` wrapper that only renames ports; those lines carry no behaviour.

| Component | Source | State | Operations and interactions |
|---|---|---|---|
| JTAG ring buffer | `rtl/yifpga_debug/yifpga_jtag_ring_buffer.sv` | two pointers and a speculative one, block RAM, Gray synchronisers, drop counters | debug clock writes, TCK reads, commits, aborts |
| JTAG mailbox, USER-DR engine | `yifpga_jtag_mailbox.sv`, `yifpga_jtag_user_dr.sv`, `yifpga_jtag_transport.sv`, `rtl/vendor/xilinx/*` | scan bit counter, pending and active response, header snapshot | CAPTURE, SHIFT and UPDATE of the TAP; commit or abort of the ring |
| JTAG host side | `tools/jtag/*.py` | expected counts, session, sequence number, client queues | header scans, payload scans, commit; broadcast of records to the clients |
| Debug core | `yifpga_debug_core.v`, `_packetizer.v`, `_ring_buffer.v`, `_timestamp.v` | frame FIFO, packet and drop counters, serialiser | arbitrates nine sources, admits, frames, emits bytes |
| Trace | `yifpga_trace_adapter.v`, `yifpga_trace_*_probe.v` | one staged message, drop flag, probe states | merges span, mark, value and drop triggers |
| UART, command parser | `yifpga_debug_uart_rx.v`, `_uart_tx.v`, `_command_parser.v` | bit and byte counters, frame state, one pending command | frames in, one parsed command out |
| Monitor | `yifpga_monitor_core.v`, `_adapter.v`, `_reg_bank.v` | request state machine, register values, W1C bits, pulses | read and write requests, responses with a sequence number |
| Profiler | `yifpga_profiler_core.v`, `_adapter.v`, `_counter.v`, `_latency.v`, probes | counters, window, snapshot, alert | metrics in, snapshots and alerts out |
| Logic analyzer | `yifpga_la_core.v`, `_trigger.v`, `_adapter.v` | circular capture memory, phase, chunk cursor, staged message | arm, stop, force, clear; header, trigger, data and status messages |
| Board | `rtl/board/yifpga_debug_board_demo.v` | glue: pulses, arbitration slots, a constant session | wires all of the above |
| Viewer: byte stream and parser | `tools/viewer/web/app.js` | `rx`, `transport.recordRx`, socket, port, session | records of the bridge, serial chunks and replayed files become frames |
| Viewer: monitor client | `app.js` | sequence number, pending table, chain of writes, values | reads, writes, polling, configurations; responses, timeouts |
| Viewer: capture assembly | `app.js` | captures with header, chunks, samples, missing ranges | four kinds of frames in, one window out |
| Viewer: trace | `app.js` | open spans, spans, marks, values, drops | begin and end paired by identifier; bounded lists; the timeline |
| Viewer: render loop | `app.js` | pending panels, a scheduled callback, paused | handlers ask, animation frames draw |
| Viewer: diagnosis and AI debug | `ai_debug_model.js`, `ai_provider.js`, `diagnostic_*.js`, `diagnosis_validator.js` | scope, snapshot, findings, answer; generation and abort controller | snapshot, local rules, provider request with retries and timeout, validation |
| Viewer: profiler, exports, samples | `app.js` | histories, alerts | drawn and exported |
| Viewer server and scripts | `tools/viewer/*.py` | none | serve, validate a board once |
| Transport router, performance source | `yifpga_transport_router.sv`, `yifpga_jtag_perf_source.sv` | none; a counter | used by simulations and benchmarks only |
| Vivado project | `prj/` | none | build scripts |

### What is hard in it

* *Two clocks.* The debug clock and TCK are unrelated. Pointers cross in Gray
  code, which is only safe for a pointer that moves by one; the committed read
  pointer moves by a block. Memory may be read and written at one slot on one
  edge.
* *A host that may stop anywhere.* TCK stops between scans, a scan may be short
  or long, the TAP may be reset in the middle of a payload, and a reset of the
  command engine does not reset the ring.
* *Back-pressure.* Nine sources share one frame FIFO; adapters stage one message
  each; a one-cycle pulse that meets a busy stage is easily lost.
* *Bytes of several sources in one buffer.* Sockets, the serial port and replayed
  files feed one parser; messages, records and frames end anywhere; sessions
  change; the Connect button is enabled while a socket opens or closes.
* *Callbacks and awaits.* The viewer is one thread of handlers that suspend:
  clicks, frames, timers and clears come between an await and what follows it, and
  Clear replaces objects that a suspended handler goes on using.
* *Registers that change by themselves.* Status bits rise in the device, counters
  run, a write of ones clears, a trigger register stores nothing.
* *Lost and late answers.* A request may be lost, its response late, its sequence
  number used again; a capture may miss frames; a provider may answer a request
  that was given up.
* *Counters.* 16-bit and 32-bit counters wrap or saturate, and the accounting of
  dropped messages is spread over three modules.

### What makes each part correct

| Component | Properties that matter |
|---|---|
| JTAG ring | no accepted byte is overwritten before its commit; the offered byte is the next one; the header never promises a byte that cannot be read; counts are exact through every wrap; what was delivered becomes visible |
| JTAG link | a scan shows the promised bytes in order and whole; an exact scan commits and any other gives everything back; a TAP reset leaves nothing half taken; a header is of one instant |
| JTAG host | every block is delivered once or reported; a session change resets the parsers; close never overlaps a transaction |
| Debug core | a source that is told its message was taken finds it in the stream, once, whole and in order; everything else is counted as lost; urgent messages have room; nobody is starved who is promised not to be |
| UART, parser, monitor | one response per accepted request, with its sequence number; a damaged frame does not swallow the next; a sticky bit set while it is cleared survives |
| Profiler | every accepted metric falls into exactly one window; every overflow is counted and reported |
| Logic analyzer core | the window is the last samples, in order, full unless cut short, with the trigger where it fired, whatever is written to the registers meanwhile; a triggered capture ends |
| Logic analyzer readout | the messages are the window, once, numbered and accounted for; a readout ends, and only a new capture or a command starts another |
| Viewer stream | frames are those of one parse of each unbroken sequence; none is glued from two sessions; nothing is decoded twice |
| Viewer monitor | a response settles the request it answers; what is shown of a register is what it held, up to what it did by itself since; the last configuration wins whole; every request settles |
| Viewer captures | shown samples are the device's; complete means the whole window; gaps are told exactly |
| Viewer render loop | nothing that changed stays undrawn on a page that is not paused |
| Viewer trace | a span is one of the device, with its duration; the timeline keeps the latest items |
| Viewer diagnosis | findings belong to the snapshot shown; nothing is sent without its evidence, or shown that was not sent; the answer of a request that another replaced is not shown; requests end |

## 2. Plan

The order is by how much the rest depends on a part and how hard it is to test.

1. The JTAG read path: `JtagRing` under the abstract `MailboxQueue`,
   `GrayPointers` for the codes, `JtagLink` composing ring, mailbox, engine and
   TAP. Done; ring and link proved.
2. The logic analyzer: `LaCore` under the abstract `LaCapture`, `LaReadout` on
   top of `LaCapture`. Done, proved.
3. The debug core: `FrameRing` under the abstract `FrameQueue`, `DebugCore` on
   top of `FrameQueue`. Done, proved.
4. The viewer: `FrameParser` and on it `ViewerStream`; `RegisterBank` and on it
   `MonitorClient`; `LaAssembly`; `RenderLoop`; `TraceSpans`; `Diagnosis` and on it `AiDebug`.
   Done; what is proved of them is in section 5.
5. Left: the rest of the FPGA's end of the monitor (bytes, command parser, the
   handshakes of the request pipeline, reset), the host's read transaction, the
   profiler, and a proof of `CodesAgree`.

Every pair of a detailed and an abstract module serves the next module: a
composition uses the abstract one, so that `LaReadout` need not carry the sample
memory and `DebugCore` need not carry the pointers. The viewer's modules each hold
the other end as well, a device, a line, a bridge or a provider, which may do
what the RTL, the protocol or the interface allows.

## 3. Modules and code

In the RTL modules one step is one clock edge with all the registers it changes
(one edge of either clock, or of both together, in the JTAG modules). In the
viewer's modules one step is what runs between two turns of the event loop: a
handler, or what follows an await. Definitions keep the names of the signals,
tasks, states and functions. Variables that only record history for the properties
are marked in the declarations. Each operator called `Name_Suffix` under a comment
"Mutant" is a plausible bug of the operator `Name` that follows it; nothing uses
it, and replacing `Name` by it must break a property.

| Module | Code | State and actions |
|---|---|---|
| `MailboxQueue` | promise of `yifpga_jtag_ring_buffer.sv` | three counts: put, taken, committed; put, take, commit, give back, clear |
| `JtagRing` | `yifpga_jtag_ring_buffer.sv` | `WriteClock`, `ReadClock`, `BothClocks`, `Reset`. A byte is its position in the stream; a pointer is kept unbounded and compared modulo the pointer width. A synchroniser that samples on the edge of a change catches the old value, the new one or, when more than one bit changes, `Torn`: then `full` may answer anything. A slot read while it is written gives the old byte, the new one or neither |
| `GrayPointers` | the same file, 41-72 | the codes bit by bit; justifies that `JtagRing` compares counts |
| `BasicFacts` | | lemmas on remainders, quotients, least numbers and counting up, which the proofs share |
| `JtagRingProofs`, `JtagLinkProofs`, `LaCoreProofs`, `LaReadoutProofs`, `DebugCoreProofs` | | invariants and theorems of the module each is named after |
| `JtagLink` | `yifpga_jtag_user_dr.sv`, `_mailbox.sv`, `_transport.sv`, `rtl/vendor/xilinx/*` | TAP, engine, header snapshot and ring. `TckClock` leaves one TAP state: capture, shift a bit, update a request or a response. The host is any walk of the TAP |
| `LaCapture` | promise of `yifpga_la_core.v` to its reader | a window that appears at the end of a capture and stands still |
| `LaCore` | `yifpga_la_core.v`, `yifpga_la_trigger.v`, register checks of `yifpga_monitor_reg_bank.v` | `Clock` with any set of command pulses and any sample, one action per state of the code; `ConfigWrite` between any two edges |
| `LaReadout` | `yifpga_la_adapter.v`, read port of the core, auto-readout of the board | `Clock`: a step of `LaCapture`, the read port, one phase of the adapter, the consumer's readiness |
| `FrameQueue` | promise of `yifpga_debug_ring_buffer.v` | a bounded queue that accepts through full when it is read |
| `RingDepth`, `FrameRing` | `yifpga_debug_ring_buffer.v` | memory, two pointers, count; `DebugCoreProofs` holds its theorems too |
| `DebugCore` | `yifpga_debug_core.v`, `_packetizer.v`, `yifpga_trace_adapter.v` | `Clock`: any pulses, any new messages of the sources that hold them, transport ready or not |
| `FrameParser` | `app.js` 344-346, 444-482 | what a buffer and the bytes that come give: operators only |
| `ViewerStream` | `app.js` 313-321, 2312-2458 | `connectJtag`, `onopen`, `onmessage`, `onerror`, `onclose`, `connectSerial`, `readLoop`, `readLoopEnds`, `disconnect`, `portCloses`, `replayRawCapture`; the bridge's `Broadcast` and `NewSession`. A byte carries its session and place, which the code does not see |
| `RegisterBank` | `yifpga_monitor_reg_bank.v` | what a request is answered and leaves behind, and how a register drifts without one: operators only. A register is plain, W1C or a trigger, and any of its bits may be read from an input |
| `MonitorClient` | `app.js` 370-434, 1091-1250, 2144-2239, 2722-2753, 2996-3007 | `monitorRead`, `monitorWrite`, `Poll`, `applyLogicAnalyzerConfig`; `Written` and `WriteFails` run the head of the chain of promises and what awaits it; `Serve` is the device at the moment a request is written; `DeviceChanges`, `Response`, `ResponseLost`, `expireMonitorPending`, `clearAllRequests`. `own` is the configuration object that an application holds after Clear replaced it |
| `LaAssembly` | `app.js` 402-434, 777-1021 | `DeliverFrame` decodes the next frame of the device's readout, `LoseFrame` and `Malformed` do not; `NewCapture`, `ReadAgain`, `clearAllCaptures` |
| `RenderLoop` | `app.js` 484-694, 1617-1644, 1940-1971, 2144-2239, 2755-2763 | for each kind of frame and each control what it changes and which panels it asks for; `StartApplying`, `GoOnApplying` and `EndApplying` are `applyLogicAnalyzerConfig` before, between and after its awaits; `flushRender`, `setPaused`, `clearAll` |
| `TraceSpans` | `app.js` 564-649, 1325-1365, 1521-1585 | the device's `BeginSpan`, `EndSpan`, `Mark`, `Tick`; `Deliver`, `Lose`, `clearAllSpans` |
| `Diagnosis` | `diagnostic_snapshot.js`, `diagnostic_rules.js`, `ai_provider.js` 24-61, `diagnosis_validator.js` | the pipeline as operators: `build`, `evaluate`, `buildContext`, `validate` |
| `AiDebug` | `ai_debug_model.js`, `ai_provider.js` 89-113 | the clicks, `BuildDone`, the provider's `ProviderAnswers`, `ProviderAnswersBadly` and `ProviderFails`, `TimerFires`, `ChangeScope`, `NewData`, `Clear` |
| `Null` | | the constant `NONE`, the null that the modules of the viewer share |
| `ViewerProofs` | | invariants and theorems of `LaAssembly`, `TraceSpans`, `AiDebug`, `MonitorClient` and `RenderLoop`, which it extends: they have no variable in common, and each has an `Init`, `Next` and `Spec` of its own name. What the code's `clearAll` does to a part is an action of that part |
| `StreamProofs` | | invariants and theorems of `ViewerStream` and of the operators of `FrameParser` |
| `MC*` | | values of the constants for TLC; `MCJtagRing` also joins the ring and its codes |

## 4. What the runs check

| Run | What it shows |
|---|---|
| `ring` | With torn samples, colliding memory accesses, commits of any size, roll-backs and resets: nothing is overwritten and the offered byte is the next (`BytesKept`); the RTL's tests on codes answer what those on counts do (`CodesAgree`); promise, count and drops of the header are sound (`HeaderSound`); the ring implements `MailboxQueue`; once the producer is silent everything surfaces |
| `link` | Against any host, resets included: scans show the promised bytes and give back what they do not commit (`ShownOnce`), headers are of one instant and promises are kept (`HeaderHolds`), and the engine uses the ring as `JtagRing` assumes |
| `la_core` | Under every pulse and every register write: window, trigger mark, fullness, `LaCapture`; a triggered capture ends |
| `la_readout` | Under stalls, clears, arms and restarts: what is sent of a capture that was not given up is its window, numbered and accounted for, and the core is not left in READOUT |
| `la_readout_stall` | expected violation, section 6 |
| `core` | All sources at once: line and buffer agree, bytes are in order, the reserve holds and packets and drops are accounted for (`Accounts`; the trace messages lost on one edge are counted as one), every frame leaves and no monitor response is starved |
| `stream` | Bytes cut anywhere, foreign chunks in between, sessions that change, errors and reconnections: `StreamIsBatch`, `FramesAreTheTargets`, `NoGlue`, `RecordsOnce` |
| `monitor` | Lost and late responses, failed writes, refused writes, registers that change by themselves, wraps, overlapping configurations, clears that replace the configuration: `AnswersMatch`, `ShownIsDevice`, `LastConfigWins`, `EveryRequestSettles` |
| `capture` | Empty captures, frames lost or damaged, second readouts, clears: `WindowExact`, `GapsExact`, `CompleteWhenAll` |
| `render` | Everything that changes data, a configuration being applied included, in any order with pauses, clears and flushes: `NothingStale`, `Fresh` |
| `trace` | Overlapping and reused spans, lost frames, wraps: `SpansTrue`, `LatestDrawn` |
| `ai_debug` | Overlapping clicks, builds, answers, timers, scope changes and clears: `FindingsOfSnapshot`, `Grounded`, `LateNeverShown`, `RunSettles` |

### Bounds, and why they are enough

* `ring`: four slots (the smallest ring whose top two Gray bits are not all of
  them), 18 bytes so that the pointers wrap twice and the count modulo 16 once,
  the drop counter saturating at 2. `MaxBytes` bounds what a session accepts.
* `link`: two bits to a byte and to a request, payloads of up to 3 bytes, five
  bytes in all, the scan counter saturating at 7: a scan may be short by a bit,
  exact, long by any number of bits, and saturated. A header has three fields.
* `la_core`: a memory of 3 words, which wraps within any capture that waits for
  its trigger; divisors 1 and 2 with a divider that wraps at 3, so that a divisor
  can be shrunk under a count that has passed it; one-bit samples; the falling
  edge as trigger (the level and the rising edge are the same test with a term
  less or a bit inverted). Depth and pre-trigger depth take every value the
  registers accept. The capture identifier, a counter nothing compares, stays 0.
* `la_readout`: windows of up to 3 samples in chunks of 2: one full chunk, one
  short one, or none; stalls of up to three edges, the shortest that lose a
  sample; both values of `auto_readout`, changing at any time.
* `core`: a buffer of 3, where the reserve leaves the streams one entry; frames of
  two and three bytes (the four bytes in front of the payload are one,
  `OVERHEAD`); counters that wrap at 2 (an error of two is for the theorems to
  exclude, which hold for every width); the sources that hold a message are the
  monitor and the logic analyzer (the profiler's adapter is one more, of the
  lowest priority), two legacy pulses, and two of the five trace sources, so that
  an edge may have one trace message taken and one lost, or two lost.
* `stream`: bytes of two bits with SOF as one of four values, so that SOF occurs
  in payloads, lengths and checksums; two sessions of one and two frames, two
  sockets, one foreign chunk (`MAX_CHUNKS`), DATA records of 3 and 4 bytes, none of
  which ends where a frame does, messages of half a record or a whole one.
  `MAX_WIRE` keeps the bridge from running ahead; `HASTY_BYTES` bounds what is sent
  after a click on Connect that came too early.
* `monitor`: three registers of one bit: the two depths of a configuration, of
  which one is refused while the other is not there, and a W1C status bit that the
  device sets and the user reads and clears. Two configurations, one of them what
  Clear puts back, and two applications at once; three requests under way
  (`UNDERWAY`; a round of polls, one request more than are allowed otherwise, starts when
  nothing is under way), sequence numbers up to 3, so that a wrap meets requests that still
  wait, one request left over by a Clear (`MAX_OLD`) and one register whose write
  response was lost (`MAX_BLIND`). Bits read from inputs, trigger registers, and
  writes by hand that are refused or go to a register of the configuration are not
  in this run: the theorems cover them.
* `capture`: two captures (`IDS`), of no chunk, of one and of three, the last one
  short. One malformed frame between two clears.
* `render`: three callbacks due (`MAX_FRAMES_DUE`; more only repeat the third) and
  two requests being written (`MAX_WRITES`), each of which may be one of a
  configuration, so that two applications overlap. `ViewerProofs` shows safety
  for every bound.
* `trace`: two keys, time stamps modulo 4 up to time 5, so that one wrap occurs in
  open spans and between spans, three spans in lists of two (`MAX_SPANS`), two
  items drawn, one mark, two frames on the line.
* `ai_debug`: the pages of `MCAiDebug`, which between them let every rule fire,
  make a time stamp wrap, overflow a budget of four items and hold two identical
  log lines; two clicks that start something, one retry, one clear. A second click
  is enough for builds and requests to overlap.

### Fairness

* `ring` assumes that both clocks run. TCK does stop between scans, so the
  property says what the header shows once it runs again; safety is checked of
  every behaviour, where either clock may stop at any time.
* `la_core`, and the run of the stalled readout, assume that the clock runs and
  nothing of the host, the samples or the registers. In `LaReadout` the consumer
  stalls for at most `MaxStall` edges in a row: the debug core takes a message when
  its buffer has room, which its packetizer makes.
* `core` assumes that the clock runs and the transport takes bytes again and
  again (`WF_vars(Clock(TRUE))`): a UART transmitter is ready after each byte; the
  mailbox is ready whenever it is not full. A host that stops reading stops the
  JTAG stream, and nothing is promised then.
* `monitor` assumes that the interval timer runs, which expires what is pending,
  and nothing else: a write may stall for ever and the line may be silent.
* `render` assumes that the browser calls an animation-frame callback it was given,
  as it does while the page is visible, and that the nine writes of a
  configuration end, well or badly; how long a write takes is the port's matter,
  and the period shown of a configuration that stalls for ever stays the old one.
* `ai_debug` assumes that timers fire, and nothing of the provider.

A run without liveness properties uses the specification without fairness.
Deadlock is checked except where the system really may stop: in `stream`, `monitor`,
`capture` and `trace` the bounds end what the device sends and the user clicks.

## 5. What is proved

TLAPS checks these for every value of the constants the assumptions allow.

**The JTAG ring** (`JtagRingProofs`). Assumed: the size is at least 4 and
the count's modulus is positive (`JtagRing`). A torn sample cannot
be argued about by its value, so the invariant `RingInv` says what the writer can
still do with it (`WriterView`): a torn sample stems from a commit of at least two
bytes, hence while one is in a synchroniser stage there is room for the byte that
its comparison may let in; two torn stages mean room for two. With the order of
all the pointers (`Order`) and of the drop counters (`DropOrder`) this gives
`NoOverwrite`, and with the content of the output register `OfferedIsNext`; none
of these is inductive by itself. From `RingInv` follow the type invariant, the
soundness of the header, the exact count, the drop property and, step by step,
that the ring implements `MailboxQueue`.

**The packet ring** (`DebugCoreProofs`). Assumed: the depth is positive, and what
a word holds before it is written is no entry. The invariant is `RingTypeOK /\
Coherent`: the count is the way from the read to the write pointer and each word
on it was written. Refinement of `FrameQueue` is shown entry by entry: an edge
keeps the words that stay, and puts the new one behind them.

The packet ring has no run: its theorems say for every depth what a run could say
for one.

**The JTAG link** (`JtagLinkProofs`). Assumed: the scan counter counts
beyond any request, header or payload, and the 32-bit counters hold the ring's size. First, every
step of the link is a step of `JtagRing` (`LinkRunsTheRing`): the engine never
commits and aborts on one edge and takes no byte on the edge after a roll-back. So
the ring's invariant, with its torn samples, holds of the link without a word
about clocks. On top of it `LinkInv` says what a scan has shown, bit by bit
(`Shown`), what the header snapshot was taken from (`Snapshot`) and what it
promised (`Promise`, also while a commit is on its way). `Shown` speaks of the
scans the last header vouches for; of longer ones nothing is promised.

**The capture core** (`LaCoreProofs`). The invariant `CoreInv` counts places from
the last sample taken back, because a new sample moves each of those places by one
and nothing else, while an index from the start of the window changes its meaning
whenever the ring wraps. Windows, trigger marks and the start pointer are
then arithmetic on pointers of a circular memory. `WindowIsComplete` needs that the
registers stood still since arming (`steady`), which is what the property says.
`CoreImplementsCapture` is the step-by-step refinement of `LaCapture`.

**The readout** (`LaReadoutProofs`). `ReadoutInv` keeps a ledger: what the consumer
took of an intact readout is the header and then whole chunks, in order; at most
one message is at the output; the chunk being filled holds the samples read so far.
A step moves a message from the output into the ledger (`OutputTaken`) or leaves both
alone, so that a stall, however long, changes nothing. That the chunks
together are the window (`SentIsWindow`) rests on `ItemsAppend`, on the recursive
function that joins them; that as many were sent as announced (`StatusAccounts`) on
the uniqueness of a quotient. Assumed: depth, chunk size and the counter's
modulus are positive, and a command register carries no `done`.

**The debug core** (`DebugCoreProofs`). Its heart is `Granted`: in any mix of
requests the messages whose sources are told that they were taken are the one that
is written to the buffer, if any. Assumed: a monitor response and a legacy
pulse are no other source's message, a payload has at most 32 bytes, and the buffer holds more than the two entries
of the reserve. From it follow that sources and transport agree on
the sequence of frames, that packets are accounted for through every wrap, that streams leave two
entries, and that `DebugCore` is a user of `FrameQueue` as `FrameRing` implements it.
`CountersAccount` holds for any sources and any pulses on one edge; what the RTL
does not count, `lost` does not count either (section 6).

**The viewer** (`ViewerProofs`), for every number of clicks, frames and bounds:

* Captures. A chunk on the way is of the window it names (`Truth`), a header leads
  the chunks of its readout (`HeaderLeads`), and of the first readout of a
  capture that lost nothing each hole is still to come (`HolesToCome`). A window may
  be empty: it has no hole and no chunk, and is the one that is never called
  complete. Assumed: no sample is the mark of a hole.
* Gaps. `GapInv` is `GapsExact` with sums a step can use: the counters are the
  sizes of two sets of pairs, of a capture and a chunk that its ranges tell, or tell
  and that came late. A frame adds one range of one capture and takes away nothing
  (`GapsGrow`), so that each size grows by as much as is new.
* Trace. Frames are stamped in order, and what is open in the viewer is the
  device's latest span of the key unless a frame of it is gone. Time stamps are subtracted
  modulo the width of the counter (`ModBack`). `LatestDrawn` counts, of each item of
  one turn, how many are newer. Assumed: keys are finitely many, and no
  record is the mark of a missing one.
* Monitor. `ShownIsDevice` says of a value that the register cannot be elsewhere
  but by a write: `Drifts` relates a value to those the register may take by
  itself, bits read from inputs anyhow and W1C bits upwards, and is reflexive and
  transitive (`DriftsOn`). For a plain register that is equality. It is not
  inductive: what a response on the line says must be right in the same sense, or be
  followed by the response to a write that made it wrong (`LineTells`).
  `AnswersMatch` rests on `ClientInv`: since the last Clear the sequence number of
  a request is one more than its tag, whether it is queued, tracked or on the
  line, so that equal numbers are equal requests as long as a number is not used
  again while its request is under way (`WrapIsFar`, which the model grants).
  `LastConfigWins` rests on `ConfigInv`. An application has one write in the queue
  while it runs (`OneEach`). The last one still writes what was applied, although
  Clear may have given it an object of its own (`Leads`). The others that run are
  before it in the configuration or, at the same register, before it in the
  queue (`Ahead`), so that none of them can write a register after it. Each
  register it has passed is written, or the write is queued (`Comes`). Assumed, of
  the bank (`BankAssumption`): finitely many registers, W1C and trigger registers
  apart, a trigger register reads as zero; of the client (`MonitorAssumption`):
  there is a sequence number and an application, a configuration is not empty, has
  plain registers, each once, and writes the capture depth before the registers
  whose range depends on it, as the code does.
* AI panel. Findings are those of the snapshot for every set of pages, and an answer
  whose request was replaced is dropped (an action property). `Grounded` rests on
  `GroundInv`: every request under way was sent what `buildContext` made of the
  findings of its own snapshot, and what is shown cites it. Below it stand one
  lemma on each function. Every finding of `evaluate` cites something of the
  snapshot (`EvaluateIs`; a pair of rows that is closest exists, for the distances
  are natural numbers). `buildContext` (`ContextIs`) takes the findings on the
  quality of the data first and all of them, then the others while the budget
  lasts, and fills up with other items; each turn of its loop keeps that the items
  taken are what the findings taken cite. Assumed: no snapshot is the mark of a
  missing one, and a page holds typed records (`PageData`).
* Render loop. `scheduled` implies a callback is due and a request implies
  `scheduled`, so that whatever a handler changes and asks for waits for a flush;
  Clear, which resets the flag while a callback is due, draws everything; a
  pause is excused and its end draws everything. One lemma shows it of
  `requestRender`, and each handler is an instance of it. A configuration that is
  being applied excuses the period it changed (`applying`), and its last step
  asks for the panel. Assumed: the bound on callbacks is positive and that on
  writes a number.

**The viewer's stream** (`StreamProofs`). Assumed (`StreamAssumption`): the target's
scripts are frames as the packetizer makes them, with any bytes in them, and
bytes are numbers; nothing of sizes, orders or the number of sockets. There are
four results and two invariants.

* The parse loop, which shortens its buffer at every turn (`StepShrinks`), does the
  same whatever was parsed before and whatever comes behind the bytes it takes
  (`ParseInCtx`, `ParseShift`); so feeding a chunk and parsing comes to parsing
  everything at once (`FeedBatch`).
* `StreamIsBatch` says what the parser is, but not that it is so for a reason that
  a step can use. `StreamInv` adds that the parser is the `Ledger` of `fed`: the
  frames, drops and bad bytes of the sequences that are over, joined and added, with
  the parse of the one that is not (`LedgerKeeps`). It also types every byte by
  where it is from (`Byte`): one of session s and place n has the value the
  script of s has at n. `HELLO`, `SESSION` and every order of them are cases of
  `ConsumeBalances`.
* `FramesAreTheTargets` is `StreamInv` and an induction over the frames of a script:
  at the beginning of a frame of which all bytes are there, the loop takes exactly
  that frame (`NextFrame`), and at the last one it waits (`LastFrame`).
* `NoGlue` and `RecordsOnce` need to know what is still on the way. `FlowInv` says
  that at most one socket is neither new nor closed and none while the serial port
  is read, though one may be opened while an ended port is closed (`OneSource`, which is where `hasty` is needed), and that there is a position
  in what the target sends such that everything fed is from before it, in order, and
  the records in `recordRx` and on the wire lead from it to where the
  target is now, record by record (`InOrder`, `Onto`). A message moves the position
  forward (`ReadOnto`), a disconnection leaves it behind, and HELLO jumps to where the
  target is. What is left in `rx` is of the session the viewer believes in.

Only model-checked:

* all liveness, which is beyond the prover;
* `CodesAgree`, for the decoding of a Gray code is a recursion over its bits and
  weighs them by powers of two with a variable exponent, of which the provers know
  nothing, not even that `2^(i+1)` is twice `2^i`.

The library's theorems on induction and on folds take an operator as a parameter,
which the prover cannot instantiate. Two detours are used. A fold of the community
modules, or `FlattenSeq`, is a CHOOSE of a function that satisfies an equation: such
a function is written down, shown to satisfy it, and the one chosen then satisfies
it too (`FlattenIs`, `SumKnown`, `RecordByRecord`); the values a loop goes through
are a chain, each made of the one before (`IsChain`, `ChainOfFold`). And where
induction is needed, the set of numbers of which a thing holds is given to `UpTo`
or `LeastNumber` (`BasicFacts`), which count over sets and not over predicates.

## 6. Where code and documents disagree, and what else was seen

With a run that shows it:

* `la_readout_stall`. `core_read_valid` lasts one edge. If it brings the last
  sample of a chunk while the message before still waits, the sample is stored
  but the chunk is never closed and nothing is requested again
  (`yifpga_la_adapter.v` 158-177). With stalls of up to two edges every readout
  ends; three are enough to hang it.

In the FPGA, without a run of its own:

* A clear on the edge of a request makes the core drop it; the adapter waits for
  ever, also through later captures (`yifpga_la_adapter.v` 147). Add `"off"` to the
  commands of `MCCalm` and lower `MaxStall` to 2 to see `ReadoutEnds` fail for it.
* The return from READOUT to DONE is a rise of `done`, so with `auto_readout` one
  capture is sent again and again (board, 450).
* The user guide (`doc/YiFPGA_LogicAnalyzer_使用说明.md` 60) puts the readout before
  trace traffic; the code puts it behind (`yifpga_debug_core.v` 144), and trace
  traffic without a pause starves it.
* A stop in ARMED reports TRIGGERED without a trigger and does not report FORCED
  (`yifpga_la_core.v` 113, 199; Debug Protocol v1, 415-416).
* Several trace messages lost on one edge count as one drop
  (`yifpga_trace_adapter.v` 58; Debug Protocol v1, 172: the number of packets lost).
  The run `core` has two trace sources, so that this happens in it, and `Accounts`
  says what remains true: its `lost` counts those messages as one too, and every other
  loss.
* The bytes of a payload scan are committed at UPDATE-DR, not when the block has
  reached the host (`yifpga_jtag_user_dr.sv` 94-103; JTAG transport design, 5).

In the viewer, where a property is stated around it:

* Connect is enabled while a socket is connecting or closing. A second click opens a
  second socket that feeds the same parser, and Disconnect closes only the last
  one. `hasty` records such a click; `NoGlue` and `RecordsOnce` fail after it.
* Clear numbers monitor requests from 1 again while older ones are queued or on
  the line; an old response may settle a new request (`app.js` 2746).
  `AnswersMatch` speaks of requests made since the last Clear.
* A second readout of a capture wipes its samples with the header and then takes
  every chunk for a duplicate: the capture stays incomplete (`app.js` 841, 876).
  `CompleteWhenAll` speaks of the first readout.
* A capture stopped before its first sample is sent as a header and a status with no
  chunk (`yifpga_la_core.v` 198-199, `yifpga_la_adapter.v` 130-131); the viewer sets
  `complete` when a chunk comes (`app.js` 932-934), so that it stays incomplete
  although it came whole. `CompleteWhenAll` says so.
* If the last chunk is lost, no missing range tells of it, for ranges are found by
  the next chunk that comes (`app.js` 884-897). `GapsExact` says so.
* A capture header asks for no panel (`app.js` 852), and a monitor request is shown
  as pending only when its bytes are written. Applying a configuration changes the
  period the panel shows while there is no header (`app.js` 2209, 1970) and asks
  for the panel nine awaits later (2238). `Excused` names all three.
* The latest items of the timeline are chosen by raw time stamps, which is wrong
  across a wrap (`app.js` 1363). `LatestDrawn` speaks of one turn of the counter.
* Two identical log lines make the rules refuse the snapshot; the exception ends in
  the click handler and the page stays at `local_analyzing` with older findings
  (`diagnostic_rules.js` 85, `ai_debug_model.js` 35). `FindingsOfSnapshot` allows it.
* The timer of a request that a newer one replaced aborts the newer one
  (`ai_provider.js` 97), as `TimedOut` has it.
* Cancel, a change of scope and Clear abort the request and keep its generation
  (`ai_provider.js` 91, 101): a provider that ignores the abort may still answer, and
  is shown (`doc/M29_AIProvider与诊断结果校验实施计划.md` 106 and
  `doc/M30_AI_Debug_Viewer实施计划.md` 60 want such an answer dropped). The
  providers in the repository heed the abort. `LateNeverShown` speaks of requests
  that another one replaced.

In the viewer, without a property:

* The end of the read loop leaves the serial port open, so that the next Connect
  asks for a port and fails to open that one again (`app.js` 2426).
* A JTAG client that is cut off keeps half a frame in `rx`; unless the session
  changed, the next bytes of any source complete it. Switching between serial and
  JTAG does not clear `rx`.
* The time of a monitor request runs from its queueing (`app.js` 1125): behind a
  write that stalls it expires unsent, is sent when the write ends, and polls pile
  up. `expireMonitorPending` expires such requests too, and the properties bear it.
* Time stamps are unwrapped over lists kept in opposite orders, which invents wraps
  (`diagnostic_snapshot.js` 92).
* An exported report may hold a new snapshot with the diagnosis of an old one
  (`ai_debug_model.js` 51), for the snapshot is replaced before the diagnosis is
  dropped; and the consent box is read before a snapshot is built, not after it.

## 7. What is not modelled

* Of the FPGA's end of the monitor: the command parser, the handshakes of the request
  pipeline, unknown addresses and other widths (the viewer sends neither), what
  the pulses of trigger registers start, and a reset of the device; the UART's bit
  timing, the profiler and the probes: section 2 has them next. The viewer's
  monitor is checked against the register bank and a line that may lose or delay.
* The host side of the JTAG link (`tools/jtag`): `JtagLink` lets the host do
  anything; `ViewerStream` assumes of the bridge that it sends HELLO first, whole
  records in order, and SESSION when the target's session changes. Records it never
  sends (oversized, bad JSON) are left out, and so is the path that handles them.
* Of the viewer: what panels draw, filters and layout, viewport and cursors, the
  CSV, JSONL, VCD and Markdown exports, the built-in samples, profiler histories,
  redaction, hashes, import of snapshots, history and feedback of the AI panel, and
  the rules that differ from `latency.spike.v1` in the metric they read only.
* Byte layouts of messages, which no property tells apart; the timestamp counter;
  build and migration scripts; and analog matters such as the time a synchroniser
  needs to settle, which the constraints of the Vivado project are for.

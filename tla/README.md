# Verification of record-traffic-press

record-traffic-press records traffic on network interfaces, reads it from files or
sockets, and replays it to servers, files or another instance of itself
(`goreplay/`, a fork of GoReplay), next to a small web application that stores
records in a database. This directory holds TLA+ modules for the recorder, from its
capture to its outputs, TLC configurations that check them on small instances, and TLAPS
proofs of what holds for instances of any size. File names below are relative to `src/`.

- [The system](#the-system)
- [What is modelled](#what-is-modelled)
- [The runs](#the-runs)
- [Fairness](#fairness)
- [What is proved](#what-is-proved)
- [Where the code and its words differ](#where-the-code-and-its-words-differ)
- [What is not modelled](#what-is-not-modelled)
- [Plan](#plan)

Running it: `tlc -config X.cfg M` for a run of the table below, `tlapm M.tla` for the
modules whose names end in `Proofs`.

## The system

```
 capture handles --> Listener --> MessageParser --> RAWInput --\
        files, sockets, HTTP ---------------------> inputs -----+--> Emitter --> outputs
                                                     (one copier per input)   (TCP, HTTP,
                                                                        binary, file, ...)
```

| Component | State it keeps | Operations | Interacts by | What is hard |
|---|---|---|---|---|
| Capture listener, `core/capture/capture.go` | `Handles`, `Interfaces`, `quit`, `closeDone`, `closed` | `Activate`, `Listen`, `readHandle`, `closeHandles`, `setInterfaces` | a lock around `Handles`, channels, one parser per reader | readers that end while the monitor activates new interfaces; ending once, and only when all is closed |
| Message parser, `core/tcp/tcp_message.go`, `tcp_packet.go` | `m` (id to message), the messages, the ticker | `PacketHandler`, `processPacket`, `addPacket`, `Fix100Continue`, `Emit`, `timer`, `Read` | two channels; hints of `proto/proto.go` | any order, loss and repetition of packets; expiry racing completion; ids that change |
| RAW input, `input/input_raw.go` | `closed`, `quit`, the listener | `PluginRead`, `listen`, `Close` | the emitter's copier, the listener's context | closing from two sides |
| Emitter, `bootstrap/emitter.go` | `plugins`, the wait group, per copier `filteredRequests` | `Start`, `CopyMulty`, `Close` | `PluginRead` and `PluginWrite` of every plugin | one slow or failing output among several; Close against running copiers; a cache that expires |
| TCP output, `output/output_tcp.go` (and `output_ws.go`) | `buf`, `workerIndex`, `close` | `PluginWrite`, `worker`, `Close` | buffered channels, a connection per worker | a write that fails half way; workers that replace each other; order and place of messages |
| HTTP output, `output/output_http.go` | `queue`, `responses`, `activeWorkers`, `stop`, `stopWorker` | `PluginWrite`, `PluginRead`, `startWorker`, `workerMaster`, `Close` | channels and one atomic counter | decisions on a counter that lags; growing, shrinking and closing at once |
| Binary output, `output/output_binary_pro.go` | `queue`, `responses`, `needWorker`, `activeWorkers`, `quit` | the same, with workers that end themselves | the same | idle workers that each think another one stays |
| File output, `output/output_file.go` | `currentName`, `currentID`, `file`, `writer`, `QueueLength`, sizes, `closed` | `PluginWrite`, `updateName`, `filename`, `flush`, `Close` | a lock that is taken three or four times per write | what one writer computed another has changed; names that come back; the process ending between flushes |
| File input, `input/input_file.go` | readers, each with a queue, `data`, `exit` | `parse`, `wait`, `emit`, `nextReader`, `Close` | a goroutine per file, an emit goroutine | merging queues that are still being filled; the clock of the replay; looping; Close |
| TCP, HTTP, dummy inputs | a channel, a listener | `PluginRead`, `Close`, connection handlers | channels; the TCP input hands out slices of the buffer of a connection | the buffer is used again; Close while handlers run |
| Middleware, `core/middleware.go` | the command's pipes, `data`, `closed` | `copy`, `read`, `PluginRead`, `Close` | a lock around the command's stdin | two ends of a pipe and Close |
| Limiter, `core/limiter.go` | window start and count | `isLimited` from both directions | no lock; wraps a plugin that is registered as input and as output | counting twice; swallowing the end of the input |
| TCP client, `bootstrap/tcp_client.go` | one connection | `Send`, `isAlive`, `Connect` | used by one worker | late answers |
| HTTP modifier and prettifier, `core/http_modifier.go`, `core/http_prettifier.go` | the settings | `Rewrite`, `PrettifyHTTP` | called by the copier | headers that say how long the body is, while both change |
| HTTP payloads, `proto/` | none | functions of bytes, some of which change the payload itself | called by the parser, the copier, the modifier | what a whole payload is; where the headers end |
| Redis lock, `config/redis/redis.go` | a key in Redis | `Lock`, `UnLock` | two calls to Redis | the key expires in between |
| Web application, settings, statistics, registration | none worth speaking of while running | | | |

What makes a component correct, in one line each:

- *Parser*: what is handed over is a message of the wire, whole, in order and once, at
  the moment its last packet came; nothing is forgotten but what expired; request and
  response share the id by which outputs pair them.
- *Listener*: each handle has exactly one reader until it is closed, everything opened
  is closed, and the end of the readers and of the input bring each other about.
- *Emitter*: every output gets the same payloads in the same order, responses only after
  their requests; Close ends.
- *TCP output*: a message is in one place, is not lost by an error, and is written in the
  end; with Sticky the messages of an id share a connection.
- *File output*: what was written to a file stays there, chunks keep their limit, and
  what is on the disk is a beginning of what was written, whenever the process ends.
- *File input*: all that was recorded is replayed, once, in order and at its pace.
- *Inputs, limiter, middleware*: records of different connections are kept apart, the
  limit is kept, and Close returns.
- *Modifier, prettifier*: what is set is set, the body stays or is decoded, and the
  headers still say where it ends.
- *Pools*: the counter says how many workers there are, the bounds hold, accepted
  requests are served, and the pool shrinks and shuts down.

The hazards behind these properties, each at its line, are in `PROJECT.json`.

## What is modelled

| Module | Of | State and actions |
|---|---|---|
| `MessageParser` | `tcp_message.go`, ids of `tcp_packet.go`, hints of `capture.go` and `proto.go`, `RAWInput.PluginRead` | Messages are heap objects, since `Fix100Continue` registers one object under two ids. `ProcessNew`, `ProcessKnown` are `processPacket` (`AddToKnown`, or the panic of `CallOfNil`); `AddPacket`, `Emit`, `Fix100Continue` what it calls; `MergeNext`, `MergeDone` the iterations and the end of the merge loop; `Timer`, `SweepKeep`, `SweepExpired` the loop of `timer`; `Read` the reader; `Clock` time |
| `Reassembly` | what a parser promises | a pool of packets, whole sets of which are handed over; no ids, map or hints |
| `Listener` | `capture.go` and `RAWInput.listen` and `Close` | `Activate` opens what is missing; `ListenStarts`, `ListenCancelled`, `ListenReturns`; `MonitorWakes`, `MonitorLists`, `MonitorListsNothing`, `MonitorActivates`, `MonitorSleeps`; `ReadFails`, `ReadQuits`, `ReadPanics`, `CloseHandles` a reader; `Close`. What runs under the lock is one action. The engines differ in what the end of a read needs (`Pollers`) and in whether `closeHandles` can close their handles (`Closers`) |
| `TCPOutput` | `output_tcp.go`, and `output_ws.go`, which repeats its control line for line | `Choose_` and `Put` are `PluginWrite` around its blocking send; `Connect`, `GiveUp`, `Receive`, `WriteWhole`, `WriteFails`, `PutBack` the worker, the successor it starts and the message it returns; the aggregator is external |
| `Emitter` | `emitter.go`, over `TCPOutput`, which it extends | `Install` and `StartCopier` are `Start`; `Read`, `ReadStops`, `WriteTCP`, `WriteTCPReturns`, `Write`, `WriteRefused` `CopyMulty`; `Expire` the cache; `CloseStarts`, `CloseOne`, `CloseReturns` Close. The copiers are the callers of `TCPOutput`, whose goroutines run beside them |
| `HTTPOutput` | `output_http.go` | `Enqueue`, `Skip`, `Refuse`, `Load`, `Compare`, `Extra`, `Start`, `Count` are `PluginWrite` between its shared accesses; `Take`, `Finish`, `Answer`, `PutResponse`, `WorkerReturns` a worker; `MasterTop` to `Decrement` the master; `CloseStop`, `CloseStopWorker` Close |
| `BinaryOutput` | `output_binary_pro.go` | the same cut; idle workers are counted, not named, because they differ only in whether their time is up (`idle`, `tired`, `doomed`, `dying`) |
| `Disk` | the files both sides see | a name is what the template expands to and an index; a file is the sequence of its whole records |
| `FileOutput` | `output_file.go` | `Call`, `ComputeName`, `StoreName`, `Write` are `PluginWrite` between its locks, with `Filename`, `NextChunk`, `WriteLocked` for `filename`, the limits and what happens under the last lock; the buffer may write through at any record; `Wake`, `Flush` the flusher; `CloseOutput`; `Killed` the end of the process, which keeps only the disk; `DayBreaks` the date in the template |
| `FileInput` | `input_file.go` | `Start`; `Parse`, `ParseEnds` the goroutine of a file; `Check`, `Scan`, `Exhausted`, `Pop`, `Recheck`, `Send` are `emit` with `nextReader` and its sleep; `PluginRead`, `CloseInput` |
| `RecordReplay` | both, one after the other | the output runs until its process is gone, the input reads what it left |
| `Ingest` | `input_tcp.go`, `input_http.go`, `limiter.go`, `middleware.go`, copying and closing of `emitter.go` | `Begin`, `Separator`, `Respond`, `Hand`, `Disconnects` a connection, its buffer kept apart in `memory`; `ReadMessage` to `WriteStdin` the copier with the limiter on the way in (`ReadCompare`, `ReadCount`) and back (`WriteBack`, `WriteBackCount`); `PumpLine`, `PumpSend`, `PumpEnds` and `CopyReads` to `CopyEnds` the middleware; `CommandRuns`, `CommandQuits` the command; `WaiterChecks`, `WaiterCloses`, `CloseInput`, `CloseChecks`, `CloseMiddleware`, `CloseReturns` the two ways to close |
| `Payload` | `proto.go` | headers of a payload as a sequence of lines, its path as a base and parameters: looked up, set, added, deleted |
| `HTTPModifier` | `http_modifier.go`, `http_prettifier.go`, percentages of `http_modifier_settings.go` | `Dropped` the filters, `Rewrite` the settings, `PrettifyHTTP`; `Modify` and `Prettify` the two calls of the copier |
| `MC_*` | | traffic, requests, interfaces, files and payloads of the runs |
| `*Proofs` | | theorems, see [below](#what-is-proved) |

The grain: whatever one goroutine does between two accesses to state others see is one
action, with every call it makes. The parser's goroutine owns its state, so a handler is
one action, but for its two loops, which are interrupted by nothing but are followed one
iteration at a time, each iteration calling handlers.

Data are kept as far as the properties tell them apart. A packet has its flow, `Seq`,
`Ack`, length, time, and what the hints find in it (a title, the end of the header, a
length, chunks, Expect); a message offered to an output is a model value; a record of a
file is a number with a timestamp, and counts one towards the limits on size; a payload of
the modifier is a sequence of lines, whose body may be chunks or gzip, whole or cut off; a
regular expression is the set of what it matches. A message of the TCP input is the place
in memory it is a slice of, which a later record of its connection may fill, in part
(`Torn`) or wholly, before the copier reads it.

Names ending in `_Something` next to a definition, marked `Mutant`, are wrong variants
of it, kept to show that the properties notice.

## The runs

Each run answers one question, but for two, which check parts of the system that share
nothing side by side: in a behaviour of `Inputs` the parser runs and the connections are
over, or the other way round; and in one of `CaptureToPool` one of the listener, the
modifier and the HTTP pool runs. The states are those of the parts, added up, and the
properties of each hold of the part that is over as well.

Deadlock is checked in `ParserHttp`, where the ticker never stops; in the others the
system really stops: the parser has panicked, everything is closed or replayed, or all
messages are done.

| Run | Module | Question | Instance and why it is enough |
|---|---|---|---|
| `ParserHttp` | `MC_MessageParser` | Is HTTP put together whole, in order and at once, is a body joined to its header across `100 Continue`, do request and response share an id, and does the parser implement `Reassembly`? | Three recordings. Plain: a request of two packets, the second captured twice, and a chunked response of three, in any order, any of them missing, with and without `allowIncompete`. Expect: header, interim response, a body of two packets and the response, of which the second body packet and both responses may come early. Short: the same with a body of one packet, in any order, so that the merge makes the message whole and hands it over. A message may expire at any tick. Three packets are the least with a middle: insertion before, between and after, duplicates, and expiry between any two packets occur. The channel holds one message, so that sending blocks |
| `Inputs` | `MC_Inputs` | Parser: without hints, is everything handed over by the timer, once, and forgotten? Connections: do they stay apart, does the limiter keep its limit, and does Close return? | Parser: one message of three packets and one of unknown direction, on which the nil hint panics. Connections: one or two, with two records or one, to a TCP or an HTTP input, without a limiter, or with a limit of 0 or 2, which is the least that the second count halves; without a middleware, or with one whose command keeps lines, spoils them or quits. Channels and pipes of one; one window beyond the first |
| `ParserStolenExpiry` | `MC_MessageParser` | Is a message in progress ever deleted? | The Expect recording in order of time: it is (violation) |
| `ParserContinueTwice` | `MC_MessageParser` | Is a message adjusted once, whatever order its packets come in? | The Expect recording in any order: no (violation) |
| `CaptureToPool` | `MC_CaptureToPool` | Listener: do handles, readers, Listen and the input agree to the end, and is a new interface read? Modifier: is what is set set, the body kept or decoded, and its extent still told? Pool: do counter, bounds, service, shrinking and Close survive all interleavings? | Listener: two interfaces, each engine, and three environments: interfaces that stay, go, fail to open or to be read; that come up while reading fails; that come up or stay while listing fails. Two changes are enough for one interface to come up and the list to fail, before or after. Modifier: every combination of headers, parameters, URLs and values rewritten, with and without the prettifier, of the filters, and of the shares of traffic, on 59 payloads: requests and responses whose headers are there, missing, doubled, or only in the body, whose query is there, in either order, or missing, with bodies plain, chunked, gzip and both, whole and cut off; rewritings that change the base, change a parameter, or drop the query. Pool: two writers, two requests and a payload that is none, from one worker to two: both writers can decide on one count, workers can be late in the counter in both directions, and Close can meet every state. `responses` cannot fill up with two requests, so a worker blocked on it after Close is in the model but not in this run |
| `ListenerHangs` | `MC_Listener` | Does Listen always return? | Three interfaces, one of which comes up: no (violation) |
| `Emitter` | `MC_Emitter` | Do all outputs get the same, responses only after requests, is nothing lost, doubled or moved to another buffer, and does Close return at any moment? | Two inputs whose payloads cover every branch of `CopyMulty` (rejected, emptied, malformed, replayed, responses of each); a file that is full after three, and a TCP output with two buffers of one message and a connection that breaks: a returned message finds its buffer full while the successor reads it |
| `WorkersMax` | `MC_HTTPOutput` | Are there never more than `WorkersMax` workers? | The pool above: two writers exceed it (violation) |
| `InputLimit` | `MC_Ingest` | Does a limited input let through what its limit says? | A limit of two, three records: one gets through (violation) |
| `BinaryDynamic` | `MC_BinaryOutput` | Does a pool whose workers end themselves keep count, serve and shrink? | Two writers, two requests, with responses: `needWorker` is full while the master starts workers, and workers are born and die in between |
| `BinaryDies` | `MC_BinaryOutput` | Does one worker stay? | Three requests, one writer: no (violation) |
| `RecordReplay` | `MC_RecordReplay` | Does what was recorded survive rotation, a kill and a new start, and is it replayed to the end, in order and at its pace? | Six outputs: rotated by count (two, compressed), by size, by count (one) and day, appending, with `%r`, and with two inputs at a count of one. Four inputs: one and two records ahead, at double speed with a longest wait, a dry run, a loop. Three records of one input are the least for two rotations, or for one rotation with a record in the buffer; a fourth comes from a second input, and a fifth may be on the disk already. The process is closed, or killed, in any state |

Bounds: `MaxNow` on the clock, `MaxBreaks` on broken connections, `MaxChanges` on changes
of the interfaces, `MaxSeconds` on the windows of the limiter, `Today` on the days,
`MaxRead` on what is read of a looping input. Capacities of channels (100, 1000 and 10000
in the code) are constants; the runs take one or two, so that they fill up. `SeqSpace`
stands for 2^32, `ContinueLen` for the 25 bytes of the interim response.

Properties with a condition say what the code does not promise outside it.

- `Steady` in `Listener`: with interfaces that come up a handle may be left unread
  (`ListenerHangs`); and `ReadByOne` about two readers: when a listing fails, or an
  interface is lost and back within a second, the monitor starts a second reader of the
  same handle.
- `OvershootBounded`: a second goroutine in `PluginWrite` may fill the same room again; the
  bound counts one such overshoot for each further writer and no more. Against what the
  documentation says, which is `WithinMax`, this is a finding (`WorkersMax`).
- `ClosedOnce`: that all handles are closed it says of `raw_socket` only, since `closeHandles`
  closes those of no other engine; and nothing of interfaces that come up or back, where a
  second reader may panic, or the last handle go twice. `ReturnsIfSteady`: after Close Listen
  returns with engines whose reads come back (`Pollers`); a reader of `raw_socket` or
  `af_packet` waits for a packet and need never look at `quit`.
- `KeyedByPackets`, `NoneWholeWaits` and `ImplementsReassembly`: without Expect. `ReadWhole`
  says that nothing comes twice without Expect or without `allowIncompete`: with both, a
  merged message that has expired stays under its old id and every tick sends it again.
- `InStep` leaves out what the TCP output skips; `ResponsesHaveRequests`: the prettifier
  empties a request without remembering it, and an entry is forgotten after a minute.
- `NoneOverwritten`: with one input, and names that do not come back. Of two inputs one may
  store the name of a chunk that was full, and write to it again, which empties it;
  `ChunkBound` allows two writes more for that. Append empties the file at each start as
  well. `PrefixSurvives`: with one input and no `%r` or `%t`, of what it wrote itself.
- `InOrder`: of files that are in order; `Paced`: at the speed of the recording, without
  a longest wait, loop or dry run.
- `AllReplayed`: with `readDepth` of one at least, see below.
- `OwnConnection`: for a message the output may get a later record of the same connection,
  or pieces of two; only the HTTP input, or one record per connection, gives it whole.
- `WithinLimit`: without a middleware; with one, two goroutines count without a lock.
- `CloseEnds` of `Ingest`: with a limit above 0, or none; and it takes the panic of a channel
  that is closed twice for an end.
- `SettingsHold`, `BodyKept`, `KeepsFraming`: not where a header's name is found in the
  body only; the first not for headers that are rewritten or that the prettifier changes, and
  the last two not for gzip cut off inside of chunks. Parameters are set before the URL is
  rewritten, query and all: where a rewriting matches, `SettingsHold` says only that the path
  it found had them.

## Fairness

Weak fairness of the steps of goroutines that can run is what the Go scheduler gives.
Beyond it:

- the ticker of the parser and the timers fire; `Clock` has strong fairness because the
  handlers of the parser disable it while they run;
- a worker of the binary output whose `select` finds a message again and again takes one
  (strong fairness of `Take`): `select` chooses at random among what is ready. For the same
  reason the `PluginRead` of an input that is closed, and that of a middleware, see the
  stop at last (`ReadStopped`, `CopyEnds` in `Ingest`);
- HTTP and binary clients have timeouts, so `Finish` and `Sent` happen;
- responses are read until Close, not after (`WF(~stop /\ ReadResponse)`);
- a read of a pcap handle comes back after a timeout (two seconds, `capture.go:365`), so its
  reader sees `quit`; a file comes to its end. Nothing of the kind is assumed of
  `raw_socket`, which polls without a timeout, and of `af_packet`, which blocks for ever; a
  raw socket is closed once no other reader holds its lock (`Waits`);
- the aggregator accepts connections again (`EmitterUpSpec`); without this assumption a
  copier waits for room in the TCP output for ever, and `Close` with it;
- a second passes for the limiter (`Second`); the goroutines of the file input run, and
  its copier reads (`RecordReplay`).

No fairness is assumed of writers that have something to write, of connections, of the
command of the middleware, of changes of interfaces, of a kill or of a call of Close.

## What is proved

By TLAPS, for all values of the constants the modules' assumptions allow: any number of
packets, requests, writers, workers, interfaces, connections, records, settings, payloads
and limits. The assumptions are named in the modules that declare the constants, and
evaluated in the runs. Every invariant and every property of steps the runs check has a
theorem, but for `PairedUUID`, as has the refinement; some of them under a condition, which
the table names.

| Module | Theorem | Says |
|---|---|---|
| `MessageParserProofs` | `TypeCorrect`, `PacketsSorted` | `[]TypeOK`, `[]SortedUnique` |
| | `MapKeyedByPackets`, `WholeMessagesLeave` | `[]KeyedByPackets`, `[]NoneWholeWaits` |
| | `MapInProgressOnly`, `MessagesReadWhole`, `NothingLost` | `InProgressOnly`, `ReadWhole` and `NoSilentLoss`, without Expect |
| | `ParserReassembles` | with hints, `ImplementsReassembly` |
| `ListenerProofs` | `ReadersMatch`, `EndsOnce` | `[]ReadByOne`, `[]ClosedOnce` |
| `EmitterProofs` | `NoDuplicates`, `PluginTypes` | `[]InOnePlace` and the types of the TCP output alone |
| | `NothingTwice`, `OneWorker` | `[]InOnePlace` and `[]StickyTogether` of emitter and TCP output together |
| | `OutputsInStep` | `[]InStep` |
| | `ResponsesBehindRequests` | `[]ResponsesHaveRequests`, if inputs deliver requests before responses (`Exchanged`) |
| `HTTPOutputProofs` | `TypeCorrect`, `CounterIsRight`, `NeverBelowMin`, `OvershootIsBounded` | `[]TypeOK`, `[]Accounting`, `[]AtLeastMin`, `[]OvershootBounded` |
| | `OneWriterWithinMax` | `[]WithinMax`, with one writer: the two writers of `WorkersMax` are needed |
| `BinaryOutputProofs` | `CounterIsRight`, `HeldOnce` | `[]Accounting`, and a request is queued once or held by one worker |
| `RecordReplayProofs` | `NeverOverwritten`, `ChunksBounded`, `PrefixKept` | `NoneOverwritten`, `[]ChunkBound`, `[]PrefixSurvives` |
| | `ReplayInOrder`, `ReplayPaced` | `[]InOrder`, `[]Paced` |
| `IngestProofs` | `LimitHolds`, `ConnectionsApart` | `[]WithinLimit`, `[]OwnConnection` |
| | `LimitIsHalved` | for every limit, at most half of it, rounded up, gets through: the reason for `InputLimit` |
| `HTTPModifierProofs` | `SettingsAreThere` | `[]SettingsHold` |
| | `BodySurvives`, `FramingSurvives` | `BodyKept` and `KeepsFraming`, where headers claim no chunks that are not there, and no setting is about the extent of the body (`ChunksTold`, `ExtentTold`) |

What the proofs take for granted of the world outside, and why:

- `WireAssumption`, of HTTP traffic: packets of a message lie end to end and share flow and
  `Ack`, a retransmission repeats a packet, sequence numbers do not wrap, and on a
  connection a side sends its next message after the other has answered. This is what the
  parser's message id and its hints stand on; what comes in, in which order, and how
  often, is left open.
- `EmitterAssumption`, `IngestAssumption`, `FileOutputAssumption`: every payload is a thing of
  its own, delivered once by one input. That is how the properties tell payloads apart, not
  something the code relies on.
- `BeforeAssumption`: files found at the start are of no later day than the first of the run.
- `PoolAssumption`: a pool has a worker at least, and no more at least than at most.
- `ModifierAssumption`: the options but one are lists, and a payload is a list of lines.

The arguments:

- *Parser.* The conjunct of `TypeOK` that no message is empty keeps `packets[0]` in
  `timer` and `Emit` from panicking; the one that map and loops refer to allocated messages
  needs that `heap` only grows (`Growing`). `PacketsSorted` is by `TypeOK /\ AllSorted(heap)`:
  `InsertPosProperties` says that `add` finds the place where everything before is smaller
  and everything after greater, `InsertAtProperties` what insertion there gives, and
  `AddProperties` joins them; `Touched` that a handler changes messages by `add` only.
  Without Expect, `PlainInv` says what each message is: packets of one id and, with hints,
  of one message of the wire (`ObjectOK`); under that id in the map, where no whole
  message is; or handed over, once, and `Done`. The heart is that the hints call a message whole
  exactly when it has the packets of the wire, from the first that has a title to the one that
  reaches the announced length: no packet fits between two that touch, and the sorted list
  cannot leave one out (`Covered`). A step of the parser is then a step of `Reassembly`: a packet that is taken joins the pool, and what is handed over leaves it
  whole. Recordings with Expect leave the theorems by their condition, and stay with TLC.
- *Listener.* `SteadyInv`: no handle is opened twice, each is registered or shut if its
  engine can close it, each registered one has one reader that has not ended, and `closeDone` is signalled when none is
  registered. The file engine (`FileInv`) and interfaces that only come up (`KeysInv`) need
  invariants of their own. `Started` says what the loop of `Listen` over the handles starts.
- *TCP output.* `Separate`: for each buffer, what waits in it, is being written, is being put
  back and was written are apart from each other and from those of other buffers
  (`Apart`, `Had`). A step of a worker keeps what its buffer has had (`Kept`), so the
  buffers stay apart without a look at the others; `Moves` and `InjectiveConcat` say what
  taking from one sequence and adding to another does.
- *Emitter.* That the output is called with every message once is an assumption of the
  theorem above which the copiers fulfil: what a copier will hand over is disjoint from
  what was handed over, and from what the others will (`Composed`, `Unseen`). For
  `OutputsInStep` a copier has a place in its script (`Cursor`): what it has read before is
  with all outputs that take it or with none, and the last one with those the copier has
  come past (`Places`, in `StepInv`). For `ResponsesBehindRequests` a rejected request that
  was read, and whose response was not, is in the cache or has expired there (`CacheInv`); a request that was let
  pass is before its response in the script, hence in every output.
- *HTTP pool.* `Accounting` is not inductive alone: what `Close` lets happen after it must
  be told apart, and that the counter stays above the minimum rests on the master having
  compared it, with only itself subtracting (`Above`). The number of writers between
  starting and counting a worker is a cardinality; `UncountedStep` says how each step
  changes it. The upper bound counts what each writer may still start: a pair of the writer
  and a number for each worker (`Claims`). Counter and claims together stay within what the
  property allows (`Within`): counting a worker turns a claim into one; a writer that loads the
  counter may claim what is missing to the maximum, while none of the others claims more
  than the room from minimum to maximum. As pairs, claims need a cardinality and no sum
  over the writers.
- *Binary pool.* Busy workers are counted as sets of messages; these are as many as the
  workers only if no two hold one message, so `Once` is part of the invariant.
- *File output.* A name a writer holds `Goes` to the open file or to none, and is the
  `Latest`: no file is of a later day, nor of a greater index. That the last index is the
  greatest of finitely many (`FiniteMax`, `LastIndexMeans`) makes the next one new.
  `ChunksBounded`: once the open chunk is full, only a name that was computed before
  leads back to it; of two writers one has such a name (`Stale`), and once it has stored it the
  other may follow, but neither computes it again. `PrefixKept`: what a writer has to
  write is what is on the disk, in the buffer and in its hand, and the rest of its script, in this
  order; only the open file and those before it hold any of it, so that neither growing the last
  nor opening the next one disturbs the order (`HoldFirst`).
- *File input.* `ReplayInv`: what a file still has is in its reader's queue and behind, in the
  order it had (`Left`), and nothing of it is earlier than what was taken (`Ahead`). A reader
  whose queue is empty and whose file is not at its end keeps `nextReader` waiting, which is
  what makes the merge right while files are still parsed. Only if the input is closed while
  `nextReader` looks may it pick a later record; that one is the last, and dropped
  (`OrderOK`). The clock: sleeping adds the distance of each record to the latest one
  (`PacedOK`).
- *Limiter.* `Books`: while messages pass, each costs two, of which one may still be owed
  (`Owed`); once a write back has found the limit reached, nothing passes any more. This
  gives both `LimitHolds` and `LimitIsHalved`.
- *Connections.* `OwnInv` follows a record from the output back to the connection: through the
  copier, the middleware's pipes, its channel, the input's channel and the buffer (`Row`). Along
  that row the records of a connection stand in its order, and each buffer belongs to one
  connection and holds that record, a later one, or pieces (`SliceOK`, `LineOK`).
- *Modifier.* Looking up a header is the least of a set of lines (`FirstIs`, by the
  well-founded order of the numbers), so what setting one does is a matter of which lines move
  (`SetHeaderMoves`): all behind it by one, or none, the empty line with them, unless the
  header is found behind it, in the body. `Keeps` says what is left as it was, and composes.
  That the settings are applied one after the other is a chain of payloads (`FoldExists`,
  `FoldChain`), along which the last setting of each name has been seen and not been
  overwritten; a parameter is found behind an ampersand before it is found behind the
  question mark (`ParamAtIs`, `SetPathParamIs`), and of the rewritings one at most is
  applied, to the path all of them are set in (`RewriteURLIs`). `PrettifyCases` are the
  outcomes of the prettifier, and `Together` that headers ending in an empty line, and a
  body, are the headers and the body of what they make; `DecodedIs` says what undoing an
  encoding does to the former.

The library's induction theorems take an operator, which the provers here cannot
instantiate. The proofs go around it with the well-founded orders of the library (`WFMin`):
`FiniteMax` over the strict subsets of a finite set, `FirstIs` and `UpTo` over the
numbers; `UpTo` is induction over the members of a set. Recursion is written with folds of
the community modules, and no module declares a RECURSIVE operator.

Only model-checked: liveness, since fairness and ENABLED are beyond the prover
(`Drains`, `Served`, `Shrinks`, `ShrinksBack`, `ShutsDown`, `ReturnsIfSteady`, `NewIsRead`,
`CloseEnds`, `Delivered`, `AllReplayed`); `PairedUUID`, which is about
`100 Continue` and needs a bound on what comes early; and `ReadWhole` of messages that it
splits (`ParserHttp`). With those, the other conditions of the parser's theorems are
needed: a message that is done is registered again, and one in progress deleted (see
below).

## Where the code and its words differ

- `ParserStolenExpiry`: after `100 Continue` a message is registered under a second id
  and stays under the first. When that entry expires, `timer` deletes by the message's
  present id, not by the key it is at: the entry stays, and at every tick a message that
  has come to have that id meanwhile is deleted, complete or not.
- `ListenerHangs`: for a new interface the monitor activates all of them, also one whose
  reader has ended, but starts a reader for the new one only. Nobody closes the other
  handle, and `Listen` never returns, cancelled or not.
- `BinaryDies`: two idle workers load the counter, find two, and both end.

- `ParserContinueTwice`: when all of a body of two packets or more was captured before its
  `Expect` header, the merge adds the first of them, the message is not yet whole, and
  `addPacket` calls `Fix100Continue` again: the packets are shifted twice, where
  `tcp_message.go:378` says "Only adjust a message once", and the response gets another id.
- `WorkersMax`: two writers start workers for the same room, and the pool has more than
  `output_http.go:31` says is the maximum.
- `InputLimit`: a limited input is registered as an output too (`plugins.go:77`), counts
  each message twice, and passes half of what `limiter_test.go:39-63` expects of it. The
  test lists its plugins by hand and does not see it.

Further behaviour seen while modelling. Where a line of the repository says otherwise it is
named; the cases are among those the properties leave out, see above.

- *Parser.* Of a body whose end only comes before the `Expect` header the packets are
  shifted twice as well, and the message is never whole. `Fix100Continue` registers a message
  again that its loop has just sent.
- *Listener.* `Listen` waits "all handles to be closed" (`capture.go:243`), but no handle of
  `pcap`, `pcap_file` and `af_packet` ever is: `closeHandles` closes what is an `io.Closer`
  (`capture.go:520`), and `Close` of those handles returns no error. Cancelled, it waits for
  ever for a reader of `raw_socket` or `af_packet` to which no packet comes. A reader
  of a raw socket that another reader has closed panics. The monitor of a file engine opens the
  file again and drops the first handle.
- *Emitter.* `Close` returns while `Start` has still copiers to add. `Close` of the TCP and
  WebSocket outputs is no `io.Closer` and is never called.
- *File output.* `closed` is set when the first file is opened (`closeLocked` runs first), so
  the flusher stops at its next tick, and records reach the disk by the buffer filling, by
  rotation or by Close. A file is opened with `O_TRUNC`, in Append mode and for ids that
  come back too. What is written after Close stays in the buffer.
- *File input.* `readDepth` 0, which is what a caller that sets none has, reads one record
  of each file and stalls, where the comment at `input_file.go:198` says that files of the
  file output can be read. Records out of order within a file may come out of order within
  `readDepth` as well. A file that cannot be opened leaves a nil reader, on which Close
  panics. A loop that starts again after Close, and an `emit` that waits to send then, leak.
- *TCP input.* Messages are slices of the buffer of their connection, and are overwritten
  while they wait in the channel. *HTTP input*: it answers 200 before the message is queued,
  and its listener stays open after Close.
- *Limiter.* While the limit is reached it drops the error of its input
  with the message; with a limit of 0 Close never returns.
- *Middleware.* If the command quits by itself while the emitter closes, both may find it not
  closed and close the channel twice.
- *Modifier and prettifier.* The search for a header runs on into the body, so that setting
  or deleting one that is not there may change the body, where `proto.go:188` says "removes
  header name from headers section", and a line like
  `Transfer-Encoding: chunked` in it makes the prettifier drop it. Headers are altered in
  the payload before it is known whether the gzip can be read. Chunks that were cut off get
  a `Content-Length` and look whole. The loop over rewritten headers ends at the first that
  is missing (`http_modifier.go:184`).

## What is not modelled

- Decoding of link, IP and TCP headers, sockets, libpcap and BPF filters: byte layout and
  calls to the kernel. The listener has reads, errors and closes as events.
- Positions in bytes in `proto/`, line ends other than CR LF, the regular expressions
  themselves, and the decoding of Dubbo. `SetHost` and `CheckChunked` are called by nobody
  that is modelled.
- The `vxlan` engine of the listener.
- Two messages that share an id because the sum of addresses, ports and `Ack` is the same
  (`tcp_packet.go:218`): `MessageID` is injective in flow and `Ack`.
- Limits in percent (`limiter.go:85`), which draw a number for each call and count nothing.
- Files whose base only begins with that of the template, which the pattern of
  `output_file.go:174` matches as well (`Disk.Matches`).
- Sequence numbers that wrap; the limits on the length of a message, the statistics of the
  parser, and its Close.
- The TCP client, whose `isAlive` takes a byte off the connection; the binary output has it
  as a call that returns. The dummy input, which gives a request and a response per tick.
- How a file is cut into records, and what `OnClose` of a file does.
- Start-up, plugin registration by reflection, flags, logging, statistics and the
  Elasticsearch exporter: run once, or change nothing others see.
- `Lock` and `UnLock` of Redis, which nothing in the program calls; the web application,
  whose one handler inserts a row.

## Plan

What is left, in this order:

1. Parser and emitter joined: a response that is delivered twice against the cache of
   rejected requests. The TCP client under the binary output, with late answers.
2. Sequence numbers that wrap (`Seq_` modulo 2^32 against the plain comparison of `add`).
3. Theorems: `ReadWhole` with Expect, for messages that come in order and do not expire,
   where an object has two ids; the framing of payloads without a title.

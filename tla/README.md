# TLA+ models of sarm: the HTTP server and its optimization tooling

sarm is a static-file HTTP server written in AArch64 assembly: HTTP/1.1 and
HTTP/2 over plaintext, HTTP/2 over TLS 1.3, one process per connection, every
file embedded in the binary. Beside it the repository keeps Python tooling that
decides what assembly may go into the server: an optimization loop, the static
checks it relies on, mutation rules, clobber reports, and scripts that derive the
cryptographic routines. This directory holds TLA+ modules for both, TLC runs on
small instances, and TLAPS proofs about the HTTP/2 engine and its input, the
transport, HTTP/1 connections, the graceful stop, the optimization loop and the
counter sweep. Paths below are relative to the repository's `src/` unless they start with
`scripts/`, `tests/` or `docs/`. `PROJECT.json` maps every definition to the lines
it models.

## 1. The system

| Part | State it keeps | Operations | What makes it correct |
|---|---|---|---|
| Process model (`sarm/main.S`, `sarm/child_end.S`) | listening socket, `worker_pids`, signal dispositions | spawn workers, accept, fork, shut down, deadline | children reaped, one process per connection, queued clients accepted, a stop releases the port and lets responses finish |
| HTTP/1 connection (`sarm/child.S`, `http1/`, `parse/parse_request.S`) | `buf`, request struct, budget, `keep_alive_decision` | read, detect protocol, parse, answer, continue | pipelined requests answered in order from their own bytes; the connection does what its header said |
| HTTP/2 stream table (`h2/h2_stream_*.S`, `h2/data.S`) | entries, packed id index, used and closed bitmaps, high-water mark | create, find, event, recycle | the four copies agree; live streams are never recycled |
| HTTP/2 engine (`h2/h2_connection_loop.S`, handlers, `h2_process_request.S`, `h2_write_body.S`) | windows, SETTINGS, GOAWAY, one request struct, one frame buffer | one handler per frame type; respond under flow control | every complete request is answered once, HEADERS first, within the credit, nothing after END_STREAM |
| HTTP/2 input (`h2_connection_loop.S`, `h2_write_body.S`) | `buf` and its cursor, `h2_wait_buf` | refill, compact, parse, read while waiting | each frame dispatched once with its own payload |
| Transport (`transport/`) | mode, write stage, read stage | write, writev, flush, read | one ordered byte stream, nothing withheld while blocked, nothing in the clear on TLS |
| TLS record layer, handshake, key schedule (`tls/`) | keys, sequence numbers, transcript | seal, open, handshake messages | a nonce is never reused; keys follow the transcript |
| HPACK (`hpack/`) | dynamic table arena | decode, insert with eviction, resize | the table agrees with the encoder's |
| Parsers (`parse/`, `file/decode_url.S`, path checks) | none | pure functions of bytes | agree with their definitions on every input |
| Cryptography (`crypto/`) | none | pure functions | published test vectors |
| Optimization loop (`scripts/arm-optimize.py`, `optimizer.py`, `strategy.py`, `benchmark.py`, `llm.py`) | the source file on disk, the iteration's source, the best metrics, the queue of candidates | baseline, generate, install in place, test, compare, measure, decide, revert, restore | what is kept earned it; the file on disk is the original or an accepted program; the run ends |
| Parser and ABI checker (`scripts/asmparse.py`, `abi.py`) | states of a dataflow | parse, build a graph, sweep, judge returns and flags, index a tree, check private contracts | what passes keeps the calling convention whatever path runs |
| Clobber reports (`scripts/regpressure.py`, `validate_clobbers.py`) | clobber sets, headers | liveness, propagation to a fixpoint, verdicts | a listed set covers what a call changes |
| Mutation rules (`scripts/mutations/`) | none | unroll, NEON, drop no-ops, reschedule | a candidate computes what the original does |
| Derivations (`scripts/p256_*_derivation.py`, `gcm_ctr_sweep_derivation.py`) | registers of the algorithm | field and Montgomery products, addition chain, comb, counter blocks | the register-faithful algorithm agrees with arithmetic |

How they interact. `main.S` accepts, forks, and in the child reads the first
bytes into `buf`. A TLS ClientHello goes to the handshake and then to
`h2_connection_loop`; anything else to `child_with_data`, which hands a
connection that starts like the HTTP/2 preface to the same loop and serves
everything else as HTTP/1. HTTP/2 writes through the transport; HTTP/1 writes
its two-part response with `raw_writev_all` directly. All state is global to the
process, so within a connection there is no concurrency: what is hard is the
order of the client's frames against the server's steps, above all because a
response that runs out of flow-control credit reads and handles further frames
from inside the writer and may serve other requests there, recursively.

The tooling is sequential, but it works on a shared file and is judged by noisy
measurements: a candidate is written over the source, assembled and tested there,
and taken back; the run may die in between. In front of it stand the static
checks, which must hold for every path of a function none of the tests may take.
`optimizer.py` calls the rules of `mutations/`, `abi.py` judges each candidate
against the original before it is installed, and `regpressure.py` and
`validate_clobbers.py` report on the tree the result becomes part of.

The hard behaviours, each listed under `hazards` in `PROJECT.json` at its line:
recursion of writers with one request struct, one frame buffer and one table
entry pointer kept across a wait; slots recycled under writers; signed windows
compared unsigned; partial writes; timeouts in the middle of things; processes,
signals and reused pids; pipelined bytes cut anywhere by the reads; merges, loops
and flags in a dataflow; clobbers through tail calls and recursion; acceptance under
noise; a death between install and revert; carries in the last limb.

## 2. Modules

- `H2Streams` — the stream table. `ids` is `h2_stream_ids`, `sid`, `state`,
  `serving`, `window` are fields of `h2_streams`, `used` and `closed` the
  bitmaps, `lastId` the high-water mark.
- `H2Conn` — the engine over `H2Streams`. `pc` says where the process is, `stack`
  holds the activations of `h2_process_request`, innermost first, each with the
  slot it keeps in x27. An action reads a whole frame and runs its whole
  handler, in the loop when the stack is empty and in the writer's wait otherwise;
  `Outcome` is what each caller does with the handler's result. A frame carries
  the result of decoding it (`fault`, `req`). The observer's variables (`wire`,
  `credit`, `connCredit`, `resets`) record what a client sees; no
  action reads them.
- `H2Silent` — `H2Conn` with a client that may fall silent for good; liveness.
- `H2Input` — the bytes below `H2Conn`: how frames get from the socket to
  `h2_dispatch_frame` through two readers.
- `Transport`, `Channel` — the write side of the transport, and the ordered byte
  stream it promises. The peer keeps the cells of a TLS record until it is whole
  and opens it only if no earlier one is missing; `peer.read`, what it has been able
  to read, is the refinement mapping for `delivered`.
- `Server` — processes. The kernel's fork, exit, reaping and pid allocation are
  external, modelled as `main.S` relies on them.
- `Http1Conn` — one HTTP/1 connection. A request is a record of what the code
  tells apart; its bytes are cells, so that reads can cut it anywhere. A header
  lookup can escape: `get_header_field` branches to a 400 from wherever it is
  called, even from the encoder of another status. A read may fail with any errno at
  any time, and the deadline of `main.S:972` may end the process anywhere: `pc` tells
  the server's own close from a connection that was lost or killed.
- `Optimizer` — the loop. `disk` is the source file, `original` what the run started
  from, `current` the `current_source` of the iteration, `chain` the baseline and the
  acceptances with their metrics. What the assembler, tests, differential check and
  disassembler say of a program is fixed (`Trait`); what a benchmark prints is not.
  `Path.write_text` truncates before it writes: a death in the middle of a write
  (`Writing`) leaves the program `Torn`.
- `Asm` — instructions and lines as records, their effects as `asmparse.py` and
  `abi.py` see them, and, apart, as a processor has them (`HwReads`, `HwWrites`).
- `AsmFlow` — control-flow graph, dataflow of `check_function`, flags, liveness.
- `AsmMutate` — the mutation rules.
- `AsmCheck` — composes the three: a function, a candidate, the verdicts, and a
  processor that runs the candidate from the text, not from the scripts' graph. The
  flags are compared with those of the whole file, as `optimizer.py:525` passes it.
- `AsmTree` — files with macros, regions, callers, clobber sets, headers, contracts.
- `AsmClobbers` — a tree with its reports, run across calls by a processor.
- `Limbs` — splitting, joining and carrying, in any base; `P256Field`, `P256Scalar`,
  `P256Comb`, `GcmCounter` — the derivation scripts' algorithms; `Derivations` runs them case by case and states what each promises.
- `H2Conn_proofs`, `H2Serve_proofs` (which extends it), `H2Input_proofs`,
  `Transport_proofs`, `Http1Conn_proofs`, `Server_proofs`, `Optimizer_proofs`,
  `Derivations_proofs` — theorems about the module each is named for, section 4.
- `MC*` — instances: request and frame alphabets. A module named `MCX` only
  extends `X` where the constants fit in the configuration.

## 3. Runs

| Run | Bounds | What it shows |
|---|---|---|
| `h2_recycle` | 3 streams, table and quota of 2, bodies of 2 octets, initial window 1, maximum 2; an upload, a response without a body, one frame for every early return of every handler | nesting, resets and recycling: bitmaps and index in step, slots distinct, a slot for every stream the quota admits, only CLOSED slots recycled, each stream served by one activation, HEADERS before DATA and nothing after END_STREAM; a rejected frame leaves no complete request behind, in the loop and in a wait |
| `h2_shift` | 2 streams, initial window set to 0 and 2 at any time, GOAWAY | retroactive window changes keep DATA within credit; a client that falls silent is closed |
| `h2_input` | 4 frames, payloads to 3 cells, buffer of 6, 2 waits | no overflow of `buf`, each frame once and with its own payload |
| `transport` | 6 bytes, stage of 3, records of 2, parts of up to 4, all three kinds of link | refinement of `Channel`, an unbroken sealed prefix and nothing in the clear on TLS, delivery |
| `server` | 4 pids, 2 workers, 2 connections, crashes, one stop | in-flight responses finish, queue served, connections end, port released |
| `http1` | 3 requests of 17 kinds, buffer of 4 cells, budget of 2 | order, own bytes, promise kept, no idle wait |
| `optimizer` | 9 programs, 11 command lines, 2 iterations, up to 2 generated candidates beside the mutants, 3 rounds, one death | gates earned, every acceptance beats all before it, what is on disk, the run ends |
| `asm_check` | every body of up to 3 or 4 lines of six instruction sets (about 10700), alone in its file or with another function behind it, 71 lengths of `memcpy` | what the ABI checker passes is right, the dataflow covers what runs, flags keep their writers, what the scheduler and the unrollers promise |
| `asm_clobbers` | some 1250 trees on two platforms: two functions in four layouts, macros that differ by platform, calls to depth 3 | clobber sets, header verdicts and private contracts hold at every return |
| `derivations` | words of base 2 (p = 199), limbs of base 4 modulo 251, a curve of order 61 with 2-bit digits, a counter of 16 | the register-faithful algorithms are exact |
| `h2_own_request` | 2 streams, requests and uploads | a counterexample, section 5 |
| `asm_unroll` | the copy functions of `asm_check`, 71 lengths | a counterexample, section 5 |

Why the bounds are enough. Two slots and three ids are the least with which a slot
is recycled while the writer it was taken from is still at work and another
stream is live; a window of one octet under a body of two makes every response
wait, and a maximum of two makes overflow reachable. In `h2_shift` both
directions of a window change and a negative window occur. A transport stage of
three with parts up to four lets a write fit, fill, overflow or exceed the stage,
and records of two make one call span several. In `http1` a buffer of four holds
two requests of two cells, or one and a half, and requests of four and five cells
fill it or do not fit; a budget of two is used up. In `server` a worker can crash
and its pid be given to a connection. In `optimizer` each gate has a program that
only it stops, one of which is also what a torn file holds, the noise of the original
overlaps that of a faster one, and two iterations of several candidates are the least
with which a rejection follows an acceptance.
In `asm_check` three lines between label and `ret` give a loop, a merge of two
different paths and a label used twice; four give save, change, call and restore,
and four instructions to the scheduler, among them a computation that two stores wait
for and a second name for an address; one function of its own has more backward
hops than the dataflow has sweeps. The register sets are three caller-saved, x19,
x29 and x30: the scripts treat registers of a class alike. In `derivations` every
operand of one side is taken, with the boundary values of the other, and the chain
and the counter run over all inputs of their size; the algorithms do not depend on
the word size except through carries, which are more frequent in small words. (The
1-bit words make the prime of the P-256 form 199.) The properties do not depend on the
particular sizes: each is about order or agreement.

`CHECK_DEADLOCK FALSE` is set where the system really stops: connections close
(`http1`, `h2_input`, `transport`), the server is shut down (`server`), and the
tools come to the end of their work (`optimizer`, `asm_check`, `asm_unroll`, `asm_clobbers`,
`derivations`).

### Fairness

- `H2Silent`: weak fairness of the server's own steps. The process is scheduled,
  and `SO_RCVTIMEO` (`main.S:999`) makes a read that gets no bytes return. Nothing
  is assumed of the client.
  A write that blocks because the client does not read is outside this module: the
  connection deadline ends its process (`Server`, `ConnectionsEnd`).
- `Transport`: the kernel takes something of every write it does not fail, so the
  peer is one that reads (the code sets no send timeout; a peer that stops reading
  is cut off by the deadline), the process goes on, and a connection that stops
  writing comes back to its read.
- `Server`: processes run, signals are delivered, the connection timer fires
  (`main.S:972`), and a non-empty queue is accepted from by some worker. Nothing
  is assumed of clients: a connection need not end by itself.
- `Optimizer`: weak fairness of the run's own steps. Every external command and
  every request to the model has a timeout (`scripts/common.py:48`, `llm.py:102`), so
  none blocks the loop. A death and a restart are never forced.

## 4. Proofs

`H2Conn_proofs` proves, for every table size, set of stream ids, alphabet of
frames and window bounds:

- `TypeCorrect` — `Spec => []TypeOK`; the content is that the connection window
  never goes below zero, where the code's unsigned comparison would take it for
  unlimited credit, and that writers' slots stay in the table;
- `TableCorrect` — `Spec => []TableInStep`: index and bitmaps agree with entries;
- `SlotsCorrect` — `Spec => []SlotsDistinct`: no stream in two slots, ids odd and
  at most the high-water mark, a slot IDLE exactly when free;
- `RecycleCorrect` — `Spec => RecycleOnlyClosed`: a slot changes hands only from
  free or CLOSED, and to a larger id.

The argument is one inductive invariant,

    IInv == TableOK /\ ConnTypeOK /\ ObserverTypeOK /\ PcStack
            /\ connWindow <= connCredit

`TableInStep` alone is not inductive: `h2_stream_create` finds its slot in the
bitmaps and writes the entries, so it needs the types and the distinctness of ids;
a handler's `SlotOf` is a slot only if the index agrees with the entries; and the
steps of a writer need `PcStack`, that a writer exists when `pc` says one is at
work. There is one lemma per action (`HeadersOK`, `DataOK`, ...), over lemmas
about the table's operators (`StoreStateOK`, `InitSlotOK`, `CloseServedOK`,
`AllocSlotFound`). The assumptions are those named in `H2Streams` and `H2Conn`:
the table has at least one slot, client ids are odd, frames are from the alphabet,
window bounds are naturals. That the constants are otherwise arbitrary is what
TLC cannot show: the real table has 32 slots.

`Optimizer_proofs` proves, for every set of programs, every assignment of traits and
benchmark outputs, every command line and any number of iterations and candidates:

- `EarnedCorrect` — `Spec => []AcceptedEarned`: an accepted program passed every gate
  the command line asks for and brings in no allocator the original did not call,
  and what a death leaves on disk passed the ABI check or is a write cut short;
- `DiskCorrect` — `Spec => []DiskBetweenCandidates`: between candidates the file holds
  the original or an accepted program, and the original once a run without `--apply`
  is done.

Neither is inductive alone. What is accepted is what was measured, so the gates it
has passed must be carried along by how far the candidate has come (`Progress`), the
source an iteration reverts to must be one that was kept (`Shape`), and the absence
of new allocators is judged against the iteration's source and holds against the
original only through the chain (`KeptIsClean`, `HeapTransitive`).

`ImprovementCorrect` — `Spec => []BestImproves` — is a second invariant, `Improving`.
That one metric beats another says nothing unless both are numbers, so it carries
that everything compared was measured and that a run has a noise floor. An acceptance
is judged against the last one only; that it beats all earlier ones is
`ImprovedTransitive`, over every entry in between, since a frame size or a branch count
that is unknown breaks the chain of comparisons. The medians the metrics are made of
are order statistics (`Smallest`), whose existence is a lemma, so no bound on the
rounds is needed.

`H2Serve_proofs` proves what the engine promises its client, on top of `IInv`:

- `ServingCorrect` — `ServingIsOnStack`, `NoneLeftBehind` — `NoRequestLeftBehind`,
  `ClosedCorrect` — `ClosedMeansEnded`, `QuotaCorrect` — `SlotForEveryQuota`;
- `FramingCorrect` — `ResponseFraming` and `CreditCorrect` — `WithinCredit`, the two
  action properties.

None is inductive, and they need one another. The invariant `SInv` says what a writer
may still rely on after a wait: an activation holds its slot until its stream is reset
(`Held`), no stream has two (`Distinct`), the flag is up for exactly the streams on the
stack but the one being entered (`Flagged`), END_STREAM is out only where the
activation is finishing (`Unsent`), staged HEADERS belong to the innermost activation
and so does the shared frame buffer (`Framed`), and the window of a live stream is at
most the client's account of it (`Granted`). A reset stream's writer is the case the
argument turns on: it may have lost its slot, and every conjunct says what it can
still do to the new owner. `QuotaCorrect` rests on `QuotaFits`, which `defs.S` states.

`H2Input_proofs` proves `PayloadCorrect` — `OwnPayload` and `FramesCorrect` —
`NoFrameLost`. The invariant `NInv` numbers the cells in `buf` and on the socket as one
stream. A waiting writer takes cells out of its middle, behind `buf`, so the stream is
not simply a suffix of what was sent: `Runs` says that from each cell its frame goes on
to its end, `Starts` that behind each end another frame starts except where the wait
has taken a header away, `Current` that the payload that is due comes next. That the
buffer does not overflow (`Fits`) holds torn or not, and is kept apart. Assumed is
`InputAssumption`: a buffer holds a header and the longest frame this end accepts.

`Transport_proofs` proves `SealedCorrect` — `SealedPrefix` — and the refinement
`StreamCorrect` — `Spec => ImplementsChannel` — for all stage and record sizes, any
lengths of calls, splits and failures. Bytes are numbered as callers wrote them, and
the invariant `TInv` is a layout: what is still on this side is one run of consecutive
numbers over the raw write in progress (`InClear`, `InRecord`), the unsealed rest of a
TLS write, the call that waits for its flush, and the stage (`Queued`), in this order;
the peer has what comes before (`ReadInClear`), or on TLS has opened every record but
the one in progress, and after a failure is one record behind for good (`ReadSealed`).
`Shape` says which of these can hold bytes at which place of the code; it is where the
flush before the mode goes back to PLAIN is used. The refinement has a lemma per kind
of step: a step that takes bytes from the kernel's side is a `Deliver` or invisible, a
call is an `Accept`, and `Block` and `Close` need that nothing is left on this side.

`Http1Conn_proofs` proves `OrderCorrect` — `AnswersInOrder`, `PromiseCorrect` —
`PromiseKept` and `NoIdleWait` — `NeverWaitsForWhatItHas`. The invariant `CInv` says
that `buf` and the socket together are the rest of the script, cell by cell
(`InStream`), and where in it the loop stands (`InPlace`); answers are numbered by it
(`Answered`), and that no body is taken for a request needs that a body follows only a
request that announced one and that such a request is never kept alive
(`BodiesAnnounced`). Assumed besides positive sizes is `RequestShape`: a request has at
least the blank line that ends its header.

`Server_proofs` proves `StopIsGraceful` — `InFlightFinishes`. That no connection was
killed says nothing of signals under way: `StopInv` adds that before the stop nothing
is pending and the original process accepts, that a pid of `worker_pids` is no
connection's unless it was given out again, and that signals pending, or still to be
sent by a process in its shutdown, are for none that serves a connection.

`Derivations_proofs` proves `CountersCorrect` — `CountersAgree` — for every modulus of
the counter (`CounterAssumption`: positive), number of blocks and start. The one-by-one
and the four-lane algorithm are recursive functions; that they are what they should be
(`Progression`) is shown by exhibiting the closed form as a witness and, for
uniqueness, by a least counterexample, in place of induction over an operator. The rest
is arithmetic of remainders (`ModUnique`, `ModSum`).

It also proves `MontCorrect` — `MontExact` — for every base `M` of a limb and modulus
`N` of four limbs with an inverse modulo `M` (`LimbAssumption`). The invariant `MontInv`
is `ProductSoFar`, that after k rows the words are the first operand times the first k
limbs of the second, then `ReducedSoFar`, that the lower limbs are zero and the words
are the product plus a multiple of `N` that is bounded. A row or a round is two carry
chains, each of which keeps the number it is given; that a round clears its limb is
the choice of `N0INV`, that the fifth word is at most one is the bound. After the last
round the number is below 2RN, so what is left of it is below 2N and one subtraction
is enough, if the borrow is taken from the fifth word and not the fourth.

And `FieldCorrect` — `FieldExact` — for every base `B` of a word (`FieldAssumption`:
above one, and accumulators of at least sixteen words to each side; `CasesAssumption`
types the operands). The product is exact row by row. Each row of the fold table times
`B`, less its top word times `P`, is the next row, so all are congruent to the powers
they replace. A column of the fold has at most seven words added and four taken away,
so a register holds it as it is and the fold is an exact chain; its carry is within -B and 4,
and within the script's own `CarryMin` and `CarryMax` because every sum is between the
two extreme ones. Folding that carry again leaves a value of -p or more and below 3p,
which one addition and two subtractions in five limbs bring to its residue.

What all of these add to the runs is that the constants are arbitrary, under the
assumptions named in the modules, which TLC evaluates for the instances it checks.

Only model-checked:

- liveness, which needs fairness and ENABLED: `SilentClientIsClosed`,
  `EverythingDelivered`, `RunEnds`, `QueueServed`, `ConnectionsEnd`,
  `StopReleasesPort`;
- `ChainFollowsExponent`, `CombExact`: programs built from the runs of an exponent
  and tables of points on a curve, folds of a length that is not fixed;
- the properties of `AsmCheck` and `AsmClobbers`: they relate fixpoints over a graph,
  computed by recursion, to the runs of a processor, by induction over data.

## 5. Where the code and its documentation differ

Two runs end in a counterexample. In `h2_own_request` a request whose HEADERS had no
END_STREAM waits for its body while the single request struct is overwritten by the
next HEADERS; its DATA then has it answered with the other request's resource.

In `asm_unroll` a copy that `unroll_2x` or `neon_32b` made, "an equivalent function" to
`unroll.py:16`, moves more than was asked for: the 32-byte loop runs on into the 16-byte
loop, which tests the length at its bottom, so a length that leaves fewer than 16 bytes
passes zero there and the copy goes on past the end. `UnrollExact` says what does hold:
a copy never loses count, and the other lengths are moved exactly. The `memcpy.S` of the
repository is declined by the detection today because it is declared with `FUNC`.

Met while modelling, seen with TLC or by reading, and not kept as runs. In the server:

- `h2_connection_loop.S:15` says connection errors send GOAWAY; met in a writer's
  wait, such an error aborts that response with a 500 and the connection goes on
  (`h2_write_body.S:274`);
- `h2_handle_settings.S:115` says a negative window recovers by WINDOW_UPDATEs; one
  that leaves it negative is compared unsigned and ends the connection with
  FLOW_CONTROL_ERROR;
- a waiting writer reads the socket, whose frames are newer than those still in
  `buf`: a request queued in `buf` is handled after a later one and is then refused
  for its id, although `tests/h2_flow_checks.py:136` has it served;
- `head.S:29` says HEAD sends headers only; an error status sends its page whatever
  the method, and 404 keeps the connection open (`reply_status.S:170`);
- the recursion of writers is not bounded by the table (`h2_write_body.S:239`):
  a reset frees a slot whose writer is still at work;
- such a writer spends the window of the stream that took its slot over;
- RST_STREAM for a stream whose slot was recycled is a connection error, and a
  malformed request is one too, although `h2_handle_headers.S:17` calls it a
  stream error;
- a WINDOW_UPDATE already in `buf` is not seen by a waiting writer, and a frame
  torn by the first read desynchronises a wait;
- a pid in `worker_pids` given out again is signalled by a shutdown, and
  processes forked from the original one inherit `worker_shutdown` with its list,
  although `main.S:398` says only the owner installs it: a signal to a connection's
  process then stops the workers;
- a request refused with 505 is judged for keep-alive as if it were a GET, because
  `parse_request` has not run;
- error branches leave stack frames behind on kept-alive connections (32 to 144
  bytes a request, bounded by the budget; `get_setup.S:85`);
- a SIGTERM before the handler is installed (`main.S:776`) kills the original process
  and leaves the workers it has started; an error of accept() goes straight back to
  accept(), which spins when descriptors run out (`main.S:906`);
- a first read of the single byte `P` sends a POST to the HTTP/2 loop;
- `/?q` looks up `www/` instead of `index.html`.

In the ABI checker and the reports, where `AbiSound`, `ClobbersCover` and
`ContractsHold` say in their statements what they leave out:

- the state of the first instruction is never joined with a branch back to it
  (`abi.py:591`), and the dataflow "to fixpoint" (`abi.py:580`) stops after n + 2
  sweeps: functions of both kinds that return a changed register pass;
- a tail call (`b`) with a changed callee-saved register is not judged, only `ret`
  and `br` are; paths that disagree on SP are a warning, not an error; an unknown
  frame size turns the stack constraint off;
- a write to `w19`, `mov x19, x20`, an address write-back of a callee-saved base and
  any load from the frame, whatever slot, count as harmless or as a restore; the
  arguments of a call are not uses;
- the flag signature compares the texts of reaching writers: two equal instructions
  are one, and a path without any writer is not part of it;
- conditional branches into other regions are no edges of the call graph, callees
  below a fall-through are missing (`asmparse.py:938`), a duplicate region name means
  the first file's; `b` to an extern adds nothing to the clobbers although
  `regpressure.py:461` calls an unresolvable callee the whole caller-saved set;
- in headers "(saved/restored)" annotates only the last item before it, and a range
  written backwards names no register.

In the mutation rules and the loop:

- the scheduler is called dependency-preserving (`mutations/__init__.py:6`,
  `scheduling.py:11`) but has no edges for anti-dependences, flags, calls, write-back,
  SP, the w name of a register, or two registers that hold one address;
- nor has it one between two stores: `scheduling.py:112` says the same base pointer
  "between a store and a load/store keeps their relative order", but the condition below
  wants one of the two to be a load. `subs x1, x0, #1; str x1, [x2]; str x0, [x2]` comes
  out with the second store first, and memory keeps the value of the first;
- `ScheduleEquivalent` is stated for blocks without any of these (`Visible`), and
  `FlagsChecked` shows what the ABI check then catches of the flags;
- the ABI check compares the flags with those of every function in the file, although
  the comment at `optimizer.py:521` says "the function being replaced": a writer of
  another function may stand in for the right one;
- `mov w0, w0`, which clears the upper half, is removed as a no-op;
- a rejection after an acceptance in one iteration reverts the file to the source the
  iteration started from, so `--apply` (`arm-optimize.py:254`) need not keep the best;
- a benchmark of 0 ns ends the run with a division by zero (`optimizer.py:592`), and
  the restore at `optimizer.py:706` is not reached by a run that dies; a death inside a
  write leaves the source file cut short;
- a benchmark that prints no result is timed by the wall clock (`benchmark.py:150`);
- "combined" weighs counts against run time and does not require the candidate to be
  as fast, although `strategy.py:639` says so.

## 6. Not modelled

In the server: cryptographic arithmetic at its real width (256-bit integers are out of
TLC's reach; the algorithms are checked in small words through the derivation
scripts), the generated tables, the TLS handshake, HPACK, the parsers' byte scanning,
range resolution (a successful GET is a 200), response bodies and the layout of
headers, argument parsing and socket set-up, `no_fork` (a debugging mode), and the
read side of the transport. Of HTTP/1, the failure of a response's write:
`http1_write_response` ignores it, and the next read finds the connection gone.
Hazards there that no property covers: eviction in HPACK's dynamic table
(`hpack/dynamic_table/insert.S:77`), a timeout in the middle of a TLS record
(`transport_read.S:60`), the stack taken by nested writers (`h2_write_body.S:239`).

In the tooling: the regular expressions that turn text into instructions, lines and
headers (a line is a record of what they find), prompts, reports, the wrappers of the
compiler, disassembler and differential driver (their verdicts are inputs), the
assembly the derivation scripts print, the profilers, audits and fuzzing scripts.

## 7. Plan

1. `Hpack` — the dynamic table with eviction against a reference queue; integer and
   string decoding over bounded inputs.
2. `TransportIn` — staged reads and TLS records under partial reads and timeouts,
   composed with `H2Input`.
3. `Parse` — paths, percent-decoding, traversal checks, ranges, as functions
   against reference definitions.
4. `TlsServer` — the handshake, keys and transcript as symbols, sequence numbers.
5. `no_fork` and start-up in `Server`; failures of accept.
6. Proofs: in the modules that have theorems, more of the recursive definitions by
   closed form and least counterexample, as in `Derivations_proofs`: the addition
   chain (`ChainFollowsExponent`) for any runs. Of `AsmCheck`, that a sweep only grows the states, from which what one step of the
   processor needs of the dataflow follows.

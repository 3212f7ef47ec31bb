# Formal models of the typescript recorder and the RDP display-update and client modules

This directory holds TLA+ models of the C sources under `src/src/`, the TLC
configurations that model-check them, and TLAPS proofs about the typescript
recorder and the RDP client's free handler.  `PROJECT.json` lists the components, runs, mutants, the
definition-to-source map, the findings, the hazards and the theorems.

## 1. The system and its parts

`spec.md` describes guacenc, which replays a Guacamole protocol dump into a
video.  Its parts are the instruction parser, the display model, the stream
buffer table, the dispatcher, the frame clock and the encoder sink.  Of
guacenc, the repository holds only the declaration of `guacenc_encode`
(`guacenc/encode.h`) and the `blob` handler (`guacenc/instruction-blob.c`).
That handler is a stub: it checks the argument count, logs and returns 0.
The rest of `src/` is gateway code that the spec calls out of scope:

| part | source | state | operations |
|---|---|---|---|
| terminal typescript recorder | `terminal/typescript.c` | data file, timing file, 32-byte buffer, `length`, `last_flush` | `alloc` (mkdir, `open_data_file`, timing file, header), `write`, `flush`, `free` |
| RDP display update | `protocols/rdp/rdp_disp.c` | `disp` channel, `last_request`, `requested_width/height` | `alloc`, `connect`, `fit`, `set_size`, `update_size`, `free`, `load_plugin` |
| RDP client lifecycle | `protocols/rdp/client.c` | `guac_rdp_client` | `guac_client_init`, free handler |
| guacenc blob handler | `guacenc/instruction-blob.c` | none | `guacenc_handle_blob` (stub) |

How the parts interact:

- **Typescript recorder.**
  - Every guacd connection process may record a typescript into the same
    directory.
  - Processes meet only in the file system.
  - Only one process ever records: the timing file's path is fixed and
    opened with `O_EXCL`, and nothing removes it.  A second process fails
    its alloc, after creating its data file.
  - The data file gets the first free name among `name`, `name.1`, …,
    `name.255`, created with `O_CREAT|O_EXCL`.
  - The timing file has the fixed path `/tmp/typescript-timing`, also
    opened with `O_EXCL`.
- **Display update.**
  - The user's browser size reaches `set_size`.
  - The RDP client loop calls `update_size` on every iteration.
  - The RDP server applies the monitor layouts it receives asynchronously.
    It is a separate party, and its current size is what `update_size`
    compares against.
- **RDP client.**
  - `guac_client_init` allocates the client data.
  - The owner's join handler (not in the repository) starts `client_thread`.
    The thread allocates the connection's resources (`rdp_inst`, display,
    `disp`, settings, filesystem, SFTP objects) as the connection proceeds.
  - When the client stops, libguac calls the free handler.  The handler
    joins the thread and then releases everything.

### Behaviours that are hard to test

- Processes racing on file names.
- A failure between creating the data file and opening the timing file.
- The buffer boundary in `write`.
- `elapsed_time` narrowed to `int` and clamped only from above.
- The `snprintf` length check.
- Integer division by the fitted dimension.
- A request sent before any size is known.
- The no-change check made against a remote size that a layout in flight
  is about to change.
- The rate limit that silently drops a request.
- `int` overflow of `b_value * bound` in `fit` for huge client sizes.
- A client freed before any user joined, or before the client thread
  allocated the display.

`PROJECT.json` lists every hazard at its line.

## 2. Modules and how they correspond to the code

### `Typescript` (typescript.c, whole file)

**Constants:**

- `Procs`: connection processes.
- `Bytes`: terminal bytes, as model values.
- `Header` and `Footer`: markers.
- `BufferSize`: `sizeof buffer`.
- `MaxSuffix`, `MaxDelay`: the constants of the same names.
- `IntBits`: the width of `int elapsed_time`.
- `ClockMonotonic`: whether the wall clock may step back.
- Two model bounds: `MaxTime` and `MaxWrites`.

**Variables:**

- File system: `dir`, `exists` (data names present), `data` (contents per
  name), `timingExists`, `timing` (one `[delay, length]` record per timing
  line).
- Per process: `ts[p]`, holding the state (`none`, `live`, `freed`,
  `failed`), the data file, the buffer and `last_flush`.
- `written[p]`: a history of every byte passed to `write`.
- `now`: the clock.

**Actions:**

- `AllocMkdirFails` is the early return at line 118.
- `Alloc` covers the rest of `alloc`:
  - `OpenDataFile` picks the least free name, or fails when the directory
    is missing or every name is taken;
  - a pre-existing timing file makes alloc fail after the data file was
    created (lines 128-134);
  - otherwise the typescript becomes live and the header is written.
- `Write` flushes when `length == sizeof buffer` and then appends
  (lines 151-161).
- `Flush` does nothing on an empty buffer.  Otherwise it writes the timing
  line (`Elapsed`: wrap to `IntBits`, then clamp from above), then the
  buffer, then resets (lines 163-199).
- `Free` flushes and writes the footer.
- `Tick` advances the clock, or sets it anywhere when `ClockMonotonic` is
  FALSE.

**What is left out:** the text of the timing line.  It always fits the
32-byte buffer, so the clamp at line 184 never applies.

### `TypescriptBasename` (typescript.c lines 65-107)

This module models the name arithmetic of `open_data_file`, with strings
abstracted to their lengths.

- `OpenDataFileName` gives the length `snprintf` wants, the length it
  stores (at most `Space - 1`), whether `ENAMETOOLONG` is returned (only
  on equality), and the highest index written for the suffix.
- Each step is one call with a path length and a name length.

### `DisplayUpdate` (rdp_disp.c lines 30-176)

**Variables:**

- `disp`: the channel is connected.
- `requested_width`, `requested_height`.
- `remote_width`, `remote_height`: the server's size.
- `channel`: layouts sent and not yet applied.
- `crashed`: a division by zero happened.
- `sinceRequest`: time since `last_request`.  It saturates at
  `UpdateInterval + 1`, since all larger values behave alike.  `Never`
  stands for `last_request = 0`.

**Helpers:**

- `Fit` is `guac_rdp_disp_fit`, with C's truncating division `CDiv`.  The
  product `b * bound` is taken modulo `2^IntBits` (`IntWrap`).  Signed
  overflow is undefined in C, and the multiply the compiler emits wraps.
- `MakeEven` is the `% 2 == 1` test.
- `RateLimited` is the interval check.
- `SendsLayout` is the connected, not rate-limited and not unchanged test.

**Actions:**

- `SetSize`: two fits, make the width even, store, then `update_size`.  It
  crashes when a fit divides by zero.
- `UpdateSize`: the call from the client loop.
- `Connect`: `guac_rdp_disp_connect`.
- `ServerApply`: the server takes the oldest layout.  It applies the layout
  if it lies within `[MinSize, MaxSize]` and ignores it otherwise.
- `Tick`: time passes.

**Initial state:** the one `guac_rdp_disp_alloc` creates, on a desktop of
some initial size.

### `RdpClient` (client.c lines 57-150)

**Variables:**

- `rdp_client`: `client->data`.
- `field`: each field the free handler releases, as `null`, `alloc` or
  `freed`.
- `thread`: `client_thread`, as `none`, `running`, `exited` or `joined`.
- `client_state`: running or stopping.
- `handler`: the free handler's progress.

**Actions:**

- `ClientInit`: `guac_client_init`.  It callocs the client data and
  allocates the clipboard and the SVC list.
- `Join`: the free handler up to `pthread_join`.  It blocks while the thread
  runs.  On a never-created thread the call is undefined, so it either
  faults or returns.
- `Release`: the rest of the handler.  `Released` frees every allocated
  field: the NULL-checked fields only when set, and the others regardless.
  A NULL display either faults in `guac_common_display_free` or passes.
  That function is not in the repository, so no run asserts either
  outcome.  The hazard at client.c:145 is listed.
- Environment actions, for code that is not in the repository:
  - `UserJoin`: the owner's join handler starts the thread.
  - `ThreadAlloc`: the thread allocates any of its fields, in any order.
  - `ThreadExit`: the thread ends and stops the client.
  - `Stop`: `guac_client_stop`.

`MCTypescript` and `MCDisplayUpdate` instantiate the modules with model
values and small constants.

## 3. Runs

| run | expect | checks | what it shows |
|---|---|---|---|
| `typescript` | pass | `TypeOK`, `DataIntegrity`, `TimingAccounts`, `DistinctDataFiles` | two processes, two bytes, a buffer of 2, two data names, every initial directory state: every byte reaches its own file in order, the timing lines sum to the flushed bytes with each line covering 1..BufferSize bytes, and no two processes hold the same data file, including one whose alloc failed after creating it |
| `typescript_clock` | violation | `TimingDelaysValid` | a clock step back gives a negative delay line |
| `typescript_idle` | violation | `TimingDelaysValid` | an idle gap past `INT_MAX` (3-bit int here) wraps to a negative delay |
| `typescript_orphan` | violation | `OrphanFree` | a pre-existing timing file leaves an orphan data file |
| `typescript_basename_fit` | pass | `SuffixFits` | with the real 4-byte reserve and suffixes up to 255, a name that fits untruncated always has room for `.`, the digits and the NUL |
| `typescript_basename` | violation | `NameFitsOrRefused` | a path/name longer than the space is truncated, not refused, and the suffix is written past `basename` |
| `display_update` | pass | `RequestedInBounds`, `Converges` | any two size requests give in-bounds even sizes, and under the client loop's fairness the remote size converges to the last request |
| `display_update_zero` | violation | `SentInBounds` | connecting before any request sends a 0x0 layout |
| `display_update_input` | violation | `RequestedInBounds` | a zero width from the client divides by zero |
| `display_update_overflow` | violation | `RequestedInBounds` | a height past `INT_MAX / MinSize` wraps in `fit`, and the width is fitted down to 0 (100x20000000 becomes 0x200) |
| `rdp_client` | pass | `NoUseAfterFree` | for every interleaving of the thread's allocations, a stop and the free handler, nothing is freed while the thread runs |
| `rdp_client_join` | violation | `JoinsCreatedThread` | a client stopped before any user joined has its zero `client_thread` joined |

Every property of a passing run has a mutant in `PROJECT.json`: an operator
that changes a mapped definition the way a plausible bug would, under which
TLC finds the property violated.

- **Typescript.**
  - Flushing only when the buffer is overfull breaks `TypeOK`.
  - Writing `length - 1` bytes breaks `DataIntegrity`.
  - Taking the length after the reset breaks `TimingAccounts`.
  - Opening the data file without `O_EXCL`, so that the first name is
    taken whether or not it exists, breaks `DistinctDataFiles`.
- **TypescriptBasename.**
  - Holding no bytes back from `snprintf` breaks `SuffixFits`.
- **DisplayUpdate.**
  - Fitting only the width breaks `RequestedInBounds`.
  - Suppressing a layout when either dimension matches breaks `Converges`.
- **RdpClient.**
  - A join that does not wait for the thread breaks `NoUseAfterFree`.

### Bounds, and why they are enough

**Typescript.**

- `BufferSize = 2`, `MaxWrites = 5`: writes fill the buffer, hit the
  boundary and flush more than once.
- `MaxSuffix = 1`: two names, so collisions, suffixes and exhaustion all
  happen with two processes.
- `MaxTime = 3`: flushes with delays 0 and >0 and clamping (`MaxDelay = 2`)
  all occur.
- `Init` allows every directory state and every set of pre-existing files.
- Symmetry over processes and over bytes is sound because no property names
  a particular process or byte.

**DisplayUpdate.**

- `MinSize..MaxSize = 4..10` stands for 200..8192.
- `Dims = {3, 6, 8, 12}` lies below, inside and above the bounds, with
  ratios that make the second fit matter.
- `MaxResizes = 2` gives two requests, so a second request can meet a first
  one in flight or within the rate limit (`UpdateInterval = 2`).
- The channel is capped at two layouts in flight (`ChannelBound`, a
  constraint).
- `IntBits = 8` keeps every product of a dimension in `Dims` and a bound in
  range (at most 120), as sane sizes do with 32 bits.  The overflow run
  uses `Dims = {3, 40}` with one request: `40 * 4` passes `2^7` as a height
  above `INT_MAX / 200` passes `2^31`.

**RdpClient.**

- There are no constants.  The eight fields the thread may allocate,
  taken in every subset and order, and the stop before, during or after
  the thread, give 1415 states.
- The free handler's return, or its fault, ends the connection.  The run
  therefore disables the deadlock check.

### Fairness

`FairSpec` assumes weak fairness of `UpdateSize`, `ServerApply` and `Tick`.

- The RDP client loop calls `update_size` on every iteration.
- The server handles every layout it receives.
- The clock advances.

The user's requests and the channel connection are not assumed to happen.

## 4. What is proved

`TypescriptProofs` proves, with TLAPS, for every value of the constants
allowed by `ConstantsAssumption`:

- `TypeCorrect`: `Spec => []TypeOK`.
- `DataIntegrityHolds`: `Spec => []DataIntegrity`.

`DataIntegrity` is not inductive by itself.  A step of another process
could write into the same data file, and a process that allocates could
start from a non-empty history.  The proofs therefore use the inductive
invariant
`IInv == TypeOK /\ OwnedFiles /\ Fresh /\ DataIntegrity`:

- `OwnedFiles`: the data file of every live or freed typescript exists, and
  no two of them share a file.  This is what `O_EXCL` buys.
- `Fresh`: an unallocated process has written nothing.

The argument:

- `InitIInv` shows that the initial states satisfy IInv.
- One lemma per action shows that the action keeps IInv:
  `AllocMkdirFailsIInv`, `AllocIInv`, `WriteIInv`, `FlushIInv`,
  `FreeIInv`, `TickIInv`, `StutterIInv`.
- `AllocIInv` uses the fact that the chosen name is not in `exists`, so it
  differs from every owned file.
- `WriteIInv`, `FlushIInv` and `FreeIInv` use `OwnedFiles` to show that the
  flush touches only the writer's file.  They rest on the sequence lemmas
  `ConcatAppend`, `AppendIsConcat` and `ConcatEmptySeq`, and on the frame
  lemma `DataIntegrityStep`.
- `NextIInv` combines the action lemmas, and PTL concludes both theorems.

`TypescriptProofs` also proves `DistinctDataFilesHolds`:
`Spec => []DistinctDataFiles`.  No two processes hold the same data file,
whether their alloc succeeded or failed after creating it.  The property
is not inductive alone, and the proof adds `HeldFiles`: every file a
process holds still exists.  Then:

- `AllocFInv`: `open_data_file` returns only a name absent from the
  directory and adds it, so it differs from every file already held;
- every other action keeps the directory and every process's file
  (`FileFrame`).

`TypeOK` comes from `IInv`, so the theorem combines the two invariants.

`TypescriptBasenameProofs` proves `SuffixFitsHolds`:
`ASSUME ReserveCoversSuffix PROVE Spec => []SuffixFits`.  Its hypothesis
is that the reserve of `MaxSuffixLength` bytes holds the digits of
`MaxSuffix` plus the `.`.  The lemma `CodeReserveCoversSuffix` shows that
the code's own constants (4 bytes, 255) satisfy it.  The inductive
invariant says that the result is always what `open_data_file`'s
formatting gives for some path and name length.  Its `OutcomeFits` lemma
does the arithmetic on the `snprintf` truncation.

`DisplayUpdateProofs` proves `RequestedInBoundsHolds`:
`ASSUME SaneSizes PROVE Spec => []RequestedInBounds`.  `SaneSizes` says:

- `MinSize` is even;
- every dimension a client may send is positive;
- every product of a dimension or `MaxSize` with `MaxSize` is below
  `2^(IntBits-1)`.

Under it, `IntWrap` is the identity on the products `fit` computes
(`WrapInRange`).  The two rounds of `fit` then land in bounds
(`FirstFit`, `SecondFit`), and rounding down to even stays in bounds
(`MakeEvenInBounds`).  The invariant is strengthened only by
`resizes \in Nat`.

The hypothesis is needed, and the violation runs show where it fails:

- `display_update_input` sends a zero width, outside `SaneSizes`.
- `display_update_overflow` sends a product past `INT_MAX`, outside
  `SaneSizes`.

The `display_update` run's constants satisfy it: MinSize 4, products
12 x 10 and 10 x 10 below 2^7.

Facts about `^` are outside what the backends know.  The constant
assumptions of `Typescript` and `DisplayUpdate` therefore state the two
facts about `2^(IntBits - 1)` that the proofs use, and TLC checks them on
every run.

`RdpClientProofs` proves `NoUseAfterFreeHolds` (`Spec => []NoUseAfterFree`)
through the inductive invariant `TypeOK /\ BeforeInit /\ HandlerAfterThread
/\ NothingFreedEarly`.  `HandlerAfterThread` carries the argument: the handler
leaves `idle` only through the join, which needs a stopped client and a
thread that is not running.  A stopped client admits no new join, so the
thread never runs again.

### What is only model-checked

- `TimingAccounts`.  Its `SumLengths` is a recursive function over the
  timing file.  Relating the sum after an `Append` to the sum before
  needs induction over sequences, and the provers cannot instantiate the
  library's induction theorems.
- `Converges`, which is liveness.
- Every violation run.

Liveness, `ENABLED` and induction over recursive data are outside what the
installed TLAPS backends can do.

## 5. Not modelled, and why

- **`guac_rdp_disp_free` and `guac_rdp_disp_load_plugin`.**  One releases
  memory and the other registers a FreeRDP channel; neither has logic to
  check.
- **A clock step back in `update_size`'s rate limit.**  It is listed as a
  hazard.  Time is abstracted to a saturated monotonic counter.
- **What the client thread and the join handler do.**  They are not in
  the repository.  `RdpClient` lets them allocate any subset of the fields
  in any order.  The `rdp_lock` mutex and its attributes are never
  destroyed.  That is harmless on Linux, so it is left out.
- **guacenc.**  Only the `blob` stub and a declaration are present.  The
  stub changes no state, so it has no hazard a model checker could reach.
  The parser, display model, stream table, dispatcher, frame clock and
  encoder are described only by `spec.md`.

## 6. Plan for later work

1. A spec-modelled `StreamTable`/`FrameClock` module for guacenc, with the
   blob handler translated from its source.  It would carry the idle
   duplication and burst collapsing properties of spec §8 and the
   reference-error divergence of the stub as a violation run.
2. Wall-clock steps in `DisplayUpdate`, to check the rate limit's recovery.
3. A proof of `TimingAccounts` using a non-recursive formulation of the sum.

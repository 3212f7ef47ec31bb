----------------------------- MODULE Typescript -----------------------------
(***************************************************************************)
(* The typescript recorder of the terminal emulator                        *)
(* (src/src/terminal/typescript.c).  Each guacd connection process may     *)
(* record one typescript: a data file holding the terminal output between  *)
(* a header and a footer, and a timing file with one line per flush        *)
(* ("<delay> <length>").  Processes share the file system: the data file  *)
(* is created with O_CREAT|O_EXCL under the first free name among          *)
(* name, name.1, ..., name.MaxSuffix; the timing file has the fixed path   *)
(* /tmp/typescript-timing.  Output is buffered and flushed when the buffer *)
(* is full, on an explicit flush and when the typescript is freed.         *)
(*                                                                         *)
(* Data are abstracted: bytes are model values, the header and footer are  *)
(* single markers, a timing line is the record [delay, length] it prints   *)
(* (the printed line never exceeds the 32-byte buffer, so the clamp of     *)
(* timestamp_length never applies).                                        *)
(***************************************************************************)
EXTENDS Integers, Sequences

CONSTANTS
  Procs,          \* guacd connection processes that may record a typescript
  Bytes,          \* the bytes the terminal writes (model values)
  Header,         \* GUAC_TERMINAL_TYPESCRIPT_HEADER
  Footer,         \* GUAC_TERMINAL_TYPESCRIPT_FOOTER
  NoFile,         \* no data file (open failed or never attempted)
  BufferSize,     \* GUAC_TERMINAL_TYPESCRIPT_BUFFER_SIZE (sizeof buffer)
  MaxSuffix,      \* GUAC_TERMINAL_TYPESCRIPT_MAX_SUFFIX
  MaxDelay,       \* GUAC_TERMINAL_TYPESCRIPT_MAX_DELAY (milliseconds)
  IntBits,        \* width of the C int elapsed_time
  ClockMonotonic, \* FALSE: the wall clock behind guac_timestamp_current may step back
  MaxTime,        \* model bound: largest clock value
  MaxWrites       \* model bound: bytes written per typescript

ASSUME ConstantsAssumption ==
  /\ BufferSize \in Nat \ {0}
  /\ MaxSuffix \in Nat
  /\ MaxDelay \in Nat
  /\ IntBits \in Nat \ {0}
  /\ 2^(IntBits - 1) \in Nat \ {0} /\ 2^IntBits = 2 * 2^(IntBits - 1)  \* facts about ^
  /\ ClockMonotonic \in BOOLEAN
  /\ MaxTime \in Nat
  /\ MaxWrites \in Nat
  /\ Header \notin Bytes /\ Footer \notin Bytes /\ Header # Footer
  /\ NoFile \notin Nat

(* Data file names: 0 is "path/name", i > 0 is "path/name.i".             *)
DataNames == 0 .. MaxSuffix

(* What a data file may hold.                                              *)
DataBytes == Bytes \cup {Header, Footer}

States == {"none", "live", "freed", "failed"}

VARIABLES
  dir,          \* the recording directory exists
  exists,       \* the data file names present in the directory
  data,         \* contents of each data file
  timingExists, \* /tmp/typescript-timing exists
  timing,       \* contents of /tmp/typescript-timing: one record per flush
  ts,           \* per process: its guac_terminal_typescript (state, data file, buffer, last_flush)
  written,      \* history: every byte each process passed to write
  now           \* guac_timestamp_current()

vars == <<dir, exists, data, timingExists, timing, ts, written, now>>

(* C conversion of the 64-bit difference of two timestamps to int.        *)
Wrap(x) == ((x + 2^(IntBits - 1)) % 2^IntBits) - 2^(IntBits - 1)

(* The typescript records of process p, once allocated.                   *)
Owner(p) == ts[p].state \in {"live", "freed"}

-----------------------------------------------------------------------------
(***************************************************************************)
(* guac_terminal_typescript_open_data_file: try name, then name.1 ...      *)
(* name.MaxSuffix with O_EXCL while the error is EEXIST.  A missing        *)
(* directory makes the first open fail with ENOENT, which ends the loop.   *)
(***************************************************************************)
FreeNames == DataNames \ exists

(* Mutant: the data file is opened with O_CREAT but without O_EXCL, so the *)
(* first open succeeds whether or not the name exists.                     *)
OpenDataFileNoExcl(f, dirNow) ==
  IF dirNow THEN f = 0 ELSE f = NoFile

(* f is the result of open_data_file: the least free name, or NoFile.     *)
OpenDataFile(f, dirNow) ==
  IF dirNow /\ FreeNames # {}
    THEN f \in FreeNames /\ \A j \in FreeNames : f <= j
    ELSE f = NoFile

(* guac_terminal_typescript_alloc with create_path set and mkdir failing   *)
(* for a reason other than EEXIST: NULL, nothing created.                  *)
AllocMkdirFails(p) ==
  /\ ts[p].state = "none"
  /\ ~dir
  /\ ts' = [ts EXCEPT ![p].state = "failed"]
  /\ UNCHANGED <<dir, exists, data, timingExists, timing, written, now>>

(* guac_terminal_typescript_alloc otherwise: mkdir (when asked to),        *)
(* open the data file, open the timing file (closing the data file if that *)
(* fails), initialise the typescript and write the header.                 *)
Alloc(p, create_path) ==
  LET dirNow == dir \/ create_path
  IN
  /\ ts[p].state = "none"
  /\ dir' = dirNow
  /\ UNCHANGED <<written, now>>
  /\ \E f \in DataNames \cup {NoFile} :
       /\ OpenDataFile(f, dirNow)
       /\ IF f = NoFile
            THEN /\ ts' = [ts EXCEPT ![p].state = "failed"]
                 /\ UNCHANGED <<exists, data, timingExists, timing>>
          ELSE IF timingExists
            THEN /\ exists' = exists \cup {f}
                 /\ ts' = [ts EXCEPT ![p].state = "failed", ![p].file = f]
                 /\ UNCHANGED <<data, timingExists, timing>>
          ELSE /\ exists' = exists \cup {f}
               /\ timingExists' = TRUE
               /\ timing' = <<>>
               /\ data' = [data EXCEPT ![f] = <<Header>>]
               /\ ts' = [ts EXCEPT ![p] = [state |-> "live", file |-> f,
                                           buffer |-> <<>>, last_flush |-> now]]

-----------------------------------------------------------------------------
(***************************************************************************)
(* guac_terminal_typescript_flush, as three results: the timing file, the  *)
(* data files and last_flush after it.  Nothing happens when the buffer is *)
(* empty.                                                                  *)
(***************************************************************************)
Elapsed(p) ==
  LET e == Wrap(now - ts[p].last_flush)
  IN  IF e > MaxDelay THEN MaxDelay ELSE e

(* Mutant: the length is taken after "typescript->length = 0".            *)
FlushedTimingAfterReset(p) ==
  IF ts[p].buffer = <<>>
    THEN timing
    ELSE Append(timing, [delay |-> Elapsed(p), length |-> 0])

FlushedTiming(p) ==
  IF ts[p].buffer = <<>>
    THEN timing
    ELSE Append(timing, [delay |-> Elapsed(p), length |-> Len(ts[p].buffer)])

(* Mutant: the data write passes length - 1.                               *)
FlushedDataDropLast(p) ==
  [data EXCEPT ![ts[p].file] = @ \o SubSeq(ts[p].buffer, 1, Len(ts[p].buffer) - 1)]

FlushedData(p) == [data EXCEPT ![ts[p].file] = @ \o ts[p].buffer]

FlushedLast(p) == IF ts[p].buffer = <<>> THEN ts[p].last_flush ELSE now

Flush(p) ==
  /\ ts[p].state = "live"
  /\ timing' = FlushedTiming(p)
  /\ data' = FlushedData(p)
  /\ ts' = [ts EXCEPT ![p].buffer = <<>>, ![p].last_flush = FlushedLast(p)]
  /\ UNCHANGED <<dir, exists, timingExists, written, now>>

(* Mutant: write flushes only when length exceeds sizeof(buffer).          *)
WriteFlushWhenOverfull(p, c) ==
  /\ ts[p].state = "live"
  /\ Len(written[p]) < MaxWrites
  /\ written' = [written EXCEPT ![p] = Append(@, c)]
  /\ IF Len(ts[p].buffer) > BufferSize
       THEN /\ timing' = FlushedTiming(p)
            /\ data' = FlushedData(p)
            /\ ts' = [ts EXCEPT ![p].buffer = <<c>>, ![p].last_flush = now]
       ELSE /\ ts' = [ts EXCEPT ![p].buffer = Append(@, c)]
            /\ UNCHANGED <<timing, data>>
  /\ UNCHANGED <<dir, exists, timingExists, now>>

(* guac_terminal_typescript_write: flush if the buffer is full, then       *)
(* append the byte.                                                        *)
Write(p, c) ==
  /\ ts[p].state = "live"
  /\ Len(written[p]) < MaxWrites
  /\ written' = [written EXCEPT ![p] = Append(@, c)]
  /\ IF Len(ts[p].buffer) = BufferSize
       THEN /\ timing' = FlushedTiming(p)
            /\ data' = FlushedData(p)
            /\ ts' = [ts EXCEPT ![p].buffer = <<c>>, ![p].last_flush = now]
       ELSE /\ ts' = [ts EXCEPT ![p].buffer = Append(@, c)]
            /\ UNCHANGED <<timing, data>>
  /\ UNCHANGED <<dir, exists, timingExists, now>>

(* Mutant: the footer is written before the pending buffer is flushed.     *)
FreeFooterFirst(p) ==
  /\ ts[p].state = "live"
  /\ timing' = FlushedTiming(p)
  /\ data' = [data EXCEPT ![ts[p].file] = Append(@, Footer) \o ts[p].buffer]
  /\ ts' = [ts EXCEPT ![p].state = "freed", ![p].buffer = <<>>,
                      ![p].last_flush = FlushedLast(p)]
  /\ UNCHANGED <<dir, exists, timingExists, written, now>>

(* guac_terminal_typescript_free: flush, write the footer, close both      *)
(* files and free the typescript.                                          *)
Free(p) ==
  /\ ts[p].state = "live"
  /\ timing' = FlushedTiming(p)
  /\ data' = [FlushedData(p) EXCEPT ![ts[p].file] = Append(@, Footer)]
  /\ ts' = [ts EXCEPT ![p].state = "freed", ![p].buffer = <<>>,
                      ![p].last_flush = FlushedLast(p)]
  /\ UNCHANGED <<dir, exists, timingExists, written, now>>

(* The wall clock advances, or, when it is not monotonic, is set anywhere. *)
Tick ==
  /\ now' \in (IF ClockMonotonic THEN {now + 1} ELSE 0 .. MaxTime) \ {now}
  /\ now' <= MaxTime
  /\ UNCHANGED <<dir, exists, data, timingExists, timing, ts, written>>

-----------------------------------------------------------------------------
(* Any directory state and any set of files left by earlier sessions.     *)
Init ==
  /\ dir \in BOOLEAN
  /\ exists \in IF dir THEN SUBSET DataNames ELSE {{}}
  /\ data = [n \in DataNames |-> <<>>]
  /\ timingExists \in BOOLEAN
  /\ timing = <<>>
  /\ ts = [p \in Procs |-> [state |-> "none", file |-> NoFile,
                            buffer |-> <<>>, last_flush |-> 0]]
  /\ written = [p \in Procs |-> <<>>]
  /\ now = 0

Next ==
  \/ \E p \in Procs :
       \/ AllocMkdirFails(p)
       \/ \E cp \in BOOLEAN : Alloc(p, cp)
       \/ \E c \in Bytes : Write(p, c)
       \/ Flush(p)
       \/ Free(p)
  \/ Tick

Spec == Init /\ [][Next]_vars

-----------------------------------------------------------------------------
TimingRecord == [delay : Int, length : Int]

TypescriptRecord ==
  [state : States, file : DataNames \cup {NoFile}, buffer : Seq(Bytes), last_flush : Int]

TypeOK ==
  /\ dir \in BOOLEAN
  /\ exists \subseteq DataNames
  /\ data \in [DataNames -> Seq(DataBytes)]
  /\ timingExists \in BOOLEAN
  /\ timing \in Seq(TimingRecord)
  /\ ts \in [Procs -> TypescriptRecord]
  /\ \A p \in Procs : Len(ts[p].buffer) <= BufferSize
  /\ written \in [Procs -> Seq(Bytes)]
  /\ now \in 0 .. MaxTime

(***************************************************************************)
(* Every byte the terminal wrote reaches the data file of its typescript,  *)
(* once and in order, after the header: while the typescript is live the   *)
(* file followed by the unflushed buffer is the header and all bytes       *)
(* written; once it is freed the file is header, bytes and footer.  This   *)
(* is about the buffer boundary in write/flush and about no other process  *)
(* ever writing into the file (O_EXCL in open_data_file).                  *)
(***************************************************************************)
DataIntegrity ==
  \A p \in Procs :
    /\ ts[p].state = "live" =>
         data[ts[p].file] \o ts[p].buffer = <<Header>> \o written[p]
    /\ ts[p].state = "freed" =>
         data[ts[p].file] = <<Header>> \o written[p] \o <<Footer>>

(* Sum of the lengths of a sequence of timing records.                    *)
SumLengths(s) ==
  LET f[i \in 0 .. Len(s)] == IF i = 0 THEN 0 ELSE f[i - 1] + s[i].length
  IN  f[Len(s)]

(***************************************************************************)
(* The timing file accounts for exactly the flushed data: every line       *)
(* covers between 1 and BufferSize bytes (flush skips an empty buffer,     *)
(* write flushes a full one), and the lengths add up to the bytes written  *)
(* less those still buffered, so a replay of data with timing neither      *)
(* skips nor repeats output.                                               *)
(***************************************************************************)
TimingAccounts ==
  \A p \in Procs : Owner(p) =>
    /\ \A i \in 1 .. Len(timing) : timing[i].length \in 1 .. BufferSize
    /\ SumLengths(timing) = Len(written[p]) - Len(ts[p].buffer)

(***************************************************************************)
(* Every delay in the timing file is the time since the previous flush,    *)
(* clamped to MaxDelay: it lies in 0 .. MaxDelay.  The code clamps only    *)
(* from above, and elapsed_time is a difference of wall-clock readings     *)
(* narrowed to int.                                                        *)
(***************************************************************************)
TimingDelaysValid ==
  \A i \in 1 .. Len(timing) : timing[i].delay \in 0 .. MaxDelay

(***************************************************************************)
(* No two processes ever hold the same data file, whether their alloc      *)
(* succeeded or failed after creating it: open_data_file creates its file  *)
(* with O_CREAT|O_EXCL and moves on to the next suffix on EEXIST, so a     *)
(* name taken by a typescript of another process, live, freed or left      *)
(* behind by a failed alloc, is never handed out again.                    *)
(***************************************************************************)
DistinctDataFiles ==
  \A p, q \in Procs :
    p # q /\ ts[p].file # NoFile => ts[p].file # ts[q].file

(***************************************************************************)
(* A failed guac_terminal_typescript_alloc leaves no data file behind: the *)
(* comment of open_data_file promises a fresh name per typescript, yet     *)
(* when the timing file cannot be opened alloc only closes the data file   *)
(* it has just created.                                                    *)
(***************************************************************************)
OrphanFree ==
  \A p \in Procs :
    ts[p].state = "failed" /\ ts[p].file # NoFile => ts[p].file \notin exists

=============================================================================

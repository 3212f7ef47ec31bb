-------------------------- MODULE TypescriptProofs --------------------------
(***************************************************************************)
(* Proofs about the typescript recorder, for every number of processes,    *)
(* every buffer size and every number of suffixes.                         *)
(*                                                                         *)
(* DataIntegrity is not inductive by itself: a step of another process     *)
(* could write into the same file.  It is strengthened by OwnedFiles: the  *)
(* data file of a recording typescript exists, so open_data_file never     *)
(* hands it out again, and no two typescripts share a data file.           *)
(***************************************************************************)
EXTENDS Typescript, SequenceTheorems, TLAPS

USE ConstantsAssumption

(* The data files of typescripts that record exist and are distinct.      *)
OwnedFiles ==
  /\ \A p \in Procs : Owner(p) => ts[p].file \in exists
  /\ \A p, q \in Procs : Owner(p) /\ Owner(q) /\ p # q => ts[p].file # ts[q].file

(* A process that has not allocated its typescript has written nothing.   *)
Fresh == \A p \in Procs : ts[p].state = "none" => written[p] = <<>>

IInv == TypeOK /\ OwnedFiles /\ Fresh /\ DataIntegrity

-----------------------------------------------------------------------------
(* The delay of a timing line is an integer.                              *)
LEMMA ElapsedType ==
  ASSUME TypeOK, NEW p \in Procs
  PROVE  Elapsed(p) \in Int
<1>1. now - ts[p].last_flush \in Int
  BY DEF TypeOK, TypescriptRecord
<1>2. Wrap(now - ts[p].last_flush) \in Int
  BY <1>1 DEF Wrap
<1>. QED  BY <1>2 DEF Elapsed

(* What a flush leaves behind is well typed.                              *)
LEMMA FlushType ==
  ASSUME TypeOK, NEW p \in Procs, ts[p].file \in DataNames
  PROVE  /\ FlushedTiming(p) \in Seq(TimingRecord)
         /\ FlushedData(p) \in [DataNames -> Seq(DataBytes)]
         /\ FlushedData(p)[ts[p].file] = data[ts[p].file] \o ts[p].buffer
         /\ \A n \in DataNames \ {ts[p].file} : FlushedData(p)[n] = data[n]
         /\ FlushedLast(p) \in Int
<1>1. Elapsed(p) \in Int
  BY ElapsedType
<1>2. FlushedTiming(p) \in Seq(TimingRecord)
  <2>1. Len(ts[p].buffer) \in Nat
    BY LenProperties DEF TypeOK, TypescriptRecord
  <2>2. [delay |-> Elapsed(p), length |-> Len(ts[p].buffer)] \in TimingRecord
    BY <1>1, <2>1 DEF TimingRecord
  <2>. QED  BY <2>2, AppendProperties DEF TypeOK, FlushedTiming
<1>3. ts[p].buffer \in Seq(DataBytes) /\ data[ts[p].file] \in Seq(DataBytes)
  BY SeqMonotonic DEF TypeOK, DataBytes, TypescriptRecord
<1>4. data[ts[p].file] \o ts[p].buffer \in Seq(DataBytes)
  BY <1>3, ConcatProperties
<1>5. FlushedData(p) \in [DataNames -> Seq(DataBytes)]
  BY <1>4 DEF TypeOK, FlushedData
<1>6. FlushedLast(p) \in Int
  BY DEF TypeOK, FlushedLast, TypescriptRecord
<1>. QED  BY <1>2, <1>5, <1>6 DEF FlushedData, TypeOK

-----------------------------------------------------------------------------
(* Appending to the right operand of a concatenation.                     *)
LEMMA ConcatAppend ==
  ASSUME NEW S, NEW s \in Seq(S), NEW t \in Seq(S), NEW e \in S
  PROVE  s \o Append(t, e) = Append(s \o t, e)
<1>1. s \o t \in Seq(S) /\ <<e>> \in Seq(S)
  BY ConcatProperties
<1>2. s \o Append(t, e) = s \o (t \o <<e>>)
  BY AppendIsConcat
<1>3. Append(s \o t, e) = (s \o t) \o <<e>>
  BY <1>1, AppendIsConcat
<1>. QED  BY <1>1, <1>2, <1>3, ConcatAssociative

(* The same, for the contents of data files.                              *)
LEMMA ConcatAppendData ==
  ASSUME NEW s \in Seq(DataBytes), NEW t \in Seq(DataBytes), NEW e \in DataBytes
  PROVE  s \o Append(t, e) = Append(s \o t, e)
BY ConcatAppend

(* An owner's data file is a real file name.                              *)
LEMMA OwnerFile ==
  ASSUME TypeOK, OwnedFiles, NEW p \in Procs, Owner(p)
  PROVE  ts[p].file \in DataNames
BY DEF TypeOK, OwnedFiles

-----------------------------------------------------------------------------
THEOREM InitIInv == Init => IInv
<1> SUFFICES ASSUME Init PROVE IInv
  OBVIOUS
<1>1. TypeOK
  BY EmptySeq DEF Init, TypeOK, States, DataBytes, TypescriptRecord
<1>2. OwnedFiles /\ Fresh /\ DataIntegrity
  BY DEF Init, OwnedFiles, Fresh, DataIntegrity, Owner
<1>. QED  BY <1>1, <1>2 DEF IInv

-----------------------------------------------------------------------------
(* A step of process p that leaves the other typescripts, their histories  *)
(* and their data files alone keeps DataIntegrity when it keeps it for p.  *)
LEMMA DataIntegrityStep ==
  ASSUME DataIntegrity, NEW p \in Procs,
         \A q \in Procs \ {p} : ts'[q] = ts[q] /\ written'[q] = written[q],
         \A q \in Procs \ {p} : Owner(q) => data'[ts[q].file] = data[ts[q].file],
         ts'[p].state = "live" =>
           data'[ts'[p].file] \o ts'[p].buffer = <<Header>> \o written'[p],
         ts'[p].state = "freed" =>
           data'[ts'[p].file] = <<Header>> \o written'[p] \o <<Footer>>
  PROVE  DataIntegrity'
<1> SUFFICES ASSUME NEW q \in Procs
             PROVE  /\ ts'[q].state = "live" =>
                         data'[ts'[q].file] \o ts'[q].buffer = <<Header>> \o written'[q]
                    /\ ts'[q].state = "freed" =>
                         data'[ts'[q].file] = <<Header>> \o written'[q] \o <<Footer>>
  BY DEF DataIntegrity
<1>1. CASE q = p
  BY <1>1
<1>2. CASE q # p
  <2>1. ts'[q] = ts[q] /\ written'[q] = written[q]
    BY <1>2
  <2>2. ts[q].state \in {"live", "freed"} => data'[ts[q].file] = data[ts[q].file]
    BY <1>2 DEF Owner
  <2>3. /\ ts[q].state = "live" =>
             data[ts[q].file] \o ts[q].buffer = <<Header>> \o written[q]
        /\ ts[q].state = "freed" =>
             data[ts[q].file] = <<Header>> \o written[q] \o <<Footer>>
    BY DEF DataIntegrity
  <2>. QED  BY <2>1, <2>2, <2>3
<1>. QED  BY <1>1, <1>2

-----------------------------------------------------------------------------
(* guac_terminal_typescript_write keeps the bytes in order across the     *)
(* flush of a full buffer.                                                *)
LEMMA WriteIInv ==
  ASSUME IInv, NEW p \in Procs, NEW c \in Bytes, Write(p, c)
  PROVE  IInv'
<1> USE DEF IInv
<1>1. Owner(p) /\ ts[p].file \in DataNames
  BY OwnerFile DEF Write, Owner
<1>2. ts[p].buffer \in Seq(DataBytes) /\ data[ts[p].file] \in Seq(DataBytes)
      /\ written[p] \in Seq(DataBytes) /\ c \in DataBytes
  BY <1>1, SeqMonotonic DEF TypeOK, DataBytes, TypescriptRecord
<1>3. data[ts[p].file] \o ts[p].buffer = <<Header>> \o written[p]
  BY <1>1 DEF DataIntegrity, Write
<1>4. written'[p] = Append(written[p], c) /\ written' \in [Procs -> Seq(Bytes)]
      /\ \A q \in Procs \ {p} : written'[q] = written[q]
  BY AppendProperties DEF TypeOK, Write
<1>6. <<Header>> \in Seq(DataBytes)
  BY DEF DataBytes
<1>7. UNCHANGED <<dir, exists, timingExists, now>>
  BY DEF Write
<1>10. CASE Len(ts[p].buffer) = BufferSize
  <2>1. timing' = FlushedTiming(p) /\ data' = FlushedData(p)
        /\ ts' = [ts EXCEPT ![p].buffer = <<c>>, ![p].last_flush = now]
    BY <1>10 DEF Write
  <2>2. /\ ts' \in [Procs -> TypescriptRecord]
        /\ ts'[p].buffer = <<c>>
        /\ \A q \in Procs : ts'[q].state = ts[q].state /\ ts'[q].file = ts[q].file
        /\ \A q \in Procs \ {p} : ts'[q] = ts[q]
    <3>1. <<c>> \in Seq(Bytes) /\ now \in Int
      BY DEF TypeOK
    <3>. QED  BY <2>1, <3>1 DEF TypeOK, TypescriptRecord
  <2>3. TypeOK'
    <3>1. \A q \in Procs : Len(ts'[q].buffer) <= BufferSize
      <4>1. Len(ts'[p].buffer) <= BufferSize
        BY <2>2
      <4>2. \A q \in Procs \ {p} : Len(ts'[q].buffer) <= BufferSize
        BY <2>2 DEF TypeOK
      <4>. QED  BY <4>1, <4>2
    <3>. QED  BY <1>1, <1>4, <1>7, <2>1, <2>2, <3>1, FlushType DEF TypeOK
  <2>4. OwnedFiles' /\ Fresh'
    <3>1. OwnedFiles'
      BY <1>7, <2>2 DEF OwnedFiles, Owner
    <3>2. ts[p].state = "live"
      BY DEF Write
    <3>3. Fresh'
      BY <1>4, <2>2, <3>2 DEF Fresh
    <3>. QED  BY <3>1, <3>3
  <2>5. data'[ts[p].file] \o ts'[p].buffer = <<Header>> \o written'[p]
    <3>1. data'[ts[p].file] = <<Header>> \o written[p]
      BY <1>1, <1>3, <2>1, FlushType
    <3>3. <<Header>> \o written[p] \in Seq(DataBytes)
      BY <1>2, <1>6, ConcatProperties
    <3>4. <<Header>> \o Append(written[p], c) = Append(<<Header>> \o written[p], c)
      BY <1>2, <1>6, ConcatAppendData
    <3>5. Append(<<Header>> \o written[p], c) = (<<Header>> \o written[p]) \o <<c>>
      BY <1>2, <3>3, AppendIsConcat
    <3>. QED  BY <1>4, <2>2, <3>1, <3>4, <3>5
  <2>6. ASSUME NEW q \in Procs \ {p}, Owner(q)
        PROVE  data'[ts[q].file] = data[ts[q].file]
    <3>1. ts[q].file \in DataNames /\ ts[q].file # ts[p].file
      BY <1>1, <2>6, OwnerFile DEF OwnedFiles
    <3>. QED  BY <1>1, <2>1, <3>1, FlushType
  <2>7. DataIntegrity'
    <3>1. \A q \in Procs \ {p} : ts'[q] = ts[q] /\ written'[q] = written[q]
      BY <1>4, <2>2
    <3>2. ts'[p].state = "live" /\ ts'[p].file = ts[p].file
      BY <2>2 DEF Write
    <3>. QED  BY <2>5, <2>6, <3>1, <3>2, DataIntegrityStep
  <2>. QED  BY <2>3, <2>4, <2>7
<1>11. CASE Len(ts[p].buffer) # BufferSize
  <2>1. UNCHANGED <<timing, data>>
        /\ ts' = [ts EXCEPT ![p].buffer = Append(@, c)]
    BY <1>11 DEF Write
  <2>2. /\ ts' \in [Procs -> TypescriptRecord]
        /\ ts'[p].buffer = Append(ts[p].buffer, c)
        /\ \A q \in Procs : ts'[q].state = ts[q].state /\ ts'[q].file = ts[q].file
        /\ \A q \in Procs \ {p} : ts'[q] = ts[q]
    <3>1. ts[p].buffer \in Seq(Bytes)
      BY DEF TypeOK, TypescriptRecord
    <3>2. Append(ts[p].buffer, c) \in Seq(Bytes)
      BY <3>1, AppendProperties
    <3>. QED  BY <2>1, <3>2 DEF TypeOK, TypescriptRecord
  <2>3. TypeOK'
    <3>1. Len(Append(ts[p].buffer, c)) = Len(ts[p].buffer) + 1
      BY AppendProperties DEF TypeOK, TypescriptRecord
    <3>2. Len(ts[p].buffer) < BufferSize
      BY <1>11, LenProperties DEF TypeOK, TypescriptRecord
    <3>3. \A q \in Procs : Len(ts'[q].buffer) <= BufferSize
      <4>1. Len(ts'[p].buffer) <= BufferSize
        BY <2>2, <3>1, <3>2
      <4>2. \A q \in Procs \ {p} : Len(ts'[q].buffer) <= BufferSize
        BY <2>2 DEF TypeOK
      <4>. QED  BY <4>1, <4>2
    <3>. QED  BY <1>4, <1>7, <2>1, <2>2, <3>3 DEF TypeOK
  <2>4. OwnedFiles' /\ Fresh'
    <3>1. OwnedFiles'
      BY <1>7, <2>2 DEF OwnedFiles, Owner
    <3>2. ts[p].state = "live"
      BY DEF Write
    <3>3. Fresh'
      BY <1>4, <2>2, <3>2 DEF Fresh
    <3>. QED  BY <3>1, <3>3
  <2>5. data'[ts[p].file] \o ts'[p].buffer = <<Header>> \o written'[p]
    <3>2. data[ts[p].file] \o Append(ts[p].buffer, c) = Append(data[ts[p].file] \o ts[p].buffer, c)
      BY <1>2, ConcatAppendData
    <3>3. <<Header>> \o Append(written[p], c) = Append(<<Header>> \o written[p], c)
      BY <1>2, <1>6, ConcatAppendData
    <3>. QED  BY <1>3, <1>4, <2>1, <2>2, <3>2, <3>3
  <2>7. DataIntegrity'
    <3>1. \A q \in Procs \ {p} : ts'[q] = ts[q] /\ written'[q] = written[q]
      BY <1>4, <2>2
    <3>2. ts'[p].state = "live" /\ ts'[p].file = ts[p].file
      BY <2>2 DEF Write
    <3>. QED  BY <2>1, <2>5, <3>1, <3>2, DataIntegrityStep
  <2>. QED  BY <2>3, <2>4, <2>7
<1>. QED  BY <1>10, <1>11

-----------------------------------------------------------------------------
(* guac_terminal_typescript_flush moves the buffer to the end of the data  *)
(* file of its own typescript and to no other file.                       *)
LEMMA FlushIInv ==
  ASSUME IInv, NEW p \in Procs, Flush(p)
  PROVE  IInv'
<1> USE DEF IInv
<1>1. Owner(p) /\ ts[p].file \in DataNames
  BY OwnerFile DEF Flush, Owner
<1>2. ts[p].buffer \in Seq(DataBytes) /\ data[ts[p].file] \in Seq(DataBytes)
  BY <1>1, SeqMonotonic DEF TypeOK, DataBytes, TypescriptRecord
<1>3. data[ts[p].file] \o ts[p].buffer = <<Header>> \o written[p]
  BY <1>1 DEF DataIntegrity, Flush
<1>4. /\ ts' \in [Procs -> TypescriptRecord]
      /\ ts'[p].buffer = <<>>
      /\ \A q \in Procs : ts'[q].state = ts[q].state /\ ts'[q].file = ts[q].file
      /\ \A q \in Procs \ {p} : ts'[q] = ts[q]
  <2>1. FlushedLast(p) \in Int /\ << >> \in Seq(Bytes)
    BY <1>1, FlushType, EmptySeq
  <2>. QED  BY <2>1 DEF Flush, TypeOK, TypescriptRecord
<1>5. TypeOK'
  <2>1. \A q \in Procs : Len(ts'[q].buffer) <= BufferSize
    <3>1. Len(ts'[p].buffer) <= BufferSize
      BY <1>4
    <3>2. \A q \in Procs \ {p} : Len(ts'[q].buffer) <= BufferSize
      BY <1>4 DEF TypeOK
    <3>. QED  BY <3>1, <3>2
  <2>. QED  BY <1>1, <1>4, <2>1, FlushType DEF Flush, TypeOK
<1>6. OwnedFiles' /\ Fresh'
  BY <1>4 DEF Flush, OwnedFiles, Fresh, Owner
<1>7. data'[ts[p].file] \o ts'[p].buffer = <<Header>> \o written'[p]
  <2>1. data'[ts[p].file] = <<Header>> \o written[p]
    BY <1>1, <1>3, FlushType DEF Flush
  <2>2. data'[ts[p].file] \in Seq(DataBytes)
    <3>1. <<Header>> \in Seq(DataBytes) /\ written[p] \in Seq(DataBytes)
      BY SeqMonotonic DEF TypeOK, DataBytes
    <3>. QED  BY <2>1, <3>1, ConcatProperties
  <2>3. data'[ts[p].file] \o << >> = data'[ts[p].file]
    BY <2>2, ConcatEmptySeq
  <2>. QED  BY <1>4, <2>1, <2>3 DEF Flush
<1>8. ASSUME NEW q \in Procs \ {p}, Owner(q)
      PROVE  data'[ts[q].file] = data[ts[q].file]
  <2>1. ts[q].file \in DataNames /\ ts[q].file # ts[p].file
    BY <1>1, <1>8, OwnerFile DEF OwnedFiles
  <2>. QED  BY <1>1, <2>1, FlushType DEF Flush
<1>9. DataIntegrity'
  <2>1. \A q \in Procs \ {p} : ts'[q] = ts[q] /\ written'[q] = written[q]
    BY <1>4 DEF Flush
  <2>2. ts'[p].state = "live" /\ ts'[p].file = ts[p].file
    BY <1>4 DEF Flush
  <2>. QED  BY <1>7, <1>8, <2>1, <2>2, DataIntegrityStep
<1>. QED  BY <1>5, <1>6, <1>9

-----------------------------------------------------------------------------
(* guac_terminal_typescript_free flushes and then closes the data file     *)
(* with the footer, so the file is complete.                              *)
LEMMA FreeIInv ==
  ASSUME IInv, NEW p \in Procs, Free(p)
  PROVE  IInv'
<1> USE DEF IInv
<1>1. Owner(p) /\ ts[p].file \in DataNames
  BY OwnerFile DEF Free, Owner
<1>2. ts[p].buffer \in Seq(DataBytes) /\ data[ts[p].file] \in Seq(DataBytes)
      /\ written[p] \in Seq(DataBytes)
  BY <1>1, SeqMonotonic DEF TypeOK, DataBytes, TypescriptRecord
<1>3. data[ts[p].file] \o ts[p].buffer = <<Header>> \o written[p]
  BY <1>1 DEF DataIntegrity, Free
<1>4. /\ ts' \in [Procs -> TypescriptRecord]
      /\ ts'[p].buffer = <<>> /\ ts'[p].state = "freed" /\ ts'[p].file = ts[p].file
      /\ \A q \in Procs \ {p} : ts'[q] = ts[q]
  <2>1. FlushedLast(p) \in Int /\ << >> \in Seq(Bytes)
    BY <1>1, FlushType, EmptySeq
  <2>. QED  BY <2>1 DEF Free, TypeOK, TypescriptRecord, States
<1>5. <<Header>> \o written[p] \in Seq(DataBytes) /\ Footer \in DataBytes
  BY <1>2, ConcatProperties DEF DataBytes
<1>6. data' = [FlushedData(p) EXCEPT ![ts[p].file] = Append(<<Header>> \o written[p], Footer)]
  BY <1>1, <1>3, FlushType DEF Free
<1>7. TypeOK'
  <2>1. \A q \in Procs : Len(ts'[q].buffer) <= BufferSize
    <3>1. Len(ts'[p].buffer) <= BufferSize
      BY <1>4
    <3>2. \A q \in Procs \ {p} : Len(ts'[q].buffer) <= BufferSize
      BY <1>4 DEF TypeOK
    <3>. QED  BY <3>1, <3>2
  <2>2. Append(<<Header>> \o written[p], Footer) \in Seq(DataBytes)
    BY <1>5, AppendProperties
  <2>3. data' \in [DataNames -> Seq(DataBytes)]
    BY <1>1, <1>6, <2>2, FlushType
  <2>. QED  BY <1>1, <1>4, <2>1, <2>3, FlushType DEF Free, TypeOK
<1>8. OwnedFiles' /\ Fresh'
  BY <1>1, <1>4 DEF Free, OwnedFiles, Fresh, Owner
<1>9. data'[ts[p].file] = <<Header>> \o written'[p] \o <<Footer>>
  <2>1. Append(<<Header>> \o written[p], Footer) = (<<Header>> \o written[p]) \o <<Footer>>
    BY <1>5, AppendIsConcat
  <2>. QED  BY <1>1, <1>6, <2>1, FlushType DEF Free
<1>10. ASSUME NEW q \in Procs \ {p}, Owner(q)
       PROVE  data'[ts[q].file] = data[ts[q].file]
  <2>1. ts[q].file \in DataNames /\ ts[q].file # ts[p].file
    BY <1>1, <1>10, OwnerFile DEF OwnedFiles
  <2>. QED  BY <1>1, <1>6, <2>1, FlushType
<1>11. DataIntegrity'
  <2>1. \A q \in Procs \ {p} : ts'[q] = ts[q] /\ written'[q] = written[q]
    BY <1>4 DEF Free
  <2>. QED  BY <1>4, <1>9, <1>10, <2>1, DataIntegrityStep DEF Free
<1>. QED  BY <1>7, <1>8, <1>11

-----------------------------------------------------------------------------
(* A failed mkdir only marks the typescript as failed.                    *)
LEMMA AllocMkdirFailsIInv ==
  ASSUME IInv, NEW p \in Procs, AllocMkdirFails(p)
  PROVE  IInv'
<1> USE DEF IInv
<1>1. ts' \in [Procs -> TypescriptRecord]
  BY DEF AllocMkdirFails, TypeOK, TypescriptRecord, States
<1>2. ~Owner(p) /\ ts'[p].state = "failed" /\ \A q \in Procs \ {p} : ts'[q] = ts[q]
  BY DEF AllocMkdirFails, Owner, TypeOK
<1>3. TypeOK'
  BY <1>1, <1>2 DEF AllocMkdirFails, TypeOK
<1>4. OwnedFiles' /\ Fresh'
  BY <1>2 DEF AllocMkdirFails, OwnedFiles, Fresh, Owner
<1>5. DataIntegrity'
  BY <1>2, DataIntegrityStep DEF AllocMkdirFails, Owner
<1>. QED  BY <1>3, <1>4, <1>5

(* Time passing changes no file and no typescript.                        *)
LEMMA TickIInv ==
  ASSUME IInv, Tick
  PROVE  IInv'
<1> USE DEF IInv
<1>1. now' \in 0 .. MaxTime
  BY DEF Tick, TypeOK
<1>. QED  BY <1>1 DEF Tick, TypeOK, OwnedFiles, Fresh, DataIntegrity, Owner

(* Stuttering steps keep the invariant.                                   *)
LEMMA StutterIInv ==
  ASSUME IInv, UNCHANGED vars
  PROVE  IInv'
BY DEF IInv, vars, TypeOK, OwnedFiles, Fresh, DataIntegrity, Owner

-----------------------------------------------------------------------------
(* guac_terminal_typescript_alloc: the data file it creates is a name no   *)
(* other typescript holds (O_EXCL), and the header starts an empty record. *)
LEMMA AllocIInv ==
  ASSUME IInv, NEW p \in Procs, NEW cp \in BOOLEAN, Alloc(p, cp)
  PROVE  IInv'
<1> USE DEF IInv
<1>1. ts[p].state = "none" /\ ~Owner(p) /\ written[p] = << >>
      /\ written' = written /\ now' = now /\ dir' \in BOOLEAN
  BY DEF Alloc, Owner, Fresh, TypeOK
<1>. PICK f \in DataNames \cup {NoFile} :
       /\ OpenDataFile(f, dir \/ cp)
       /\ IF f = NoFile
            THEN /\ ts' = [ts EXCEPT ![p].state = "failed"]
                 /\ UNCHANGED <<exists, data, timingExists, timing>>
          ELSE IF timingExists
            THEN /\ exists' = exists \cup {f}
                 /\ ts' = [ts EXCEPT ![p].state = "failed", ![p].file = f]
                 /\ UNCHANGED <<data, timingExists, timing>>
          ELSE /\ exists' = exists \cup {f}
               /\ timingExists' = TRUE
               /\ timing' = <<>>
               /\ data' = [data EXCEPT ![f] = <<Header>>]
               /\ ts' = [ts EXCEPT ![p] = [state |-> "live", file |-> f,
                                           buffer |-> <<>>, last_flush |-> now]]
  BY DEF Alloc
<1>2. f # NoFile => f \in DataNames /\ f \notin exists
  BY DEF OpenDataFile, FreeNames
<1>3. CASE f = NoFile \/ (f # NoFile /\ timingExists)
  <2>1. /\ ts' \in [Procs -> TypescriptRecord]
        /\ ts'[p].state = "failed"
        /\ ts'[p].buffer = ts[p].buffer
        /\ \A q \in Procs \ {p} : ts'[q] = ts[q]
        /\ exists \subseteq exists' /\ exists' \subseteq DataNames
        /\ UNCHANGED <<data, timingExists, timing>>
    <3>1. CASE f = NoFile
      <4>1. ts' = [ts EXCEPT ![p].state = "failed"]
            /\ UNCHANGED <<exists, data, timingExists, timing>>
        BY <3>1
      <4>. QED  BY <4>1 DEF TypeOK, TypescriptRecord, States
    <3>2. CASE f # NoFile /\ timingExists
      <4>1. f \in DataNames
        BY <1>2, <3>2
      <4>2. /\ exists' = exists \cup {f}
            /\ ts' = [ts EXCEPT ![p].state = "failed", ![p].file = f]
            /\ UNCHANGED <<data, timingExists, timing>>
        BY <3>2
      <4>3. [ts[p] EXCEPT !.state = "failed", !.file = f] \in TypescriptRecord
        <5>1. ts[p] \in TypescriptRecord
          BY DEF TypeOK
        <5>2. f \in DataNames \cup {NoFile} /\ "failed" \in States
          BY <4>1 DEF States
        <5>. QED  BY <5>1, <5>2 DEF TypescriptRecord
      <4>4. ts' = [ts EXCEPT ![p] = [ts[p] EXCEPT !.state = "failed", !.file = f]]
        BY <4>2 DEF TypeOK
      <4>. QED  BY <4>2, <4>3, <4>4 DEF TypeOK
    <3>. QED  BY <1>3, <3>1, <3>2
  <2>2. TypeOK'
    BY <1>1, <2>1 DEF TypeOK
  <2>3. OwnedFiles' /\ Fresh'
    <3>1. ~Owner(p)' /\ \A q \in Procs \ {p} : Owner(q)' = Owner(q)
      BY <2>1 DEF Owner
    <3>2. \A q \in Procs \ {p} : Owner(q) => ts'[q].file \in exists'
      BY <2>1 DEF OwnedFiles
    <3>3. OwnedFiles'
      BY <2>1, <3>1, <3>2 DEF OwnedFiles
    <3>4. Fresh'
      BY <1>1, <2>1 DEF Fresh
    <3>. QED  BY <3>3, <3>4
  <2>4. DataIntegrity'
    BY <1>1, <2>1, DataIntegrityStep DEF Owner
  <2>. QED  BY <2>2, <2>3, <2>4
<1>4. CASE f # NoFile /\ ~timingExists
  <2>1. f \in DataNames /\ f \notin exists
    BY <1>2, <1>4
  <2>2. /\ exists' = exists \cup {f} /\ timingExists' = TRUE /\ timing' = << >>
        /\ data' = [data EXCEPT ![f] = <<Header>>]
        /\ ts' = [ts EXCEPT ![p] = [state |-> "live", file |-> f,
                                    buffer |-> << >>, last_flush |-> now]]
    BY <1>4
  <2>3. /\ ts' \in [Procs -> TypescriptRecord]
        /\ ts'[p] = [state |-> "live", file |-> f, buffer |-> << >>, last_flush |-> now]
        /\ \A q \in Procs \ {p} : ts'[q] = ts[q]
    <3>1. << >> \in Seq(Bytes) /\ now \in Int
      BY EmptySeq DEF TypeOK
    <3>. QED  BY <2>1, <2>2, <3>1 DEF TypeOK, TypescriptRecord, States
  <2>4. TypeOK'
    <3>1. <<Header>> \in Seq(DataBytes) /\ << >> \in Seq(TimingRecord)
      BY EmptySeq DEF DataBytes
    <3>2. data' \in [DataNames -> Seq(DataBytes)]
      BY <2>2, <3>1 DEF TypeOK
    <3>3. \A q \in Procs : Len(ts'[q].buffer) <= BufferSize
      <4>1. Len(ts'[p].buffer) <= BufferSize
        BY <2>3, EmptySeq
      <4>. QED  BY <2>3, <4>1 DEF TypeOK
    <3>. QED  BY <1>1, <2>1, <2>2, <2>3, <3>1, <3>2, <3>3 DEF TypeOK
  <2>5. \A q \in Procs \ {p} : Owner(q) => ts[q].file \in exists /\ ts[q].file # f
    BY <2>1 DEF OwnedFiles
  <2>6. OwnedFiles'
    BY <2>2, <2>3, <2>5 DEF OwnedFiles, Owner
  <2>7. Fresh'
    BY <1>1, <2>3 DEF Fresh
  <2>8. DataIntegrity'
    <3>1. \A q \in Procs \ {p} : Owner(q) => data'[ts[q].file] = data[ts[q].file]
      BY <2>2, <2>5, OwnerFile
    <3>2. data'[ts'[p].file] \o ts'[p].buffer = <<Header>> \o written'[p]
      BY <1>1, <2>1, <2>2, <2>3 DEF TypeOK
    <3>3. \A q \in Procs \ {p} : ts'[q] = ts[q] /\ written'[q] = written[q]
      BY <1>1, <2>3
    <3>4. ts'[p].state = "live" /\ DataIntegrity
      BY <2>3
    <3>. QED  BY <3>1, <3>2, <3>3, <3>4, DataIntegrityStep
  <2>. QED  BY <2>4, <2>6, <2>7, <2>8
<1>. QED  BY <1>3, <1>4

-----------------------------------------------------------------------------
(* Every step of the recorder keeps IInv.                                 *)
LEMMA NextIInv ==
  ASSUME IInv, [Next]_vars
  PROVE  IInv'
<1>1. CASE \E p \in Procs : AllocMkdirFails(p)
  BY <1>1, AllocMkdirFailsIInv
<1>2. CASE \E p \in Procs, cp \in BOOLEAN : Alloc(p, cp)
  BY <1>2, AllocIInv
<1>3. CASE \E p \in Procs, c \in Bytes : Write(p, c)
  BY <1>3, WriteIInv
<1>4. CASE \E p \in Procs : Flush(p)
  BY <1>4, FlushIInv
<1>5. CASE \E p \in Procs : Free(p)
  BY <1>5, FreeIInv
<1>6. CASE Tick
  BY <1>6, TickIInv
<1>7. CASE UNCHANGED vars
  BY <1>7, StutterIInv
<1>. QED  BY <1>1, <1>2, <1>3, <1>4, <1>5, <1>6, <1>7 DEF Next

(* The typescript recorder is well typed in every reachable state: buffers *)
(* never exceed BUFFER_SIZE, and file contents, timing lines and clock    *)
(* stay in their domains (write flushes a full buffer before appending).  *)
THEOREM TypeCorrect == Spec => []TypeOK
<1>1. Init => IInv
  BY InitIInv
<1>2. IInv /\ [Next]_vars => IInv'
  BY NextIInv
<1>3. IInv => TypeOK
  BY DEF IInv
<1>. QED  BY <1>1, <1>2, <1>3, PTL DEF Spec

(* For every number of processes, buffer size and number of name suffixes, *)
(* every byte passed to guac_terminal_typescript_write reaches the data    *)
(* file of its own typescript once and in order, between header and footer *)
(* (the write/flush buffer boundary and O_EXCL naming in open_data_file).  *)
THEOREM DataIntegrityHolds == Spec => []DataIntegrity
<1>1. Init => IInv
  BY InitIInv
<1>2. IInv /\ [Next]_vars => IInv'
  BY NextIInv
<1>3. IInv => DataIntegrity
  BY DEF IInv
<1>. QED  BY <1>1, <1>2, <1>3, PTL DEF Spec

-----------------------------------------------------------------------------
(***************************************************************************)
(* Distinct data files.  DistinctDataFiles is not inductive alone: a       *)
(* process's file must also still exist, so that open_data_file, which     *)
(* only hands out names absent from the directory, never hands it out      *)
(* again.  Nothing in the model removes a data file.                       *)
(***************************************************************************)
HeldFiles == \A p \in Procs : ts[p].file # NoFile => ts[p].file \in exists

FInv == HeldFiles /\ DistinctDataFiles

(* A step that keeps the directory and every process's file keeps FInv.   *)
LEMMA FileFrame ==
  ASSUME FInv, exists' = exists, \A q \in Procs : ts'[q].file = ts[q].file
  PROVE  FInv'
BY DEF FInv, HeldFiles, DistinctDataFiles

(* guac_terminal_typescript_alloc gives p a name absent from the directory *)
(* and adds it, or leaves p's file as it was.                              *)
LEMMA AllocFInv ==
  ASSUME TypeOK, FInv, NEW p \in Procs, NEW cp \in BOOLEAN, Alloc(p, cp)
  PROVE  FInv'
<1>. PICK f \in DataNames \cup {NoFile} :
       /\ OpenDataFile(f, dir \/ cp)
       /\ IF f = NoFile
            THEN /\ ts' = [ts EXCEPT ![p].state = "failed"]
                 /\ UNCHANGED <<exists, data, timingExists, timing>>
          ELSE IF timingExists
            THEN /\ exists' = exists \cup {f}
                 /\ ts' = [ts EXCEPT ![p].state = "failed", ![p].file = f]
                 /\ UNCHANGED <<data, timingExists, timing>>
          ELSE /\ exists' = exists \cup {f}
               /\ timingExists' = TRUE
               /\ timing' = <<>>
               /\ data' = [data EXCEPT ![f] = <<Header>>]
               /\ ts' = [ts EXCEPT ![p] = [state |-> "live", file |-> f,
                                           buffer |-> <<>>, last_flush |-> now]]
  BY DEF Alloc
<1>1. CASE f = NoFile
  <2>1. ts' = [ts EXCEPT ![p].state = "failed"] /\ exists' = exists
    BY <1>1
  <2>2. \A q \in Procs : ts'[q].file = ts[q].file
    BY <2>1 DEF TypeOK, TypescriptRecord
  <2>. QED  BY <2>1, <2>2, FileFrame
<1>2. CASE f # NoFile
  <2>1. f \notin exists
    BY <1>2 DEF OpenDataFile, FreeNames
  <2>2. /\ exists' = exists \cup {f}
        /\ ts'[p].file = f
        /\ \A q \in Procs \ {p} : ts'[q] = ts[q]
    BY <1>2 DEF TypeOK, TypescriptRecord
  <2>3. \A q \in Procs \ {p} : ts[q].file # NoFile => ts[q].file # f
    BY <2>1 DEF FInv, HeldFiles
  <2>. QED  BY <1>2, <2>2, <2>3 DEF FInv, HeldFiles, DistinctDataFiles
<1>. QED  BY <1>1, <1>2

(* Every step of the recorder keeps FInv: only alloc assigns a data file. *)
LEMMA NextFInv ==
  ASSUME TypeOK, FInv, [Next]_vars
  PROVE  FInv'
<1>1. CASE \E p \in Procs : AllocMkdirFails(p)
  <2>. PICK p \in Procs : AllocMkdirFails(p)
    BY <1>1
  <2>1. exists' = exists /\ \A q \in Procs : ts'[q].file = ts[q].file
    BY DEF AllocMkdirFails, TypeOK, TypescriptRecord
  <2>. QED  BY <2>1, FileFrame
<1>2. CASE \E p \in Procs, cp \in BOOLEAN : Alloc(p, cp)
  BY <1>2, AllocFInv
<1>3. CASE \E p \in Procs, c \in Bytes : Write(p, c)
  <2>. PICK p \in Procs, c \in Bytes : Write(p, c)
    BY <1>3
  <2>1. /\ exists' = exists
        /\ \/ ts' = [ts EXCEPT ![p].buffer = <<c>>, ![p].last_flush = now]
           \/ ts' = [ts EXCEPT ![p].buffer = Append(@, c)]
    BY DEF Write
  <2>2. exists' = exists /\ \A q \in Procs : ts'[q].file = ts[q].file
    <3>1. CASE ts' = [ts EXCEPT ![p].buffer = <<c>>, ![p].last_flush = now]
      BY <2>1, <3>1 DEF TypeOK, TypescriptRecord
    <3>2. CASE ts' = [ts EXCEPT ![p].buffer = Append(@, c)]
      BY <2>1, <3>2 DEF TypeOK, TypescriptRecord
    <3>. QED  BY <2>1, <3>1, <3>2
  <2>. QED  BY <2>2, FileFrame
<1>4. CASE \E p \in Procs : Flush(p)
  <2>. PICK p \in Procs : Flush(p)
    BY <1>4
  <2>1. exists' = exists /\ \A q \in Procs : ts'[q].file = ts[q].file
    BY DEF Flush, TypeOK, TypescriptRecord
  <2>. QED  BY <2>1, FileFrame
<1>5. CASE \E p \in Procs : Free(p)
  <2>. PICK p \in Procs : Free(p)
    BY <1>5
  <2>1. exists' = exists /\ \A q \in Procs : ts'[q].file = ts[q].file
    BY DEF Free, TypeOK, TypescriptRecord
  <2>. QED  BY <2>1, FileFrame
<1>6. CASE Tick \/ UNCHANGED vars
  BY <1>6, FileFrame DEF Tick, vars
<1>. QED  BY <1>1, <1>2, <1>3, <1>4, <1>5, <1>6 DEF Next

(* For every number of processes and of name suffixes, no two processes   *)
(* ever hold the same data file, live, freed or left behind by a failed   *)
(* alloc (O_CREAT|O_EXCL and the EEXIST retry loop of open_data_file).    *)
THEOREM DistinctDataFilesHolds == Spec => []DistinctDataFiles
<1>1. Init => IInv /\ FInv
  BY InitIInv DEF Init, FInv, HeldFiles, DistinctDataFiles
<1>2. IInv /\ FInv /\ [Next]_vars => IInv' /\ FInv'
  BY NextIInv, NextFInv DEF IInv
<1>3. FInv => DistinctDataFiles
  BY DEF FInv
<1>. QED  BY <1>1, <1>2, <1>3, PTL DEF Spec

=============================================================================

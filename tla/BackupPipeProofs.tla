-------------------------- MODULE BackupPipeProofs --------------------------
(***************************************************************************)
(* A backup is whole or absent, for dumps and parts of any size.  One lemma *)
(* per group of steps shows that BackupInv is inductive.                    *)
(***************************************************************************)
EXTENDS BackupPipe, TLAPS

USE SizesAssumption

\* The invariant holds when the job starts.
LEMMA BackupInit == Init => BackupInv
<1> SUFFICES ASSUME Init PROVE BackupInv
  OBVIOUS
<1>1. 1 .. 0 = {} /\ UNION {} = {} /\ size \in Nat
  BY DEF Init
<1>2. TypeOK
  <2>1. 0 \in 0 .. size + 1 /\ \A S : {} \subseteq S
    BY <1>1
  <2> QED
    BY <2>1 DEF Init, TypeOK, Ended
<1>3. WriterInv /\ PipeInv /\ PublishedInv /\ NeverTruncated /\ SuccessIsWhole
  BY <1>1 DEF Init, WriterInv, PipeInv, PublishedInv, NeverTruncated, SuccessIsWhole
<1>4. ChunksInv
  BY <1>1 DEF Init, ChunksInv
<1> QED
  BY <1>2, <1>3, <1>4 DEF BackupInv

\* The steps of the writing goroutine and of pg_dump touch neither the chunks
\* nor the object.
LEMMA WriterStep ==
  ASSUME BackupInv, Writer \/ DumpFails
  PROVE  BackupInv'
<1> USE DEF BackupInv, TypeOK, WriterInv, PipeInv, ChunksInv, PublishedInv,
            NeverTruncated, SuccessIsWhole, Whole, Ended, Alive, uploader
<1>1. CASE CopyOut
  BY <1>1 DEF CopyOut
<1>2. CASE DumpSucceeds
  BY <1>2 DEF DumpSucceeds
<1>3. CASE DumpFails
  BY <1>3 DEF DumpFails
<1>4. CASE RunReturns
  BY <1>4 DEF RunReturns
<1>5. CASE SendDumpErr
  BY <1>5 DEF SendDumpErr
<1>6. CASE ClosePipe
  BY <1>6 DEF ClosePipe
<1> QED
  BY <1>1, <1>2, <1>3, <1>4, <1>5, <1>6 DEF Writer

\* A chunk that goes through the pipe is the next one, and it is in the part.
LEMMA TransferStep ==
  ASSUME BackupInv, Transfer
  PROVE  BackupInv'
<1> USE DEF BackupInv, TypeOK, Whole, Ended
<1>1. sent \in Nat /\ size \in Nat /\ sent + 1 <= size + 1
  BY DEF Transfer, WriterInv
<1>2. TypeOK'
  BY <1>1 DEF Transfer, uploader
<1>3. WriterInv' /\ PipeInv' /\ PublishedInv' /\ NeverTruncated' /\ SuccessIsWhole'
  BY <1>1 DEF Transfer, uploader, WriterInv, PipeInv, PublishedInv,
              NeverTruncated, SuccessIsWhole
<1>4. 1 .. sent' = (1 .. sent) \cup {sent + 1}
  BY <1>1 DEF Transfer
<1>5. ChunksInv'
  <2>1. CASE upc = "first"
    BY <1>4, <2>1 DEF Transfer, uploader, ChunksInv
  <2>2. CASE upc = "next"
    BY <1>4, <2>2 DEF Transfer, uploader, ChunksInv
  <2> QED
    BY <2>1, <2>2 DEF Transfer, Reading
<1> QED
  BY <1>2, <1>3, <1>5

\* What PutObject and CompleteMultipartUpload publish is the whole dump.
LEMMA PublishStep ==
  ASSUME BackupInv, PutObject \/ CompleteMultipart
  PROVE  BackupInv'
<1> USE DEF BackupInv, TypeOK, Whole, Ended
<1>1. PICK C \in {part, stored} : C = Whole /\ dump = "ok" /\ Publish(C)
  <2>1. pipe = "eof" /\ dump = "ok" /\ sent = size + 1
    BY DEF PutObject, CompleteMultipart, Drained, ChunksInv, PipeInv, WriterInv
  <2>2. CASE PutObject
    BY <2>1, <2>2 DEF PutObject, ChunksInv
  <2>3. CASE CompleteMultipart
    <3>1. part = {} /\ UNION flying = {} /\ part \cup (UNION flying) \cup stored = 1 .. sent
      BY <2>3 DEF CompleteMultipart, Drained, ChunksInv
    <3> QED
      BY <2>1, <2>3, <3>1 DEF CompleteMultipart
  <2> QED
    BY <2>2, <2>3
<1> QED
  BY <1>1 DEF Publish, writer, WriterInv, PipeInv, ChunksInv, PublishedInv,
              NeverTruncated, SuccessIsWhole

\* Reading, creating and aborting the upload: chunks move from the part to the
\* workers, and without an error none is lost.
LEMMA ReadStep ==
  ASSUME BackupInv,
         BuildClient \/ FirstPart \/ CreateMultipart \/ LoopHead \/ NextPart \/ AbortMultipart
  PROVE  BackupInv'
<1> USE DEF BackupInv, TypeOK, Whole, Ended
<1>1. size' = size /\ dump' = dump /\ wpc' = wpc /\ sent' = sent /\ pipe' = pipe
        /\ dumpErr' = dumpErr /\ object' = object /\ stored' = stored
  BY DEF BuildClient, FirstPart, CreateMultipart, LoopHead, NextPart, AbortMultipart,
         writer, uploader
<1>2. WriterInv' /\ PipeInv' /\ NeverTruncated'
  BY <1>1 DEF WriterInv, PipeInv, NeverTruncated
<1>3. TypeOK' /\ ChunksInv' /\ PublishedInv' /\ SuccessIsWhole'
  <2>1. CASE BuildClient
    BY <1>1, <2>1 DEF BuildClient, uploader, ChunksInv, PublishedInv, SuccessIsWhole
  <2>2. CASE FirstPart
    BY <1>1, <2>2 DEF FirstPart, ChunksInv, PublishedInv, SuccessIsWhole
  <2>3. CASE CreateMultipart
    <3>1. UNION {part} = part
      OBVIOUS
    <3>2. flying' \subseteq SUBSET Whole
      <4>1. part \in SUBSET Whole
        OBVIOUS
      <4> QED
        BY <2>3, <4>1 DEF CreateMultipart
    <3> QED
      BY <1>1, <2>3, <3>1, <3>2 DEF CreateMultipart, ChunksInv, PublishedInv, SuccessIsWhole
  <2>4. CASE LoopHead
    BY <1>1, <2>4 DEF LoopHead, uploader, ChunksInv, PublishedInv, SuccessIsWhole
  <2>5. CASE NextPart
    <3>1. UNION (flying \cup {part}) = (UNION flying) \cup part
      OBVIOUS
    <3>2. flying' \in {flying, flying \cup {part}} /\ part' = {} /\ upc' \in {"loop", "drain"}
      BY <2>5 DEF NextPart
    <3>3. TypeOK' /\ PublishedInv' /\ SuccessIsWhole'
      <4>1. flying' \subseteq SUBSET Whole
        BY <3>2
      <4> QED
        BY <1>1, <2>5, <3>2, <4>1 DEF NextPart, PublishedInv, SuccessIsWhole
    <3>4. upc' = "drain" /\ ~uerr' => pipe' = "eof"
      BY <1>1, <2>5 DEF NextPart
    <3>5. ~uerr' => part' \cup (UNION flying)' \cup stored' = 1 .. sent'
      BY <1>1, <2>5, <3>1 DEF NextPart, ChunksInv
    <3> QED
      BY <3>2, <3>3, <3>4, <3>5 DEF ChunksInv
  <2>6. CASE AbortMultipart
    BY <1>1, <2>6 DEF AbortMultipart, ChunksInv, PublishedInv, SuccessIsWhole
  <2> QED
    BY <2>1, <2>2, <2>3, <2>4, <2>5, <2>6
<1> QED
  BY <1>2, <1>3

\* A worker stores its part or leaves the uploader's error behind.
LEMMA WorkerStep ==
  ASSUME BackupInv, NEW p \in flying, SendPart(p)
  PROVE  BackupInv'
<1> USE DEF BackupInv, TypeOK, Whole, Ended
<1>1. (UNION (flying \ {p})) \cup p = UNION flying
  OBVIOUS
<1>2. TypeOK' /\ WriterInv' /\ PipeInv' /\ PublishedInv' /\ NeverTruncated' /\ SuccessIsWhole'
  <2>1. flying' \subseteq SUBSET Whole /\ stored' \subseteq Whole
    BY DEF SendPart
  <2>2. uerr' \in BOOLEAN /\ UNCHANGED <<size, dump, wpc, dumpErr, sent, pipe, upc, part,
                                        uploadErr, object>>
    BY DEF SendPart, writer
  <2> QED
    BY <2>1, <2>2 DEF WriterInv, PipeInv, PublishedInv, NeverTruncated, SuccessIsWhole
<1>3. upc \notin {"client", "first", "put", "create"}
  BY DEF ChunksInv
<1>4. ~uerr' => part' \cup (UNION flying)' \cup stored' = part \cup (UNION flying) \cup stored
  BY <1>1 DEF SendPart
<1>5. ChunksInv'
  BY <1>3, <1>4 DEF SendPart, writer, ChunksInv
<1> QED
  BY <1>2, <1>5

\* The job ends.
LEMMA EndStep ==
  ASSUME BackupInv, Exit \/ Kill
  PROVE  BackupInv'
  BY DEF BackupInv, TypeOK, WriterInv, PipeInv, ChunksInv, PublishedInv, NeverTruncated,
         SuccessIsWhole, Whole, Ended, Alive, Exit, Kill, writer, uploader

\* BackupInv is an invariant of every run of the backup job.
THEOREM BackupInvariance == Spec => []BackupInv
<1>1. BackupInv /\ [Next]_vars => BackupInv'
  <2> SUFFICES ASSUME BackupInv, [Next]_vars PROVE BackupInv'
    OBVIOUS
  <2>1. CASE Next
    BY <2>1, WriterStep, TransferStep, PublishStep, ReadStep, WorkerStep, EndStep
       DEF Next, Uploader, Worker
  <2>2. CASE UNCHANGED vars
    BY <2>2 DEF vars, BackupInv, TypeOK, WriterInv, PipeInv, ChunksInv, PublishedInv,
                NeverTruncated, SuccessIsWhole, Whole, Ended
  <2> QED
    BY <2>1, <2>2
<1> QED
  BY BackupInit, <1>1, PTL DEF Spec

\* An object under a backup's key is always the whole dump of a pg_dump that
\* succeeded, so a restore never meets a truncated one.
THEOREM BackupsNeverTruncated == Spec => []NeverTruncated
<1>1. BackupInv => NeverTruncated
  BY DEF BackupInv
<1> QED
  BY <1>1, BackupInvariance, PTL

\* A job that reports success has left a whole backup.
THEOREM BackupSuccessIsWhole == Spec => []SuccessIsWhole
<1>1. BackupInv => SuccessIsWhole
  BY DEF BackupInv
<1> QED
  BY <1>1, BackupInvariance, PTL

\* Types, for dumps of any size: never more is sent than was written.
THEOREM BackupTypes == Spec => []TypeOK
<1>1. BackupInv => TypeOK
  BY DEF BackupInv
<1> QED
  BY <1>1, BackupInvariance, PTL
=============================================================================

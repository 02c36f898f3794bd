----------------------------- MODULE BackupPipe -----------------------------
(***************************************************************************)
(* One run of `fusion-index backup-db`: pg_dump writes into a gzip writer, *)
(* a goroutine hands the compressed chunks to the main goroutine through   *)
(* an unbuffered pipe, and the main goroutine uploads them to S3 as it     *)
(* reads them, in one PutObject or as the parts of a multipart upload.     *)
(*                                                                         *)
(* Chunks are numbered.  1..size carry the dump and size + 1 is what       *)
(* gzip's Close writes: without it the stream does not decompress.         *)
(*                                                                         *)
(* Operators named X_something are seeded bugs of X.                       *)
(***************************************************************************)
EXTENDS Naturals, FiniteSets

CONSTANTS
  Sizes,      \* lengths of the compressed dump, in chunks
  PartSize,   \* chunks in a full part of the upload
  MaxParts    \* MaxUploadParts: the parts an upload may have

ASSUME SizesAssumption ==
  /\ Sizes \subseteq Nat
  /\ PartSize \in Nat \ {0}
  /\ MaxParts \in Nat

VARIABLES
  size,       \* chunks of this dump
  dump,       \* the pg_dump process
  wpc,        \* the goroutine that runs pg_dump and writes the pipe
  sent,       \* chunks that went through the pipe
  pipe,       \* how the writer closed the pipe, or "open"
  dumpErr,    \* the channel: "empty", or the value in it
  upc,        \* the main goroutine: UploadStream, then the wait, then exit
  part,       \* chunks of the part that is being read
  flying,     \* parts handed to the uploader's workers
  stored,     \* chunks of the parts S3 acknowledged
  uerr,       \* the multipart uploader's shared error is set
  uploadErr,  \* UploadStream returned an error
  object      \* chunks of the object under the backup's key, {} if none

writer   == <<size, dump, wpc, dumpErr>>
uploader == <<flying, stored, uerr, uploadErr, object>>
vars == <<size, dump, wpc, sent, pipe, dumpErr, upc, part, flying, stored,
          uerr, uploadErr, object>>

Whole == 1 .. size + 1
Ended == {"exit0", "exit1", "killed"}
Alive == upc \notin Ended

Init ==
  /\ size \in Sizes
  /\ dump = "running"
  /\ wpc = "run"
  /\ sent = 0
  /\ pipe = "open"
  /\ dumpErr = "empty"
  /\ upc = "client"
  /\ part = {}
  /\ flying = {}
  /\ stored = {}
  /\ uerr = FALSE
  /\ uploadErr = FALSE
  /\ object = {}

-----------------------------------------------------------------------------
(* The writing goroutine                                                   *)

\* cmd.Run copies pg_dump's output into gzip, whose writes block on the pipe
\* until the reader has taken them.
CopyOut ==
  /\ Alive /\ wpc = "run" /\ dump = "running" /\ sent < size
  /\ wpc' = "write"
  /\ UNCHANGED <<size, dump, sent, pipe, dumpErr, upc, part, uploader>>

DumpSucceeds ==
  /\ Alive /\ wpc = "run" /\ dump = "running" /\ sent = size
  /\ dump' = "ok"
  /\ UNCHANGED <<size, wpc, sent, pipe, dumpErr, upc, part, uploader>>

\* pg_dump may fail at any time, after its last byte too.  What it had written
\* by then is in the pipe; Run returns once the copy has ended as well.
DumpFails ==
  /\ Alive /\ dump = "running"
  /\ dump' = "failed"
  /\ UNCHANGED <<size, wpc, sent, pipe, dumpErr, upc, part, uploader>>

\* Run returns.  Only after success does gz.Close write the end of the stream.
\* It cannot fail: a write fails when the pipe's reader is closed, and nobody
\* closes it.
RunReturns ==
  /\ Alive /\ wpc = "run" /\ dump # "running"
  /\ wpc' = IF dump = "ok" THEN "gzclose" ELSE "send"
  /\ UNCHANGED <<size, dump, sent, pipe, dumpErr, upc, part, uploader>>

SendDumpErr_onlyErrors ==
  /\ Alive /\ wpc = "send"
  /\ dumpErr' = IF dump = "ok" THEN "empty" ELSE "error"
  /\ wpc' = "close"
  /\ UNCHANGED <<size, dump, sent, pipe, upc, part, uploader>>

\* dumpErr <- err, or nil: the channel has room for one value.
SendDumpErr ==
  /\ Alive /\ wpc = "send"
  /\ dumpErr' = IF dump = "ok" THEN "nil" ELSE "error"
  /\ wpc' = "close"
  /\ UNCHANGED <<size, dump, sent, pipe, upc, part, uploader>>

ClosePipe_plain ==
  /\ Alive /\ wpc = "close"
  /\ pipe' = "eof"
  /\ wpc' = "done"
  /\ UNCHANGED <<size, dump, sent, dumpErr, upc, part, uploader>>

ClosePipe ==
  /\ Alive /\ wpc = "close"
  /\ pipe' = IF dump = "ok" THEN "eof" ELSE "error"
  /\ wpc' = "done"
  /\ UNCHANGED <<size, dump, sent, dumpErr, upc, part, uploader>>

-----------------------------------------------------------------------------
(* UploadStream on the main goroutine, and the uploader's workers          *)

Full    == Cardinality(part) = PartSize
Reading == upc \in {"first", "next"}

\* mustS3Client ends the process if it cannot build the client.
BuildClient ==
  /\ upc = "client"
  /\ upc' \in {"first", "exit1"}
  /\ UNCHANGED <<writer, sent, pipe, part, uploader>>

\* One chunk goes through the pipe.
Transfer ==
  /\ Alive /\ Reading /\ ~Full
  /\ wpc \in {"write", "gzclose"}
  /\ part' = part \cup {sent + 1}
  /\ sent' = sent + 1
  /\ wpc' = IF wpc = "write" THEN "run" ELSE "send"
  /\ UNCHANGED <<size, dump, pipe, dumpErr, upc, uploader>>

\* Reading for the first part ends: a full part starts a multipart upload, a
\* shorter stream is put whole, a read error gives up.
FirstPart ==
  /\ upc = "first"
  /\ \/ Full /\ upc' = "create" /\ UNCHANGED uploadErr
     \/ ~Full /\ pipe = "eof" /\ upc' = "put" /\ UNCHANGED uploadErr
     \/ ~Full /\ pipe = "error" /\ upc' = "wait" /\ uploadErr' = TRUE
  /\ UNCHANGED <<writer, sent, pipe, part, flying, stored, uerr, object>>

\* A call that makes S3 publish the chunks C.  It may fail before it took
\* effect, and its answer may be lost after it did.
Publish(C) ==
  /\ upc' = "wait"
  /\ \/ object' = C /\ uploadErr' = FALSE
     \/ object' \in {object, C} /\ uploadErr' = TRUE
  /\ UNCHANGED <<writer, sent, pipe, part, flying, stored, uerr>>

PutObject == upc = "put" /\ Publish(part)

CreateMultipart ==
  /\ upc = "create"
  /\ \/ /\ upc' = "loop"
        /\ flying' = {part}
        /\ part' = {}
        /\ UNCHANGED uploadErr
     \/ /\ upc' = "wait"
        /\ uploadErr' = TRUE
        /\ UNCHANGED <<flying, part>>
  /\ UNCHANGED <<writer, sent, pipe, stored, uerr, object>>

\* Before each further part the uploader looks for an error of a worker.
LoopHead ==
  /\ upc = "loop"
  /\ upc' = IF uerr THEN "drain" ELSE "next"
  /\ UNCHANGED <<writer, sent, pipe, part, uploader>>

\* The number of the part being read: those before it were full.
PartNum == 1 + (sent - Cardinality(part)) \div PartSize

\* Reading for a further part ends: it goes to the workers; the stream is at its
\* end; the read failed; or it is one part too many (shouldContinue).
NextPart ==
  /\ upc = "next"
  /\ LET more == Full \/ (pipe = "eof" /\ part # {})
     IN  \/ /\ more /\ PartNum <= MaxParts
            /\ flying' = flying \cup {part}
            /\ upc' = IF Full THEN "loop" ELSE "drain"
            /\ UNCHANGED uerr
         \/ /\ pipe = "eof" /\ part = {}
            /\ upc' = "drain"
            /\ UNCHANGED <<flying, uerr>>
         \/ /\ (more /\ PartNum > MaxParts) \/ (pipe = "error" /\ ~Full)
            /\ upc' = "drain"
            /\ uerr' = TRUE
            /\ UNCHANGED flying
  /\ part' = {}
  /\ UNCHANGED <<writer, sent, pipe, stored, uploadErr, object>>

\* A worker uploads a part; after an error the remaining parts are dropped.
SendPart(p) ==
  /\ Alive
  /\ p \in flying
  /\ flying' = flying \ {p}
  /\ \/ ~uerr /\ stored' = stored \cup p /\ UNCHANGED uerr
     \/ uerr' = TRUE /\ UNCHANGED stored
  /\ UNCHANGED <<writer, sent, pipe, upc, part, uploadErr, object>>

Drained == upc = "drain" /\ flying = {}

\* The abort may fail too: the parts stay, but no object shows them.
AbortMultipart ==
  /\ Drained /\ uerr
  /\ upc' = "wait"
  /\ uploadErr' = TRUE
  /\ UNCHANGED <<writer, sent, pipe, part, flying, stored, uerr, object>>

CompleteMultipart == Drained /\ ~uerr /\ Publish(stored)

-----------------------------------------------------------------------------
(* The end of the job                                                      *)

Exit_dumpOnly ==
  /\ upc = "wait" /\ dumpErr # "empty"
  /\ upc' = IF dumpErr = "error" THEN "exit1" ELSE "exit0"
  /\ UNCHANGED <<writer, sent, pipe, part, uploader>>

\* <-dumpErr, and the verdict.
Exit ==
  /\ upc = "wait" /\ dumpErr # "empty"
  /\ upc' = IF dumpErr = "error" \/ uploadErr THEN "exit1" ELSE "exit0"
  /\ UNCHANGED <<writer, sent, pipe, part, uploader>>

\* The Job's deadline, an eviction or a crash.
Kill ==
  /\ Alive
  /\ upc' = "killed"
  /\ UNCHANGED <<writer, sent, pipe, part, uploader>>

Writer   == CopyOut \/ DumpSucceeds \/ RunReturns \/ SendDumpErr \/ ClosePipe
Uploader ==
  \/ BuildClient \/ Transfer \/ FirstPart \/ PutObject \/ CreateMultipart \/ LoopHead
  \/ NextPart \/ AbortMultipart \/ CompleteMultipart \/ Exit
Worker   == \E p \in flying : SendPart(p)

Next == Writer \/ DumpFails \/ Uploader \/ Worker \/ Kill

Spec == Init /\ [][Next]_vars

\* Every goroutine keeps running and every S3 call returns; nothing promises
\* that pg_dump fails or that the Job is killed.
FairSpec == Spec /\ WF_vars(Writer) /\ WF_vars(Uploader) /\ WF_vars(Worker)

-----------------------------------------------------------------------------
(* Properties                                                              *)

\* The type invariant.
TypeOK ==
  /\ size \in Sizes
  /\ dump \in {"running", "ok", "failed"}
  /\ wpc \in {"run", "write", "gzclose", "send", "close", "done"}
  /\ sent \in 0 .. size + 1
  /\ pipe \in {"open", "eof", "error"}
  /\ dumpErr \in {"empty", "nil", "error"}
  /\ upc \in {"client", "first", "put", "create", "loop", "next", "drain", "wait"}
             \cup Ended
  /\ part \subseteq Whole
  /\ flying \subseteq SUBSET Whole
  /\ stored \subseteq Whole
  /\ uerr \in BOOLEAN
  /\ uploadErr \in BOOLEAN
  /\ object \subseteq Whole

\* Whatever fails and whenever the job is killed, an object under the backup's
\* key is the whole dump of a pg_dump that succeeded: a dump that broke off is
\* told apart from one that ended (CloseWithError), and parts become visible
\* only together.
NeverTruncated == object # {} => object = Whole /\ dump = "ok"

\* The job reports success only if its backup exists and is whole.
SuccessIsWhole == upc = "exit0" => object = Whole

\* Why both hold: the writer's progress, the pipe's verdict, where the chunks
\* that left the pipe are, and what an upload that succeeded has published.
WriterInv ==
  /\ wpc \in {"run", "write", "gzclose"} => sent <= size
  /\ wpc = "write" => sent < size
  /\ wpc = "gzclose" => dump = "ok" /\ sent = size
  /\ dump = "ok" /\ wpc = "run" => sent = size
  /\ dump = "ok" => wpc # "write"
  /\ dump = "running" => wpc \in {"run", "write"}
  /\ dump = "ok" /\ wpc \in {"send", "close", "done"} => sent = size + 1

PipeInv ==
  /\ pipe # "open" => wpc = "done"
  /\ pipe = "eof" => dump = "ok"

ChunksInv ==
  /\ upc \in {"client", "first", "put", "create"} =>
       part = 1 .. sent /\ flying = {} /\ stored = {} /\ ~uerr
  /\ upc \in {"loop", "next", "drain"} /\ ~uerr =>
       part \cup (UNION flying) \cup stored = 1 .. sent
  /\ upc \in {"loop", "drain"} => part = {}
  /\ upc = "put" \/ (upc = "drain" /\ ~uerr) => pipe = "eof"

PublishedInv == upc = "wait" /\ ~uploadErr => object = Whole

BackupInv ==
  TypeOK /\ WriterInv /\ PipeInv /\ ChunksInv /\ PublishedInv
    /\ NeverTruncated /\ SuccessIsWhole

\* The upload failed while the stream was still good: an S3 call did, or the
\* stream has more parts than an upload may have.
UploadFailed == (uerr \/ uploadErr) /\ pipe # "error"

\* Unless the upload fails, because an S3 call does or because the stream has too
\* many parts, the goroutines do not wait for each other forever: the job ends,
\* with a dump of any length and a pg_dump that fails at any point.  After a failed
\* upload they may: see CauseArrives.
JobEnds == <>(~Alive \/ UploadFailed)

\* The comment at the channel: its value is ready by the time UploadStream
\* returns.  Weakened here to: it arrives some time after that, unless the job
\* is killed.
CauseArrives == (upc = "wait") ~> (dumpErr # "empty" \/ upc = "killed")
=============================================================================

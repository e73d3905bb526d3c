---------------------------- MODULE RenderStream ----------------------------
(***************************************************************************)
(* send of internal/renderer: one goroutine writes a tar archive into an   *)
(* io.Pipe, another reads the pipe in chunks and sends each as a message   *)
(* of a gRPC client stream, and the error of the first comes back on a     *)
(* channel of capacity one.  The pipe has no buffer: a write ends when the *)
(* reader took all of it or closed its end.                                *)
(*                                                                         *)
(* Data is abstracted to its length.  The archive is ArchiveSize units     *)
(* long, its trailer included, and written in pieces of any length.  The   *)
(* renderer at the other end is external: it reads messages, and it may    *)
(* answer or break the stream whenever it likes.                           *)
(***************************************************************************)
EXTENDS Naturals

CONSTANTS
  ArchiveSize,   \* units of the complete archive
  ChunkSize,     \* CHUNK_SIZE
  Window,        \* units the transport takes ahead of the renderer
  MaxFaults      \* bound: file errors and broken streams

ASSUME RenderStreamAssumption ==
  /\ ArchiveSize \in Nat \ {0}
  /\ ChunkSize \in Nat \ {0}
  /\ Window \in Nat \ {0}
  /\ MaxFaults \in Nat

VARIABLES
  spc,        \* where send is
  buf,        \* units read from the pipe and not yet sent
  sendErr,    \* what sendChunks returned
  ret,        \* what send returned
  apc,        \* where archiveToPipe is
  produced,   \* units whose write has begun
  pending,    \* units of the current write nobody has read
  archiveErr, \* what writeTar returned
  writeErr,   \* the result channel: "empty" or the error in it
  readerClosed,  \* pr.Close was called
  writerClosed,  \* "open", or how the writer closed: "eof", "error"
  stream,     \* the gRPC stream: "none", "open", "half", "replied", "broken"
  sent,       \* units handed to the transport
  received,   \* units the renderer has read
  faults      \* faults injected so far

sendVars    == <<spc, buf, sendErr, ret>>
archiveVars == <<apc, produced, pending, archiveErr>>
pipeVars    == <<readerClosed, writerClosed>>
streamVars  == <<stream, sent, received>>
vars == <<sendVars, archiveVars, writeErr, pipeVars, streamVars, faults>>

TypeOK ==
  /\ spc \in {"open", "read", "send", "close", "await", "finish", "recv", "returned"}
  /\ buf \in Nat
  /\ sendErr \in {"none", "read", "send"}
  /\ ret \in {"none", "ok", "open", "archive", "read", "send", "reply"}
  /\ apc \in {"idle", "walk", "write", "report", "close", "done"}
  /\ produced \in 0 .. ArchiveSize
  /\ pending \in Nat
  /\ archiveErr \in {"none", "file", "pipe"}
  /\ writeErr \in {"empty", "none", "file", "pipe"}
  /\ readerClosed \in BOOLEAN
  /\ writerClosed \in {"open", "eof", "error"}
  /\ stream \in {"none", "open", "half", "replied", "broken"}
  /\ sent \in Nat
  /\ received \in Nat
  /\ faults \in Nat

Init ==
  /\ spc = "open" /\ buf = 0 /\ sendErr = "none" /\ ret = "none"
  /\ apc = "idle" /\ produced = 0 /\ pending = 0 /\ archiveErr = "none"
  /\ writeErr = "empty"
  /\ readerClosed = FALSE /\ writerClosed = "open"
  /\ stream = "none" /\ sent = 0 /\ received = 0
  /\ faults = 0

(***************************************************************************)
(* send.                                                                   *)
(***************************************************************************)
Return(e) == spc' = "returned" /\ ret' = e

\* client.Render; on success the archiver's goroutine is started.
Open ==
  /\ spc = "open"
  /\ \/ /\ faults < MaxFaults
        /\ faults' = faults + 1
        /\ Return("open")
        /\ UNCHANGED <<apc, stream>>
     \/ /\ spc' = "read" /\ apc' = "walk" /\ stream' = "open"
        /\ UNCHANGED <<ret, faults>>
  /\ UNCHANGED <<buf, sendErr, produced, pending, archiveErr, writeErr,
                 pipeVars, sent, received>>

\* Read takes at most a chunk of the current write.
ReadData ==
  /\ spc = "read" /\ apc = "write" /\ pending > 0
  /\ buf' = IF pending < ChunkSize THEN pending ELSE ChunkSize
  /\ pending' = pending - buf'
  /\ spc' = "send"
  /\ UNCHANGED <<sendErr, ret, apc, produced, archiveErr, writeErr, pipeVars,
                 streamVars, faults>>

\* Read reports how the writer closed: io.EOF ends the loop without error.
ReadClosed ==
  /\ spc = "read" /\ writerClosed # "open"
  /\ sendErr' = IF writerClosed = "eof" THEN "none" ELSE "read"
  /\ spc' = "close"
  /\ UNCHANGED <<buf, ret, archiveVars, writeErr, pipeVars, streamVars, faults>>

\* Mutant: the io.EOF of a stream that is over passes for the end of the data.
SendEOF ==
  /\ spc = "send"
  /\ \/ /\ stream = "open" /\ sent - received < Window
        /\ sent' = sent + buf
        /\ buf' = 0
        /\ spc' = "read"
        /\ UNCHANGED sendErr
     \/ /\ stream # "open"
        /\ spc' = "close"
        /\ UNCHANGED <<sendErr, sent, buf>>
  /\ UNCHANGED <<ret, archiveVars, writeErr, pipeVars, stream, received, faults>>

\* Send returns once the transport took the message, or with an error once
\* the stream is over.
Send ==
  /\ spc = "send"
  /\ \/ /\ stream = "open" /\ sent - received < Window
        /\ sent' = sent + buf
        /\ buf' = 0
        /\ spc' = "read"
        /\ UNCHANGED sendErr
     \/ /\ stream # "open"
        /\ sendErr' = "send"
        /\ spc' = "close"
        /\ UNCHANGED <<sent, buf>>
  /\ UNCHANGED <<ret, archiveVars, writeErr, pipeVars, stream, received, faults>>

\* Mutant: the reader is left open.
CloseReaderNot ==
  /\ spc = "close"
  /\ spc' = "await"
  /\ UNCHANGED <<buf, sendErr, ret, archiveVars, writeErr, pipeVars, streamVars, faults>>

\* pr.Close: whatever is left of the archive can no longer be written.
CloseReader ==
  /\ spc = "close"
  /\ spc' = "await"
  /\ readerClosed' = TRUE
  /\ UNCHANGED <<buf, sendErr, ret, archiveVars, writeErr, writerClosed,
                 streamVars, faults>>

\* Mutant: the error of the archiver is dropped.
VerdictOfSend(e) == sendErr

\* Mutant: io.ErrClosedPipe is not told apart.
VerdictAny(e) == IF e # "none" THEN "archive" ELSE sendErr

\* The archiver's own error comes first; that the reader closed the pipe is
\* no error of its own.
Verdict(e) == IF e = "file" THEN "archive" ELSE sendErr

AwaitArchive ==
  /\ spc = "await" /\ writeErr # "empty"
  /\ writeErr' = "empty"
  /\ IF Verdict(writeErr) # "none"
     THEN Return(Verdict(writeErr))
     ELSE spc' = "finish" /\ UNCHANGED ret
  /\ UNCHANGED <<buf, sendErr, archiveVars, pipeVars, streamVars, faults>>

\* CloseAndRecv: end of the stream, then the renderer's answer.
CloseSend ==
  /\ spc = "finish"
  /\ spc' = "recv"
  /\ stream' = IF stream = "open" THEN "half" ELSE stream
  /\ UNCHANGED <<buf, sendErr, ret, archiveVars, writeErr, pipeVars, sent,
                 received, faults>>

\* Mutant: the error of CloseAndRecv is logged and not returned.
RecvLogged ==
  /\ spc = "recv" /\ stream \in {"replied", "broken"}
  /\ Return("ok")
  /\ UNCHANGED <<buf, sendErr, archiveVars, writeErr, pipeVars, streamVars, faults>>

Recv ==
  /\ spc = "recv" /\ stream \in {"replied", "broken"}
  /\ Return(IF stream = "replied" THEN "ok" ELSE "reply")
  /\ UNCHANGED <<buf, sendErr, archiveVars, writeErr, pipeVars, streamVars, faults>>

SendStep == \/ Open \/ ReadData \/ ReadClosed \/ Send \/ CloseReader
            \/ AwaitArchive \/ CloseSend \/ Recv

(***************************************************************************)
(* archiveToPipe.                                                          *)
(***************************************************************************)
\* A directory entry, a file or its content cannot be read.
WalkFails ==
  /\ apc = "walk" /\ faults < MaxFaults
  /\ faults' = faults + 1
  /\ archiveErr' = "file"
  /\ apc' = "report"
  /\ UNCHANGED <<sendVars, produced, pending, writeErr, pipeVars, streamVars>>

\* Mutant: a file may be longer than its header says.
WriteBeginsLonger ==
  /\ apc = "walk"
  /\ \E n \in 1 .. (ArchiveSize + 1) - produced :
        /\ pending' = n
        /\ produced' = produced + n
  /\ apc' = "write"
  /\ UNCHANGED <<sendVars, archiveErr, writeErr, pipeVars, streamVars, faults>>

\* The next header, content or trailer goes into the pipe.
WriteBegins ==
  /\ apc = "walk"
  /\ \E n \in 1 .. ArchiveSize - produced :
        /\ pending' = n
        /\ produced' = produced + n
  /\ apc' = "write"
  /\ UNCHANGED <<sendVars, archiveErr, writeErr, pipeVars, streamVars, faults>>

\* Write returns when everything was read, or with io.ErrClosedPipe.
WriteEnds ==
  /\ apc = "write"
  /\ \/ /\ pending = 0
        /\ apc' = "walk"
        /\ UNCHANGED archiveErr
     \/ /\ pending > 0 /\ readerClosed
        /\ archiveErr' = "pipe"
        /\ apc' = "report"
  /\ UNCHANGED <<sendVars, produced, pending, writeErr, pipeVars, streamVars, faults>>

\* Mutant: the tar writer is not closed, its trailer is missing.
WalkEndsEarly ==
  /\ apc = "walk" /\ produced >= ArchiveSize - 1
  /\ apc' = "report"
  /\ UNCHANGED <<sendVars, produced, pending, archiveErr, writeErr, pipeVars,
                 streamVars, faults>>

\* The walk and the trailer are done.
WalkEnds ==
  /\ apc = "walk" /\ produced = ArchiveSize
  /\ apc' = "report"
  /\ UNCHANGED <<sendVars, produced, pending, archiveErr, writeErr, pipeVars,
                 streamVars, faults>>

\* The channel has room for one error.
CanReport == writeErr = "empty"

Report ==
  /\ apc = "report" /\ CanReport
  /\ writeErr' = archiveErr
  /\ apc' = "close"
  /\ UNCHANGED <<sendVars, produced, pending, archiveErr, pipeVars, streamVars, faults>>

\* CloseWithError hands the error to the reader, Close an io.EOF.
ClosedAs(e) == IF e = "none" THEN "eof" ELSE "error"

CloseWriter ==
  /\ apc = "close"
  /\ writerClosed' = ClosedAs(archiveErr)
  /\ apc' = "done"
  /\ UNCHANGED <<sendVars, produced, pending, archiveErr, writeErr, readerClosed,
                 streamVars, faults>>

ArchiveStep == \/ WriteBegins \/ WriteEnds \/ WalkEnds \/ Report \/ CloseWriter

(***************************************************************************)
(* The renderer, external.                                                 *)
(***************************************************************************)
Consume ==
  /\ stream \in {"open", "half"} /\ received < sent
  /\ received' = received + 1
  /\ UNCHANGED <<sendVars, archiveVars, writeErr, pipeVars, stream, sent, faults>>

Reply ==
  /\ stream \in {"open", "half"}
  /\ stream' = "replied"
  /\ UNCHANGED <<sendVars, archiveVars, writeErr, pipeVars, sent, received, faults>>

\* The renderer fails, the connection drops or the context is cancelled.
Break ==
  /\ stream \in {"open", "half"} /\ faults < MaxFaults
  /\ stream' = "broken"
  /\ faults' = faults + 1
  /\ UNCHANGED <<sendVars, archiveVars, writeErr, pipeVars, sent, received>>

Over == spc = "returned" /\ apc \in {"idle", "done"} /\ UNCHANGED vars

Next == SendStep \/ ArchiveStep \/ WalkFails \/ Consume \/ Reply \/ Break \/ Over

Spec == Init /\ [][Next]_vars

\* Both goroutines are scheduled, and the renderer reads what it is sent and
\* answers once the stream was ended.
FairSpec == /\ Spec
            /\ WF_vars(SendStep) /\ WF_vars(ArchiveStep)
            /\ WF_vars(Consume) /\ WF_vars(stream = "half" /\ Reply)

(***************************************************************************)
(* Properties.                                                             *)
(***************************************************************************)
\* The renderer is told that the archive ended only when all of it was
\* sent: a truncated archive never looks like a complete one, whichever
\* goroutine fails and however the two are interleaved.
EndsComplete ==
  stream = "half" => sent = ArchiveSize /\ archiveErr = "none"

\* Success means that the whole archive was sent and the archiver had no
\* error.
SuccessIsComplete ==
  ret = "ok" => sent = ArchiveSize /\ archiveErr = "none"

\* An error of the archiver is what send returns, even if the stream broke
\* because of it or at the same time.
FileErrorReported ==
  spc = "returned" /\ archiveErr = "file" => ret = "archive"

\* send blames a broken stream, not the pipe it closed itself.
PipeErrorExplained ==
  spc = "returned" /\ archiveErr = "pipe" => ret = "send"

\* send, with its two goroutines, implements the delivery of a source: whole or
\* not seen to end, with nothing behind the end or the answer, and an answer
\* that is given once.
Told == IF ret \in {"none", "ok"} THEN ret ELSE "error"

Del == INSTANCE Delivery WITH Size <- ArchiveSize, given <- sent,
                              line <- stream, told <- Told

RefinesDelivery == Del!Spec

\* send returns, and the archiver's goroutine ends with it.
Terminates == <>(spc = "returned" /\ apc \in {"idle", "done"})
=============================================================================

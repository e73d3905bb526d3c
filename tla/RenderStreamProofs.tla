------------------------- MODULE RenderStreamProofs -------------------------
(***************************************************************************)
(* What holds of send and archiveToPipe for an archive of any size, any    *)
(* chunk size, any window of the transport and any number of faults.       *)
(***************************************************************************)
EXTENDS RenderStream, TLAPS

\* No unit is lost or doubled on its way from the archiver to the transport.
Conserved ==
  /\ sent + buf + pending = produced
  /\ spc \in {"open", "read"} => buf = 0
  /\ apc \in {"idle", "walk"} => pending = 0

\* The archiver reports its error, if any, before it closes the pipe, and
\* ends without one only after the whole archive was read.
Archived ==
  /\ apc \in {"idle", "walk", "write"} => archiveErr = "none"
  /\ apc \notin {"close", "done"} => writeErr = "empty"
  /\ writeErr \in {"empty", archiveErr}
  /\ writerClosed = IF apc = "done" THEN ClosedAs(archiveErr) ELSE "open"
  /\ apc \in {"report", "close", "done"} /\ archiveErr = "none" =>
        produced = ArchiveSize /\ pending = 0
  /\ archiveErr = "pipe" => readerClosed

\* Everything written was read, sent, and no error occurred.
Complete == writerClosed = "eof" /\ buf = 0

\* What send knows where it is: it closes its end only after the loop, it
\* ends the stream only after the complete archive, and it has a verdict
\* only when the archiver's is final.
Sending ==
  /\ apc = "idle" => spc \in {"open", "returned"} /\ stream = "none"
  /\ spc = "open" => apc = "idle"
  /\ spc \in {"open", "read", "send"} => sendErr = "none"
  /\ readerClosed => spc \in {"await", "finish", "recv", "returned"}
  /\ spc \in {"close", "await"} /\ sendErr = "none" => Complete
  /\ sendErr = "read" => archiveErr = "file" /\ apc = "done"
  /\ spc \in {"finish", "recv"} => Complete
  /\ stream = "half" => Complete /\ spc \in {"recv", "returned"}
  /\ spc \in {"finish", "recv", "returned"} => apc \in {"idle", "close", "done"}
  /\ spc = "returned" => /\ archiveErr = "file" => ret = "archive"
                         /\ archiveErr = "pipe" => ret = "send"
  /\ ret = "ok" => Complete /\ spc = "returned"
  /\ ret # "none" => spc = "returned"
  /\ spc \in {"read", "send", "close", "await", "finish", "recv"} => stream # "none"
  /\ spc = "send" => buf > 0

IInv == TypeOK /\ Conserved /\ Archived /\ Sending

LEMMA InitIInv == Init => IInv
<1> SUFFICES ASSUME Init PROVE IInv
  OBVIOUS
<1>1. TypeOK
  BY RenderStreamAssumption, 0 \in 0 .. ArchiveSize DEF Init, TypeOK
<1>2. Conserved /\ Archived /\ Sending
  BY DEF Init, Conserved, Archived, Sending, Complete
<1> QED BY <1>1, <1>2 DEF IInv

LEMMA SendStepIInv == ASSUME IInv, SendStep PROVE IInv'
<1> USE RenderStreamAssumption DEF IInv, TypeOK, Conserved, Archived, Sending, Complete,
        archiveVars, pipeVars, streamVars, Return, ClosedAs
<1>1. CASE Open
  BY <1>1 DEF Open
<1>2. CASE ReadData
  BY <1>2 DEF ReadData
<1>3. CASE ReadClosed
  BY <1>3 DEF ReadClosed
<1>4. CASE Send
  BY <1>4 DEF Send
<1>5. CASE CloseReader
  BY <1>5 DEF CloseReader
<1>6. CASE AwaitArchive
  BY <1>6 DEF AwaitArchive, Verdict
<1>7. CASE CloseSend
  BY <1>7 DEF CloseSend
<1>8. CASE Recv
  BY <1>8 DEF Recv
<1> QED BY <1>1, <1>2, <1>3, <1>4, <1>5, <1>6, <1>7, <1>8 DEF SendStep

LEMMA ArchiveStepIInv == ASSUME IInv, ArchiveStep \/ WalkFails PROVE IInv'
<1> USE RenderStreamAssumption DEF IInv, TypeOK, Conserved, Archived, Sending, Complete,
        sendVars, pipeVars, streamVars, ClosedAs
<1>1. CASE WriteBegins
  BY <1>1 DEF WriteBegins
<1>2. CASE WriteEnds
  BY <1>2 DEF WriteEnds
<1>3. CASE WalkEnds
  BY <1>3 DEF WalkEnds
<1>4. CASE Report
  BY <1>4 DEF Report, CanReport
<1>5. CASE CloseWriter
  BY <1>5 DEF CloseWriter
<1>6. CASE WalkFails
  BY <1>6 DEF WalkFails
<1> QED BY <1>1, <1>2, <1>3, <1>4, <1>5, <1>6 DEF ArchiveStep

LEMMA RendererIInv == ASSUME IInv, Consume \/ Reply \/ Break PROVE IInv'
BY DEF Consume, Reply, Break, IInv, TypeOK, Conserved, Archived, Sending, Complete,
       sendVars, archiveVars, pipeVars

LEMMA Invariant == Spec => []IInv
<1>1. IInv /\ UNCHANGED vars => IInv'
  BY DEF vars, sendVars, archiveVars, pipeVars, streamVars,
         IInv, TypeOK, Conserved, Archived, Sending, Complete
<1>2. IInv /\ [Next]_vars => IInv'
  BY <1>1, SendStepIInv, ArchiveStepIInv, RendererIInv DEF Next, Over
<1> QED BY InitIInv, <1>2, PTL DEF Spec

\* Every variable keeps its type; no write runs past the archive's size.
THEOREM TypeCorrect == Spec => []TypeOK
<1>1. IInv => TypeOK
  BY DEF IInv
<1> QED BY <1>1, Invariant, PTL

\* What is complete has been sent to its last unit, without an error.
LEMMA CompleteIsSent == ASSUME IInv, Complete PROVE sent = ArchiveSize /\ archiveErr = "none"
<1>1. apc = "done" /\ archiveErr = "none" /\ buf = 0
  BY DEF IInv, Archived, ClosedAs, Complete
<1>2. produced = ArchiveSize /\ pending = 0
  BY <1>1 DEF IInv, Archived
<1> QED BY <1>1, <1>2 DEF IInv, TypeOK, Conserved

\* The stream is ended only behind the complete archive: a truncated archive
\* never looks like a whole one to the renderer.
THEOREM EndIsComplete == Spec => []EndsComplete
<1>1. IInv => EndsComplete
  BY CompleteIsSent DEF IInv, Sending, EndsComplete
<1> QED BY <1>1, Invariant, PTL

\* send reports success only for a complete archive.
THEOREM SuccessComplete == Spec => []SuccessIsComplete
<1>1. IInv => SuccessIsComplete
  BY CompleteIsSent DEF IInv, Sending, SuccessIsComplete
<1> QED BY <1>1, Invariant, PTL

\* An error of the archiver is what send returns, whatever else went wrong.
THEOREM FileErrorWins == Spec => []FileErrorReported
<1>1. IInv => FileErrorReported
  BY DEF IInv, Sending, FileErrorReported
<1> QED BY <1>1, Invariant, PTL

\* When send's own closing of the pipe stopped the archiver, send returns the
\* stream's error.
THEOREM PipeErrorBlamesStream == Spec => []PipeErrorExplained
<1>1. IInv => PipeErrorExplained
  BY DEF IInv, Sending, PipeErrorExplained
<1> QED BY <1>1, Invariant, PTL

\* send implements the delivery: what it hands over, the end of the stream and
\* its own return, each step of which is one of the delivery's or none.
THEOREM Refinement == Spec => RefinesDelivery
<1> USE DEF Told
<1>1. Init => Del!Init
  BY DEF Init, Del!Init
<1>2. IInv /\ IInv' /\ [Next]_vars => [Del!Next]_(Del!vars)
  <2> SUFFICES ASSUME IInv, IInv', [Next]_vars PROVE [Del!Next]_(Del!vars)
    OBVIOUS
  <2> USE DEF IInv, TypeOK, Sending, Del!vars, Return
  <2>1. CASE Open
    BY <2>1 DEF Open, Del!Next, Del!Begin, Del!Tell
  <2>2. CASE ReadData \/ ReadClosed \/ CloseReader
    BY <2>2 DEF ReadData, ReadClosed, CloseReader, streamVars
  <2>3. CASE Send
    <3>1. CASE stream = "open" /\ sent' = sent + buf
      <4>1. sent' \in sent + 1 .. ArchiveSize
        BY <2>3, <3>1, RenderStreamAssumption DEF Conserved, Send
      <4>2. ret = "none" /\ UNCHANGED <<stream, ret>>
        BY <2>3 DEF Send
      <4>3. Del!Give
        BY <3>1, <4>1, <4>2 DEF Del!Give
      <4> QED BY <4>3 DEF Del!Next
    <3>2. CASE sent' = sent
      BY <2>3, <3>2 DEF Send
    <3> QED BY <2>3, <3>1, <3>2 DEF Send
  <2>4. CASE AwaitArchive
    BY <2>4 DEF AwaitArchive, Verdict, streamVars, Del!Next, Del!Tell
  <2>5. CASE CloseSend
    <3>1. sent = ArchiveSize /\ ret = "none" /\ UNCHANGED <<sent, ret>>
      BY <2>5, CompleteIsSent DEF CloseSend
    <3>2. CASE stream = "open"
      BY <2>5, <3>1, <3>2 DEF CloseSend, Del!Next, Del!End
    <3>3. CASE stream # "open"
      BY <2>5, <3>1, <3>3 DEF CloseSend
    <3> QED BY <3>2, <3>3
  <2>6. CASE Recv
    <3>1. sent = ArchiveSize /\ ret = "none"
      BY <2>6, CompleteIsSent DEF Recv
    <3> QED BY <2>6, <3>1 DEF Recv, streamVars, Del!Next, Del!Tell
  <2>7. CASE ArchiveStep \/ WalkFails
    BY <2>7 DEF ArchiveStep, WriteBegins, WriteEnds, WalkEnds, Report, CloseWriter,
                WalkFails, sendVars, streamVars
  <2>8. CASE Consume
    BY <2>8 DEF Consume, sendVars
  <2>9. CASE Reply \/ Break
    BY <2>9 DEF Reply, Break, sendVars, Del!Next, Del!Settle
  <2>10. CASE UNCHANGED vars
    BY <2>10 DEF vars, sendVars, streamVars
  <2> QED BY <2>1, <2>2, <2>3, <2>4, <2>5, <2>6, <2>7, <2>8, <2>9, <2>10
          DEF Next, SendStep, Over
<1> QED BY <1>1, <1>2, Invariant, PTL DEF Spec, RefinesDelivery, Del!Spec
=============================================================================

---------------------------- MODULE SpiFlashRun ----------------------------
(***************************************************************************)
(* `benchpod spi-flash write` and `erase` as a whole: the run of           *)
(* SpiFlashSession, whose flash commands are `id` and then the requests of *)
(* SpiFlashRange.  What a request does to the flash is put where the run   *)
(* learns of its outcome; nothing reads the flash in between.              *)
(***************************************************************************)
EXTENDS SpiFlashSession, SpiFlashRange

runVars == <<vars, rangeVars>>

\* Bound: Ctrl-C, resets, a slow or busy pod and the other client come into the
\* runs of one job only.  Every other job may be refused at any request.
Disturbed ==
  job.cmd = "write" /\ job.addr = 1 /\ job.len = 1 /\ job.erase /\ ~job.verify
  /\ part.good /\ part.reports /\ part.known /\ part.size = Size

RunInit ==
  /\ Init /\ RangeInit
  /\ Disturbed \/ (~nreset /\ owner = "nobody" /\ prompt /\ ~oneClient)

\* What fn sends next: first `id` (identify), then what the loop it is in asks for.
RequestDue ==
  \/ worked = 0
  \/ step = "chip" \/ (step = "erase" /\ pos < End) \/ (step = "write" /\ WriteLeft)

\* The request under way is one that may change the flash.
OnFlash == at = "work" /\ worked > 1

\* The run ends in an error without another flash request.
Abandon == RequestFails /\ UNCHANGED <<cell, wear>>

RunSends ==
  /\ Send /\ (at = "work" => RequestDue)
  /\ UNCHANGED rangeVars

\* A reply counts as a failure also when it is not what the loop expects.
RunReceives ==
  /\ Receive
  /\ \/ OnFlash /\ rep[sentOn] = "ok" /\ (EraseStep \/ WriteStep \/ ChipErase)
     \/ OnFlash /\ RequestFails
     \/ ~OnFlash /\ at \notin Cleanup /\ rep[sentOn] # "ok" /\ Abandon
     \/ ~OnFlash /\ (at \in Cleanup \/ rep[sentOn] = "ok") /\ UNCHANGED rangeVars

RunLoses ==
  /\ Lose
  /\ \/ OnFlash /\ RequestFails
     \/ ~OnFlash /\ at \notin Cleanup /\ Abandon
     \/ at \in Cleanup /\ UNCHANGED rangeVars

RunFailsUnsent ==
  /\ FailUnsent
  /\ \/ at = "work" /\ RequestDue /\ Abandon
     \/ at \notin Cleanup \cup {"work"} /\ Abandon
     \/ at \in Cleanup /\ UNCHANGED rangeVars

\* One loop of fn is through.
LoopEnds ==
  /\ at = "work" /\ sentOn = None /\ worked > 0
  /\ EraseEnds \/ WriteEnds
  /\ UNCHANGED vars

\* fn returns at the end of its loops, or after `id`: no flash answers, or the range
\* is past the end of the part.
RunReturns ==
  /\ FnReturns
  /\ \/ step = "done" /\ ~err' /\ UNCHANGED rangeVars
     \/ step = "failed" /\ err' /\ UNCHANGED rangeVars
     \/ worked = 1 /\ err' /\ Abandon

HostStep ==
  RunSends \/ RunReceives \/ RunLoses \/ RunFailsUnsent \/ LoopEnds \/ RunReturns

PodServes == (\E k \in Conns : PodExecutes(k)) /\ UNCHANGED rangeVars

Disturbance ==
  /\ Disturbed
  /\ ContextEnds \/ OtherClient \/ \E k \in Conns : ConnReset(k)
  /\ UNCHANGED rangeVars

RunNext == HostStep \/ PodServes \/ Disturbance

\* The process runs and the timeout of a request comes when its answer does not
\* (Lose); a pod that is prompt answers what it serves.
RunSpec ==
  /\ RunInit /\ [][RunNext]_runVars
  /\ WF_runVars(HostStep) /\ WF_runVars(PodServes)
=============================================================================

----------------------------- MODULE FlashBridge -----------------------------
(***************************************************************************)
(* `benchpod flash`: runFlash checks its options, arms the pod's CMSIS-DAP *)
(* probe, starts OpenOCD and bridges the two until OpenOCD exits, whose    *)
(* exit code is the verdict.  runBridge is five goroutines (main, Accept,  *)
(* cmd.Wait and one copy per direction) between two links and a process.   *)
(*                                                                         *)
(* A packet is only counted.  The counters are where the packets are:      *)
(*   sent >= taken >= wrote >= answered >= read >= given                   *)
(* sent by OpenOCD, taken by copyOpenOCDToPod, written to the pod,         *)
(* answered by it, read by copyPodToOpenOCD, given to OpenOCD.             *)
(* OpenOCD, the pod, its link and embeddedci.com are external.             *)
(***************************************************************************)
EXTENDS Naturals

CONSTANTS
  Packets,   \* bound: packets OpenOCD exchanges to program the target
  Window,    \* packets in flight (packet_count of dap_start)
  Links,     \* the transports the run may use
  Stalls     \* the transports on which a pod may stop reading for good

ASSUME FlashBridgeAssumption ==
  /\ Packets \in Nat \ {0} /\ Window \in Nat \ {0}
  /\ Links \subseteq {"net", "serial"} /\ Stalls \subseteq Links

VARIABLES
  pc, result,        \* main: where it is, and what it returns
  link,              \* the transport
  ctx, runCtx,       \* the command's context and OpenOCD's (cancelRun)
  conn,              \* the link to the pod: "none", "open", "cut" or "closed"
  armReq, podMode, leave, stalled,   \* the pod
  oc, dialled, ocExit, marker,                \* OpenOCD, and its stderr
  listener, accept, waiter,                   \* the two goroutines of the start
  ocConn, toPod, fromPod, exited, podDropped, \* the bridge
  sent, taken, wrote, answered, read, given,  \* the packets
  job, badFrame, cutOnce, lostAt, abandoned   \* what happened, for the properties

mainv   == <<pc, result, link>>
podv    == <<armReq, podMode, leave, stalled>>
procv   == <<oc, dialled, ocExit, marker>>
startv  == <<listener, accept, waiter>>
bridgev == <<ocConn, toPod, fromPod, exited, podDropped>>
packets == <<sent, taken, wrote, answered, read, given>>
past    == <<job, badFrame, cutOnce, lostAt, abandoned>>
vars == <<mainv, ctx, runCtx, conn, podv, procv, startv, bridgev, packets, past>>

Results == {"none", "refused", "early", "dropped", "unreachable",
            "failed", "success"}

Places ==
  /\ pc \in {"check", "server", "power", "ack", "args", "listen", "start",
             "select", "rewait", "drain", "bridge", "closepod", "join", "done"}
  /\ result \in Results
  /\ link \in Links \cup {"none"}
  /\ conn \in {"none", "open", "cut", "closed"}
  /\ podMode \in {"json", "armed"}
  /\ oc \in {"no", "running", "exited"}
  /\ ocExit \in {"none", "ok", "err", "killed"}
  /\ accept \in {"no", "waiting", "got", "err", "taken"}
  /\ waiter \in {"no", "waiting", "told", "taken"}
  /\ ocConn \in {"none", "open", "closed"}
  /\ toPod \in {"no", "reading", "writing", "done"}
  /\ fromPod \in {"no", "reading", "writing", "ended", "done"}
  /\ job \in {"none", "flashed", "failed", "unreachable"}
  /\ lostAt \in {"not", "before", "unheard"}

MainFlags   == ctx \in BOOLEAN /\ runCtx \in BOOLEAN
PodFlags    == armReq \in BOOLEAN /\ leave \in BOOLEAN /\ stalled \in BOOLEAN
StartFlags  == marker \in BOOLEAN /\ listener \in BOOLEAN /\ dialled \in BOOLEAN
BridgeFlags == /\ exited \in BOOLEAN /\ podDropped \in BOOLEAN
               /\ badFrame \in BOOLEAN /\ cutOnce \in BOOLEAN /\ abandoned \in BOOLEAN
Flags == MainFlags /\ PodFlags /\ StartFlags /\ BridgeFlags

\* A packet is passed on once, in the order of the counters.
Order ==
  /\ {sent, taken, wrote, answered, read, given} \subseteq Nat
  /\ given <= read /\ read <= answered /\ answered <= wrote
  /\ wrote <= taken /\ taken <= sent /\ sent <= Packets
  /\ toPod = "writing" => wrote < taken
  /\ fromPod = "writing" => given < read

TypeOK == Places /\ Flags /\ Order

Init ==
  /\ pc = "check" /\ result = "none" /\ link = "none"
  /\ ctx = TRUE /\ runCtx = TRUE /\ conn = "none"
  /\ armReq = FALSE /\ podMode = "json"
  /\ leave = FALSE /\ stalled = FALSE
  /\ oc = "no" /\ dialled = FALSE /\ ocExit = "none" /\ marker = FALSE
  /\ listener = FALSE /\ accept = "no" /\ waiter = "no"
  /\ ocConn = "none" /\ toPod = "no" /\ fromPod = "no"
  /\ exited = FALSE /\ podDropped = FALSE
  /\ sent = 0 /\ taken = 0 /\ wrote = 0 /\ answered = 0 /\ read = 0 /\ given = 0
  /\ job = "none" /\ badFrame = FALSE /\ cutOnce = FALSE
  /\ lostAt = "not" /\ abandoned = FALSE

\* The deferred calls of runFlash and runBridge: whatever ends them, the pod's
\* connection is closed, OpenOCD's context cancelled and the listener closed.
Return(r) ==
  /\ result' = r /\ pc' = "closepod"
  /\ runCtx' = FALSE /\ listener' = FALSE

-----------------------------------------------------------------------------
(* runFlash, up to the bridge.                                             *)

\* What the options leave to decide: where the file comes from, which server
\* side was asked for, which SWD pins and target the flags and the pod's wiring
\* profile gave, whether OpenOCD has anything to do.
Options ==
  [over : Links \cup {"cloud"}, file : BOOLEAN, build : BOOLEAN,
   server : {"unset", "yes", "no"}, pins : {"both", "missing", "same"},
   target : BOOLEAN]

ServerSide(o) == IF o.server = "unset" THEN o.over = "cloud" ELSE o.server = "yes"
OnServer(o)   == o.build /\ ServerSide(o)

\* The order of the checks does not matter: each one ends the run before
\* anything is asked of the pod.  A downloaded build is a local file.
Refused(o) ==
  \/ o.build /\ o.file
  \/ ~o.build /\ o.server # "unset"
  \/ o.over = "cloud" /\ (~o.build \/ ~ServerSide(o))
  \/ o.pins # "both"
  \/ ~o.target /\ (o.file \/ o.build)
  \/ OnServer(o) /\ o.over = "serial"   \* cloudDeviceID needs the pod's address

\* The uploaded build may not be found or downloaded; OpenOCD may be missing, not
\* run, or lack the cmsis_dap_tcp backend.
BuildReady(o)   == IF o.build THEN BOOLEAN ELSE {TRUE}
OpenOCDReady(o) == IF OnServer(o) THEN {TRUE} ELSE BOOLEAN

Check == \E o \in Options : \E found \in BuildReady(o), usable \in OpenOCDReady(o) :
  /\ pc = "check"
  /\ IF Refused(o) \/ ~found \/ ~usable
     THEN pc' = "done" /\ result' = "refused" /\ UNCHANGED link
     ELSE IF OnServer(o)
     THEN pc' = "server" /\ UNCHANGED <<result, link>>
     ELSE link' = o.over /\ pc' = "power" /\ UNCHANGED result
  /\ UNCHANGED <<ctx, runCtx, conn, podv, procv, startv, bridgev, packets, past>>

\* embeddedci.com runs OpenOCD: flags that are for the local one only, a pod it
\* does not know and a lost answer end the run, the last with the job done or not.
FlashOnServer == \E j \in {"none", "flashed", "failed", "unreachable"}, told \in BOOLEAN :
  /\ pc = "server" /\ job' = j /\ pc' = "done"
  /\ result' = CASE j = "none" \/ ~told -> "refused"
                 [] j = "flashed" /\ told -> "success"
                 [] OTHER -> j
  /\ UNCHANGED <<link, ctx, runCtx, conn, podv, procv, startv, bridgev,
                 packets, badFrame, cutOnce, lostAt, abandoned>>

\* openDAP's first half: the eFuse is switched on if asked, for good, and a
\* failure ends the run; then dap_start is sent.
\* The same connection on serial, one of its own on the network.
StartDAP == \E ok \in BOOLEAN :
  /\ pc = "power"
  /\ IF ok
     THEN conn' = "open" /\ armReq' = TRUE /\ pc' = "ack" /\ UNCHANGED result
     ELSE pc' = "done" /\ result' = "refused" /\ UNCHANGED <<conn, armReq>>
  /\ UNCHANGED <<link, ctx, runCtx, podMode, leave, stalled, procv,
                 startv, bridgev, packets, past>>

\* readLine reads exactly the ack; the deadline is cleared and the link is raw.
Armed ==
  /\ pc = "ack" /\ ctx /\ conn = "open" /\ podMode = "armed"
  /\ pc' = "args"
  /\ UNCHANGED <<result, link, ctx, runCtx, conn, podv, procv, startv,
                 bridgev, packets, past>>

\* An error, no ack before dapHandshakeTimeout, or Ctrl-C: the connection is
\* closed, on serial without a leave frame.
NotArmed ==
  /\ pc = "ack"
  /\ conn' = "closed" /\ pc' = "done" /\ result' = "refused" /\ abandoned' = TRUE
  /\ UNCHANGED <<link, ctx, runCtx, podv, procv, startv, bridgev, packets,
                 job, badFrame, cutOnce, lostAt>>

\* buildOpenOCDArgs: with neither a target nor passthrough there is nothing to do.
BuildArgs == \E todo \in BOOLEAN :
  /\ pc = "args"
  /\ IF todo THEN pc' = "listen" /\ UNCHANGED <<result, runCtx, listener>>
             ELSE Return("refused")
  /\ UNCHANGED <<link, ctx, conn, podv, procv, accept, waiter, bridgev,
                 packets, past>>

-----------------------------------------------------------------------------
(* runBridge: main.                                                        *)

Listen == \E ok \in BOOLEAN :
  /\ pc = "listen"
  /\ IF ok THEN pc' = "start" /\ listener' = TRUE /\ UNCHANGED <<result, runCtx>>
           ELSE Return("failed")
  /\ UNCHANGED <<link, ctx, conn, podv, procv, accept, waiter, bridgev,
                 packets, past>>

\* cmd.Start fails when its context is done; then the two goroutines are started.
Start == \E ok \in BOOLEAN :
  /\ pc = "start"
  /\ IF ok /\ runCtx
     THEN /\ oc' = "running" /\ accept' = "waiting" /\ waiter' = "waiting"
          /\ pc' = "select" /\ UNCHANGED <<result, runCtx, listener>>
     ELSE Return("failed") /\ UNCHANGED <<oc, accept, waiter>>
  /\ UNCHANGED <<link, ctx, conn, podv, dialled, ocExit, marker, bridgev, packets,
                 past>>

\* The select, when both channels are ready, takes either.
OpenOCDConnected ==
  /\ pc = "select" /\ accept = "got"
  /\ accept' = "taken" /\ ocConn' = "open" /\ pc' = "bridge"
  /\ toPod' = "reading" /\ fromPod' = "reading"
  /\ UNCHANGED <<result, link, ctx, runCtx, conn, podv, procv, listener,
                 waiter, exited, podDropped, packets, past>>

AcceptFailed ==
  /\ pc = "select" /\ accept = "err" /\ accept' = "taken" /\ pc' = "rewait"
  /\ UNCHANGED <<result, link, ctx, runCtx, conn, podv, procv, listener,
                 waiter, bridgev, packets, past>>

\* The second cmd.Wait returns when OpenOCD has exited, with its status or with
\* "Wait was already called".
Rewaited ==
  /\ pc = "rewait" /\ oc = "exited" /\ Return("failed")
  /\ UNCHANGED <<link, ctx, conn, podv, procv, accept, waiter, bridgev,
                 packets, past>>

ExitedEarly ==
  /\ pc = "select" /\ waiter = "told"
  /\ waiter' = "taken" /\ listener' = FALSE /\ pc' = "drain"
  /\ UNCHANGED <<result, link, ctx, runCtx, conn, podv, procv, accept,
                 bridgev, packets, past>>

Drained ==
  /\ pc = "drain" /\ accept \in {"got", "err"}
  /\ accept' = "taken" /\ Return("early")
  /\ UNCHANGED <<link, ctx, conn, podv, procv, waiter, bridgev, packets,
                 past>>

\* OpenOCD has exited: that is stored for the copies, and its end is closed.
OpenOCDExited ==
  /\ pc = "bridge" /\ waiter = "told"
  /\ waiter' = "taken" /\ exited' = TRUE /\ ocConn' = "closed" /\ pc' = "closepod"
  /\ UNCHANGED <<result, link, ctx, runCtx, conn, podv, procv, listener,
                 accept, toPod, fromPod, podDropped, packets, past>>

\* Bug: the pod's connection is left to the deferred close, after wg.Wait.
ClosePodLater ==
  /\ pc = "closepod" /\ pc' = "join"
  /\ conn' = (IF exited THEN conn ELSE "closed") /\ UNCHANGED leave
  /\ UNCHANGED <<result, link, ctx, runCtx, armReq, podMode,
                 stalled, procv, startv, bridgev, packets, past>>

\* podConn.Close: on serial dapConn.Close writes the leave frame first, and the
\* write blocks when the pod does not read and a packet already fills the port.
ClosePod ==
  /\ pc = "closepod"
  /\ IF link = "serial" /\ conn = "open" THEN ~(stalled /\ toPod = "writing") /\ leave' = TRUE
                                         ELSE UNCHANGED leave
  /\ conn' = "closed" /\ pc' = "join"
  /\ UNCHANGED <<result, link, ctx, runCtx, armReq, podMode,
                 stalled, procv, startv, bridgev, packets, past>>

Verdict ==
  CASE podDropped -> "dropped"
    [] ~podDropped /\ ocExit = "ok" -> "success"
    [] ~podDropped /\ ocExit # "ok" /\ marker -> "unreachable"
    [] OTHER -> "failed"

\* Bug: the verdict is returned without waiting for the copies.
JoinNobody ==
  /\ pc = "join"
  /\ result' = (IF exited THEN Verdict ELSE result)
  /\ pc' = "done" /\ runCtx' = FALSE /\ listener' = FALSE
  /\ UNCHANGED <<link, ctx, conn, podv, procv, accept, waiter, bridgev,
                 packets, past>>

\* wg.Wait, when the bridge had been up, and the verdict.
Join ==
  /\ pc = "join" /\ toPod \in {"no", "done"} /\ fromPod \in {"no", "done"}
  /\ result' = (IF exited THEN Verdict ELSE result)
  /\ pc' = "done" /\ runCtx' = FALSE /\ listener' = FALSE
  /\ UNCHANGED <<link, ctx, conn, podv, procv, accept, waiter, bridgev,
                 packets, past>>

-----------------------------------------------------------------------------
(* runBridge: the other goroutines.                                        *)

\* ln.Accept returns OpenOCD's connection, or fails: because the listener is
\* closed, or (out of descriptors) while it is open.
Accept(r) ==
  /\ accept = "waiting" /\ accept' = r
  /\ r = "got" => dialled /\ listener
  /\ UNCHANGED <<mainv, ctx, runCtx, conn, podv, procv, listener, waiter, bridgev,
                 packets, past>>

\* cmd.Wait returns once OpenOCD has exited and its stderr has been scanned.
Waited ==
  /\ waiter = "waiting" /\ oc = "exited" /\ waiter' = "told"
  /\ UNCHANGED <<mainv, ctx, runCtx, conn, podv, procv, listener, accept, bridgev,
                 packets, past>>

\* copyOpenOCDToPod: a frame from OpenOCD, rewritten to the pod.  It ends at a
\* frame that is none, when OpenOCD's end is closed, or when the pod's is.
ToRead ==
  /\ toPod = "reading" /\ taken < sent /\ ocConn = "open"
  /\ taken' = taken + 1 /\ toPod' = "writing"
  /\ UNCHANGED <<mainv, ctx, runCtx, conn, podv, procv, startv, ocConn, fromPod,
                 exited, podDropped, sent, wrote, answered, read, given, past>>

ToWrite ==
  /\ toPod = "writing" /\ conn = "open" /\ ~stalled
  /\ wrote' = wrote + 1 /\ toPod' = "reading"
  /\ UNCHANGED <<mainv, ctx, runCtx, conn, podv, procv, startv, ocConn, fromPod,
                 exited, podDropped, sent, taken, answered, read, given, past>>

\* The bytes of a frame of OpenOCD's may have another signature or be too long.
ToEnds ==
  /\ \/ toPod = "reading" /\ (ocConn = "closed" \/ taken < sent \/ oc = "exited")
     \/ toPod = "writing" /\ conn # "open"
  /\ toPod' = "done"
  /\ UNCHANGED <<mainv, ctx, runCtx, conn, podv, procv, startv, ocConn, fromPod,
                 exited, podDropped, packets, past>>

\* copyPodToOpenOCD: a frame from the pod, rewritten to OpenOCD.
FromRead ==
  /\ fromPod = "reading" /\ read < answered /\ conn = "open"
  /\ read' = read + 1 /\ fromPod' = "writing"
  /\ UNCHANGED <<mainv, ctx, runCtx, conn, podv, procv, startv, ocConn, toPod,
                 exited, podDropped, sent, taken, wrote, answered, given, past>>

\* A write to an OpenOCD that has exited succeeds, or fails once its socket has
\* answered with a reset.
FromWrite ==
  /\ fromPod = "writing"
  /\ \/ /\ ocConn = "open" /\ fromPod' = "reading"
        /\ given' = IF oc = "exited" THEN given ELSE given + 1
     \/ /\ ocConn = "closed" \/ oc = "exited"
        /\ fromPod' = "ended" /\ UNCHANGED given
  /\ UNCHANGED <<mainv, ctx, runCtx, conn, podv, procv, startv, ocConn, toPod,
                 exited, podDropped, sent, taken, wrote, answered, read, past>>

FromEnds ==
  /\ fromPod = "reading" /\ (conn # "open" \/ badFrame)
  /\ fromPod' = "ended"
  /\ UNCHANGED <<mainv, ctx, runCtx, conn, podv, procv, startv, ocConn, toPod,
                 exited, podDropped, packets, past>>

\* Bug: OpenOCD is stopped, but that the pod dropped the link is not noted.
PodSideEndedQuietly ==
  /\ fromPod = "ended" /\ fromPod' = "done"
  /\ runCtx' = (runCtx /\ exited)
  /\ UNCHANGED <<mainv, ctx, conn, podv, procv, startv, ocConn, toPod, exited,
                 podDropped, packets, past>>

\* The pod's side has ended: unless OpenOCD is known to have exited, the pod
\* dropped the link, and OpenOCD is stopped.
PodSideEnded ==
  /\ fromPod = "ended" /\ fromPod' = "done"
  /\ podDropped' = (podDropped \/ ~exited)
  /\ runCtx' = (runCtx /\ exited)
  /\ UNCHANGED <<mainv, ctx, conn, podv, procv, startv, ocConn, toPod, exited,
                 packets, past>>

-----------------------------------------------------------------------------
(* OpenOCD: it connects, exchanges its packets and exits; it may fail at any *)
(* time, and stops when its context is done.                                 *)

Dial ==
  /\ oc = "running" /\ ~dialled /\ listener /\ dialled' = TRUE
  /\ UNCHANGED <<mainv, ctx, runCtx, conn, podv, oc, ocExit, marker, startv,
                 bridgev, packets, past>>

Send ==
  /\ oc = "running" /\ dialled /\ sent < Packets /\ sent - given < Window
  /\ sent' = sent + 1
  /\ UNCHANGED <<mainv, ctx, runCtx, conn, podv, procv, startv, bridgev, taken,
                 wrote, answered, read, given, past>>

\* It succeeds once it has sent every packet, the answers to the last ones maybe on
\* their way, or when it had no use for the probe and never connected.  Its stderr may
\* say that a target did not answer, whatever becomes of it then.
Exit(e) ==
  /\ oc = "running"
  /\ e = "ok" => sent = Packets \/ ~dialled
  /\ e = "killed" => ~runCtx
  /\ oc' = "exited" /\ ocExit' = e /\ marker' \in BOOLEAN
  /\ UNCHANGED <<mainv, ctx, runCtx, conn, podv, dialled, startv, bridgev, packets,
                 past>>

(* The pod and its link, which may be cut at any time.                     *)

PodArms ==
  /\ armReq /\ armReq' = FALSE
  /\ podMode' \in (IF conn = "cut" THEN {podMode} ELSE {"json", "armed"})
  /\ UNCHANGED <<mainv, ctx, runCtx, conn, leave, stalled, procv, startv,
                 bridgev, packets, past>>

PodAnswers ==
  /\ podMode = "armed" /\ conn = "open" /\ ~stalled /\ answered < wrote
  /\ answered' = answered + 1
  /\ UNCHANGED <<mainv, ctx, runCtx, conn, podv, procv, startv, bridgev, sent,
                 taken, wrote, read, given, past>>

\* It leaves its DAP mode when the network connection closes, or at the leave
\* frame on serial.
PodLeaves ==
  /\ podMode = "armed" /\ ~stalled
  /\ IF link = "net" THEN conn \in {"cut", "closed"} ELSE leave
  /\ podMode' = "json"
  /\ UNCHANGED <<mainv, ctx, runCtx, conn, armReq, leave, stalled, procv,
                 startv, bridgev, packets, past>>

PodStalls ==
  /\ link \in Stalls /\ conn = "open" /\ ~stalled /\ stalled' = TRUE
  /\ UNCHANGED <<mainv, ctx, runCtx, conn, armReq, podMode, leave, procv,
                 startv, bridgev, packets, past>>

\* The pod's side is lost before OpenOCD has exited, or before main has heard of it.
LoseIt ==
  lostAt' = IF lostAt # "not" \/ exited THEN lostAt
            ELSE IF oc = "exited" THEN "unheard" ELSE "before"

\* The pod closes the connection, restarts or is unplugged.
Cut ==
  /\ conn = "open" /\ conn' = "cut" /\ cutOnce' = TRUE /\ LoseIt
  /\ UNCHANGED <<mainv, ctx, runCtx, podv, procv, startv, bridgev, packets,
                 job, badFrame, abandoned>>

\* The pod sends a frame longer than dapMaxPacket.
PodGarbles ==
  /\ conn = "open" /\ fromPod = "reading" /\ ~badFrame /\ badFrame' = TRUE
  /\ LoseIt
  /\ UNCHANGED <<mainv, ctx, runCtx, conn, podv, procv, startv, bridgev, packets,
                 job, cutOnce, abandoned>>

\* Ctrl-C, or the total timeout.
CtxDone ==
  /\ ctx /\ pc \notin {"check", "done"} /\ ctx' = FALSE /\ runCtx' = FALSE
  /\ UNCHANGED <<mainv, conn, podv, procv, startv, bridgev, packets, past>>

Main ==
  \/ Check \/ FlashOnServer \/ StartDAP \/ Armed \/ NotArmed \/ BuildArgs \/ Listen \/ Start
  \/ OpenOCDConnected \/ AcceptFailed \/ Rewaited \/ ExitedEarly \/ Drained
  \/ OpenOCDExited \/ ClosePod \/ Join
Copies == ToRead \/ ToWrite \/ ToEnds \/ FromRead \/ FromWrite \/ FromEnds \/ PodSideEnded
OpenOCD == Dial \/ Send \/ \E e \in {"ok", "err", "killed"} : Exit(e)
Pod == PodArms \/ PodAnswers \/ PodLeaves \/ PodStalls \/ Cut \/ PodGarbles

Finished == pc = "done" /\ UNCHANGED vars

Next ==
  \/ Main \/ Copies \/ OpenOCD \/ Pod \/ CtxDone \/ Finished
  \/ Waited \/ \E r \in {"got", "err"} : Accept(r)

\* The Go scheduler runs every goroutine; a closed listener unblocks Accept; the
\* total timeout comes; a killed process exits; and the pod sees a closed
\* connection or a leave frame.  Nothing else of OpenOCD or the pod is fair.
Fairness ==
  /\ WF_vars(Main)
  /\ WF_vars(Accept("got")) /\ WF_vars(~listener /\ Accept("err")) /\ WF_vars(Waited)
  /\ WF_vars(ToRead \/ ToWrite \/ ToEnds)
  /\ WF_vars(FromRead \/ FromWrite \/ FromEnds) /\ WF_vars(PodSideEnded)
  /\ WF_vars(CtxDone) /\ WF_vars(Exit("killed"))
  /\ WF_vars(PodArms) /\ WF_vars(PodLeaves)

Spec == Init /\ [][Next]_vars /\ Fairness

-----------------------------------------------------------------------------
(* Properties.                                                             *)

\* The pod's side ended before main had heard that OpenOCD had exited, or OpenOCD
\* left an answer behind.
Dropped == lostAt # "not" \/ (oc = "exited" /\ given < answered)

\* What flash says is what happened.  Success: OpenOCD ended by itself with success,
\* with all it had to send sent.  Target unreachable (the hint about power and
\* wiring): OpenOCD said so and did not succeed.  A dropped link: it was cut or sent
\* garbage before main had heard of OpenOCD's exit, or OpenOCD left with an answer on
\* its way; without that a clean exit is told as a success.  And an OpenOCD this
\* program stopped, other than for Ctrl-C or the timeout, is told as a dropped link,
\* not as a failure of OpenOCD, and the link was lost while it ran.
VerdictIsTrue ==
  /\ result = "success" => job = "flashed" \/ (ocExit = "ok" /\ sent = Packets)
  /\ result = "unreachable" => job = "unreachable" \/ (ocExit # "ok" /\ marker)
  /\ result = "dropped" => Dropped
  /\ (pc = "done" /\ exited /\ ocExit = "ok" /\ ~Dropped) => result = "success"
  /\ (pc = "done" /\ ocExit = "killed" /\ ctx) => result = "dropped" /\ lostAt = "before"

\* openocd.go: "OpenOCD owns the flash verdict: a clean exit (code 0) is success."
\* Not so when the pod's side ends after the exit and before main takes it from
\* cmd.Wait: the link is then said to have dropped "before OpenOCD finished".
CleanExitIsSuccess == (pc = "done" /\ exited /\ ocExit = "ok") => result = "success"

\* When flash returns nothing of it runs on: OpenOCD has exited, no goroutine
\* still copies, the pod's connection and OpenOCD's are closed, and nobody
\* accepts on the loopback port.
NothingLeftRunning ==
  pc = "done" =>
    /\ oc \in {"no", "exited"} /\ ~listener /\ ocConn \in {"none", "closed"}
    /\ toPod \in {"no", "done"} /\ fromPod \in {"no", "done"}
    /\ conn \in {"none", "closed"}

\* flash ends whatever OpenOCD and the pod do, and a pod that acknowledged
\* dap_start, stays connected and still reads has left its DAP mode.
EndsDisarmed ==
  <>[](pc = "done" /\ (podMode = "json" \/ abandoned \/ cutOnce \/ stalled))

\* runBridge closes the pod's connection "so the bridge never has to write an
\* in-band leave frame (which could block on a stalled pod)": it ends although
\* the pod has stopped reading.
FlashEnds == <>(pc = "done")
=============================================================================

--------------------------- MODULE SpiFlashSession ---------------------------
(***************************************************************************)
(* `benchpod spi-flash`: one run of runSPIWith and spiflash.Session.  The  *)
(* run holds the DUT in reset (nreset), claims the SPI engine with         *)
(* spi_start, works on the flash, then cleans up: spi_stop, release reset. *)
(* Cleanup uses the main session while it is good and a fresh connection   *)
(* per command once it is broken.                                          *)
(*                                                                         *)
(* The main connection is what RequestReply promises of a tcpclient        *)
(* Session: one round trip at a time, broken by the first lost reply.  A   *)
(* lost reply leaves it open whether the pod executed the request, and     *)
(* when.  The pod, another client of its SPI engine and the network are    *)
(* external.                                                               *)
(***************************************************************************)
EXTENDS Naturals

CONSTANT MaxWork    \* bound: flash commands (id, erase, write, read) in one run

ASSUME SpiFlashAssumption == MaxWork \in Nat

Conns == {"main", "fresh-stop", "fresh-release"}
Reqs  == {"status", "hold", "start", "work", "stop", "release"}
None  == "-"

VARIABLES
  at,          \* the request the run is at, or "done"
  sentOn,      \* the connection whose reply it waits for, or None
  nreset,      \* --nreset
  started, resetHeld,   \* spiflash.Session's variables: what cleanup owes
  err,         \* the run has an error to return
  cctxDone,    \* cleanup's own 10 s context is over
  ctxDone,     \* the run's context is over: Ctrl-C or the total timeout
  broken,      \* the main session is broken
  told,        \* what the run was told of its last request of each name
  worked,      \* flash commands sent
  conn, req, rep,       \* each connection, its request and reply in flight
  owner,       \* who holds the pod's SPI engine and its pins
  nrst,        \* the pod holds the DUT in reset
  oneClient,   \* the pod serves one client at a time
  prompt,      \* the pod answers before any timeout
  wasReset,    \* a connection was reset
  lateExec     \* the pod executed a request nobody waited for any more

client == <<at, sentOn, nreset, started, resetHeld, err, cctxDone, ctxDone,
            broken, told, worked>>
pod    == <<owner, nrst, oneClient, prompt, lateExec>>
vars   == <<client, conn, req, rep, pod, wasReset>>

Places ==
  /\ at \in Reqs \cup {"done"}
  /\ sentOn \in Conns \cup {None}
  /\ told \in [Reqs -> {None, "ok", "error", "busy", "lost"}]
  /\ worked \in 0..MaxWork
  /\ conn \in [Conns -> {"unused", "open", "closed"}]
  /\ req \in [Conns -> Reqs \cup {None}]
  /\ rep \in [Conns -> {None, "ok", "error", "busy"}]
  /\ owner \in {"nobody", "us", "other"}

RunFlags  == nreset \in BOOLEAN /\ started \in BOOLEAN /\ resetHeld \in BOOLEAN /\ err \in BOOLEAN
CtxFlags  == cctxDone \in BOOLEAN /\ ctxDone \in BOOLEAN /\ broken \in BOOLEAN
PodFlags  == nrst \in BOOLEAN /\ oneClient \in BOOLEAN /\ prompt \in BOOLEAN
PastFlags == wasReset \in BOOLEAN /\ lateExec \in BOOLEAN

\* Cleanup runs only for what it owes, and no connection outlives the run.
Owed ==
  /\ (at = "stop" => started) /\ (at = "release" => resetHeld)
  /\ at = "done" => \A k \in Conns : conn[k] # "open"

TypeOK == Places /\ RunFlags /\ CtxFlags /\ PodFlags /\ PastFlags /\ Owed

\* client.Open succeeded; what the pod and its other client are like is open.
Init ==
  /\ at = "status" /\ sentOn = None
  /\ nreset \in BOOLEAN
  /\ started = FALSE /\ resetHeld = FALSE
  /\ err = FALSE /\ cctxDone = FALSE /\ ctxDone = FALSE /\ broken = FALSE
  /\ told = [r \in Reqs |-> None]
  /\ worked = 0
  /\ conn = [k \in Conns |-> IF k = "main" THEN "open" ELSE "unused"]
  /\ req = [k \in Conns |-> None]
  /\ rep = [k \in Conns |-> None]
  /\ owner \in {"nobody", "other"}
  /\ nrst = FALSE
  /\ oneClient \in BOOLEAN /\ prompt \in BOOLEAN
  /\ wasReset = FALSE /\ lateExec = FALSE

-----------------------------------------------------------------------------
(* The run.                                                                *)

Cleanup  == {"stop", "release"}
Fresh(r) == IF r = "stop" THEN "fresh-stop" ELSE "fresh-release"

\* cleanupCommander: the session while it is healthy, else a fresh connection.
ConnFor(r) == IF r \in Cleanup /\ broken THEN Fresh(r) ELSE "main"

\* Mutant: reset is released before the pins are.
NextCleanupSwapped(r, s, h) ==
  IF r \notin Cleanup /\ h THEN "release" ELSE IF r # "stop" /\ s THEN "stop" ELSE "done"

\* Session's deferred cleanup starts; without anything to undo the run is over.
\* sess.Close comes after cleanup.
NextCleanup(r, s, h) ==
  IF r \notin Cleanup /\ s THEN "stop" ELSE IF r # "release" /\ h THEN "release" ELSE "done"

CloseMain(next) ==
  IF next = "done" THEN [conn EXCEPT !["main"] = "closed"] ELSE conn

\* What Session marks before it sends: lost replies are cleaned up after, too.
Mark(r) ==
  /\ started' = (started \/ r = "start")
  /\ resetHeld' = (resetHeld \/ r = "hold")

\* Send the request the run is at.
Send ==
  /\ at # "done" /\ sentOn = None
  /\ ~(ConnFor(at) = "main" /\ broken)
  /\ ~(at \in Cleanup /\ cctxDone)
  /\ at = "work" => worked < MaxWork
  /\ LET k == ConnFor(at) IN
       /\ sentOn' = k
       /\ req' = IF conn[k] = "closed" THEN req ELSE [req EXCEPT ![k] = at]
       /\ conn' = IF k = "main" THEN conn ELSE [conn EXCEPT ![k] = "open"]
  /\ Mark(at)
  /\ worked' = IF at = "work" THEN worked + 1 ELSE worked
  /\ UNCHANGED <<at, nreset, err, cctxDone, ctxDone, broken, told, rep, pod, wasReset>>

\* The outcome o of the round trip the run is at, and where it goes from there.
Settle(o) ==
  LET good == o = "ok"
      s    == started' IN
  /\ told' = [told EXCEPT ![at] = o]
  /\ err' = (err \/ ~good)
  /\ at' = CASE at = "status" /\ good -> IF nreset THEN "hold" ELSE "start"
             [] at = "status" /\ ~good -> "done"
             [] at = "hold" /\ good   -> "start"
             [] at \in {"start", "work"} /\ good -> "work"
             [] OTHER -> NextCleanup(at, s, resetHeld')
  /\ sentOn' = None
  /\ UNCHANGED <<nreset, worked, ctxDone>>

\* Mutant: a busy spi_start is cleaned up like any other failure.
ReceiveStopsBusy ==
  /\ sentOn # None
  /\ rep[sentOn] # None
  /\ UNCHANGED <<started, resetHeld>>
  /\ Settle(rep[sentOn])
  /\ rep' = [rep EXCEPT ![sentOn] = None]
  /\ conn' = IF sentOn = "main" THEN CloseMain(at')
             ELSE [CloseMain(at') EXCEPT ![sentOn] = "closed"]
  /\ UNCHANGED <<cctxDone, broken, req, pod, wasReset>>

\* The reply arrives in time.
Receive ==
  /\ sentOn # None
  /\ rep[sentOn] # None
  /\ started' = (started /\ ~(at = "start" /\ rep[sentOn] = "busy"))
  /\ UNCHANGED resetHeld
  /\ Settle(rep[sentOn])
  /\ rep' = [rep EXCEPT ![sentOn] = None]
  /\ conn' = IF sentOn = "main" THEN CloseMain(at')
             ELSE [CloseMain(at') EXCEPT ![sentOn] = "closed"]
  /\ UNCHANGED <<cctxDone, broken, req, pod, wasReset>>

\* The pod serves connection k: one at a time, or all of them.
Served(k) == conn[k] = "open" /\ (oneClient => k = "main" \/ conn["main"] # "open")

\* Mutant: a spi_start without a reply counts as not started.
LoseForgetsStart ==
  /\ sentOn # None
  /\ \/ sentOn = "main" /\ ctxDone
     \/ conn[sentOn] = "closed"
     \/ ~prompt \/ ~Served(sentOn)
  /\ started' = (started /\ at # "start")
  /\ UNCHANGED resetHeld
  /\ Settle("lost")
  /\ broken' = (broken \/ sentOn = "main")
  /\ cctxDone' \in {cctxDone, cctxDone \/ at \in Cleanup}
  /\ conn' = IF sentOn = "main" THEN CloseMain(at')
             ELSE [CloseMain(at') EXCEPT ![sentOn] = "closed"]
  /\ UNCHANGED <<req, rep, pod, wasReset>>

\* The round trip is lost: Ctrl-C (a watcher of a cancelled command can also hit
\* the cleanup command that follows it on the session), a timeout, or a reset
\* connection.  The main session is broken, a fresh connection closed.
Lose ==
  /\ sentOn # None
  /\ \/ sentOn = "main" /\ ctxDone
     \/ conn[sentOn] = "closed"
     \/ ~prompt \/ ~Served(sentOn)
  /\ UNCHANGED <<started, resetHeld>>
  /\ Settle("lost")
  /\ broken' = (broken \/ sentOn = "main")
  /\ cctxDone' \in {cctxDone, cctxDone \/ at \in Cleanup}
  /\ conn' = IF sentOn = "main" THEN CloseMain(at')
             ELSE [CloseMain(at') EXCEPT ![sentOn] = "closed"]
  /\ UNCHANGED <<req, rep, pod, wasReset>>

\* The command fails before its request is out: the session is broken, or the
\* context is over before the write or the dial.
FailUnsent ==
  /\ at # "done" /\ sentOn = None
  /\ \/ ConnFor(at) = "main" /\ (broken \/ ctxDone)
     \/ at \in Cleanup /\ cctxDone
  /\ Mark(at)
  /\ Settle("lost")
  /\ broken' = (broken \/ ConnFor(at) = "main")
  /\ conn' = CloseMain(at')
  /\ UNCHANGED <<cctxDone, req, rep, pod, wasReset>>

\* fn returns: it did what it came for, or found an error of its own (no flash
\* answering, past the end of the part, a reply that does not fit).
FnReturns ==
  /\ at = "work" /\ sentOn = None
  /\ err' \in BOOLEAN
  /\ at' = NextCleanup(at, started, resetHeld)
  /\ conn' = CloseMain(at')
  /\ UNCHANGED <<sentOn, nreset, started, resetHeld, cctxDone, ctxDone, broken,
                 told, worked, req, rep, pod, wasReset>>

-----------------------------------------------------------------------------
(* The user, the network, the pod and its other client.                    *)

ContextEnds ==
  /\ ~ctxDone /\ at # "done"
  /\ ctxDone' = TRUE
  /\ UNCHANGED <<at, sentOn, nreset, started, resetHeld, err, cctxDone, broken,
                 told, worked, conn, req, rep, pod, wasReset>>

ConnReset(k) ==
  /\ conn[k] = "open"
  /\ conn' = [conn EXCEPT ![k] = "closed"]
  /\ req' = [req EXCEPT ![k] = None]
  /\ rep' = [rep EXCEPT ![k] = None]
  /\ wasReset' = TRUE
  /\ UNCHANGED <<client, pod>>

\* The pod executes k's request, also one whose connection was closed after it.
\* It may refuse any of them.
PodExecutes(k) ==
  /\ req[k] # None
  /\ Served(k) \/ (conn[k] = "closed" /\ ~(oneClient /\ conn["main"] = "open"))
  /\ \E o \in {"ok", "error", "busy"} :
       /\ o = "busy" <=> (req[k] = "start" /\ owner # "nobody")
       /\ owner' = CASE req[k] = "start" /\ o = "ok" -> "us"
                     [] req[k] = "stop" /\ o = "ok"  -> "nobody"
                     [] OTHER                        -> owner
       /\ nrst' = CASE req[k] = "hold" /\ o = "ok" -> TRUE
                    [] req[k] = "release" /\ o = "ok" -> FALSE
                    [] OTHER                       -> nrst
       /\ rep' = IF conn[k] = "open" THEN [rep EXCEPT ![k] = o] ELSE rep
  /\ req' = [req EXCEPT ![k] = None]
  /\ lateExec' = (lateExec \/ sentOn # k)
  /\ UNCHANGED <<client, conn, oneClient, prompt, wasReset>>

OtherClient ==
  /\ owner' \in {"nobody", "other"} \ {owner}
  /\ owner # "us"
  /\ UNCHANGED <<client, conn, req, rep, nrst, oneClient, prompt, lateExec, wasReset>>

-----------------------------------------------------------------------------
Run == Send \/ Receive \/ Lose \/ FailUnsent \/ FnReturns

Next ==
  \/ Run
  \/ ContextEnds
  \/ \E k \in Conns : ConnReset(k) \/ PodExecutes(k)
  \/ OtherClient

Spec     == Init /\ [][Next]_vars

-----------------------------------------------------------------------------
(* Properties.                                                             *)

\* Session: "Someone else's session: do not stop it on the way out."  A run that
\* was told the SPI engine is busy never sends spi_stop.
BusyIsLeftAlone ==
  told["start"] = "busy" => told["stop"] = None /\ \A k \in Conns : req[k] # "stop"

\* Whatever a run may have left on the pod it tries to undo, also when the reply
\* that would have told it was lost; and one that reports success has left the SPI
\* pins and the DUT's reset free.
EverythingIsCleanedUp ==
  at = "done" =>
    /\ told["start"] \notin {None, "busy"} => told["stop"] # None
    /\ told["hold"] # None => told["release"] # None
    /\ ~err => owner # "us" /\ ~nrst

\* A command was given up on before its reply: the session is broken.
Interrupted == \E r \in Reqs \ Cleanup : told[r] = "lost"

\* Session: "spi_stop and release reset, in that order, so the pod's pins are
\* high-Z before the DUT's own controller comes out of reset".  Holds unless
\* spi_stop was lost or refused; Session releases reset even then.
PinsFreeBeforeReset ==
  [][nrst /\ ~nrst' /\ oneClient /\ told["stop"] \in {None, "ok"} => owner # "us"]_vars

\* The help: "The SPI pins are always released at the end, also on an error or
\* Ctrl-C."  Here after an interrupted command, on a prompt pod that serves one
\* client at a time, with no connection reset and nothing executed after the run
\* gave up on it.
PinsReleasedAtEnd ==
  at = "done" /\ Interrupted /\ prompt /\ oneClient /\ ~wasReset /\ ~lateExec
    => owner # "us"
=============================================================================

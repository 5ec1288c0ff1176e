----------------------- MODULE SpiAndConsole_proofs -----------------------
(***************************************************************************)
(* Proofs about the two dialogues of a command with the pod's firmware     *)
(* that work line by line or request by request: SpiFlashSession with what *)
(* its requests do to the flash, SpiFlashRange, and SerialConsole. They    *)
(* have no variable and no definition in common, and each theorem is about *)
(* one of them, but for RunIsBoth: SpiFlashRun is the first two at once.   *)
(*                                                                         *)
(* SpiFlashSession, for a run of any number of flash commands: its type    *)
(* correctness, that an SPI engine another client holds is left alone,     *)
(* that whatever the run may have left on the pod it undoes, also after    *)
(* Ctrl-C, and that the pins are free before reset is released.            *)
(*                                                                         *)
(* SpiFlashRange, for any part and any sizes of sector and request: its    *)
(* type correctness, that success means what it says, that the flash next  *)
(* to the range is left alone, and that no sector is erased twice.         *)
(*                                                                         *)
(* SerialConsole, for any flows, networks, wiring and bounds: its type     *)
(* correctness, that a reply is read to its end, and that what set-wifi,   *)
(* scan-wifi, bootsel and the power command report is what the pod did.    *)
(***************************************************************************)
EXTENDS SpiFlashRun, SerialConsole, SequenceTheorems,
        FiniteSetTheorems, TLAPS

(***************************************************************************)
(* SpiFlashSession.                                                        *)
(***************************************************************************)

Early == {"status", "hold", "start", "work"}

\* Which connections are open: a fresh one only while its reply is waited for.
Links ==
  /\ at = "done" => sentOn = None /\ conn["main"] # "open"
  /\ \A k \in Conns \ {"main"} : conn[k] = "open" => sentOn = k

\* What the run has marked against what it was told, and what it has not yet sent.
Marks ==
  /\ at \in {"status", "hold"} => ~started
  /\ at = "status" => ~resetHeld
  /\ at \in {"status", "hold", "start"} => told["start"] = None
  /\ at \in Early => told["stop"] = None /\ \A k \in Conns : req[k] # "stop"
  /\ sentOn # None => (at = "start" => started) /\ (at = "hold" => resetHeld)
  /\ told["start"] \notin {None, "busy"} => started
  /\ told["start"] = "busy" => ~started
  /\ told["hold"] # None => resetHeld
  /\ started /\ at \in {"release", "done"} => told["stop"] # None
  /\ resetHeld /\ at = "done" => told["release"] # None

\* While nothing has gone wrong at most the request the run is at is in flight, and
\* the run has marked, and not yet undone, all it left on the pod.
Clean ==
  /\ at \in Early => ~err
  /\ ~err =>
       /\ \A k \in Conns : req[k] # None \/ rep[k] # None => k = sentOn
       /\ \A k \in Conns : req[k] # None => req[k] = at /\ rep[k] = None
       /\ owner = "us" =>
            /\ started /\ at \notin {"release", "done"}
            /\ at = "stop" => \A k \in Conns : rep[k] # "ok"
       /\ nrst =>
            /\ resetHeld /\ at # "done"
            /\ at = "release" => \A k \in Conns : rep[k] # "ok"

\* The request in flight on a connection is the one the run waits for.
Calls ==
  /\ sentOn = "main" =>
       ~broken /\ (req["main"] = None \/ (req["main"] = at /\ rep["main"] = None))
  /\ sentOn \in {"fresh-stop", "fresh-release"} =>
       broken /\ at \in Cleanup /\ sentOn = Fresh(at)
  /\ sentOn = None /\ ~broken => req["main"] = None /\ rep["main"] = None
  /\ conn["main"] # "unused"
  /\ at # "done" /\ conn["main"] # "open" => req["main"] = None
  /\ at \in Early \/ (at = "stop" /\ sentOn = None) => rep["fresh-stop"] = None
  /\ req["fresh-stop"] \in {None, "stop"}

\* The engine is the run's only by its one spi_start, and release is asked for last.
Claimed ==
  /\ owner = "us" => started
  /\ at = "start" /\ sentOn = None => ~started
  /\ \A k \in Conns : req[k] = "start" => k = "main" /\ started /\ owner # "us"
  /\ \A k \in Conns : rep[k] = "busy" => k = "main" /\ owner # "us" /\ req["main"] # "start"
  /\ \A k \in Conns : req[k] = "release" => at \in {"release", "done"}

\* A pod that serves one client at a time and said spi_stop is done has nothing of
\* the run's left, and no spi_start of it in flight.
Freed ==
  oneClient /\ (told["stop"] = "ok" \/ (at = "stop" /\ sentOn # None /\ rep[sentOn] = "ok"))
    => owner # "us" /\ req["main"] # "start"

IInv ==
  /\ TypeOK /\ Links /\ Marks /\ BusyIsLeftAlone /\ Clean
  /\ Calls /\ Claimed /\ Freed

\* No step of the run, the user, the network or the pods leaves the types.
LEMMA PlacesStep == Places /\ [Next]_vars => Places'
<1> SUFFICES ASSUME Places, [Next]_vars PROVE Places'
  OBVIOUS
<1> USE SpiFlashAssumption DEF Places, Conns, Reqs, None, client, pod
<1>1. CASE Send
  BY <1>1, SMTT(60) DEF Send, ConnFor, Fresh, Mark, Cleanup
<1>2. CASE Receive
  BY <1>2, ZenonT(60) DEF Receive, Settle, NextCleanup, CloseMain, Cleanup
<1>3. CASE Lose
  BY <1>3 DEF Lose, Settle, NextCleanup, CloseMain, Served, Cleanup
<1>4. CASE FailUnsent
  BY <1>4 DEF FailUnsent, Mark, Settle, NextCleanup, CloseMain, Cleanup
<1>5. CASE FnReturns
  BY <1>5 DEF FnReturns, NextCleanup, CloseMain, Cleanup
<1>6. CASE ContextEnds
  BY <1>6 DEF ContextEnds
<1>7. ASSUME NEW k \in Conns, ConnReset(k) PROVE Places'
  BY <1>7 DEF ConnReset
<1>8. ASSUME NEW k \in Conns, PodExecutes(k) PROVE Places'
  BY <1>8 DEF PodExecutes
<1>9. CASE OtherClient
  BY <1>9 DEF OtherClient
<1>10. CASE UNCHANGED vars
  BY <1>10 DEF vars
<1> QED BY <1>1, <1>2, <1>3, <1>4, <1>5, <1>6, <1>7, <1>8, <1>9, <1>10
  DEF Next, Run

LEMMA FlagsStep ==
  RunFlags /\ CtxFlags /\ PodFlags /\ PastFlags /\ [Next]_vars
  => RunFlags' /\ CtxFlags' /\ PodFlags' /\ PastFlags'
<1> SUFFICES ASSUME RunFlags, CtxFlags, PodFlags, PastFlags, [Next]_vars
             PROVE RunFlags' /\ CtxFlags' /\ PodFlags' /\ PastFlags'
  OBVIOUS
<1> USE DEF client, pod
<1>1. CASE Send
  <2>1. RunFlags'
    BY <1>1 DEF RunFlags, Send, ConnFor, Fresh, Mark, Cleanup
  <2>2. CtxFlags'
    BY <1>1 DEF CtxFlags, Send, ConnFor, Fresh, Mark, Cleanup
  <2>3. PodFlags'
    BY <1>1 DEF PodFlags, Send, ConnFor, Fresh, Mark, Cleanup
  <2>4. PastFlags'
    BY <1>1 DEF PastFlags, Send, ConnFor, Fresh, Mark, Cleanup
  <2> QED BY <2>1, <2>2, <2>3, <2>4
<1>2. CASE Receive
  <2>1. RunFlags'
    BY <1>2 DEF RunFlags, Receive, Settle, NextCleanup, CloseMain, Cleanup
  <2>2. CtxFlags'
    BY <1>2 DEF CtxFlags, Receive, Settle, NextCleanup, CloseMain, Cleanup
  <2>3. PodFlags'
    BY <1>2 DEF PodFlags, Receive, Settle, NextCleanup, CloseMain, Cleanup
  <2>4. PastFlags'
    BY <1>2 DEF PastFlags, Receive, Settle, NextCleanup, CloseMain, Cleanup
  <2> QED BY <2>1, <2>2, <2>3, <2>4
<1>3. CASE Lose
  <2>1. RunFlags'
    BY <1>3 DEF RunFlags, Lose, Settle, NextCleanup, CloseMain, Served, Cleanup
  <2>2. CtxFlags'
    BY <1>3 DEF CtxFlags, Lose, Settle, NextCleanup, CloseMain, Served, Cleanup
  <2>3. PodFlags'
    BY <1>3 DEF PodFlags, Lose, Settle, NextCleanup, CloseMain, Served, Cleanup
  <2>4. PastFlags'
    BY <1>3 DEF PastFlags, Lose, Settle, NextCleanup, CloseMain, Served, Cleanup
  <2> QED BY <2>1, <2>2, <2>3, <2>4
<1>4. CASE FailUnsent
  <2>1. RunFlags'
    BY <1>4 DEF RunFlags, FailUnsent, Mark, Settle, NextCleanup, CloseMain, Cleanup
  <2>2. CtxFlags'
    BY <1>4 DEF CtxFlags, FailUnsent, Mark, Settle, NextCleanup, CloseMain, Cleanup
  <2>3. PodFlags'
    BY <1>4 DEF PodFlags, FailUnsent, Mark, Settle, NextCleanup, CloseMain, Cleanup
  <2>4. PastFlags'
    BY <1>4 DEF PastFlags, FailUnsent, Mark, Settle, NextCleanup, CloseMain, Cleanup
  <2> QED BY <2>1, <2>2, <2>3, <2>4
<1>5. CASE FnReturns
  <2>1. RunFlags'
    BY <1>5 DEF RunFlags, FnReturns, NextCleanup, CloseMain, Cleanup
  <2>2. CtxFlags'
    BY <1>5 DEF CtxFlags, FnReturns, NextCleanup, CloseMain, Cleanup
  <2>3. PodFlags'
    BY <1>5 DEF PodFlags, FnReturns, NextCleanup, CloseMain, Cleanup
  <2>4. PastFlags'
    BY <1>5 DEF PastFlags, FnReturns, NextCleanup, CloseMain, Cleanup
  <2> QED BY <2>1, <2>2, <2>3, <2>4
<1>6. CASE ContextEnds
  <2>1. RunFlags'
    BY <1>6 DEF RunFlags, ContextEnds
  <2>2. CtxFlags'
    BY <1>6 DEF CtxFlags, ContextEnds
  <2>3. PodFlags'
    BY <1>6 DEF PodFlags, ContextEnds
  <2>4. PastFlags'
    BY <1>6 DEF PastFlags, ContextEnds
  <2> QED BY <2>1, <2>2, <2>3, <2>4
<1>7. ASSUME NEW k \in Conns, ConnReset(k) PROVE RunFlags' /\ CtxFlags' /\ PodFlags' /\ PastFlags'
  <2>1. RunFlags'
    BY <1>7 DEF RunFlags, ConnReset
  <2>2. CtxFlags'
    BY <1>7 DEF CtxFlags, ConnReset
  <2>3. PodFlags'
    BY <1>7 DEF PodFlags, ConnReset
  <2>4. PastFlags'
    BY <1>7 DEF PastFlags, ConnReset
  <2> QED BY <2>1, <2>2, <2>3, <2>4
<1>8. ASSUME NEW k \in Conns, PodExecutes(k) PROVE RunFlags' /\ CtxFlags' /\ PodFlags' /\ PastFlags'
  <2>1. RunFlags'
    BY <1>8 DEF RunFlags, PodExecutes
  <2>2. CtxFlags'
    BY <1>8 DEF CtxFlags, PodExecutes
  <2>3. PodFlags'
    BY <1>8 DEF PodFlags, PodExecutes
  <2>4. PastFlags'
    BY <1>8 DEF PastFlags, PodExecutes
  <2> QED BY <2>1, <2>2, <2>3, <2>4
<1>9. CASE OtherClient
  <2>1. RunFlags'
    BY <1>9 DEF RunFlags, OtherClient
  <2>2. CtxFlags'
    BY <1>9 DEF CtxFlags, OtherClient
  <2>3. PodFlags'
    BY <1>9 DEF PodFlags, OtherClient
  <2>4. PastFlags'
    BY <1>9 DEF PastFlags, OtherClient
  <2> QED BY <2>1, <2>2, <2>3, <2>4
<1>10. CASE UNCHANGED vars
  <2>1. RunFlags'
    BY <1>10 DEF RunFlags, vars
  <2>2. CtxFlags'
    BY <1>10 DEF CtxFlags, vars
  <2>3. PodFlags'
    BY <1>10 DEF PodFlags, vars
  <2>4. PastFlags'
    BY <1>10 DEF PastFlags, vars
  <2> QED BY <2>1, <2>2, <2>3, <2>4
<1> QED BY <1>1, <1>2, <1>3, <1>4, <1>5, <1>6, <1>7, <1>8, <1>9, <1>10
  DEF Next, Run

\* A fresh connection is opened by the send that waits on it and closed by what ends
\* the wait; the main one is closed when the run is over.
LEMMA LinksStep == Places /\ Links /\ Marks /\ [Next]_vars => Links'
<1> SUFFICES ASSUME Places, Links, Marks, [Next]_vars PROVE Links'
  OBVIOUS
<1> USE DEF Places, Links, Conns, Reqs, None, client, pod
<1>1. CASE Send
  BY <1>1, SMTT(60) DEF Send, ConnFor, Fresh, Mark, Cleanup
<1>2. CASE Receive
  BY <1>2 DEF Receive, Settle, NextCleanup, CloseMain, Cleanup
<1>3. CASE Lose
  BY <1>3 DEF Lose, Settle, NextCleanup, CloseMain, Served, Cleanup
<1>4. CASE FailUnsent
  BY <1>4 DEF FailUnsent, Mark, Settle, NextCleanup, CloseMain, Cleanup
<1>5. CASE FnReturns
  BY <1>5 DEF FnReturns, NextCleanup, CloseMain, Cleanup
<1>6. CASE ContextEnds
  BY <1>6 DEF ContextEnds
<1>7. ASSUME NEW k \in Conns, ConnReset(k) PROVE Links'
  BY <1>7 DEF ConnReset
<1>8. ASSUME NEW k \in Conns, PodExecutes(k) PROVE Links'
  BY <1>8 DEF PodExecutes
<1>9. CASE OtherClient
  BY <1>9 DEF OtherClient
<1>10. CASE UNCHANGED vars
  BY <1>10 DEF vars
<1> QED BY <1>1, <1>2, <1>3, <1>4, <1>5, <1>6, <1>7, <1>8, <1>9, <1>10
  DEF Next, Run

\* Every request is marked before it is sent; only a busy answer takes a mark back,
\* and it is the answer to the one spi_start.
LEMMA MarksStep == Places /\ Links /\ Marks /\ Owed /\ [Next]_vars => Marks'
<1> SUFFICES ASSUME Places, Links, Marks, Owed, [Next]_vars PROVE Marks'
  OBVIOUS
<1> USE DEF Places, Links, Marks, Owed, Conns, Reqs, None, Early, client, pod
<1>1. CASE Send
  BY <1>1, ZenonT(60) DEF Send, ConnFor, Fresh, Mark, Cleanup
<1>2. CASE Receive
  <2>1. at' = "hold" => ~started'
    BY <1>2 DEF Receive, Settle, NextCleanup, Cleanup
  <2>2. at' # "status"
    BY <1>2 DEF Receive, Settle, NextCleanup, Cleanup
  <2>3. at' \in {"hold", "start"} => told'["start"] = None
    BY <1>2 DEF Receive, Settle, NextCleanup, Cleanup
  <2>4. at' \in Early => told'["stop"] = None /\ \A k \in Conns : req'[k] # "stop"
    BY <1>2 DEF Receive, Settle, NextCleanup, Cleanup
  <2>5. told'["start"] \notin {None, "busy"} => started'
    BY <1>2 DEF Receive, Settle, NextCleanup, Cleanup
  <2>6. told'["start"] = "busy" => ~started'
    BY <1>2 DEF Receive, Settle, NextCleanup, Cleanup
  <2>7. sentOn' = None
    BY <1>2 DEF Receive, Settle, NextCleanup, Cleanup
  <2>8. told'["hold"] # None => resetHeld'
    BY <1>2 DEF Receive, Settle, NextCleanup, Cleanup
  <2>9. started' /\ at' \in {"release", "done"} => told'["stop"] # None
    BY <1>2 DEF Receive, Settle, NextCleanup, Cleanup
  <2>10. resetHeld' /\ at' = "done" => told'["release"] # None
    BY <1>2 DEF Receive, Settle, NextCleanup, Cleanup
  <2> QED BY <2>1, <2>2, <2>3, <2>4, <2>5, <2>6, <2>7, <2>8, <2>9, <2>10
<1>3. CASE Lose
  <2>1. at' = "hold" => ~started'
    BY <1>3 DEF Lose, Settle, NextCleanup, Cleanup
  <2>2. at' # "status"
    BY <1>3 DEF Lose, Settle, NextCleanup, Cleanup
  <2>3. at' \in {"hold", "start"} => told'["start"] = None
    BY <1>3 DEF Lose, Settle, NextCleanup, Cleanup
  <2>4. at' \in Early => told'["stop"] = None /\ \A k \in Conns : req'[k] # "stop"
    BY <1>3 DEF Lose, Settle, NextCleanup, Cleanup
  <2>5. told'["start"] \notin {None, "busy"} => started'
    BY <1>3 DEF Lose, Settle, NextCleanup, Cleanup
  <2>6. told'["start"] = "busy" => ~started'
    BY <1>3 DEF Lose, Settle, NextCleanup, Cleanup
  <2>7. sentOn' = None
    BY <1>3 DEF Lose, Settle, NextCleanup, Cleanup
  <2>8. told'["hold"] # None => resetHeld'
    BY <1>3 DEF Lose, Settle, NextCleanup, Cleanup
  <2>9. started' /\ at' \in {"release", "done"} => told'["stop"] # None
    BY <1>3 DEF Lose, Settle, NextCleanup, Cleanup
  <2>10. resetHeld' /\ at' = "done" => told'["release"] # None
    BY <1>3 DEF Lose, Settle, NextCleanup, Cleanup
  <2> QED BY <2>1, <2>2, <2>3, <2>4, <2>5, <2>6, <2>7, <2>8, <2>9, <2>10
<1>4. CASE FailUnsent
  BY <1>4, ZenonT(60) DEF FailUnsent, Mark, Settle, NextCleanup, CloseMain, Cleanup
<1>5. CASE FnReturns
  BY <1>5 DEF FnReturns, NextCleanup, CloseMain, Cleanup
<1>6. CASE ContextEnds
  BY <1>6 DEF ContextEnds
<1>7. ASSUME NEW k \in Conns, ConnReset(k) PROVE Marks'
  BY <1>7 DEF ConnReset
<1>8. ASSUME NEW k \in Conns, PodExecutes(k) PROVE Marks'
  BY <1>8 DEF PodExecutes
<1>9. CASE OtherClient
  BY <1>9 DEF OtherClient
<1>10. CASE UNCHANGED vars
  BY <1>10 DEF vars
<1> QED BY <1>1, <1>2, <1>3, <1>4, <1>5, <1>6, <1>7, <1>8, <1>9, <1>10
  DEF Next, Run

\* Cleanup is entered only for what is marked.
LEMMA OwedStep == Places /\ Links /\ Owed /\ [Next]_vars => Owed'
<1> SUFFICES ASSUME Places, Links, Owed, [Next]_vars PROVE Owed'
  OBVIOUS
<1> USE DEF Places, Links, Owed, Conns, Reqs, None, client, pod
<1>1. CASE Send
  BY <1>1 DEF Send, ConnFor, Fresh, Mark, Cleanup
<1>2. CASE Receive
  BY <1>2 DEF Receive, Settle, NextCleanup, CloseMain, Cleanup
<1>3. CASE Lose
  BY <1>3 DEF Lose, Settle, NextCleanup, CloseMain, Served, Cleanup
<1>4. CASE FailUnsent
  BY <1>4 DEF FailUnsent, Mark, Settle, NextCleanup, CloseMain, Cleanup
<1>5. CASE FnReturns
  BY <1>5 DEF FnReturns, NextCleanup, CloseMain, Cleanup
<1>6. CASE ContextEnds
  BY <1>6 DEF ContextEnds
<1>7. ASSUME NEW k \in Conns, ConnReset(k) PROVE Owed'
  BY <1>7 DEF ConnReset
<1>8. ASSUME NEW k \in Conns, PodExecutes(k) PROVE Owed'
  BY <1>8 DEF PodExecutes
<1>9. CASE OtherClient
  BY <1>9 DEF OtherClient
<1>10. CASE UNCHANGED vars
  BY <1>10 DEF vars
<1> QED BY <1>1, <1>2, <1>3, <1>4, <1>5, <1>6, <1>7, <1>8, <1>9, <1>10
  DEF Next, Run

LEMMA BusyStep ==
  Places /\ Marks /\ Owed /\ BusyIsLeftAlone /\ [Next]_vars => BusyIsLeftAlone'
<1> SUFFICES ASSUME Places, Marks, Owed, BusyIsLeftAlone, [Next]_vars
             PROVE BusyIsLeftAlone'
  OBVIOUS
<1> USE DEF Places, Marks, Owed, BusyIsLeftAlone, Conns, Reqs, None, Early, client, pod
<1>1. CASE Send
  BY <1>1 DEF Send, ConnFor, Fresh, Mark, Cleanup
<1>2. CASE Receive
  BY <1>2 DEF Receive, Settle, NextCleanup, CloseMain, Cleanup
<1>3. CASE Lose
  BY <1>3 DEF Lose, Settle, NextCleanup, CloseMain, Served, Cleanup
<1>4. CASE FailUnsent
  BY <1>4 DEF FailUnsent, Mark, Settle, NextCleanup, CloseMain, Cleanup
<1>5. CASE FnReturns
  BY <1>5 DEF FnReturns, NextCleanup, CloseMain, Cleanup
<1>6. CASE ContextEnds
  BY <1>6 DEF ContextEnds
<1>7. ASSUME NEW k \in Conns, ConnReset(k) PROVE BusyIsLeftAlone'
  BY <1>7 DEF ConnReset
<1>8. ASSUME NEW k \in Conns, PodExecutes(k) PROVE BusyIsLeftAlone'
  BY <1>8 DEF PodExecutes
<1>9. CASE OtherClient
  BY <1>9 DEF OtherClient
<1>10. CASE UNCHANGED vars
  BY <1>10 DEF vars
<1> QED BY <1>1, <1>2, <1>3, <1>4, <1>5, <1>6, <1>7, <1>8, <1>9, <1>10
  DEF Next, Run

\* While no round trip has failed the pod is as the run's marks say.
LEMMA CleanStep ==
  Places /\ RunFlags /\ Links /\ Marks /\ Owed /\ Clean /\ [Next]_vars => Clean'
<1> SUFFICES ASSUME Places, RunFlags, Links, Marks, Owed, Clean, [Next]_vars
             PROVE Clean'
  OBVIOUS
<1> USE DEF Places, Links, Marks, Owed, Clean, Conns, Reqs, None, Early, client, pod
<1>1. CASE Send
  BY <1>1, ZenonT(60) DEF Send, ConnFor, Fresh, Mark, Cleanup
<1>2. CASE Receive
  <2>1. CASE rep[sentOn] # "ok"
    <3>1. err'
      BY <1>2, <2>1 DEF Receive, Settle
    <3>2. at' = NextCleanup(at, started', resetHeld') \/ at' = "done"
      BY <1>2, <2>1 DEF Receive, Settle
    <3>3. at' \notin Early
      BY <3>2 DEF NextCleanup
    <3> QED BY <3>1, <3>3
  <2>2. CASE rep[sentOn] = "ok"
    <3>1. sentOn \in Conns /\ sentOn' = None
      BY <1>2 DEF Receive, Settle
    <3>2. rep' = [rep EXCEPT ![sentOn] = None] /\ UNCHANGED <<req, owner, nrst, resetHeld>>
      BY <1>2 DEF Receive
    <3>3. err' = err /\ started' = started
      BY <1>2, <2>2 DEF Receive, Settle, RunFlags
    <3>4. at' = CASE at = "status" -> IF nreset THEN "hold" ELSE "start"
               [] at = "hold" -> "start"
               [] at \in {"start", "work"} -> "work"
               [] OTHER -> NextCleanup(at, started, resetHeld)
      BY <1>2, <2>2, <3>3 DEF Receive, Settle
    <3>5. CASE at \in Early
      <4>1. at' \in Early
        BY <3>4, <3>5
      <4> QED BY <2>2, <3>1, <3>2, <3>3, <3>5, <4>1
    <3>6. CASE at \in Cleanup
      <4>1. at' = NextCleanup(at, started, resetHeld) /\ at' \notin Early
        BY <3>4, <3>6 DEF Cleanup, NextCleanup
      <4> QED BY <2>2, <3>1, <3>2, <3>3, <3>6, <4>1 DEF Cleanup, NextCleanup
    <3>7. at # "done"
      BY <3>1
    <3> QED BY <3>5, <3>6, <3>7 DEF Cleanup
  <2> QED BY <2>1, <2>2
<1>3. CASE Lose
  <2>1. err' /\ at' \notin Early
    <3>1. err'
      BY <1>3 DEF Lose, Settle
    <3>2. at' = NextCleanup(at, started', resetHeld') \/ at' = "done"
      BY <1>3 DEF Lose, Settle
    <3>3. at' \notin Early
      BY <3>2 DEF NextCleanup
    <3> QED BY <3>1, <3>3
  <2> QED BY <2>1
<1>4. CASE FailUnsent
  BY <1>4 DEF FailUnsent, Mark, Settle, NextCleanup, CloseMain, Cleanup
<1>5. CASE FnReturns
  BY <1>5 DEF FnReturns, NextCleanup, CloseMain, Cleanup
<1>6. CASE ContextEnds
  BY <1>6 DEF ContextEnds
<1>7. ASSUME NEW k \in Conns, ConnReset(k) PROVE Clean'
  BY <1>7 DEF ConnReset
<1>8. ASSUME NEW k \in Conns, PodExecutes(k) PROVE Clean'
  BY <1>8 DEF PodExecutes
<1>9. CASE OtherClient
  BY <1>9 DEF OtherClient
<1>10. CASE UNCHANGED vars
  BY <1>10 DEF vars
<1> QED BY <1>1, <1>2, <1>3, <1>4, <1>5, <1>6, <1>7, <1>8, <1>9, <1>10
  DEF Next, Run

\* A connection carries a round trip at a time.
LEMMA CallsStep ==
  Places /\ CtxFlags /\ Links /\ Marks /\ Calls /\ [Next]_vars => Calls'
<1> SUFFICES ASSUME Places, CtxFlags, Links, Marks, Calls, [Next]_vars PROVE Calls'
  OBVIOUS
<1> USE DEF Places, CtxFlags, Links, Marks, Calls, Conns, Reqs, None, Early, Cleanup,
  client, pod
<1>1. CASE Send
  <2>1. sentOn = None /\ at \in Reqs /\ UNCHANGED <<at, broken, rep>>
    BY <1>1 DEF Send
  <2>2. CASE ~broken
    <3>1. sentOn' = "main" /\ conn' = conn
      BY <1>1, <2>2 DEF Send, ConnFor
    <3>2. req' = req \/ req' = [req EXCEPT !["main"] = at]
      BY <1>1, <2>2 DEF Send, ConnFor
    <3>3. conn["main"] # "open" => req' = req
      BY <1>1, <2>2 DEF Send, ConnFor
    <3> QED BY <2>1, <2>2, <3>1, <3>2, <3>3
  <2>3. CASE broken
    <3>1. at \in Cleanup /\ sentOn' = Fresh(at)
      BY <1>1, <2>3 DEF Send, ConnFor
    <3>2. req' = req \/ req' = [req EXCEPT ![Fresh(at)] = at]
      BY <1>1, <2>3, <3>1 DEF Send
    <3>3. conn' = [conn EXCEPT ![Fresh(at)] = "open"]
      BY <1>1, <2>3, <3>1 DEF Send, Fresh
    <3> QED BY <2>1, <2>3, <3>1, <3>2, <3>3 DEF Fresh
  <2> QED BY <2>2, <2>3 DEF CtxFlags
<1>2. CASE Receive
  BY <1>2 DEF Receive, Settle, NextCleanup, CloseMain, Fresh
<1>3. CASE Lose
  BY <1>3 DEF Lose, Settle, NextCleanup, CloseMain, Served, Fresh
<1>4. CASE FailUnsent
  BY <1>4 DEF FailUnsent, ConnFor, Mark, Settle, NextCleanup, CloseMain, Fresh
<1>5. CASE FnReturns
  BY <1>5 DEF FnReturns, NextCleanup, CloseMain
<1>6. CASE ContextEnds
  BY <1>6 DEF ContextEnds
<1>7. ASSUME NEW k \in Conns, ConnReset(k) PROVE Calls'
  BY <1>7 DEF ConnReset
<1>8. ASSUME NEW k \in Conns, PodExecutes(k) PROVE Calls'
  BY <1>8 DEF PodExecutes, Served, Fresh
<1>9. CASE OtherClient
  BY <1>9 DEF OtherClient
<1>10. CASE UNCHANGED vars
  BY <1>10 DEF vars
<1> QED BY <1>1, <1>2, <1>3, <1>4, <1>5, <1>6, <1>7, <1>8, <1>9, <1>10
  DEF Next, Run

\* spi_start is sent once, on the main session.
LEMMA ClaimedStep ==
  Places /\ RunFlags /\ Links /\ Marks /\ Owed /\ Calls /\ Claimed
  /\ [Next]_vars => Claimed'
<1> SUFFICES ASSUME Places, RunFlags, Links, Marks, Owed, Calls, Claimed, [Next]_vars PROVE Claimed'
  OBVIOUS
<1> USE DEF Places, RunFlags, Links, Marks, Owed, Calls, Claimed, Conns, Reqs, None,
  Early, Cleanup, client, pod
<1>1. CASE Send
  BY <1>1, ZenonT(60) DEF Send, ConnFor, Fresh, Mark
<1>2. CASE Receive
  BY <1>2 DEF Receive, Settle, NextCleanup, CloseMain, Fresh
<1>3. CASE Lose
  BY <1>3 DEF Lose, Settle, NextCleanup, CloseMain, Served, Fresh
<1>4. CASE FailUnsent
  BY <1>4 DEF FailUnsent, ConnFor, Mark, Settle, NextCleanup, CloseMain, Fresh
<1>5. CASE FnReturns
  BY <1>5 DEF FnReturns, NextCleanup, CloseMain
<1>6. CASE ContextEnds
  BY <1>6 DEF ContextEnds
<1>7. ASSUME NEW k \in Conns, ConnReset(k) PROVE Claimed'
  BY <1>7 DEF ConnReset
<1>8. ASSUME NEW k \in Conns, PodExecutes(k) PROVE Claimed'
  BY <1>8 DEF PodExecutes, Served, Fresh
<1>9. CASE OtherClient
  BY <1>9 DEF OtherClient
<1>10. CASE UNCHANGED vars
  BY <1>10 DEF vars
<1> QED BY <1>1, <1>2, <1>3, <1>4, <1>5, <1>6, <1>7, <1>8, <1>9, <1>10
  DEF Next, Run

\* After spi_stop nothing takes the engine back for the run.
LEMMA FreedStep ==
  Places /\ Links /\ Marks /\ Owed /\ Calls /\ Claimed /\ Freed /\ [Next]_vars => Freed'
<1> SUFFICES ASSUME Places, Links, Marks, Owed, Calls, Claimed, Freed, [Next]_vars PROVE Freed'
  OBVIOUS
<1> USE DEF Places, Links, Marks, Owed, Calls, Claimed, Freed, Conns, Reqs, None, Early,
  Cleanup, client, pod
<1>1. CASE Send
  BY <1>1 DEF Send, ConnFor, Fresh, Mark
<1>2. CASE Receive
  BY <1>2 DEF Receive, Settle, NextCleanup, CloseMain, Fresh
<1>3. CASE Lose
  BY <1>3 DEF Lose, Settle, NextCleanup, CloseMain, Served, Fresh
<1>4. CASE FailUnsent
  BY <1>4 DEF FailUnsent, ConnFor, Mark, Settle, NextCleanup, CloseMain, Fresh
<1>5. CASE FnReturns
  BY <1>5 DEF FnReturns, NextCleanup, CloseMain
<1>6. CASE ContextEnds
  BY <1>6 DEF ContextEnds
<1>7. ASSUME NEW k \in Conns, ConnReset(k) PROVE Freed'
  BY <1>7 DEF ConnReset
<1>8. ASSUME NEW k \in Conns, PodExecutes(k) PROVE Freed'
  BY <1>8 DEF PodExecutes, Served, Fresh
<1>9. CASE OtherClient
  BY <1>9 DEF OtherClient
<1>10. CASE UNCHANGED vars
  BY <1>10 DEF vars
<1> QED BY <1>1, <1>2, <1>3, <1>4, <1>5, <1>6, <1>7, <1>8, <1>9, <1>10
  DEF Next, Run

\* A run that has not sent anything satisfies all of it.
LEMMA InitHolds == Init => IInv
<1> SUFFICES ASSUME Init PROVE IInv
  OBVIOUS
<1> USE SpiFlashAssumption DEF Init, Conns, Reqs, None, Early
<1>1. Places
  BY DEF Places
<1>2. RunFlags /\ CtxFlags /\ PodFlags /\ PastFlags
  BY DEF RunFlags, CtxFlags, PodFlags, PastFlags
<1>3. Owed /\ Links
  BY DEF Owed, Links
<1>4. Marks /\ BusyIsLeftAlone
  BY DEF Marks, BusyIsLeftAlone
<1>5. Clean
  BY DEF Clean
<1>6. Calls /\ Claimed /\ Freed
  BY DEF Calls, Claimed, Freed, Fresh, Cleanup
<1> QED BY <1>1, <1>2, <1>3, <1>4, <1>5, <1>6 DEF IInv, TypeOK

THEOREM Invariance == Spec => []IInv
<1>1. IInv /\ [Next]_vars => IInv'
  BY PlacesStep, FlagsStep, LinksStep, MarksStep, OwedStep, BusyStep, CleanStep,
     CallsStep, ClaimedStep, FreedStep
  DEF IInv, TypeOK
<1> QED BY InitHolds, <1>1, PTL DEF Spec

\* Types hold in every reachable state; cleanup is entered only for what the run owes,
\* and no connection of runSPIWith outlives it.
THEOREM TypeCorrect == Spec => []TypeOK
<1>1. IInv => TypeOK
  BY DEF IInv
<1> QED BY Invariance, <1>1, PTL

\* A run that spi_start told "busy" never sends spi_stop: Session does not stop
\* someone else's session on the way out.
THEOREM BusyStaysAlone == Spec => []BusyIsLeftAlone
<1>1. IInv => BusyIsLeftAlone
  BY DEF IInv
<1> QED BY Invariance, <1>1, PTL

\* What Session has claimed, or may have, it tries to give back, and a run without an
\* error has left the pins and the DUT's reset free.
THEOREM CleanedUp == Spec => []EverythingIsCleanedUp
<1>1. IInv => EverythingIsCleanedUp
  <2> SUFFICES ASSUME IInv, at = "done" PROVE
        /\ told["start"] \notin {None, "busy"} => told["stop"] # None
        /\ told["hold"] # None => told["release"] # None
        /\ ~err => owner # "us" /\ ~nrst
    BY DEF EverythingIsCleanedUp
  <2>1. Marks /\ Clean
    BY DEF IInv
  <2>2. told["start"] \notin {None, "busy"} => told["stop"] # None
    BY <2>1 DEF Marks
  <2>3. told["hold"] # None => told["release"] # None
    BY <2>1 DEF Marks
  <2>4. ~err => owner # "us" /\ ~nrst
    BY <2>1 DEF Clean
  <2> QED BY <2>2, <2>3, <2>4
<1> QED BY Invariance, <1>1, PTL

\* On a pod that serves one client at a time the DUT leaves reset only when the pod's
\* SPI pins are free, unless spi_stop was lost or refused.
THEOREM PinsFree == Spec => PinsFreeBeforeReset
<1>1. IInv /\ [Next]_vars
      => [nrst /\ ~nrst' /\ oneClient /\ told["stop"] \in {None, "ok"}
          => owner # "us"]_vars
  <2> SUFFICES ASSUME IInv, [Next]_vars, nrst, ~nrst', oneClient,
                      told["stop"] \in {None, "ok"}
               PROVE  owner # "us"
    OBVIOUS
  <2>1. Places /\ Marks /\ Claimed /\ Freed
    BY DEF IInv, TypeOK
  <2>2. PICK k \in Conns : PodExecutes(k)
    BY DEF Next, Run, Send, Receive, Lose, FailUnsent, FnReturns, Settle, ContextEnds,
           ConnReset, OtherClient, client, pod, vars
  <2>3. req[k] = "release"
    BY <2>2 DEF PodExecutes
  <2>4. at \in {"release", "done"}
    BY <2>1, <2>3 DEF Claimed
  <2>5. started => told["stop"] = "ok"
    BY <2>1, <2>4 DEF Marks
  <2> QED BY <2>1, <2>5 DEF Claimed, Freed
<1> QED BY Invariance, <1>1, PTL DEF Spec, PinsFreeBeforeReset

-----------------------------------------------------------------------------
(***************************************************************************)
(* SpiFlashRange.                                                          *)
(***************************************************************************)

\* Rounding to sectors: an address is in its sector, and two sectors that are not
\* the same do not overlap.
LEMMA DivFacts ==
  ASSUME NEW i \in Nat
  PROVE  /\ i \div Sector \in Nat
         /\ Floor(i) \in Nat /\ Floor(i) <= i /\ i < Floor(i) + Sector
BY RangeAssumption, SMTT(60) DEF Floor

LEMMA SectorsApart ==
  ASSUME NEW p \in Nat, NEW q \in Nat, p < q
  PROVE  Sector * p + Sector <= Sector * q
<1>1. PICK d \in Nat : q = p + 1 + d
  <2> WITNESS q - p - 1 \in Nat
  <2> QED OBVIOUS
<1>2. Sector * q = Sector * p + Sector + Sector * d
  BY <1>1, RangeAssumption
<1>3. Sector * d \in Nat /\ Sector * p \in Nat
  BY RangeAssumption
<1> QED BY <1>2, <1>3, RangeAssumption

LEMMA FloorOf ==
  ASSUME NEW q \in Nat, NEW i \in Nat, Sector * q <= i, i < Sector * q + Sector
  PROVE  Floor(i) = Sector * q
<1> DEFINE p == i \div Sector
<1>1. p \in Nat /\ Sector * p <= i /\ i < Sector * p + Sector /\ Sector * p \in Nat
  BY DivFacts DEF Floor
<1>2. Sector * q \in Nat
  BY RangeAssumption
<1> HIDE DEF p
<1>3. CASE p < q
  BY <1>1, <1>2, <1>3, SectorsApart, RangeAssumption
<1>4. CASE q < p
  BY <1>1, <1>2, <1>4, SectorsApart, RangeAssumption
<1>5. CASE p = q
  BY <1>5 DEF Floor, p
<1> QED BY <1>1, <1>3, <1>4, <1>5

LEMMA FloorGrows ==
  ASSUME NEW i \in Nat, NEW j \in Nat, i <= j
  PROVE  Floor(i) <= Floor(j)
<1> DEFINE p == i \div Sector
           q == j \div Sector
<1>1. /\ p \in Nat /\ Floor(i) = Sector * p /\ Floor(i) \in Nat /\ Floor(i) <= i
      /\ q \in Nat /\ Floor(j) = Sector * q /\ Floor(j) \in Nat /\ j < Floor(j) + Sector
  BY DivFacts DEF Floor
<1> HIDE DEF p, q
<1>2. CASE q < p
  BY <1>1, <1>2, SectorsApart, RangeAssumption
<1>3. CASE p < q
  BY <1>1, <1>3, SectorsApart, RangeAssumption
<1>4. CASE p = q
  BY <1>1, <1>4
<1> QED BY <1>1, <1>2, <1>3, <1>4

LEMMA CeilFacts ==
  ASSUME NEW i \in Nat
  PROVE  /\ Ceil(i) \in Nat /\ i <= Ceil(i)
         /\ Floor(Ceil(i)) = Ceil(i) /\ Ceil(Ceil(i)) = Ceil(i)
<1> DEFINE p == (i + Sector - 1) \div Sector
<1>1. /\ p \in Nat /\ Ceil(i) = Sector * p /\ Ceil(i) \in Nat
      /\ i + Sector - 1 < Ceil(i) + Sector
  BY DivFacts, RangeAssumption DEF Ceil, Floor
<1> HIDE DEF p
<1>2. Floor(Ceil(i)) = Sector * p
  <2>1. Sector * p <= Ceil(i) /\ Ceil(i) < Sector * p + Sector
    BY <1>1, RangeAssumption
  <2> QED BY <1>1, <2>1, FloorOf
<1>3. Floor(Ceil(i) + Sector - 1) = Sector * p
  <2> DEFINE j == Ceil(i) + Sector - 1
  <2>1. j \in Nat /\ Sector * p <= j /\ j < Sector * p + Sector
    BY <1>1, RangeAssumption
  <2> HIDE DEF j
  <2>2. Floor(j) = Sector * p
    BY <1>1, <2>1, FloorOf
  <2> QED BY <2>2 DEF j
<1> QED BY <1>1, <1>2, <1>3, RangeAssumption DEF Ceil

LEMMA CeilGrows ==
  ASSUME NEW i \in Nat, NEW j \in Nat, i <= j
  PROVE  Ceil(i) <= Ceil(j)
BY FloorGrows, RangeAssumption DEF Ceil

\* Where an erase ends: past where it starts, and within the range.
LEMMA EraseEndFacts ==
  ASSUME RangeTypeOK, pos < End
  PROVE  /\ End \in Nat /\ EraseEnd \in Nat /\ AfterErase \in Nat
         /\ pos < EraseEnd /\ EraseEnd <= End /\ EraseEnd <= AfterErase
         /\ Ceil(AfterErase) = Ceil(EraseEnd)
         /\ part.reports => AfterErase = Ceil(EraseEnd)
<1>1. End \in Nat
  BY DEF RangeTypeOK, Jobs, Addresses, End
<1>2. EraseEnd \in Nat /\ pos < EraseEnd /\ EraseEnd <= End
  BY <1>1, RangeAssumption DEF RangeTypeOK, EraseEnd, Least
<1> QED BY <1>1, <1>2, CeilFacts DEF AfterErase

-----------------------------------------------------------------------------
\* The inductive invariant.  Which loop a run can be in:
Loops ==
  /\ pos >= job.addr
  /\ job.cmd # "write" => job.erase
  /\ step = "erase" => job.erase /\ job.cmd # "chip"
  /\ step = "write" => job.cmd = "write"
  /\ step = "chip" => job.cmd = "chip"
  /\ job.cmd = "chip" => job.addr = 0 /\ job.len = part.size /\ pos = 0

\* What Erase has done, where the range lies in the part: on a good part the sectors from the first one to the one it
\* is in are blank, and where the pod says what it erased nothing from there on
\* has been erased yet: a step that is not the first starts at a sector.
Blanked ==
  Fits /\ step = "erase" /\ part.good /\ pos # job.addr =>
    \A i \in Addresses : Floor(job.addr) <= i /\ i < Ceil(pos) => cell[i] = "blank"

Unworn ==
  Fits /\ step \in {"erase", "chip"} /\ part.reports =>
    /\ pos = job.addr => \A i \in Addresses : wear[i] = 0
    /\ pos # job.addr => Floor(pos) = pos /\ \A i \in Addresses : i >= pos => wear[i] = 0

\* What Write has done: the image is there up to pos, and what is still to be
\* written was erased.
Written ==
  Fits /\ step = "write" =>
    /\ job.erase /\ part.good =>
         \A i \in Addresses : pos <= i /\ i < End => cell[i] = "blank"
    /\ job.verify \/ (job.erase /\ part.good) =>
         \A i \in Addresses : job.addr <= i /\ i < End /\ i < pos => cell[i] = "new"

RangeInv ==
  RangeTypeOK /\ Loops /\ Blanked /\ Unworn /\ Written
  /\ ResultIsTrue /\ NeighboursKept /\ ErasedOnce

-----------------------------------------------------------------------------
\* In a part the range lies in every address is a cell of its own.
LEMMA HitsFacts ==
  ASSUME RangeTypeOK, NEW A \in SUBSET Addresses
  PROVE  Hits(A) \in SUBSET Addresses /\ (Fits => Hits(A) = A)
<1>1. part.size \in Nat \ {0} /\ part.size <= Size
  <2>1. part.size \in PartSizes
    BY DEF RangeTypeOK, Parts
  <2>2. part.size \in 1 .. Size /\ Size \in Nat
    BY <2>1, RangeAssumption, Zenon
  <2> QED BY ONLY <2>2
<1>2. ASSUME NEW a \in A PROVE a % part.size \in Addresses
  <2>1. a \in Nat
    BY DEF Addresses
  <2>2. a % part.size \in 0 .. part.size - 1
    BY <1>1, <2>1
  <2> QED BY <1>1, <2>2, RangeAssumption DEF Addresses
<1> QED BY <1>2 DEF Hits

\* What the pod does to the flash keeps the flash's types.
LEMMA EraseCellsTypes ==
  ASSUME RangeTypeOK, NEW S \in SUBSET Addresses, EraseCells(S)
  PROVE  /\ cell' \in [Addresses -> {"old", "blank", "new", "mixed"}]
         /\ wear' \in [Addresses -> 0 .. 2]
         /\ \A i \in Addresses \ S : cell'[i] = cell[i] /\ wear'[i] = wear[i]
         /\ part.good => \A i \in S : cell'[i] = "blank"
         /\ \A i \in S : wear[i] = 0 => wear'[i] = 1
<1>1. PICK kept \in SUBSET S :
        /\ part.good => kept = {}
        /\ cell' = [i \in Addresses |-> IF i \in S \ kept THEN "blank" ELSE cell[i]]
  BY DEF EraseCells
<1>2. wear' = [i \in Addresses |-> IF i \notin S THEN wear[i] ELSE IF wear[i] = 0 THEN 1 ELSE 2]
  BY DEF EraseCells
<1>3. cell \in [Addresses -> {"old", "blank", "new", "mixed"}] /\ wear \in [Addresses -> 0 .. 2]
  BY DEF RangeTypeOK
<1>4. cell' \in [Addresses -> {"old", "blank", "new", "mixed"}]
  BY <1>1, <1>3
<1>5. wear' \in [Addresses -> 0 .. 2]
  BY <1>2, <1>3
<1> QED BY <1>1, <1>2, <1>4, <1>5

LEMMA ProgramTypes ==
  ASSUME RangeTypeOK, NEW C \in SUBSET Addresses, Program(C)
  PROVE  /\ cell' \in [Addresses -> {"old", "blank", "new", "mixed"}]
         /\ wear' = wear
         /\ \A i \in Addresses \ C : cell'[i] = cell[i]
         /\ \A i \in C : part.good /\ cell[i] = "blank" => cell'[i] = "new"
<1>1. PICK bad \in SUBSET C :
        /\ \A i \in bad : part.good => cell[i] # "blank"
        /\ cell' = [i \in Addresses |-> IF i \notin C THEN cell[i]
                                    ELSE IF i \in bad THEN "mixed" ELSE "new"]
  BY DEF Program
<1>2. cell \in [Addresses -> {"old", "blank", "new", "mixed"}]
  BY DEF RangeTypeOK
<1>3. cell' \in [Addresses -> {"old", "blank", "new", "mixed"}]
  BY <1>1, <1>2
<1> QED BY <1>1, <1>3 DEF Program

\* The sectors of an erase step, and the cells of a chunk, are the range's.
LEMMA Within ==
  ASSUME RangeTypeOK, Loops, pos < End
  PROVE  /\ Sectors(pos, EraseEnd) \subseteq Sectors(job.addr, End)
         /\ Chunk \subseteq {i \in Addresses : job.addr <= i /\ i < End}
         /\ {i \in Addresses : job.addr <= i /\ i < End} \subseteq Sectors(job.addr, End)
<1>1. job.addr \in Nat /\ pos \in Nat /\ job.addr <= pos /\ Addresses \subseteq Nat
  BY DEF RangeTypeOK, Jobs, Addresses, Loops
<1>2. End \in Nat /\ EraseEnd \in Nat /\ EraseEnd <= End
  BY EraseEndFacts
<1>3. Floor(job.addr) <= Floor(pos) /\ Ceil(EraseEnd) <= Ceil(End)
  BY <1>1, <1>2, FloorGrows, CeilGrows
<1>4. /\ Floor(job.addr) \in Nat /\ Floor(pos) \in Nat /\ Floor(job.addr) <= job.addr
      /\ Ceil(End) \in Nat /\ Ceil(EraseEnd) \in Nat /\ End <= Ceil(End)
  BY <1>1, <1>2, DivFacts, CeilFacts
<1>5. ASSUME NEW i \in Sectors(pos, EraseEnd) PROVE i \in Sectors(job.addr, End)
  <2>1. i \in Addresses /\ i \in Nat /\ Floor(pos) <= i /\ i < Ceil(EraseEnd)
    BY <1>1 DEF Sectors
  <2>2. Floor(job.addr) <= i /\ i < Ceil(End)
    BY <1>3, <1>4, <2>1
  <2> QED BY <2>1, <2>2 DEF Sectors
<1>6. ASSUME NEW i \in Chunk PROVE i \in {k \in Addresses : job.addr <= k /\ k < End}
  <2>1. i \in Addresses /\ i \in Nat /\ pos <= i /\ i < Least(pos + MaxWrite, End)
    BY <1>1 DEF Chunk
  <2>2. job.addr <= i /\ i < End
    BY <1>1, <1>2, <2>1, RangeAssumption DEF Least
  <2> QED BY <2>1, <2>2
<1>7. ASSUME NEW i \in Addresses, job.addr <= i, i < End PROVE i \in Sectors(job.addr, End)
  <2>1. i \in Nat
    BY <1>1
  <2>2. Floor(job.addr) <= i /\ i < Ceil(End)
    BY <1>1, <1>2, <1>4, <1>7, <2>1
  <2> QED BY <2>2 DEF Sectors
<1> QED BY <1>5, <1>6, <1>7

\* An erase step keeps the invariant: where it starts no cell was erased, and where
\* it ends the next one starts.
LEMMA EraseStepKeeps ==
  ASSUME RangeInv, EraseStep
  PROVE  RangeTypeOK' /\ Loops' /\ Blanked' /\ Unworn' /\ Written'
<1> DEFINE S == Hits(Sectors(pos, EraseEnd))
<1>2. RangeTypeOK /\ Loops /\ Blanked /\ Unworn
  BY DEF RangeInv
<1>1. /\ step = "erase" /\ pos < End /\ pos' = AfterErase
      /\ job' = job /\ part' = part /\ step' = step /\ Fits' = Fits
      /\ EraseCells(S) /\ S \in SUBSET Addresses /\ (Fits => S = Sectors(pos, EraseEnd))
  <2>1. Sectors(pos, EraseEnd) \in SUBSET Addresses
    BY DEF Sectors
  <2> QED BY <1>2, <2>1, HitsFacts DEF EraseStep, Fits, End
<1>3. /\ End \in Nat /\ EraseEnd \in Nat /\ AfterErase \in Nat
      /\ pos < EraseEnd /\ EraseEnd <= End /\ EraseEnd <= AfterErase
      /\ Ceil(AfterErase) = Ceil(EraseEnd)
      /\ part.reports => AfterErase = Ceil(EraseEnd)
  BY <1>1, <1>2, EraseEndFacts
<1>4. /\ cell' \in [Addresses -> {"old", "blank", "new", "mixed"}]
      /\ wear' \in [Addresses -> 0 .. 2]
      /\ \A i \in Addresses \ S : cell'[i] = cell[i] /\ wear'[i] = wear[i]
      /\ part.good => \A i \in S : cell'[i] = "blank"
  BY <1>1, <1>2, EraseCellsTypes
<1>5. /\ job.addr \in Nat /\ pos \in Nat /\ job.addr <= pos /\ Addresses \subseteq Nat
      /\ End' = End
  BY <1>1, <1>2 DEF RangeTypeOK, Jobs, Addresses, Loops, End
<1>6. /\ Floor(pos) \in Nat /\ Floor(pos) <= pos /\ Floor(job.addr) \in Nat
      /\ Ceil(pos) \in Nat /\ pos <= Ceil(pos) /\ Ceil(EraseEnd) \in Nat
      /\ Floor(Ceil(EraseEnd)) = Ceil(EraseEnd)
  BY <1>3, <1>5, DivFacts, CeilFacts
<1>7. RangeTypeOK'
  BY <1>1, <1>2, <1>3, <1>4, <1>5 DEF RangeTypeOK
<1>8. Loops'
  BY <1>1, <1>2, <1>3, <1>5 DEF Loops
<1>9. Blanked'
  <2> SUFFICES ASSUME Fits, part.good, NEW i \in Addresses, Floor(job.addr) <= i,
                      i < Ceil(AfterErase)
               PROVE  cell'[i] = "blank"
    BY <1>1 DEF Blanked, Floor, Ceil
  <2>1. i \in Nat /\ i < Ceil(EraseEnd)
    BY <1>3, <1>5
  <2>2. CASE Floor(pos) <= i
    BY <1>1, <1>4, <2>1, <2>2 DEF Sectors
  <2>3. CASE i < Floor(pos)
    <3>1. pos # job.addr /\ i < Ceil(pos) /\ i \notin S
      BY <1>1, <1>5, <1>6, <2>1, <2>3 DEF Sectors
    <3>2. cell[i] = "blank"
      BY <1>1, <1>2, <3>1 DEF Blanked
    <3> QED BY <1>4, <3>1, <3>2
  <2> QED BY <1>6, <2>1, <2>2, <2>3
<1>10. Unworn'
  <2> SUFFICES ASSUME Fits, part.reports
               PROVE  /\ AfterErase # job.addr
                      /\ Floor(AfterErase) = AfterErase
                      /\ \A i \in Addresses : i >= AfterErase => wear'[i] = 0
    BY <1>1 DEF Unworn, Floor
  <2>1. AfterErase # job.addr /\ Floor(AfterErase) = AfterErase
    BY <1>3, <1>5, <1>6
  <2>2. ASSUME NEW i \in Addresses, i >= AfterErase PROVE wear'[i] = 0
    <3>1. i \notin S /\ i >= pos
      BY <1>1, <1>3, <1>5, <1>6, <2>2 DEF Sectors
    <3>2. wear[i] = 0
      BY <1>1, <1>2, <3>1 DEF Unworn
    <3> QED BY <1>4, <3>1, <3>2
  <2> QED BY <2>1, <2>2
<1>11. Written'
  BY <1>1 DEF Written
<1> QED BY <1>7, <1>8, <1>9, <1>10, <1>11

\* What an erase request may do to the flash, answered or not, is allowed: no cell
\* outside the range's sectors, and none for the second time.
LEMMA ErasedRight ==
  ASSUME RangeInv, step = "erase", pos < End, EraseCells(Hits(Sectors(pos, EraseEnd))),
         job' = job, part' = part
  PROVE  NeighboursKept' /\ ErasedOnce'
<1> DEFINE S == Sectors(pos, EraseEnd)
<1> SUFFICES ASSUME Fits PROVE NeighboursKept' /\ ErasedOnce'
  BY DEF NeighboursKept, ErasedOnce, Fits, End
<1>1. RangeTypeOK /\ Loops /\ Unworn /\ NeighboursKept /\ ErasedOnce /\ S \in SUBSET Addresses
  BY DEF RangeInv, Sectors
<1>0. EraseCells(S)
  BY <1>1, HitsFacts
<1>2. /\ wear' \in [Addresses -> 0 .. 2]
      /\ \A i \in Addresses \ S : cell'[i] = cell[i] /\ wear'[i] = wear[i]
      /\ \A i \in S : wear[i] = 0 => wear'[i] = 1
  BY <1>0, <1>1, EraseCellsTypes
<1>3. S \subseteq Sectors(job.addr, End)
  BY <1>1, Within
<1>4. Sectors(job.addr, End)' = Sectors(job.addr, End) /\ End' = End
  BY DEF Sectors, End, Floor, Ceil
<1>5. NeighboursKept'
  BY <1>1, <1>2, <1>3, <1>4 DEF NeighboursKept, Loops
<1>6. ErasedOnce'
  <2> SUFFICES ASSUME part.reports, NEW i \in Addresses PROVE wear'[i] <= 1
    BY DEF ErasedOnce
  <2>1. CASE i \in S
    <3>1. i \in Nat /\ pos \in Nat /\ Floor(pos) <= i
      BY <1>1, <2>1 DEF RangeTypeOK, Addresses, Sectors
    <3>2. wear[i] = 0
      BY <1>1, <3>1 DEF Unworn
    <3> QED BY <1>2, <2>1, <3>2
  <2>2. CASE i \notin S
    BY <1>1, <1>2, <2>2 DEF ErasedOnce
  <2> QED BY <2>1, <2>2
<1> QED BY <1>5, <1>6

\* What a write request may do: it changes cells of the range only, and on a good
\* part what was blank comes out as it should.
LEMMA ProgrammedRight ==
  ASSUME RangeInv, step = "write", pos < End, Program(Hits(Chunk)), job' = job, part' = part
  PROVE  NeighboursKept' /\ ErasedOnce'
<1> SUFFICES ASSUME Fits PROVE NeighboursKept' /\ ErasedOnce'
  BY DEF NeighboursKept, ErasedOnce, Fits, End
<1>1. /\ RangeTypeOK /\ Loops /\ NeighboursKept /\ ErasedOnce
      /\ Chunk \in SUBSET Addresses /\ Program(Chunk)
  <2>1. RangeTypeOK /\ Chunk \in SUBSET Addresses
    BY DEF RangeInv, Chunk
  <2> QED BY <2>1, HitsFacts DEF RangeInv
<1>2. wear' = wear /\ \A i \in Addresses \ Chunk : cell'[i] = cell[i]
  BY <1>1, ProgramTypes
<1>3. /\ \A i \in Chunk : job.addr <= i /\ i < End
      /\ Chunk \subseteq Sectors(job.addr, End)
  BY <1>1, Within
<1>4. Sectors(job.addr, End)' = Sectors(job.addr, End) /\ End' = End
  BY DEF Sectors, End, Floor, Ceil
<1>5. NeighboursKept'
  BY <1>1, <1>2, <1>3, <1>4 DEF NeighboursKept
<1>6. ErasedOnce'
  BY <1>1, <1>2 DEF ErasedOnce
<1> QED BY <1>5, <1>6

\* A chunk keeps the invariant: it starts where the one before it ended.
LEMMA WriteStepKeeps ==
  ASSUME RangeInv, WriteStep
  PROVE  RangeTypeOK' /\ Loops' /\ Blanked' /\ Unworn' /\ Written'
<1> DEFINE H == Hits(Chunk)
<1>2. RangeTypeOK /\ Loops /\ Written
  BY DEF RangeInv
<1>1. /\ step = "write" /\ pos < End /\ job' = job /\ part' = part /\ Fits' = Fits
      /\ Program(H) /\ H \in SUBSET Addresses /\ (Fits => H = Chunk)
  <2>1. Chunk \in SUBSET Addresses
    BY DEF Chunk
  <2> QED BY <1>2, <2>1, HitsFacts DEF WriteStep, WriteLeft, Fits, End
<1>3. /\ cell' \in [Addresses -> {"old", "blank", "new", "mixed"}]
      /\ wear' = wear
      /\ \A i \in Addresses \ H : cell'[i] = cell[i]
      /\ \A i \in H : part.good /\ cell[i] = "blank" => cell'[i] = "new"
  BY <1>1, <1>2, ProgramTypes
<1>4. /\ job.addr \in Nat /\ pos \in Nat /\ job.addr <= pos /\ Addresses \subseteq Nat
      /\ End \in Nat /\ End' = End
  BY <1>1, <1>2 DEF RangeTypeOK, Jobs, Addresses, Loops, End
<1>5. \/ step' = "failed" /\ pos' = pos
      \/ /\ step' = step /\ pos' = pos + MaxWrite
         /\ job.verify => \A i \in H : cell'[i] = "new"
  BY DEF WriteStep
<1>6. RangeTypeOK'
  BY <1>1, <1>2, <1>3, <1>4, <1>5, RangeAssumption DEF RangeTypeOK
<1>7. Loops'
  BY <1>1, <1>2, <1>4, <1>5, RangeAssumption DEF Loops
<1>8. Blanked' /\ Unworn'
  BY <1>1, <1>5 DEF Blanked, Unworn
<1>9. Written'
  <2> SUFFICES ASSUME Fits, step' = step, pos' = pos + MaxWrite,
                      job.verify => \A i \in Chunk : cell'[i] = "new"
               PROVE  Written'
    BY <1>1, <1>5 DEF Written
  <2>1. ASSUME job.erase, part.good, NEW i \in Addresses, pos + MaxWrite <= i, i < End
        PROVE  cell'[i] = "blank"
    <3>1. i \in Nat /\ pos <= i /\ i \notin Chunk
      BY <1>4, <2>1, RangeAssumption DEF Chunk, Least
    <3>2. cell[i] = "blank"
      BY <1>1, <1>2, <2>1, <3>1 DEF Written
    <3> QED BY <1>1, <1>3, <3>1, <3>2
  <2>2. ASSUME job.verify \/ (job.erase /\ part.good), NEW i \in Addresses,
               job.addr <= i, i < End, i < pos + MaxWrite
        PROVE  cell'[i] = "new"
    <3>1. i \in Nat
      BY <1>4
    <3>2. CASE i < pos
      <4>1. i \notin Chunk
        BY <1>4, <3>1, <3>2 DEF Chunk
      <4>2. cell[i] = "new"
        BY <1>1, <1>2, <2>2, <3>2 DEF Written
      <4> QED BY <1>1, <1>3, <4>1, <4>2
    <3>3. CASE pos <= i
      <4>1. i \in Chunk
        BY <1>4, <2>2, <3>1, <3>3, RangeAssumption DEF Chunk, Least
      <4>2. CASE job.verify
        BY <4>1, <4>2
      <4>3. CASE job.erase /\ part.good
        <5>1. cell[i] = "blank"
          BY <1>1, <1>2, <2>2, <3>3, <4>3 DEF Written
        <5> QED BY <1>1, <1>3, <4>1, <4>3, <5>1
      <4> QED BY <2>2, <4>2, <4>3
    <3> QED BY <1>4, <3>1, <3>2, <3>3
  <2> QED BY <1>1, <1>4, <2>1, <2>2 DEF Written
<1> QED BY <1>6, <1>7, <1>8, <1>9

\* Erase ends when every sector the range touches is behind it, and so all of the
\* range is.
LEMMA EraseEndsKeeps ==
  ASSUME RangeInv, EraseEnds
  PROVE  RangeInv'
<1>1. /\ step = "erase" /\ pos >= End /\ job' = job /\ part' = part
      /\ cell' = cell /\ wear' = wear /\ Fits' = Fits
      /\ \/ job.cmd = "write" /\ step' = "write" /\ pos' = job.addr
         \/ job.cmd # "write" /\ step' = "done" /\ pos' = pos
  BY DEF EraseEnds, Fits, End
<1>2. /\ RangeTypeOK /\ Loops /\ Blanked /\ NeighboursKept /\ ErasedOnce
  BY DEF RangeInv
<1>3. /\ job.addr \in Nat /\ job.len \in Nat \ {0} /\ pos \in Nat /\ Addresses \subseteq Nat
      /\ End \in Nat /\ End = job.addr + job.len /\ End' = End
  BY <1>1, <1>2 DEF RangeTypeOK, Jobs, Addresses, End
<1>4. Fits /\ part.good => \A i \in Sectors(job.addr, End) : cell[i] = "blank"
  <2> SUFFICES ASSUME Fits, part.good, NEW i \in Sectors(job.addr, End) PROVE cell[i] = "blank"
    OBVIOUS
  <2>1. i \in Addresses /\ i \in Nat /\ Floor(job.addr) <= i /\ i < Ceil(End)
    BY <1>3 DEF Sectors
  <2>2. Ceil(End) \in Nat /\ Ceil(pos) \in Nat /\ Ceil(End) <= Ceil(pos)
    BY <1>1, <1>3, CeilFacts, CeilGrows
  <2>3. pos # job.addr
    BY <1>1, <1>3
  <2>4. i < Ceil(pos)
    BY <2>1, <2>2
  <2> QED BY <1>1, <1>2, <2>1, <2>3, <2>4 DEF Blanked
<1>5. ASSUME NEW i \in Addresses, job.addr <= i, i < End PROVE i \in Sectors(job.addr, End)
  <2>1. i \in Nat /\ Floor(job.addr) \in Nat /\ Floor(job.addr) <= job.addr
        /\ Ceil(End) \in Nat /\ End <= Ceil(End)
    BY <1>3, DivFacts, CeilFacts
  <2> QED BY <1>3, <1>5, <2>1 DEF Sectors
<1>6. Sectors(job.addr, End)' = Sectors(job.addr, End)
  BY <1>1 DEF Sectors, End, Floor, Ceil
<1>7. RangeTypeOK' /\ Loops'
  BY <1>1, <1>2, <1>3 DEF RangeTypeOK, Loops
<1>8. Blanked' /\ Unworn'
  BY <1>1 DEF Blanked, Unworn
<1>9. Written'
  <2>1. ASSUME NEW i \in Addresses, job.addr <= i, i < job.addr PROVE FALSE
    BY <1>3, <2>1
  <2> QED BY <1>1, <1>3, <1>4, <1>5, <2>1 DEF Written
<1>10. ResultIsTrue'
  BY <1>1, <1>3, <1>4, <1>6 DEF ResultIsTrue
<1>11. NeighboursKept' /\ ErasedOnce'
  BY <1>1, <1>2, <1>3, <1>6 DEF NeighboursKept, ErasedOnce
<1> QED BY <1>7, <1>8, <1>9, <1>10, <1>11 DEF RangeInv

\* A chip erase is of every sector of the part, once.
LEMMA ChipErasedRight ==
  ASSUME RangeInv, step = "chip", EraseCells(Sectors(job.addr, End)), job' = job, part' = part
  PROVE  NeighboursKept' /\ ErasedOnce'
<1> DEFINE S == Sectors(job.addr, End)
<1>1. /\ RangeTypeOK /\ Loops /\ Unworn /\ NeighboursKept /\ ErasedOnce
      /\ job.erase /\ pos = job.addr /\ S \in SUBSET Addresses
  BY DEF RangeInv, Loops, Sectors
<1>2. /\ wear' \in [Addresses -> 0 .. 2]
      /\ \A i \in Addresses \ S : cell'[i] = cell[i] /\ wear'[i] = wear[i]
      /\ \A i \in S : wear[i] = 0 => wear'[i] = 1
  BY <1>1, EraseCellsTypes
<1>3. Sectors(job.addr, End)' = S /\ Fits' = Fits
  BY DEF Sectors, End, Floor, Ceil, Fits
<1>4. NeighboursKept'
  BY <1>1, <1>2, <1>3 DEF NeighboursKept
<1>5. Fits /\ part.reports => \A i \in Addresses : wear[i] = 0
  BY <1>1 DEF Unworn
<1>6. ErasedOnce'
  BY <1>2, <1>3, <1>5, <1>1 DEF ErasedOnce
<1> QED BY <1>4, <1>6

\* The requests that are not answered, and the ends of the runs, keep the invariant.
LEMMA RunEndsKeep ==
  ASSUME RangeInv, WriteEnds \/ ChipErase \/ RequestFails
  PROVE  RangeInv'
<1>1. /\ RangeTypeOK /\ Loops /\ Written /\ NeighboursKept /\ ErasedOnce
      /\ job' = job /\ part' = part /\ pos' = pos /\ step' \in {"done", "failed"}
  BY DEF RangeInv, WriteEnds, ChipErase, RequestFails
<1>2. /\ Sectors(job.addr, End)' = Sectors(job.addr, End) /\ End' = End /\ Fits' = Fits
      /\ Sectors(job.addr, End) \in SUBSET Addresses
  BY <1>1 DEF Sectors, End, Floor, Ceil, Fits
<1>3. Hits(Sectors(pos, EraseEnd)) \in SUBSET Addresses /\ Hits(Chunk) \in SUBSET Addresses
  <2>1. Sectors(pos, EraseEnd) \in SUBSET Addresses /\ Chunk \in SUBSET Addresses
    BY DEF Sectors, Chunk
  <2> QED BY <1>1, <2>1, HitsFacts
<1>4. /\ cell' \in [Addresses -> {"old", "blank", "new", "mixed"}]
      /\ wear' \in [Addresses -> 0 .. 2]
      /\ NeighboursKept' /\ ErasedOnce'
  <2>1. CASE UNCHANGED <<cell, wear>>
    BY <1>1, <1>2, <2>1 DEF RangeTypeOK, NeighboursKept, ErasedOnce
  <2>2. CASE step = "erase" /\ pos < End /\ EraseCells(Hits(Sectors(pos, EraseEnd)))
    BY <1>1, <1>3, <2>2, EraseCellsTypes, ErasedRight
  <2>3. CASE step = "write" /\ pos < End /\ Program(Hits(Chunk))
    BY <1>1, <1>3, <2>3, ProgramTypes, ProgrammedRight DEF RangeTypeOK
  <2>4. CASE step = "chip" /\ EraseCells(Sectors(job.addr, End))
    BY <1>1, <1>2, <2>4, EraseCellsTypes, ChipErasedRight
  <2> QED BY <2>1, <2>2, <2>3, <2>4 DEF WriteEnds, ChipErase, RequestFails
<1>5. RangeTypeOK' /\ Loops'
  BY <1>1, <1>2, <1>4 DEF RangeTypeOK, Loops
<1>6. Blanked' /\ Unworn' /\ Written'
  BY <1>1 DEF Blanked, Unworn, Written
<1>7. ResultIsTrue'
  <2>1. CASE WriteEnds
    <3>1. /\ step = "write" /\ pos >= End /\ cell' = cell /\ job.cmd = "write"
      BY <1>1, <2>1 DEF WriteEnds, WriteLeft, Loops, RangeTypeOK, Jobs, Addresses, End
    <3>2. pos \in Nat /\ End \in Nat /\ Addresses \subseteq Nat
      BY <1>1 DEF RangeTypeOK, Jobs, Addresses, End
    <3>3. ASSUME NEW i \in Addresses, i < End PROVE i < pos
      BY <3>1, <3>2, <3>3
    <3> QED BY <1>1, <1>2, <3>1, <3>3 DEF Written, ResultIsTrue
  <2>2. CASE ChipErase
    <3>1. step = "chip" /\ job.cmd = "chip" /\ EraseCells(Sectors(job.addr, End))
      BY <1>1, <2>2 DEF ChipErase, Loops
    <3>2. part.good => \A i \in Sectors(job.addr, End) : cell'[i] = "blank"
      BY <1>1, <1>2, <3>1, EraseCellsTypes
    <3> QED BY <1>1, <1>2, <3>1, <3>2 DEF ResultIsTrue
  <2>3. CASE RequestFails
    BY <2>3 DEF RequestFails, ResultIsTrue
  <2> QED BY <2>1, <2>2, <2>3
<1> QED BY <1>4, <1>5, <1>6, <1>7 DEF RangeInv

LEMMA RangeInvStarts == RangeInit => RangeInv
<1> SUFFICES ASSUME RangeInit PROVE RangeInv
  OBVIOUS
<1>1. /\ job \in Jobs /\ End <= Size /\ part \in Parts /\ pos = job.addr
      /\ job.addr \in Nat
  BY DEF RangeInit, Jobs, Addresses
<1>2. step \in {"erase", "write", "chip"}
  BY DEF RangeInit
<1>3. RangeTypeOK
  BY <1>1, <1>2 DEF RangeInit, RangeTypeOK
<1>4. Loops
  BY <1>1 DEF RangeInit, Loops, Jobs
<1>5. Blanked /\ Unworn
  BY <1>1 DEF RangeInit, Blanked, Unworn
<1>6. Written
  <2>1. Addresses \subseteq Nat
    BY DEF Addresses
  <2>2. step = "write" => ~job.erase
    BY DEF RangeInit
  <2>3. ASSUME NEW i \in Addresses, job.addr <= i, i < pos PROVE FALSE
    BY <1>1, <2>1, <2>3
  <2> QED BY <2>2, <2>3 DEF Written
<1>7. ResultIsTrue
  BY <1>2 DEF ResultIsTrue
<1>8. NeighboursKept /\ ErasedOnce
  BY DEF RangeInit, NeighboursKept, ErasedOnce
<1> QED BY <1>3, <1>4, <1>5, <1>6, <1>7, <1>8 DEF RangeInv

LEMMA RangeInvariance == RangeSpec => []RangeInv
<1>1. RangeInv /\ [RangeNext]_rangeVars => RangeInv'
  <2> SUFFICES ASSUME RangeInv, [RangeNext]_rangeVars PROVE RangeInv'
    OBVIOUS
  <2>1. CASE EraseStep
    <3>1. RangeTypeOK' /\ Loops' /\ Blanked' /\ Unworn' /\ Written'
      BY <2>1, EraseStepKeeps
    <3>2. NeighboursKept' /\ ErasedOnce'
      BY <2>1, ErasedRight DEF EraseStep
    <3>3. ResultIsTrue'
      BY <2>1 DEF EraseStep, ResultIsTrue
    <3> QED BY <3>1, <3>2, <3>3 DEF RangeInv
  <2>2. CASE EraseEnds
    BY <2>2, EraseEndsKeeps
  <2>3. CASE WriteStep
    <3>1. RangeTypeOK' /\ Loops' /\ Blanked' /\ Unworn' /\ Written'
      BY <2>3, WriteStepKeeps
    <3>2. NeighboursKept' /\ ErasedOnce'
      BY <2>3, ProgrammedRight DEF WriteStep, WriteLeft
    <3>3. ResultIsTrue'
      BY <2>3 DEF WriteStep, ResultIsTrue
    <3> QED BY <3>1, <3>2, <3>3 DEF RangeInv
  <2>4. CASE WriteEnds \/ ChipErase \/ RequestFails
    BY <2>4, RunEndsKeep
  <2>5. CASE UNCHANGED rangeVars
    BY <2>5 DEF rangeVars, RangeInv, RangeTypeOK, Loops, Blanked, Unworn, Written,
                ResultIsTrue, NeighboursKept, ErasedOnce, Fits, End, Sectors, Floor, Ceil
  <2> QED BY <2>1, <2>2, <2>3, <2>4, <2>5 DEF RangeNext
<1> QED BY <1>1, RangeInvStarts, PTL DEF RangeSpec

\* The types of a write, an erase or a chip erase, for a part of any size.
THEOREM RangeTypeCorrect == RangeSpec => []RangeTypeOK
BY RangeInvariance, PTL DEF RangeInv

\* spiWrite and the erase command report success only for what is so, for any part,
\* sector, erase and chunk size, wherever the range starts and ends.
THEOREM ResultsAreTrue == RangeSpec => []ResultIsTrue
BY RangeInvariance, PTL DEF RangeInv

\* A run that fails at any request has not touched a sector that is not the range's.
THEOREM NeighboursStay == RangeSpec => []NeighboursKept
BY RangeInvariance, PTL DEF RangeInv

\* "A sector is never erased twice" (Pod.Erase), whether or not MaxErase is a
\* multiple of the sector.
THEOREM NoSectorTwice == RangeSpec => []ErasedOnce
BY RangeInvariance, PTL DEF RangeInv

-----------------------------------------------------------------------------
\* SpiFlashRun is both modules at once: whatever it does, the run does a step of
\* SpiFlashSession or none, and the flash one of SpiFlashRange or none.  So each
\* theorem about either holds of the whole command.
THEOREM RunIsBoth == RunSpec => Spec /\ RangeSpec
<1>1. RunInit => Init /\ RangeInit
  BY DEF RunInit
<1>2. [RunNext]_runVars => [Next]_vars /\ [RangeNext]_rangeVars
  <2> SUFFICES ASSUME [RunNext]_runVars PROVE [Next]_vars /\ [RangeNext]_rangeVars
    OBVIOUS
  <2>1. CASE HostStep
    <3>1. Run \/ UNCHANGED vars
      BY <2>1 DEF HostStep, RunSends, RunReceives, RunLoses, RunFailsUnsent, LoopEnds,
                  RunReturns, Run
    <3>2. RangeNext \/ UNCHANGED rangeVars
      BY <2>1 DEF HostStep, RunSends, RunReceives, RunLoses, RunFailsUnsent, LoopEnds,
                  RunReturns, Abandon, RangeNext
    <3> QED BY <3>1, <3>2 DEF Next
  <2>2. CASE PodServes
    BY <2>2 DEF PodServes, Next
  <2>3. CASE Disturbance
    BY <2>3 DEF Disturbance, Next
  <2>4. CASE UNCHANGED runVars
    BY <2>4 DEF runVars
  <2> QED BY <2>1, <2>2, <2>3, <2>4 DEF RunNext
<1> QED BY <1>1, <1>2, PTL DEF RunSpec, Spec, RangeSpec

(***************************************************************************)
(* SerialConsole.                                                          *)
(***************************************************************************)

\* The lines of a stream, and what is known of their order: no line of a kind in A
\* comes before one of a kind in B; one of a kind in B after one of a kind in A is
\* the last.
Without(s, K)     == \A t \in Range(s) : t.k \notin K
NeverThen(s, A, B) ==
  \A i, j \in DOMAIN s : i < j /\ s[i].k \in A => s[j].k \notin B
EndsAt(s, A, B) ==
  \A i, j \in DOMAIN s : i < j /\ s[i].k \in A /\ s[j].k \in B => j = Len(s)

\* What the host captured, what it has not read, and what the pod has yet to print.
Stream == (acc \o out) \o todo
Unread == out \o todo

\* What a line may carry: the command it echoes, the fields of wifi-show, what wifi-set says,
\* how a scan ends, how the link is, and any value of a field.
PodLines  == {"set", "show", "scan", "clear", "boot", "power"}
ShowKinds == {"ssid", "state", "ip", "via", "rssi"}
SetKinds  == {"saved", "refused", "joined", "failed"}
Outcomes  == {"refused", "joined", "failed"}
ScanEnds     == {"done", "scan error", "unknown"}
WifiStates == {"down", "joining", "connected", "failed"}

Values == {"", "old", "new", "none", "address", "bridge", "bad", "on"}
            \cup WifiStates \cup Cells \cup PodLines
Tokens == [k : Kinds, v : Values]

\* The types of what the command keeps, of the pod's state, of the bounds, and of the lines
\* on the wire.
HostTypes ==
  /\ flow \in PodLines /\ want \in {"old", "new"}
  /\ pc \in {"before", "set", "bridge set", "after", "poll", "one", "has", "done"}
  /\ result \in {"none", "error", "not saved", "join failed", "joined", "saved",
                 "listed", "cannot scan", "powered", "booting", "cleared", "shown"}
  /\ joinSeen \in BOOLEAN /\ phase \in {"call", "reading", "got"}
  /\ ret \in {"none", "ok", "timeout", "gone", "unsent"}
  /\ grace \in BOOLEAN /\ ctx \in BOOLEAN
  /\ (pc = "done") = (result # "none")

PodTypes ==
  /\ echoes \in BOOLEAN /\ bridge \in BOOLEAN /\ wired \in BOOLEAN
  /\ powered \in BOOLEAN /\ gone \in BOOLEAN
  /\ cred \in {"none", "old", "new"} /\ wifi \in WifiStates
  /\ shown \in [ssid : {"none", "old", "new"}, state : WifiStates]
  /\ scanned \subseteq Cells

Counters == polls \in 0 .. MaxPolls /\ noise \in 0 .. MaxNoise /\ lost \in 0 .. MaxLost

StreamTypes ==
  /\ acc \in Seq(Tokens) /\ out \in Seq(Tokens) /\ todo \in Seq(Tokens)
  /\ podIn \in Seq(PodLines)

\* Where each flow may be; how a command that returned may have; what a pod that is
\* gone, and a reply that is waited for, have left.
Course ==
  /\ pc \in {"before", "set", "bridge set", "after", "poll"} => flow = "set"
  /\ pc = "one" => flow # "set"
  /\ pc = "has" => flow = "scan"
  /\ pc = "done" => phase = "call"
  /\ phase = "got" => ret # "none"
  /\ phase = "got" /\ ret = "timeout" => ~ctx
  /\ phase = "got" /\ ret \in {"gone", "unsent"} => gone
  /\ gone => podIn = <<>> /\ todo = <<>>
  /\ phase = "reading" /\ grace => podIn = <<>> /\ Command \in {"show", "power"}
  /\ \A c \in Range(podIn) : c = flow \/ (c = "show" /\ flow \in {"set", "scan"})
  /\ result \in {"joined", "not saved"} => flow = "set"
  /\ result = "listed" => flow = "scan"
  /\ result = "booting" => flow = "boot"

\* How many lines the pod has not taken: at most one that timed out and one more.
InLine ==
  /\ Len(podIn) <= 2
  /\ phase = "call" /\ pc # "done" => Len(podIn) <= (IF pc = "set" THEN 1 ELSE 0)
  /\ phase # "call" => Len(podIn) <= (IF pc = "set" THEN 2 ELSE 1)

\* Until the pod has taken the only line of a run the stream has prompts at most.
FirstLine ==
  pc = "one" /\ (phase = "call" \/ podIn # <<>>) => Without(Stream, Kinds \ {"prompt"})

\* While the deadline has not passed the pod has taken the line under way, and echoed
\* it once, or has that line to take, and no other.
Piped ==
  /\ Without(todo, {"echo"})
  /\ ~echoes => Without(Stream, {"echo"})
  /\ phase = "call" /\ ctx /\ pc # "done" => podIn = <<>> /\ Without(out, {"echo"})
  /\ phase = "got" /\ (ctx \/ ret = "ok") => podIn = <<>> /\ Without(out, {"echo"})
  /\ phase = "reading" /\ ctx =>
       \/ podIn = <<Command>> /\ Without(Stream, {"echo"})
       \/ /\ podIn = <<>> /\ NeverThen(Stream, {"echo"}, {"echo"})
          /\ \A t \in Range(Stream) : t.k = "echo" => t.v = Command
          /\ echoes => gone \/ ~Without(acc \o out, {"echo"})

\* wifi-set is sent once; what it printed and what the pod keeps agree.
SetOnce ==
  /\ flow # "set" => "set" \notin Range(podIn) /\ Without(Stream, SetKinds)
  /\ (pc = "before" \/ (pc \in {"set", "bridge set"} /\ phase = "call")) =>
       cred = "old" /\ "set" \notin Range(podIn) /\ Without(Stream, SetKinds)
  /\ "set" \in Range(podIn) =>
       /\ cred = "old" /\ Without(Stream, SetKinds)
       /\ \A i \in DOMAIN podIn : podIn[i] = "set" => i = Len(podIn)
  /\ (pc \in {"after", "poll"} \/ result \in {"joined", "not saved"}) =>
       "set" \notin Range(podIn)

\* What wifi-set has printed, and what the pod tells of its network, is what it keeps.
Kept ==
  /\ ~Without(Stream, {"refused"}) =>
       cred = "old" /\ Without(Stream, {"saved", "joined", "failed"})
  /\ ~Without(Stream, {"joined"}) => ~bridge /\ cred = want /\ wifi = "connected"
  /\ pc = "after" /\ joinSeen => ~bridge /\ cred = want /\ wifi = "connected"
  /\ result = "not saved" => cred = "old"
  /\ cred = "old" => shown.ssid = "old"
  /\ shown.ssid = "new" /\ shown.state = "connected" => cred = "new" /\ wifi = "connected"

\* What wifi-show printed is read whole before the next command.
ReadWhole ==
  /\ phase # "reading" /\ ctx /\ pc # "done" => Without(out, ShowKinds) /\ Without(todo, ShowKinds)
  /\ phase = "reading" /\ ctx =>
       /\ (Command # "show" \/ podIn # <<>>) => Without(Stream, ShowKinds)
       /\ NeverThen(Stream, {"rssi"}, ShowKinds)

\* Some line of the stream shows v in field k.
Bears(k, v) == \E t \in Range(Stream) : t.k = k /\ t.v = v

\* While a bridge is polled, a stream that shows the new network connected tells the truth.
Told ==
  /\ pc = "poll" /\ ((phase = "reading" /\ ctx) \/ (phase = "got" /\ ret = "ok"))
       /\ Bears("ssid", "new") /\ Bears("state", "connected")
       => cred = "new" /\ wifi = "connected"

\* A prompt that follows the echo, or the end of a scan, is the last line of the stream.
AtTheEnd == echoes /\ noise = 0 =>
  /\ phase = "got" /\ ret = "ok" => out = <<>> /\ todo = <<>>
  /\ phase = "reading" /\ ctx =>
       EndsAt(Stream, IF Command = "scan" THEN ScanEnds ELSE {"echo"}, {"prompt"})

\* Only a pod behind a bridge says so; where no line is lost it always does, so set-wifi does
\* not wait for a wifi-set to join that a bridge will join.
Carried ==
  /\ ~bridge => Without(Stream, {"via"}) /\ pc \notin {"bridge set", "poll"}
  /\ \A t \in Range(Stream) : t.k = "via" => t.v = "bridge"
  /\ bridge /\ lost = 0 =>
       /\ pc = "before" /\ phase = "reading" /\ ctx /\ podIn = <<>>
            => gone \/ ~Without(Stream, {"via"})
       /\ pc = "before" /\ phase = "got" /\ ret = "ok" => gone \/ ~Without(acc, {"via"})
       /\ pc = "set" =>
            /\ gone \/ ~ctx
            /\ phase = "reading" => ~ctx
            /\ phase = "got" => ret # "ok"
       /\ pc # "after"

\* A wifi-set that ended well, nothing lost, has named its outcome; after one that was saved
\* the pod has joined, or has gone before it could be asked.
Joins == echoes /\ ~bridge /\ lost = 0 /\ noise = 0 =>
  /\ pc = "set" /\ phase = "reading" /\ ctx /\ podIn = <<>> => gone \/ ~Without(Stream, Outcomes)
  /\ pc = "set" /\ phase = "got" /\ ret = "ok" => gone \/ ~Without(acc, Outcomes)
  /\ pc = "after" =>
       \/ cred = want /\ wifi = "connected"
       \/ ~joinSeen /\ gone /\ phase # "reading" /\ (phase = "got" => ret # "ok")

\* set-wifi says joined only of a network the pod keeps and is connected to.
Joined == result = "joined" /\ echoes /\ lost = 0 =>
   IF bridge THEN want = "new" => cred = want /\ wifi = "connected"
   ELSE noise = 0 => cred = want /\ wifi = "connected"

\* What a scan shows was found, all of it before the line that ends the scan.
Listed ==
  flow = "scan" /\ (pc = "one" \/ result = "listed") =>
      /\ \A t \in Range(Stream) : t.k = "net" => t.v \in scanned
      /\ NeverThen(Stream, {"done"}, {"net"})
      /\ lost = 0 /\ ~Without(Stream, {"done"}) => \A v \in scanned : Bears("net", v)
      /\ result = "listed" => podIn = <<>> /\ ~Without(acc, {"done"})

\* The fuse is on once a line says so, and stays so.
Powering ==
 /\ Bears("efuse", "on") => powered
 /\ result = "powered" => powered
\* A pod that says it enters the boot loader leaves, and prints nothing else.
Leaving ==
  /\ flow # "boot" => Without(todo, {"leave"})
  /\ flow = "boot" =>
       /\ Len(podIn) <= 1 /\ (todo # <<>> => podIn = <<>>)
       /\ todo \in {<<>>, <<Token("leave", "")>>, <<Token("entering", ""), Token("leave", "")>>}
       /\ ~Without(acc \o out, {"entering"}) => gone \/ todo = <<Token("leave", "")>>
       /\ result = "booting" => gone \/ todo = <<Token("leave", "")>>

Types == HostTypes /\ PodTypes /\ Counters /\ StreamTypes

\* The inductive invariant.
ConsoleInv ==
  /\ Types /\ Course /\ InLine /\ FirstLine /\ Piped /\ SetOnce /\ Kept /\ ReadWhole /\ Told
  /\ AtTheEnd /\ Carried /\ Joins /\ Joined /\ Listed /\ Powering /\ Leaving


\* The least element of a nonempty set of naturals.
LEMMA MinIs ==
  ASSUME NEW S, S \subseteq Nat, S # {}
  PROVE  Min(S) \in S /\ \A x \in S : Min(S) <= x
<1>1. PICK m \in S : \A y \in S : ~(<<y, m>> \in OpToRel(<, Nat))
  BY NatLessThanWellFounded, WFMin
<1>2. \A y \in S : ~(y < m)
  BY <1>1 DEF OpToRel
<1>3. m \in S /\ \A y \in S : m <= y
  BY <1>2
<1> QED BY <1>3 DEF Min

\* The greatest element of a nonempty set of naturals that has a bound.
LEMMA MaxIs ==
  ASSUME NEW n \in Nat, NEW S, S \subseteq 0 .. n, S # {}
  PROVE  Max(S) \in S /\ \A x \in S : x <= Max(S)
<1> DEFINE T == {n - x : x \in S}
<1>1. T \subseteq Nat /\ T # {}
  <2>1. PICK s \in S : TRUE
    OBVIOUS
  <2>2. n - s \in T /\ \A x \in S : n - x \in Nat
    OBVIOUS
  <2> QED BY <2>2
<1>2. Min(T) \in T /\ \A x \in T : Min(T) <= x
  BY <1>1, MinIs
<1>3. PICK m \in S : Min(T) = n - m
  BY <1>2
<1>4. \A x \in S : n - m <= n - x
  BY <1>2, <1>3
<1>5. m \in S /\ \A x \in S : m >= x
  BY <1>4
<1>6. Max(S) \in S /\ \A x \in S : Max(S) >= x
  BY <1>5 DEF Max
<1> QED BY <1>6

-----------------------------------------------------------------------------
(* Lines of a stream, and their order.                                     *)

\* What two streams end to end hold, and where.
LEMMA ConcatFacts ==
  ASSUME NEW S, NEW s \in Seq(S), NEW u \in Seq(S)
  PROVE  /\ s \o u \in Seq(S) /\ DOMAIN (s \o u) = 1 .. Len(s) + Len(u)
         /\ Len(s \o u) = Len(s) + Len(u)
         /\ Len(s) \in Nat /\ Len(u) \in Nat /\ DOMAIN s = 1 .. Len(s) /\ DOMAIN u = 1 .. Len(u)
         /\ \A i \in DOMAIN s : i \in DOMAIN (s \o u) /\ (s \o u)[i] = s[i]
         /\ \A i \in DOMAIN u : Len(s) + i \in DOMAIN (s \o u) /\ (s \o u)[Len(s) + i] = u[i]
         /\ \A n \in DOMAIN (s \o u) :
              \/ n \in DOMAIN s
              \/ \E i \in DOMAIN u : n = Len(s) + i
<1>1. /\ s \o u \in Seq(S) /\ Len(s \o u) = Len(s) + Len(u)
      /\ \A i \in 1 .. Len(s) + Len(u) : (s \o u)[i] = IF i <= Len(s) THEN s[i] ELSE u[i - Len(s)]
  BY ConcatProperties
<1>2. /\ Len(s) \in Nat /\ Len(u) \in Nat /\ DOMAIN s = 1 .. Len(s) /\ DOMAIN u = 1 .. Len(u)
      /\ DOMAIN (s \o u) = 1 .. Len(s) + Len(u)
  BY <1>1
<1>3. ASSUME NEW i \in DOMAIN u
      PROVE  Len(s) + i \in DOMAIN (s \o u) /\ (s \o u)[Len(s) + i] = u[i]
  <2>1. Len(s) + i \in 1 .. Len(s) + Len(u) /\ ~(Len(s) + i <= Len(s)) /\ (Len(s) + i) - Len(s) = i
    BY <1>2
  <2> QED BY <1>1, <1>2, <2>1
<1>4. \A i \in DOMAIN s : i \in DOMAIN (s \o u) /\ (s \o u)[i] = s[i]
  BY <1>1, <1>2
<1>5. ASSUME NEW n \in DOMAIN (s \o u), n \notin DOMAIN s
      PROVE  \E i \in DOMAIN u : n = Len(s) + i
  <2>1. n - Len(s) \in DOMAIN u /\ n = Len(s) + (n - Len(s))
    BY <1>2, <1>5
  <2> QED BY <2>1
<1> QED BY <1>1, <1>2, <1>3, <1>4, <1>5

\* What a stream holds after each thing that happens to one.
LEMMA Holds ==
  ASSUME NEW S, NEW s \in Seq(S)
  PROVE  /\ Range(s) \subseteq S
         /\ Range(<<>>) = {} /\ <<>> \in Seq(S)
         /\ \A u \in Seq(S) : s \o u \in Seq(S) /\ Range(s \o u) = Range(s) \cup Range(u)
         /\ \A r \in S : <<r>> \in Seq(S) /\ Range(<<r>>) = {r} /\ Append(s, r) = s \o <<r>>
                         /\ Append(s, r) \in Seq(S)
         /\ s # <<>> => /\ Head(s) \in S /\ Tail(s) \in Seq(S) /\ s = <<Head(s)>> \o Tail(s)
                        /\ Len(Tail(s)) = Len(s) - 1
         /\ \A n \in 0 .. Len(s) :
              /\ SubSeq(s, 1, n) \in Seq(S) /\ SubSeq(s, n + 1, Len(s)) \in Seq(S)
              /\ s = SubSeq(s, 1, n) \o SubSeq(s, n + 1, Len(s))
<1>1. Range(s) \subseteq S
  BY RangeOfSeq
<1>2. Range(<<>>) = {} /\ <<>> \in Seq(S)
  BY DEF Range
<1>3. \A u \in Seq(S) : s \o u \in Seq(S) /\ Range(s \o u) = Range(s) \cup Range(u)
  BY RangeConcatenation, ConcatProperties
<1>4. ASSUME NEW r \in S
      PROVE  <<r>> \in Seq(S) /\ Range(<<r>>) = {r} /\ Append(s, r) = s \o <<r>>
             /\ Append(s, r) \in Seq(S)
  BY AppendIsConcat, AppendProperties DEF Range
<1>5. ASSUME s # <<>>
      PROVE  /\ Head(s) \in S /\ Tail(s) \in Seq(S) /\ s = <<Head(s)>> \o Tail(s)
             /\ Len(Tail(s)) = Len(s) - 1
  <2>1. Len(s) \in Nat \ {0}
    BY <1>5, EmptySeq
  <2>2. 1 \in 1 .. Len(s) /\ Len(s) \in 1 .. Len(s) /\ Len(s) \in Nat
    BY <2>1
  <2>3. SubSeq(s, 1, Len(s)) = <<s[1]>> \o SubSeq(s, 1 + 1, Len(s))
    BY <2>2, SubSeqRecursiveFirst
  <2>4. SubSeq(s, 1, Len(s)) = s /\ Tail(s) = SubSeq(s, 2, Len(s)) /\ Head(s) = s[1] /\ 1 + 1 = 2
    BY <1>5, SubSeqFull, TailIsSubSeq
  <2> QED BY <1>5, <2>3, <2>4, HeadTailProperties
<1>6. ASSUME NEW n \in 0 .. Len(s)
      PROVE  /\ SubSeq(s, 1, n) \in Seq(S) /\ SubSeq(s, n + 1, Len(s)) \in Seq(S)
             /\ s = SubSeq(s, 1, n) \o SubSeq(s, n + 1, Len(s))
  <2>1. Len(s) \in Nat /\ n \in Nat /\ n <= Len(s)
    OBVIOUS
  <2>2. 1 \in 1 .. Len(s) + 1 /\ n \in 1 - 1 .. Len(s) /\ Len(s) \in n .. Len(s)
    BY <2>1
  <2>3. SubSeq(s, 1, n) \o SubSeq(s, n + 1, Len(s)) = SubSeq(s, 1, Len(s))
    BY <2>2, ConcatAdjacentSubSeq
  <2>4. SubSeq(s, 1, n) \in Seq(S) /\ SubSeq(s, n + 1, Len(s)) \in Seq(S)
    BY <2>1
  <2> QED BY <2>3, <2>4, SubSeqFull
<1> QED BY <1>1, <1>2, <1>3, <1>4, <1>5, <1>6

\* Without, of the parts and of the whole.
LEMMA WithoutParts ==
  ASSUME NEW S, NEW s \in Seq(S), NEW u \in Seq(S)
  PROVE  /\ \A K : Without(s \o u, K) <=> Without(s, K) /\ Without(u, K)
         /\ \A K : Without(<<>>, K)
         /\ \A K : \A r \in S : Without(<<r>>, K) <=> r.k \notin K
         /\ \A K, L : K \subseteq L /\ Without(s, L) => Without(s, K)
<1>1. \A K : Without(s \o u, K) <=> Without(s, K) /\ Without(u, K)
  <2>1. Range(s \o u) = Range(s) \cup Range(u)
    BY RangeConcatenation
  <2> QED BY <2>1 DEF Without
<1>2. \A K : Without(<<>>, K)
  BY DEF Without, Range
<1>3. ASSUME NEW K, NEW r \in S PROVE Without(<<r>>, K) <=> r.k \notin K
  <2>1. Range(<<r>>) = {r}
    BY Holds
  <2> QED BY <2>1 DEF Without
<1>4. \A K, L : K \subseteq L /\ Without(s, L) => Without(s, K)
  BY DEF Without
<1> QED BY <1>1, <1>2, <1>3, <1>4

\* Order, of the parts and of the whole.
LEMMA NeverParts ==
  ASSUME NEW S, NEW s \in Seq(S), NEW u \in Seq(S)
  PROVE  \A A, B : NeverThen(s \o u, A, B) <=>
           NeverThen(s, A, B) /\ NeverThen(u, A, B) /\ (Without(s, A) \/ Without(u, B))
<1> SUFFICES ASSUME NEW A, NEW B
             PROVE  NeverThen(s \o u, A, B) <=>
           NeverThen(s, A, B) /\ NeverThen(u, A, B) /\ (Without(s, A) \/ Without(u, B))
  OBVIOUS
<1> DEFINE w == s \o u
<1>1. /\ DOMAIN w = 1 .. Len(s) + Len(u)
      /\ Len(s) \in Nat /\ Len(u) \in Nat /\ DOMAIN s = 1 .. Len(s) /\ DOMAIN u = 1 .. Len(u)
      /\ \A i \in DOMAIN s : i \in DOMAIN w /\ w[i] = s[i]
      /\ \A i \in DOMAIN u : Len(s) + i \in DOMAIN w /\ w[Len(s) + i] = u[i]
      /\ \A n \in DOMAIN w : n \in DOMAIN s \/ \E i \in DOMAIN u : n = Len(s) + i
  BY ConcatFacts
<1> HIDE DEF w
<1>2. ASSUME NeverThen(w, A, B)
      PROVE  NeverThen(s, A, B) /\ NeverThen(u, A, B) /\ (Without(s, A) \/ Without(u, B))
  <2>1. NeverThen(s, A, B)
    BY <1>1, <1>2 DEF NeverThen
  <2>2. ASSUME NEW i \in DOMAIN u, NEW j \in DOMAIN u, i < j, u[i].k \in A PROVE u[j].k \notin B
    <3>1. Len(s) + i < Len(s) + j
      BY <1>1, <2>2
    <3> QED BY <1>1, <1>2, <2>2, <3>1 DEF NeverThen
  <2>3. ASSUME NEW i \in DOMAIN s, NEW j \in DOMAIN u, s[i].k \in A PROVE u[j].k \notin B
    <3>1. i < Len(s) + j
      BY <1>1, <2>3
    <3> QED BY <1>1, <1>2, <2>3, <3>1 DEF NeverThen
  <2> QED BY <2>1, <2>2, <2>3 DEF NeverThen, Without, Range
<1>3. ASSUME NeverThen(s, A, B), NeverThen(u, A, B), Without(s, A) \/ Without(u, B)
      PROVE  NeverThen(w, A, B)
  <2> SUFFICES ASSUME NEW i \in DOMAIN w, NEW j \in DOMAIN w, i < j, w[i].k \in A
               PROVE  w[j].k \notin B
    BY DEF NeverThen
  <2>1. CASE i \in DOMAIN s /\ j \in DOMAIN s
    BY <1>1, <1>3, <2>1 DEF NeverThen
  <2>2. ASSUME NEW l \in DOMAIN u, j = Len(s) + l, i \in DOMAIN s PROVE w[j].k \notin B
    BY <1>1, <1>3, <2>2 DEF Without, Range
  <2>3. ASSUME NEW m \in DOMAIN u, NEW l \in DOMAIN u, i = Len(s) + m, j = Len(s) + l
        PROVE  w[j].k \notin B
    <3>1. m < l
      BY <1>1, <2>3
    <3> QED BY <1>1, <1>3, <2>3, <3>1 DEF NeverThen
  <2>4. ASSUME NEW m \in DOMAIN u, i = Len(s) + m, j \in DOMAIN s PROVE FALSE
    BY <1>1, <2>4
  <2> QED BY <1>1, <2>1, <2>2, <2>3, <2>4
<1> QED BY <1>2, <1>3 DEF w

\* What comes after the last line of its kinds; that line put after others.
LEMMA EndsParts ==
  ASSUME NEW S, NEW s \in Seq(S), NEW u \in Seq(S)
  PROVE  /\ \A A, B : EndsAt(s \o u, A, B) /\ ~NeverThen(s, A, B) => u = <<>>
         /\ \A A, B : Without(s, A) /\ EndsAt(u, A, B) => EndsAt(s \o u, A, B)
         /\ \A A, B : EndsAt(s \o u, A, B) => EndsAt(u, A, B)
         /\ \A A, B, r : r \in S /\ Without(s, B) => EndsAt(s \o <<r>>, A, B)
<1> DEFINE w == s \o u
<1>1. /\ DOMAIN w = 1 .. Len(s) + Len(u) /\ Len(w) = Len(s) + Len(u)
      /\ Len(s) \in Nat /\ Len(u) \in Nat /\ DOMAIN s = 1 .. Len(s) /\ DOMAIN u = 1 .. Len(u)
      /\ \A i \in DOMAIN s : i \in DOMAIN w /\ w[i] = s[i]
      /\ \A i \in DOMAIN u : Len(s) + i \in DOMAIN w /\ w[Len(s) + i] = u[i]
      /\ \A n \in DOMAIN w : n \in DOMAIN s \/ \E i \in DOMAIN u : n = Len(s) + i
  BY ConcatFacts
<1> HIDE DEF w
<1>2. ASSUME NEW A, NEW B, EndsAt(w, A, B), ~NeverThen(s, A, B) PROVE u = <<>>
  <2>1. PICK i \in DOMAIN s, j \in DOMAIN s : i < j /\ s[i].k \in A /\ s[j].k \in B
    BY <1>2 DEF NeverThen
  <2>2. j = Len(s) + Len(u)
    BY <1>1, <1>2, <2>1 DEF EndsAt
  <2>3. Len(u) = 0
    BY <1>1, <2>1, <2>2
  <2> QED BY <2>3, EmptySeq
<1>3. ASSUME NEW A, NEW B, Without(s, A), EndsAt(u, A, B) PROVE EndsAt(w, A, B)
  <2> SUFFICES ASSUME NEW i \in DOMAIN w, NEW j \in DOMAIN w, i < j, w[i].k \in A, w[j].k \in B
               PROVE  j = Len(w)
    BY DEF EndsAt
  <2>1. i \notin DOMAIN s
    BY <1>1, <1>3 DEF Without, Range
  <2>2. PICK m \in DOMAIN u : i = Len(s) + m
    BY <1>1, <2>1
  <2>3. PICK l \in DOMAIN u : j = Len(s) + l
    BY <1>1, <2>2
  <2>4. m < l
    BY <1>1, <2>2, <2>3
  <2> QED BY <1>1, <1>3, <2>2, <2>3, <2>4 DEF EndsAt
<1>4. ASSUME NEW A, NEW B, EndsAt(w, A, B) PROVE EndsAt(u, A, B)
  <2> SUFFICES ASSUME NEW i \in DOMAIN u, NEW j \in DOMAIN u, i < j, u[i].k \in A, u[j].k \in B
               PROVE  j = Len(u)
    BY DEF EndsAt
  <2>1. Len(s) + i < Len(s) + j
    BY <1>1
  <2>2. Len(s) + j = Len(w)
    BY <1>1, <1>4, <2>1 DEF EndsAt
  <2> QED BY <1>1, <2>2
<1>5. ASSUME NEW A, NEW B, NEW r \in S, Without(s, B) PROVE EndsAt(s \o <<r>>, A, B)
  <2>1. <<r>> \in Seq(S) /\ Len(<<r>>) = 1
    OBVIOUS
  <2>2. /\ DOMAIN (s \o <<r>>) = 1 .. Len(s) + 1 /\ Len(s \o <<r>>) = Len(s) + 1
        /\ \A i \in DOMAIN s : (s \o <<r>>)[i] = s[i]
    BY <2>1, ConcatFacts
  <2>3. \A j \in 1 .. Len(s) + 1 : j # Len(s) + 1 => j \in DOMAIN s
    BY <1>1
  <2> QED BY <1>5, <2>2, <2>3 DEF EndsAt, Without, Range
<1> QED BY <1>2, <1>3, <1>4, <1>5 DEF w

\* Lines taken out of a stream leave the order of the rest.
LEMMA EndsKept ==
  ASSUME NEW S, NEW s \in Seq(S), NEW x \in Seq(S), NEW u \in Seq(S)
  PROVE  \A A, B : EndsAt(s \o (x \o u), A, B) => EndsAt(s \o u, A, B)
<1> SUFFICES ASSUME NEW A, NEW B, EndsAt(s \o (x \o u), A, B) PROVE EndsAt(s \o u, A, B)
  OBVIOUS
<1> DEFINE y == x \o u
           w == s \o y
           v == s \o u
<1>1. /\ y \in Seq(S) /\ DOMAIN y = 1 .. Len(x) + Len(u) /\ Len(y) = Len(x) + Len(u) /\ Len(x) \in Nat
      /\ \A i \in DOMAIN u : Len(x) + i \in DOMAIN y /\ y[Len(x) + i] = u[i]
  BY ConcatFacts, SMTT(60)
<1>2. /\ DOMAIN v = 1 .. Len(s) + Len(u) /\ Len(v) = Len(s) + Len(u)
      /\ Len(s) \in Nat /\ Len(u) \in Nat /\ DOMAIN s = 1 .. Len(s) /\ DOMAIN u = 1 .. Len(u)
      /\ \A i \in DOMAIN s : v[i] = s[i]
      /\ \A i \in DOMAIN u : v[Len(s) + i] = u[i]
      /\ \A n \in DOMAIN v : n \in DOMAIN s \/ \E i \in DOMAIN u : n = Len(s) + i
  BY ConcatFacts, SMTT(60)
<1> HIDE DEF y
<1>3. /\ Len(w) = Len(s) + Len(y)
      /\ \A i \in DOMAIN s : i \in DOMAIN w /\ w[i] = s[i]
      /\ \A i \in DOMAIN y : Len(s) + i \in DOMAIN w /\ w[Len(s) + i] = y[i]
  <2>1. y \in Seq(S)
    BY <1>1
  <2> HIDE <1>1, <1>2
  <2> QED BY <2>1, ConcatFacts, SMTT(60)
<1>4. EndsAt(w, A, B)
  BY DEF y
<1> HIDE DEF w, v
<1>10. /\ Len(w) = Len(s) + (Len(x) + Len(u)) /\ Len(v) = Len(s) + Len(u)
       /\ Len(s) \in Nat /\ Len(x) \in Nat /\ Len(u) \in Nat /\ DOMAIN u \subseteq Nat
  BY <1>1, <1>2, <1>3
<1>5. \A i \in DOMAIN u : Len(s) + (Len(x) + i) \in DOMAIN w /\ w[Len(s) + (Len(x) + i)] = u[i]
  BY <1>1, <1>3
<1> SUFFICES ASSUME NEW i \in DOMAIN v, NEW j \in DOMAIN v, i < j, v[i].k \in A, v[j].k \in B
             PROVE  j = Len(v)
  BY DEF EndsAt, v
<1>6. CASE i \in DOMAIN s /\ j \in DOMAIN s
  <2>1. j = Len(w)
    BY <1>2, <1>3, <1>4, <1>6 DEF EndsAt
  <2> QED BY <1>1, <1>2, <1>3, <1>6, <2>1, SMTT(60)
<1>7. ASSUME NEW l \in DOMAIN u, j = Len(s) + l, i \in DOMAIN s PROVE j = Len(v)
  <2>1. i < Len(s) + (Len(x) + l)
    BY <1>1, <1>2, <1>7, SMTT(60)
  <2>2. Len(s) + (Len(x) + l) = Len(w)
    BY <1>2, <1>3, <1>4, <1>5, <1>7, <2>1 DEF EndsAt
  <2>3. l \in Nat
    BY <1>2, <1>7
  <2>4. Len(u) = l
    BY <1>10, <2>2, <2>3
  <2> QED BY <1>7, <1>10, <2>4
<1>8. ASSUME NEW m \in DOMAIN u, NEW l \in DOMAIN u, i = Len(s) + m, j = Len(s) + l
      PROVE  j = Len(v)
  <2>1. Len(s) + (Len(x) + m) < Len(s) + (Len(x) + l)
    BY <1>1, <1>2, <1>8, SMTT(60)
  <2>2. Len(s) + (Len(x) + l) = Len(w)
    BY <1>2, <1>4, <1>5, <1>8, <2>1 DEF EndsAt
  <2>3. l \in Nat
    BY <1>2, <1>8
  <2>4. Len(u) = l
    BY <1>10, <2>2, <2>3, SMTT(60)
  <2> QED BY <1>8, <1>10, <2>4
<1>9. ASSUME NEW m \in DOMAIN u, i = Len(s) + m, j \in DOMAIN s PROVE FALSE
  BY <1>2, <1>9
<1> QED BY <1>2, <1>6, <1>7, <1>8, <1>9

\* v is s with some of its lines gone, and the rest in order.
Thinner(s, v) ==
  /\ Range(v) \subseteq Range(s)
  /\ \A A, B : NeverThen(s, A, B) => NeverThen(v, A, B)
  /\ \A A, B : EndsAt(s, A, B) => EndsAt(v, A, B)

\* A stream without its middle, its front or its back is thinner than the whole.
LEMMA ThinnerParts ==
  ASSUME NEW S, NEW s \in Seq(S), NEW x \in Seq(S), NEW u \in Seq(S)
  PROVE  /\ Thinner(s \o (x \o u), s \o u)
         /\ Thinner(s \o x, s)
         /\ Thinner(s \o x, x)
         /\ Thinner(s, s)
<1>1. \A y \in Seq(S) : Thinner(s \o (x \o y), s \o y)
  <2> SUFFICES ASSUME NEW y \in Seq(S) PROVE Thinner(s \o (x \o y), s \o y)
    OBVIOUS
  <2> DEFINE z == x \o y
  <2>1. z \in Seq(S) /\ Range(z) = Range(x) \cup Range(y)
    BY RangeConcatenation, ConcatProperties
  <2>2. Range(s \o y) \subseteq Range(s \o z)
    <3> HIDE DEF z
    <3>1. Range(s \o y) = Range(s) \cup Range(y)
      BY RangeConcatenation
    <3>2. Range(s \o z) = Range(s) \cup Range(z)
      BY <2>1, RangeConcatenation
    <3> QED BY <2>1, <3>1, <3>2
  <2>3. \A A, B : NeverThen(s \o z, A, B) => NeverThen(s \o y, A, B)
    <3>1. \A B : Without(z, B) => Without(y, B)
      BY <2>1 DEF Without
    <3>2. \A A, B : NeverThen(z, A, B) => NeverThen(y, A, B)
      BY NeverParts
    <3> HIDE DEF z
    <3>3. \A A, B : NeverThen(s \o z, A, B) =>
            NeverThen(s, A, B) /\ NeverThen(z, A, B) /\ (Without(s, A) \/ Without(z, B))
      BY <2>1, NeverParts
    <3> QED BY <3>1, <3>2, <3>3, NeverParts
  <2>4. \A A, B : EndsAt(s \o z, A, B) => EndsAt(s \o y, A, B)
    BY EndsKept
  <2> QED BY <2>2, <2>3, <2>4 DEF Thinner
<1>2. Thinner(s \o x, s)
  <2>1. <<>> \in Seq(S) /\ x \o <<>> = x /\ s \o <<>> = s
    BY ConcatEmptySeq
  <2>2. Thinner(s \o (x \o <<>>), s \o <<>>)
    BY <1>1, <2>1
  <2> QED BY <2>1, <2>2
<1>3. Thinner(s \o x, x)
  <2>1. Range(s \o x) = Range(s) \cup Range(x)
    BY RangeConcatenation
  <2> QED BY <2>1, NeverParts, EndsParts DEF Thinner
<1>4. Thinner(s, s)
  BY DEF Thinner
<1> QED BY <1>1, <1>2, <1>3, <1>4

\* To be thinner is transitive, and a thinner stream lacks what the stream lacks.
LEMMA ThinnerKeeps ==
  /\ \A s, v, w : Thinner(s, v) /\ Thinner(v, w) => Thinner(s, w)
  /\ \A s, v, K : Thinner(s, v) /\ Without(s, K) => Without(v, K)
BY DEF Thinner, Without

-----------------------------------------------------------------------------
(* The console's stream.                                                   *)

\* Streams end to end.
LEMMA TokensConcat ==
  \A x, y \in Seq(Tokens) :
    /\ x \o y \in Seq(Tokens) /\ Range(x \o y) = Range(x) \cup Range(y)
    /\ \A z \in Seq(Tokens) : (x \o y) \o z = x \o (y \o z)
<1> SUFFICES ASSUME NEW x \in Seq(Tokens), NEW y \in Seq(Tokens)
             PROVE  /\ x \o y \in Seq(Tokens) /\ Range(x \o y) = Range(x) \cup Range(y)
                    /\ \A z \in Seq(Tokens) : (x \o y) \o z = x \o (y \o z)
  OBVIOUS
<1>1. x \o y \in Seq(Tokens)
  BY ConcatProperties
<1>2. Range(x \o y) = Range(x) \cup Range(y)
  BY RangeConcatenation
<1>3. \A z \in Seq(Tokens) : (x \o y) \o z = x \o (y \o z)
  BY ConcatAssociative
<1> QED BY <1>1, <1>2, <1>3

\* What the three parts say of the stream.
LEMMA StreamIs ==
  ASSUME NEW a \in Seq(Tokens), NEW o \in Seq(Tokens), NEW t \in Seq(Tokens)
  PROVE  LET s == (a \o o) \o t
         IN  /\ s \in Seq(Tokens) /\ a \o o \in Seq(Tokens)
             /\ Range(s) = Range(a) \cup Range(o) \cup Range(t)
             /\ \A K : Without(s, K) <=> Without(a, K) /\ Without(o, K) /\ Without(t, K)
             /\ \A K : Without(a \o o, K) <=> Without(a, K) /\ Without(o, K)
             /\ \A A, B : NeverThen(s, A, B) =>
                  Without(a, A) \/ (Without(o, B) /\ Without(t, B))
             /\ \A A, B : EndsAt(s, A, B) /\ ~NeverThen(a, A, B) => o = <<>> /\ t = <<>>
             /\ s = a \o (o \o t)
<1> DEFINE p == a \o o
           q == o \o t
           s == p \o t
<1>1. p \in Seq(Tokens) /\ q \in Seq(Tokens) /\ s \in Seq(Tokens)
  BY ConcatProperties
<1>2. s = a \o q
  BY TokensConcat, SMTT(60)
<1>3. Range(p) = Range(a) \cup Range(o) /\ Range(q) = Range(o) \cup Range(t)
  BY RangeConcatenation
<1>4. \A K : /\ Without(p, K) <=> Without(a, K) /\ Without(o, K)
             /\ Without(q, K) <=> Without(o, K) /\ Without(t, K)
  BY <1>3 DEF Without
<1>5. q = <<>> => o = <<>> /\ t = <<>>
  BY ConcatEqualIffEmpty
<1> HIDE DEF p, q
<1>6. Range(s) = Range(p) \cup Range(t)
  BY <1>1, RangeConcatenation
<1>7. \A K : Without(s, K) <=> Without(p, K) /\ Without(t, K)
  BY <1>6 DEF Without
<1> HIDE DEF s
<1>8. \A A, B : NeverThen(s, A, B) => Without(a, A) \/ Without(q, B)
  BY <1>1, <1>2, NeverParts
<1>9. \A A, B : EndsAt(s, A, B) /\ ~NeverThen(a, A, B) => q = <<>>
  BY <1>1, <1>2, EndsParts
<1>10. Range(s) = Range(a) \cup Range(o) \cup Range(t)
  BY <1>3, <1>6
<1>11. \A K : Without(s, K) <=> Without(a, K) /\ Without(o, K) /\ Without(t, K)
  BY <1>4, <1>7
<1>12. \A A, B : NeverThen(s, A, B) => Without(a, A) \/ (Without(o, B) /\ Without(t, B))
  BY <1>4, <1>8
<1>13. \A A, B : EndsAt(s, A, B) /\ ~NeverThen(a, A, B) => o = <<>> /\ t = <<>>
  BY <1>5, <1>9
<1>14. \A K : Without(p, K) <=> Without(a, K) /\ Without(o, K)
  BY <1>4
<1> QED BY <1>1, <1>2, <1>10, <1>11, <1>12, <1>13, <1>14 DEF s, p, q

\* What a command is, and that it stays so until the next.
LEMMA CommandIs == HostTypes /\ Course =>
  /\ pc \in {"before", "after", "poll", "has"} => Command = "show"
  /\ pc \in {"set", "bridge set"} => Command = "set"
  /\ pc = "one" => Command = flow
  /\ pc = "done" => Command = "none"
  /\ Command \in PodLines \cup {"none"}
  /\ Command # "none" => pc # "done"
  /\ Command = "show" \/ Command = flow \/ Command = "none"
<1> SUFFICES ASSUME HostTypes, Course
             PROVE  /\ pc \in {"before", "after", "poll", "has"} => Command = "show"
                    /\ pc \in {"set", "bridge set"} => Command = "set"
                    /\ pc = "one" => Command = flow
                    /\ pc = "done" => Command = "none"
                    /\ Command \in PodLines \cup {"none"}
                    /\ Command # "none" => pc # "done"
                    /\ Command = "show" \/ Command = flow \/ Command = "none"
  OBVIOUS
<1>1. CASE pc \in {"before", "after", "poll", "has"}
  BY <1>1 DEF Command, PodLines
<1>2. CASE pc \in {"set", "bridge set"}
  BY <1>2 DEF Command, PodLines, Course
<1>3. CASE pc = "one"
  BY <1>3 DEF Command, HostTypes
<1>4. CASE pc = "done"
  BY <1>4 DEF Command
<1> QED BY <1>1, <1>2, <1>3, <1>4 DEF HostTypes

\* The line under way follows from the flow and the place in it.
LEMMA CommandSame == UNCHANGED <<flow, pc>> => Command' = Command
BY DEF Command

\* A field of the captured lines is that of one of them.
LEMMA FieldIs ==
  ASSUME acc \in Seq(Tokens), NEW f
  PROVE  /\ Says(f) <=> ~Without(acc, {f})
         /\ Says(f) => \E t \in Range(acc) : t.k = f /\ t.v = Field(f)
         /\ ~Says(f) => Field(f) = "none"
<1> DEFINE P == At(acc, f)
<1>1. P \subseteq 1 .. Len(acc) /\ Len(acc) \in Nat /\ DOMAIN acc = 1 .. Len(acc)
  BY DEF At
<1>2. Says(f) <=> ~Without(acc, {f})
  BY DEF Says, Without, At, Range
<1>3. ASSUME Says(f) PROVE \E t \in Range(acc) : t.k = f /\ t.v = Field(f)
  <2>1. P # {}
    BY <1>3 DEF Says
  <2>2. P \subseteq 0 .. Len(acc)
    BY <1>1
  <2> HIDE DEF P
  <2>3. Max(P) \in P
    BY <1>1, <2>1, <2>2, MaxIs
  <2>4. Max(P) \in DOMAIN acc /\ acc[Max(P)].k = f
    BY <2>3 DEF P, At
  <2>5. Field(f) = acc[Max(P)].v
    BY <1>3 DEF Field, P
  <2> QED BY <2>4, <2>5 DEF Range
<1>4. ~Says(f) => Field(f) = "none"
  BY DEF Field
<1> QED BY <1>2, <1>3, <1>4

\* What makes a reply end.
LEMMA EndIs ==
  ASSUME NEW s \in Seq(Tokens)
  PROVE  /\ EchoedEnd(s) =>
              /\ ~NeverThen(s, {"echo"}, {"prompt"}) /\ ~Without(s, {"echo"})
         /\ EchoIn(s) = {} <=> \A t \in Range(s) : t.k = "echo" => t.v # Command
         /\ Complete(s) /\ Command = "show" => ~Without(s, {"rssi"})
         /\ Complete(s) /\ Command = "scan" => ~NeverThen(s, ScanEnds, {"prompt"})
<1>1. DOMAIN s = 1 .. Len(s) /\ Len(s) \in Nat
  OBVIOUS
<1>2. ASSUME EchoedEnd(s)
      PROVE  ~NeverThen(s, {"echo"}, {"prompt"}) /\ ~Without(s, {"echo"})
  <2> DEFINE P == EchoIn(s)
  <2>1. P \subseteq Nat /\ P # {}
    BY <1>1, <1>2 DEF EchoedEnd, EchoIn, At
  <2> HIDE DEF P
  <2>2. Min(P) \in P
    BY <2>1, MinIs
  <2>3. Min(P) \in DOMAIN s /\ s[Min(P)].k = "echo"
    BY <2>2 DEF P, EchoIn, At
  <2>4. PromptAfter(s, Min(P))
    BY <1>2 DEF EchoedEnd, P
  <2>5. \E j \in DOMAIN s : s[j].k = "prompt" /\ j > Min(P)
    BY <2>4 DEF PromptAfter, At
  <2>6. ~NeverThen(s, {"echo"}, {"prompt"})
    BY <1>1, <2>3, <2>5 DEF NeverThen
  <2> QED BY <2>3, <2>6 DEF Without, Range
<1>3. EchoIn(s) = {} <=> \A t \in Range(s) : t.k = "echo" => t.v # Command
  BY DEF EchoIn, At, Range
<1>4. ASSUME Complete(s), Command = "show" PROVE ~Without(s, {"rssi"})
  BY <1>4 DEF Complete, At, Without, Range
<1>5. ASSUME Complete(s), Command = "scan" PROVE ~NeverThen(s, ScanEnds, {"prompt"})
  <2> DEFINE P == At(s, "done") \cup At(s, "scan error") \cup At(s, "unknown")
  <2>1. P # {} /\ PromptAfter(s, Max(P))
    BY <1>5 DEF Complete
  <2>2. P \subseteq 0 .. Len(s)
    <3>1. P \subseteq DOMAIN s
      BY DEF At
    <3> HIDE DEF P
    <3> QED BY <1>1, <3>1
  <2>3. \A i \in P : i \in DOMAIN s /\ s[i].k \in ScanEnds
    BY DEF At, ScanEnds
  <2> HIDE DEF P
  <2>4. Max(P) \in P
    BY <1>1, <2>1, <2>2, MaxIs
  <2>5. \E j \in DOMAIN s : s[j].k = "prompt" /\ j > Max(P)
    BY <2>1 DEF PromptAfter, At
  <2> QED BY <1>1, <2>3, <2>4, <2>5 DEF NeverThen
<1> QED BY <1>2, <1>3, <1>4, <1>5

-----------------------------------------------------------------------------
(* What each step does to the stream.                                      *)

\* A token of a kind and a value has them.
LEMMA TokenIs ==
  /\ Prompt \in Tokens /\ Prompt.k = "prompt"
  /\ \A x \in Kinds, y \in Values :
       Token(x, y) \in Tokens /\ Token(x, y).k = x /\ Token(x, y).v = y
<1>1. \A x \in Kinds, y \in Values :
        Token(x, y) \in Tokens /\ Token(x, y).k = x /\ Token(x, y).v = y
  BY DEF Token, Tokens
<1>2. "prompt" \in Kinds /\ "" \in Values
  BY DEF Kinds, Values
<1> QED BY <1>1, <1>2 DEF Prompt

\* SendLine: the unread lines begin the new capture, the line waits for the pod.
LEMMA SendIs == Types /\ Course /\ SendLine =>
  /\ StreamTypes' /\ acc' = <<>> /\ todo' = todo
  /\ Thinner(Stream, Stream')
  /\ \A K : Without(out, K) => Without(out', K)
<1> SUFFICES ASSUME Types, Course, SendLine
             PROVE  /\ StreamTypes' /\ acc' = <<>> /\ todo' = todo
                    /\ Thinner(Stream, Stream')
                    /\ \A K : Without(out, K) => Without(out', K)
  OBVIOUS
<1>1. acc \in Seq(Tokens) /\ out \in Seq(Tokens) /\ todo \in Seq(Tokens) /\ podIn \in Seq(PodLines)
      /\ <<>> \in Seq(Tokens)
  BY DEF Types, StreamTypes
<1>2. acc' = <<>> /\ todo' = todo /\ phase = "call" /\ Command # "none"
  BY DEF SendLine
<1>3. Command \in PodLines
  BY <1>2, CommandIs DEF Types
<1>4. Stream = acc \o (out \o todo) /\ out \o todo \in Seq(Tokens)
  BY <1>1, StreamIs, ConcatProperties DEF Stream
<1>5. Thinner(Stream, out \o todo)
  BY <1>1, <1>4, ThinnerParts
<1>6. out' \in Seq(Tokens) => Stream' = out' \o todo
  BY <1>1, <1>2, ConcatEmptySeq DEF Stream
<1>7. CASE gone
  <2>1. out' = out /\ podIn' = podIn
    BY <1>7 DEF SendLine
  <2> QED BY <1>1, <1>2, <1>5, <1>6, <2>1 DEF StreamTypes
<1>8. CASE ~gone
  <2>1. podIn' = Append(podIn, Command)
    BY <1>8 DEF SendLine
  <2>2. PICK n \in 0 .. Len(out) : out' = SubSeq(out, n + 1, Len(out))
    BY <1>8 DEF SendLine
  <2> DEFINE a == SubSeq(out, 1, n)
             b == SubSeq(out, n + 1, Len(out))
  <2>3. a \in Seq(Tokens) /\ b \in Seq(Tokens) /\ out = a \o b /\ out' = b
    BY <1>1, <2>2, Holds
  <2> HIDE DEF a, b
  <2>4. out \o todo = a \o (b \o todo) /\ b \o todo \in Seq(Tokens)
    BY <1>1, <2>3, TokensConcat, SMTT(60)
  <2>5. Thinner(out \o todo, b \o todo)
    BY <1>1, <2>3, <2>4, ThinnerParts
  <2>6. Thinner(Stream, Stream')
    BY <1>5, <1>6, <2>3, <2>5, ThinnerKeeps
  <2>7. \A K : Without(out, K) => Without(out', K)
    BY <2>3, WithoutParts
  <2>8. podIn' \in Seq(PodLines)
    BY <1>1, <1>3, <2>1
  <2> QED BY <1>1, <1>2, <2>3, <2>6, <2>7, <2>8 DEF StreamTypes
<1> QED BY <1>7, <1>8

\* Read: the first unread lines move to the capture.
LEMMA ReadIs == StreamTypes /\ Read =>
  /\ StreamTypes' /\ Stream' = Stream /\ todo' = todo /\ acc' \o out' = acc \o out
  /\ \A K : Without(out, K) => Without(out', K)
  /\ phase = "reading" /\ ctx
  /\ UNCHANGED <<flowv, ctx, podIn, todo, podv, gone, noise, lost>>
  /\ \/ EchoedEnd(acc') /\ Complete(acc') /\ phase' = "got" /\ ret' = "ok" /\ grace' = grace
     \/ EchoedEnd(acc') /\ ~Complete(acc') /\ grace' = (grace \/ Command # "scan")
          /\ UNCHANGED <<phase, ret>>
     \/ UNCHANGED <<phase, ret, grace>>
<1> SUFFICES ASSUME StreamTypes, Read
             PROVE  /\ StreamTypes' /\ Stream' = Stream /\ acc' \o out' = acc \o out
                    /\ \A K : Without(out, K) => Without(out', K)
  BY DEF Read, Ended
<1>1. acc \in Seq(Tokens) /\ out \in Seq(Tokens) /\ todo \in Seq(Tokens) /\ podIn \in Seq(PodLines)
  BY DEF StreamTypes
<1>2. PICK n \in 1 .. Len(out) :
        acc' = acc \o SubSeq(out, 1, n) /\ out' = SubSeq(out, n + 1, Len(out))
  BY DEF Read
<1>3. todo' = todo /\ podIn' = podIn
  BY DEF Read
<1> DEFINE a == SubSeq(out, 1, n)
           b == SubSeq(out, n + 1, Len(out))
<1>4. a \in Seq(Tokens) /\ b \in Seq(Tokens) /\ out = a \o b
  <2>1. n \in 0 .. Len(out)
    OBVIOUS
  <2> QED BY <1>1, <2>1, Holds
<1>5. acc' = acc \o a /\ out' = b
  BY <1>2
<1> HIDE DEF a, b
<1>6. acc' \in Seq(Tokens) /\ acc' \o out' = acc \o out
  <2>1. acc \o a \in Seq(Tokens)
    BY <1>1, <1>4, ConcatProperties
  <2>2. (acc \o a) \o b = acc \o (a \o b)
    BY <1>1, <1>4, TokensConcat, SMTT(60)
  <2> QED BY <1>4, <1>5, <2>1, <2>2
<1>7. \A K : Without(out, K) => Without(out', K)
  BY <1>4, <1>5, WithoutParts
<1> QED BY <1>1, <1>3, <1>4, <1>5, <1>6, <1>7 DEF StreamTypes, Stream

\* PodPrints: the next line of the answer moves to the wire.
LEMMA PrintIs == StreamTypes /\ PodPrints =>
  /\ StreamTypes' /\ todo # <<>> /\ todo = <<Head(todo)>> \o todo' /\ Head(todo) \in Tokens
  /\ Thinner(Stream, Stream') /\ Thinner(todo, todo')
  /\ \/ Head(todo).k = "leave" /\ gone' = TRUE /\ out' = out
     \/ Head(todo).k # "leave" /\ gone' = gone /\ Stream' = Stream /\ out' = out \o <<Head(todo)>>
  /\ UNCHANGED <<flowv, readv, ctx, podIn, podv, noise, lost>>
<1> SUFFICES ASSUME StreamTypes, PodPrints
             PROVE  /\ StreamTypes' /\ todo = <<Head(todo)>> \o todo' /\ Head(todo) \in Tokens
                    /\ Thinner(Stream, Stream') /\ Thinner(todo, todo')
                    /\ \/ Head(todo).k = "leave" /\ gone' = TRUE /\ out' = out
                       \/ Head(todo).k # "leave" /\ gone' = gone /\ Stream' = Stream
                            /\ out' = out \o <<Head(todo)>>
  BY DEF PodPrints
<1>1. acc \in Seq(Tokens) /\ out \in Seq(Tokens) /\ todo \in Seq(Tokens) /\ podIn \in Seq(PodLines)
  BY DEF StreamTypes
<1>2. todo # <<>> /\ todo' = Tail(todo) /\ acc' = acc /\ podIn' = podIn
  BY DEF PodPrints, readv
<1> DEFINE h == Head(todo)
<1>3. h \in Tokens /\ todo' \in Seq(Tokens) /\ todo = <<h>> \o todo' /\ <<h>> \in Seq(Tokens)
  BY <1>1, <1>2, Holds
<1>4. CASE h.k = "leave"
  <2>1. gone' = TRUE /\ out' = out
    BY <1>4 DEF PodPrints
  <2>2. Stream = (acc \o out) \o (<<h>> \o todo') /\ Stream' = (acc \o out) \o todo'
    BY <1>2, <1>3, <2>1 DEF Stream
  <2>3. acc \o out \in Seq(Tokens)
    BY <1>1, ConcatProperties
  <2> HIDE DEF h
  <2>4. Thinner(Stream, Stream') /\ Thinner(todo, todo')
    BY <1>3, <2>2, <2>3, ThinnerParts
  <2> QED BY <1>1, <1>2, <1>3, <1>4, <2>1, <2>4 DEF StreamTypes, h
<1>5. CASE h.k # "leave"
  <2>1. gone' = gone /\ out' = Append(out, h)
    BY <1>5 DEF PodPrints
  <2> HIDE DEF h
  <2>2. out' = out \o <<h>> /\ out' \in Seq(Tokens)
    BY <1>1, <1>3, <2>1, Holds
  <2>3. acc \o (out \o <<h>>) = (acc \o out) \o <<h>> /\ acc \o out \in Seq(Tokens)
    BY <1>1, <1>3, TokensConcat
  <2>4. ((acc \o out) \o <<h>>) \o todo' = (acc \o out) \o (<<h>> \o todo')
    BY <1>3, <2>3, TokensConcat
  <2>5. Stream' = Stream
    BY <1>2, <1>3, <2>2, <2>3, <2>4 DEF Stream
  <2>6. Stream \in Seq(Tokens)
    BY <1>1, StreamIs DEF Stream
  <2>7. Thinner(Stream, Stream') /\ Thinner(todo, todo')
    BY <1>3, <2>5, <2>6, ThinnerParts
  <2> QED BY <1>1, <1>2, <1>3, <1>5, <2>1, <2>2, <2>5, <2>7 DEF StreamTypes, h
<1> QED BY <1>4, <1>5

\* PodDropsLine: the next line of the answer is lost.
LEMMA DropIs == StreamTypes /\ PodDropsLine =>
  /\ StreamTypes' /\ todo # <<>> /\ Head(todo).k \notin {"prompt", "leave"}
  /\ todo = <<Head(todo)>> \o todo' /\ Thinner(Stream, Stream') /\ Thinner(todo, todo')
  /\ lost \in Nat => lost' # 0
  /\ UNCHANGED <<flowv, readv, ctx, out, podIn, podv, gone, noise>>
<1> SUFFICES ASSUME StreamTypes, PodDropsLine
             PROVE  /\ StreamTypes' /\ todo = <<Head(todo)>> \o todo'
                    /\ Thinner(Stream, Stream') /\ Thinner(todo, todo')
                    /\ lost \in Nat => lost' # 0
  BY DEF PodDropsLine
<1>1. acc \in Seq(Tokens) /\ out \in Seq(Tokens) /\ todo \in Seq(Tokens) /\ podIn \in Seq(PodLines)
  BY DEF StreamTypes
<1>2. todo # <<>> /\ todo' = Tail(todo) /\ acc' = acc /\ podIn' = podIn /\ out' = out
  BY DEF PodDropsLine, readv
<1> DEFINE h == Head(todo)
<1>3. h \in Tokens /\ todo' \in Seq(Tokens) /\ todo = <<h>> \o todo' /\ <<h>> \in Seq(Tokens)
  BY <1>1, <1>2, Holds
<1>4. Stream = (acc \o out) \o (<<h>> \o todo') /\ Stream' = (acc \o out) \o todo'
  BY <1>2, <1>3 DEF Stream
<1>5. acc \o out \in Seq(Tokens)
  BY <1>1, ConcatProperties
<1>6. lost \in Nat => lost' # 0
  BY DEF PodDropsLine
<1> HIDE DEF h
<1>7. Thinner(Stream, Stream') /\ Thinner(todo, todo')
  BY <1>3, <1>4, <1>5, ThinnerParts
<1> QED BY <1>1, <1>2, <1>3, <1>6, <1>7 DEF StreamTypes, h

\* Noise: a prompt that is none comes among the unread lines.
LEMMA NoiseIs == StreamTypes /\ Noise =>
  /\ StreamTypes' /\ out' = out \o <<Prompt>> /\ ~gone /\ phase = "reading"
  /\ Range(Stream') = Range(Stream) \cup {Prompt}
  /\ \A K : "prompt" \notin K /\ Without(out, K) => Without(out', K)
  /\ \A K : "prompt" \notin K /\ Without(Stream, K) => Without(Stream', K)
  /\ \A A, B : "prompt" \notin A \cup B /\ NeverThen(Stream, A, B) => NeverThen(Stream', A, B)
  /\ noise \in Nat => noise' # 0
  /\ UNCHANGED <<flowv, readv, ctx, podIn, todo, podv, gone, lost>>
<1> SUFFICES ASSUME StreamTypes, Noise
             PROVE  /\ StreamTypes' /\ out' = out \o <<Prompt>>
                    /\ Range(Stream') = Range(Stream) \cup {Prompt}
                    /\ \A K : "prompt" \notin K /\ Without(out, K) => Without(out', K)
                    /\ \A K : "prompt" \notin K /\ Without(Stream, K) => Without(Stream', K)
                    /\ \A A, B : "prompt" \notin A \cup B /\ NeverThen(Stream, A, B)
                                   => NeverThen(Stream', A, B)
                    /\ noise \in Nat => noise' # 0
  BY DEF Noise
<1>1. acc \in Seq(Tokens) /\ out \in Seq(Tokens) /\ todo \in Seq(Tokens) /\ podIn \in Seq(PodLines)
  BY DEF StreamTypes
<1>2. out' = Append(out, Prompt) /\ todo' = todo /\ acc' = acc /\ podIn' = podIn
  BY DEF Noise, readv
<1>3. <<Prompt>> \in Seq(Tokens) /\ Range(<<Prompt>>) = {Prompt} /\ out' = out \o <<Prompt>>
      /\ out' \in Seq(Tokens)
  <2>1. Prompt \in Tokens
    BY TokenIs
  <2>2. Append(out, Prompt) = out \o <<Prompt>> /\ Append(out, Prompt) \in Seq(Tokens)
    BY <1>1, <2>1, Holds
  <2>3. <<Prompt>> \in Seq(Tokens) /\ Range(<<Prompt>>) = {Prompt}
    BY <1>1, <2>1, Holds
  <2> QED BY <1>2, <2>2, <2>3
<1> DEFINE p == acc \o out
           x == <<Prompt>>
           y == x \o todo
<1>4. p \in Seq(Tokens) /\ x \in Seq(Tokens) /\ y \in Seq(Tokens)
  BY <1>1, <1>3, ConcatProperties
<1>5. Stream = p \o todo
  BY DEF Stream
<1>6. Stream' = p \o y
  <2>1. acc \o (out \o x) = p \o x
    BY <1>1, <1>3, TokensConcat
  <2>2. Stream' = (p \o x) \o todo
    BY <1>2, <1>3, <2>1 DEF Stream
  <2> HIDE DEF p, x
  <2> QED BY <1>1, <1>4, <2>2, TokensConcat, SMTT(60)
<1>7. \A K : "prompt" \notin K => Without(x, K)
  BY <1>3, TokenIs DEF Without
<1>8. \A A, B : NeverThen(x, A, B)
  BY DEF NeverThen
<1>11. Range(y) = {Prompt} \cup Range(todo)
  <2>1. Range(y) = Range(x) \cup Range(todo)
    BY <1>1, <1>4, TokensConcat
  <2> QED BY <1>3, <2>1
<1> HIDE DEF p, x
<1>9. \A K : "prompt" \notin K /\ Without(todo, K) => Without(y, K)
  BY <1>1, <1>4, <1>7, WithoutParts
<1>10. \A A, B : "prompt" \notin A \cup B /\ NeverThen(todo, A, B) => NeverThen(y, A, B)
  BY <1>1, <1>4, <1>7, <1>8, NeverParts
<1> HIDE DEF y
<1>12. Range(Stream') = Range(Stream) \cup {Prompt}
  BY <1>1, <1>4, <1>5, <1>6, <1>11, RangeConcatenation
<1>13. \A K : "prompt" \notin K /\ Without(Stream, K) => Without(Stream', K)
  BY <1>12, TokenIs DEF Without
<1>14. \A A, B : "prompt" \notin A \cup B /\ NeverThen(Stream, A, B) => NeverThen(Stream', A, B)
  BY <1>1, <1>4, <1>5, <1>6, <1>9, <1>10, NeverParts
<1>15. \A K : "prompt" \notin K /\ Without(out, K) => Without(out', K)
  BY <1>1, <1>3, <1>7, WithoutParts DEF x
<1>16. noise \in Nat => noise' # 0
  BY DEF Noise
<1> QED BY <1>1, <1>2, <1>3, <1>12, <1>13, <1>14, <1>15, <1>16 DEF StreamTypes

\* Unplug: what the pod had to take and to print is gone.
LEMMA UnplugIs == StreamTypes /\ Unplug =>
  /\ StreamTypes' /\ podIn' = <<>> /\ todo' = <<>> /\ gone' = TRUE /\ Stream' = acc \o out
  /\ Thinner(Stream, Stream')
  /\ UNCHANGED <<flowv, readv, ctx, out, podv, noise, lost>>
<1> SUFFICES ASSUME StreamTypes, Unplug
             PROVE  StreamTypes' /\ Stream' = acc \o out /\ Thinner(Stream, Stream')
  BY DEF Unplug
<1>1. acc \in Seq(Tokens) /\ out \in Seq(Tokens) /\ todo \in Seq(Tokens)
      /\ <<>> \in Seq(Tokens) /\ <<>> \in Seq(PodLines)
  BY DEF StreamTypes
<1>2. out' = out /\ todo' = <<>> /\ acc' = acc /\ podIn' = <<>>
  BY DEF Unplug, readv
<1>3. acc \o out \in Seq(Tokens) /\ (acc \o out) \o <<>> = acc \o out
  BY <1>1, ConcatProperties, ConcatEmptySeq
<1>4. Stream' = acc \o out
  BY <1>2, <1>3 DEF Stream
<1>5. Thinner(Stream, Stream')
  BY <1>1, <1>3, <1>4, ThinnerParts DEF Stream
<1> QED BY <1>1, <1>2, <1>4, <1>5 DEF StreamTypes

-----------------------------------------------------------------------------
(* What the pod answers.                                                   *)

\* Answers of one, two and three lines: what they hold, and how they are put together.
LEMMA TupleIs ==
  /\ \A a \in Tokens : <<a>> \in Seq(Tokens) /\ Range(<<a>>) = {a} /\ Len(<<a>>) = 1
  /\ \A a, b \in Tokens :
       <<a, b>> \in Seq(Tokens) /\ Range(<<a, b>>) = {a, b} /\ <<a, b>> = <<a>> \o <<b>>
  /\ \A a, b, c \in Tokens :
       /\ <<a, b, c>> \in Seq(Tokens) /\ Range(<<a, b, c>>) = {a, b, c}
       /\ <<a, b, c>> = <<a, b>> \o <<c>>
<1>1. \A a \in Tokens : <<a>> \in Seq(Tokens) /\ Range(<<a>>) = {a} /\ Len(<<a>>) = 1
  BY DEF Range
<1>2. ASSUME NEW a \in Tokens, NEW b \in Tokens
      PROVE  <<a, b>> \in Seq(Tokens) /\ Range(<<a, b>>) = {a, b} /\ <<a, b>> = <<a>> \o <<b>>
  <2> DEFINE s == <<a>>
             u == <<b>>
             w == <<a, b>>
  <2>3. /\ s \in Seq(Tokens) /\ u \in Seq(Tokens) /\ Len(s) = 1 /\ Len(u) = 1 /\ s[1] = a /\ u[1] = b
        /\ w \in Seq(Tokens) /\ Len(w) = 2 /\ w[1] = a /\ w[2] = b
    OBVIOUS
  <2> HIDE DEF s, u, w
  <2>4. /\ s \o u \in Seq(Tokens) /\ Len(s \o u) = 2 /\ (s \o u)[1] = a /\ (s \o u)[2] = b
    BY <2>3, ConcatProperties
  <2>5. \A i \in 1 .. Len(w) : w[i] = (s \o u)[i]
    BY <2>3, <2>4
  <2>6. w = s \o u
    BY <2>3, <2>4, <2>5, SeqEqual
  <2>7. Range(s \o u) = Range(s) \cup Range(u)
    BY <2>3, RangeConcatenation
  <2>1. <<a, b>> \in Seq(Tokens) /\ <<a, b>> = <<a>> \o <<b>>
    BY <2>3, <2>6 DEF s, u, w
  <2>2. Range(<<a, b>>) = Range(<<a>>) \cup Range(<<b>>)
    BY <2>6, <2>7 DEF s, u, w
  <2> QED BY <1>1, <2>1, <2>2
<1>3. ASSUME NEW a \in Tokens, NEW b \in Tokens, NEW c \in Tokens
      PROVE  /\ <<a, b, c>> \in Seq(Tokens) /\ Range(<<a, b, c>>) = {a, b, c}
             /\ <<a, b, c>> = <<a, b>> \o <<c>>
  <2> DEFINE s == <<a, b>>
             u == <<c>>
             w == <<a, b, c>>
  <2>3. /\ s \in Seq(Tokens) /\ u \in Seq(Tokens) /\ Len(s) = 2 /\ Len(u) = 1
        /\ s[1] = a /\ s[2] = b /\ u[1] = c
        /\ w \in Seq(Tokens) /\ Len(w) = 3 /\ w[1] = a /\ w[2] = b /\ w[3] = c
    OBVIOUS
  <2> HIDE DEF s, u, w
  <2>4. /\ s \o u \in Seq(Tokens) /\ Len(s \o u) = 3
        /\ (s \o u)[1] = a /\ (s \o u)[2] = b /\ (s \o u)[3] = c
    <3>1. /\ s \o u \in Seq(Tokens) /\ Len(s \o u) = Len(s) + Len(u)
          /\ \A i \in 1 .. Len(s) + Len(u) :
               (s \o u)[i] = IF i <= Len(s) THEN s[i] ELSE u[i - Len(s)]
      BY <2>3, ConcatProperties
    <3>2. 1 \in 1 .. 2 + 1 /\ 2 \in 1 .. 2 + 1 /\ 3 \in 1 .. 2 + 1 /\ 3 - 2 = 1 /\ 2 + 1 = 3
      OBVIOUS
    <3> QED BY <2>3, <3>1, <3>2
  <2>5. \A i \in 1 .. Len(w) : w[i] = (s \o u)[i]
    BY <2>3, <2>4
  <2>6. w = s \o u
    BY <2>3, <2>4, <2>5, SeqEqual
  <2>7. Range(s \o u) = Range(s) \cup Range(u)
    BY <2>3, RangeConcatenation
  <2>1. w = <<a, b>> \o <<c>> /\ Range(w) = Range(<<a, b>>) \cup Range(<<c>>)
    BY <2>6, <2>7 DEF s, u
  <2>2. Range(<<a, b>>) = {a, b} /\ Range(<<c>>) = {c}
    BY <1>1, <1>2
  <2>8. Range(w) = {a, b, c}
    BY <2>1, <2>2
  <2> QED BY <2>1, <2>3, <2>8 DEF w
<1> QED BY <1>1, <1>2, <1>3

\* A reply that has one prompt at most, at its end.
Plain(r) == \/ Without(r, {"prompt"})
            \/ \E p \in Seq(Tokens) : r = p \o <<Prompt>> /\ Without(p, {"prompt"})

\* An echo followed by an answer whose prompt is its last line ends with the prompt.
LEMMA PlainEnds ==
  ASSUME NEW e \in Seq(Tokens), NEW r \in Seq(Tokens), Without(e, {"prompt"}), Plain(r)
  PROVE  \A A : EndsAt(e \o r, A, {"prompt"})
<1>1. CASE Without(r, {"prompt"})
  <2>1. Without(e \o r, {"prompt"})
    BY <1>1, WithoutParts
  <2> QED BY <2>1 DEF Without, Range, EndsAt
<1>2. ASSUME NEW p \in Seq(Tokens), r = p \o <<Prompt>>, Without(p, {"prompt"})
      PROVE  \A A : EndsAt(e \o r, A, {"prompt"})
  <2>1. <<Prompt>> \in Seq(Tokens) /\ Prompt \in Tokens
    BY TokenIs, TupleIs
  <2>2. e \o (p \o <<Prompt>>) = (e \o p) \o <<Prompt>>
    BY <2>1, ConcatAssociative
  <2>3. e \o p \in Seq(Tokens)
    BY ConcatProperties
  <2>4. Without(e \o p, {"prompt"})
    BY <1>2, WithoutParts
  <2> QED BY <1>2, <2>1, <2>2, <2>3, <2>4, EndsParts
<1> QED BY <1>1, <1>2 DEF Plain

\* A reply of two or three lines of which the last is a prompt.
LEMMA PlainIs ==
  /\ Plain(<<Prompt>>)
  /\ \A a \in Tokens : a.k # "prompt" => Plain(<<a, Prompt>>)
  /\ \A a, b \in Tokens : a.k # "prompt" /\ b.k # "prompt" => Plain(<<a, b, Prompt>>)
<1>1. Prompt \in Tokens
  BY TokenIs
<1>2. Plain(<<Prompt>>)
  <2>1. <<>> \in Seq(Tokens) /\ <<Prompt>> = <<>> \o <<Prompt>>
    BY <1>1
  <2>2. Without(<<>>, {"prompt"})
    BY DEF Without, Range
  <2> QED BY <2>1, <2>2 DEF Plain
<1>3. ASSUME NEW a \in Tokens, a.k # "prompt" PROVE Plain(<<a, Prompt>>)
  <2>1. <<a>> \in Seq(Tokens) /\ <<a, Prompt>> = <<a>> \o <<Prompt>> /\ Range(<<a>>) = {a}
    BY <1>1, TupleIs
  <2>2. Without(<<a>>, {"prompt"})
    BY <1>3, <2>1 DEF Without
  <2> QED BY <2>1, <2>2 DEF Plain
<1>4. ASSUME NEW a \in Tokens, NEW b \in Tokens, a.k # "prompt", b.k # "prompt"
      PROVE  Plain(<<a, b, Prompt>>)
  <2>1. /\ <<a, b>> \in Seq(Tokens) /\ <<a, b, Prompt>> = <<a, b>> \o <<Prompt>>
        /\ Range(<<a, b>>) = {a, b}
    BY <1>1, TupleIs
  <2>2. Without(<<a, b>>, {"prompt"})
    BY <1>4, <2>1 DEF Without
  <2> QED BY <2>1, <2>2 DEF Plain
<1> QED BY <1>2, <1>3, <1>4

\* wifi-show.
LEMMA StatusIs == PodTypes =>
  /\ Status \in Seq(Tokens) /\ Plain(Status)
  /\ Without(Status, Kinds \ (ShowKinds \cup {"prompt"}))
  /\ NeverThen(Status, {"rssi"}, ShowKinds)
  /\ \A t \in Range(Status) :
       /\ t.k = "ssid" => t.v = shown.ssid
       /\ t.k = "state" => t.v = shown.state
       /\ t.k = "via" => bridge /\ t.v = "bridge"
  /\ bridge => ~Without(Status, {"via"})
<1> SUFFICES ASSUME PodTypes
             PROVE  /\ Status \in Seq(Tokens) /\ Plain(Status)
                    /\ Without(Status, Kinds \ (ShowKinds \cup {"prompt"}))
                    /\ NeverThen(Status, {"rssi"}, ShowKinds)
                    /\ \A t \in Range(Status) :
                         /\ t.k = "ssid" => t.v = shown.ssid
                         /\ t.k = "state" => t.v = shown.state
                         /\ t.k = "via" => bridge /\ t.v = "bridge"
                    /\ bridge => ~Without(Status, {"via"})
  OBVIOUS
<1> DEFINE s  == Token("ssid", shown.ssid)
           st == Token("state", shown.state)
           ip == Token("ip", "address")
           vb == Token("via", "bridge")
           rs == Token("rssi", "")
           I  == IF wired \/ (~bridge /\ wifi = "connected") THEN <<ip>> ELSE <<>>
           V  == IF bridge THEN <<vb>> ELSE <<>>
           a  == <<s, st>>
           b  == a \o I
           c  == b \o V
           d  == c \o <<rs>>
<1>1. /\ s \in Tokens /\ s.k = "ssid" /\ s.v = shown.ssid
      /\ st \in Tokens /\ st.k = "state" /\ st.v = shown.state
  <2>1. shown.ssid \in Values /\ shown.state \in Values /\ "ssid" \in Kinds /\ "state" \in Kinds
    BY DEF PodTypes, Values, Kinds
  <2> QED BY <2>1, TokenIs
<1>2. ip \in Tokens /\ ip.k = "ip" /\ vb \in Tokens /\ vb.k = "via" /\ vb.v = "bridge"
      /\ rs \in Tokens /\ rs.k = "rssi"
  <2>1. /\ "ip" \in Kinds /\ "via" \in Kinds /\ "rssi" \in Kinds
        /\ "address" \in Values /\ "bridge" \in Values /\ "" \in Values
    BY DEF Values, Kinds
  <2> QED BY <2>1, TokenIs
<1>3. Prompt \in Tokens /\ Prompt.k = "prompt"
  BY TokenIs
<1>4. Status = c \o <<rs, Prompt>>
  BY DEF Status
<1> HIDE DEF s, st, ip, vb, rs
<1>5. a \in Seq(Tokens) /\ Range(a) = {s, st}
  BY <1>1, TupleIs
<1>6. I \in Seq(Tokens) /\ Range(I) \subseteq {ip}
  BY <1>2, TupleIs DEF Range
<1>7. V \in Seq(Tokens) /\ Range(V) = IF bridge THEN {vb} ELSE {}
  BY <1>2, TupleIs DEF Range
<1>8. <<rs>> \in Seq(Tokens) /\ Range(<<rs>>) = {rs}
  BY <1>2, TupleIs
<1> HIDE DEF a, I, V
<1>9. b \in Seq(Tokens) /\ Range(b) = Range(a) \cup Range(I)
  BY <1>5, <1>6, ConcatProperties, RangeConcatenation
<1> HIDE DEF b
<1>10. c \in Seq(Tokens) /\ Range(c) = Range(b) \cup Range(V)
  BY <1>7, <1>9, ConcatProperties, RangeConcatenation
<1> HIDE DEF c
<1>11. d \in Seq(Tokens) /\ Range(d) = Range(c) \cup {rs}
  <2> DEFINE q == <<rs>>
  <2>1. q \in Seq(Tokens) /\ Range(q) = {rs} /\ d = c \o q
    BY <1>8
  <2> HIDE DEF q, d
  <2> QED BY <1>10, <2>1, ConcatProperties, RangeConcatenation
<1>12. Status = d \o <<Prompt>>
  <2>1. <<rs, Prompt>> = <<rs>> \o <<Prompt>> /\ <<Prompt>> \in Seq(Tokens)
    BY <1>2, <1>3, TupleIs
  <2>2. (c \o <<rs>>) \o <<Prompt>> = c \o (<<rs>> \o <<Prompt>>)
    BY <1>8, <1>10, <2>1, ConcatAssociative
  <2> QED BY <1>4, <2>1, <2>2
<1> HIDE DEF d
<1>13. /\ \A t \in Range(d) : \/ t = s \/ t = st \/ t = ip \/ t = rs
                              \/ t = vb /\ bridge
       /\ bridge => vb \in Range(d)
  BY <1>5, <1>6, <1>7, <1>9, <1>10, <1>11
<1>14. Without(d, {"prompt"})
  BY <1>1, <1>2, <1>13 DEF Without
<1>15. <<Prompt>> \in Seq(Tokens) /\ Range(<<Prompt>>) = {Prompt}
  BY <1>3, TupleIs
<1>16. Status \in Seq(Tokens) /\ Range(Status) = Range(d) \cup {Prompt}
  <2> DEFINE q == <<Prompt>>
  <2>1. q \in Seq(Tokens) /\ Range(q) = {Prompt} /\ Status = d \o q
    BY <1>12, <1>15
  <2> HIDE DEF q
  <2> QED BY <1>11, <2>1, ConcatProperties, RangeConcatenation
<1>17. Plain(Status)
  BY <1>11, <1>12, <1>14 DEF Plain
<1>18. \A t \in Range(Status) :
         /\ t.k \in ShowKinds \cup {"prompt"}
         /\ t.k = "ssid" => t.v = shown.ssid
         /\ t.k = "state" => t.v = shown.state
         /\ t.k = "via" => bridge /\ t.v = "bridge"
  BY <1>1, <1>2, <1>3, <1>13, <1>16 DEF ShowKinds
<1>19. NeverThen(Status, {"rssi"}, ShowKinds)
  <2>1. <<rs, Prompt>> \in Seq(Tokens)
    BY <1>2, <1>3, TupleIs
  <2>2. Without(c, {"rssi"})
    BY <1>1, <1>2, <1>5, <1>6, <1>7, <1>9, <1>10 DEF Without
  <2>3. NeverThen(<<rs, Prompt>>, {"rssi"}, ShowKinds)
    BY <1>3 DEF NeverThen, ShowKinds
  <2>4. NeverThen(c, {"rssi"}, ShowKinds)
    BY <2>2 DEF NeverThen, Without, Range
  <2> QED BY <1>4, <1>10, <2>1, <2>2, <2>3, <2>4, NeverParts
<1>20. Without(Status, Kinds \ (ShowKinds \cup {"prompt"}))
  BY <1>18 DEF Without
<1>21. bridge => ~Without(Status, {"via"})
  BY <1>2, <1>13, <1>16 DEF Without
<1> QED BY <1>16, <1>17, <1>18, <1>19, <1>20, <1>21

\* wifi-scan that lists networks.
LEMMA ListIs ==
  ASSUME NEW found \in SUBSET Cells, NEW p \in {<<>>, <<Prompt>>}
  PROVE  LET r == p \o (IF "a" \in found THEN <<Token("net", "a")>> ELSE <<>>)
                    \o (IF "b" \in found THEN <<Token("net", "b")>> ELSE <<>>)
                    \o <<Token("done", ""), Prompt>>
         IN  /\ r \in Seq(Tokens) /\ Without(r, Kinds \ {"net", "done", "prompt"})
             /\ NeverThen(r, {"done"}, {"net"}) /\ EndsAt(r, ScanEnds, {"prompt"})
             /\ \A t \in Range(r) : t.k = "net" => t.v \in found
             /\ \A v \in found : \E t \in Range(r) : t.k = "net" /\ t.v = v
<1> DEFINE na == Token("net", "a")
           nb == Token("net", "b")
           dn == Token("done", "")
           A  == IF "a" \in found THEN <<na>> ELSE <<>>
           B  == IF "b" \in found THEN <<nb>> ELSE <<>>
           q  == <<dn, Prompt>>
           x  == p \o A
           y  == x \o B
           r  == y \o q
<1>1. /\ na \in Tokens /\ na.k = "net" /\ na.v = "a" /\ nb \in Tokens /\ nb.k = "net" /\ nb.v = "b"
      /\ dn \in Tokens /\ dn.k = "done"
  <2>1. "net" \in Kinds /\ "done" \in Kinds /\ "a" \in Values /\ "b" \in Values /\ "" \in Values
    BY DEF Kinds, Values, Cells
  <2> QED BY <2>1, TokenIs
<1>2. Prompt \in Tokens /\ Prompt.k = "prompt"
  BY TokenIs
<1> HIDE DEF na, nb, dn
<1>3. p \in Seq(Tokens) /\ Range(p) \subseteq {Prompt}
  <2>1. CASE p = <<>>
    BY <2>1 DEF Range
  <2>2. CASE p = <<Prompt>>
    BY <1>2, <2>2, TupleIs
  <2> QED BY <2>1, <2>2
<1>4. A \in Seq(Tokens) /\ Range(A) = IF "a" \in found THEN {na} ELSE {}
  BY <1>1, TupleIs DEF Range
<1>5. B \in Seq(Tokens) /\ Range(B) = IF "b" \in found THEN {nb} ELSE {}
  BY <1>1, TupleIs DEF Range
<1>6. q \in Seq(Tokens) /\ Range(q) = {dn, Prompt}
  BY <1>1, <1>2, TupleIs
<1>7. NeverThen(q, {"done"}, {"net"}) /\ EndsAt(q, ScanEnds, {"prompt"})
  BY <1>1, <1>2 DEF NeverThen, EndsAt
<1> HIDE DEF A, B, q
<1>8. x \in Seq(Tokens) /\ Range(x) = Range(p) \cup Range(A)
  BY <1>3, <1>4, ConcatProperties, RangeConcatenation
<1> HIDE DEF x
<1>9. y \in Seq(Tokens) /\ Range(y) = Range(x) \cup Range(B)
  BY <1>5, <1>8, ConcatProperties, RangeConcatenation
<1> HIDE DEF y
<1>10. r \in Seq(Tokens) /\ Range(r) = Range(y) \cup Range(q)
  BY <1>6, <1>9, ConcatProperties, RangeConcatenation
<1>11. \A t \in Range(y) : t = Prompt \/ (t = na /\ "a" \in found) \/ (t = nb /\ "b" \in found)
  BY <1>3, <1>4, <1>5, <1>8, <1>9
<1>12. Without(y, ScanEnds) /\ Without(y, {"done"})
  BY <1>1, <1>2, <1>11 DEF Without, ScanEnds
<1>13. NeverThen(y, {"done"}, {"net"})
  BY <1>12 DEF NeverThen, Without, Range
<1>14. NeverThen(r, {"done"}, {"net"})
  BY <1>6, <1>7, <1>9, <1>12, <1>13, NeverParts
<1>15. EndsAt(r, ScanEnds, {"prompt"})
  BY <1>6, <1>7, <1>9, <1>12, EndsParts
<1> HIDE DEF r
<1>16. \A t \in Range(r) : t = Prompt \/ t = dn \/ (t = na /\ "a" \in found) \/ (t = nb /\ "b" \in found)
  BY <1>6, <1>10, <1>11
<1>17. Without(r, Kinds \ {"net", "done", "prompt"})
  BY <1>1, <1>2, <1>16 DEF Without
<1>18. \A t \in Range(r) : t.k = "net" => t.v \in found
  BY <1>1, <1>2, <1>16
<1>19. ASSUME NEW v \in found PROVE \E t \in Range(r) : t.k = "net" /\ t.v = v
  <2>1. v = "a" \/ v = "b"
    BY DEF Cells
  <2>2. CASE v = "a"
    BY <1>1, <1>4, <1>8, <1>9, <1>10, <2>2
  <2>3. CASE v = "b"
    BY <1>1, <1>5, <1>9, <1>10, <2>3
  <2> QED BY <2>1, <2>2, <2>3
<1> QED BY <1>10, <1>14, <1>15, <1>17, <1>18, <1>19 DEF r, y, x, A, B, q, na, nb, dn

\* What the pod's answer to the line h has, and what it left of the pod.
Answered(h) ==
  /\ todo' \in Seq(Tokens) /\ Without(todo', {"echo"})
  /\ h # "scan" => Plain(todo') /\ Without(todo', {"net", "done"}) /\ scanned' = scanned
  /\ h = "scan" =>
       /\ EndsAt(todo', ScanEnds, {"prompt"}) /\ NeverThen(todo', {"done"}, {"net"})
       /\ scanned' \subseteq Cells
       /\ \A t \in Range(todo') : t.k = "net" => t.v \in scanned'
       /\ ~Without(todo', {"done"}) =>
            \A v \in scanned' : \E t \in Range(todo') : t.k = "net" /\ t.v = v
  /\ h # "show" => Without(todo', ShowKinds)
  /\ h = "show" => NeverThen(todo', {"rssi"}, ShowKinds) /\ (bridge => ~Without(todo', {"via"}))
  /\ \A t \in Range(todo') :
       /\ t.k = "ssid" => t.v = shown.ssid
       /\ t.k = "state" => t.v = shown.state
       /\ t.k = "via" => bridge /\ t.v = "bridge"
  /\ h # "set" => Without(todo', SetKinds)
  /\ h \notin {"set", "clear"} => UNCHANGED <<cred, wifi, shown>>
  /\ h = "clear" => cred' = "none" /\ wifi' = "down" /\ shown' = [ssid |-> "none", state |-> "down"]
  /\ h = "set" =>
       \/ /\ Without(todo', {"saved", "joined", "failed"}) /\ ~Without(todo', Outcomes)
          /\ UNCHANGED <<cred, wifi, shown>>
       \/ /\ bridge /\ Without(todo', Outcomes)
          /\ cred' = want /\ wifi' = "joining" /\ shown' = shown
       \/ /\ ~bridge /\ Without(todo', {"refused"}) /\ ~Without(todo', Outcomes)
          /\ cred' = want /\ wifi' \in {"connected", "failed"}
          /\ shown' = [ssid |-> want, state |-> wifi']
          /\ Without(todo', {"joined"}) \/ wifi' = "connected"
  /\ (powered => powered') /\ powered' \in BOOLEAN
  /\ (\E t \in Range(todo') : t.k = "efuse" /\ t.v = "on") => powered'
  /\ h # "boot" => Without(todo', {"entering", "leave"})
  /\ h = "boot" => todo' = <<Token("entering", ""), Token("leave", "")>>

\* An answer given in full: what tells its lines apart.
LEMMA TokensAre ==
  /\ \A x \in {"refused", "saved", "joined", "failed", "unknown", "scan error", "entering", "leave"} :
       Token(x, "") \in Tokens /\ Token(x, "").k = x
  /\ \A y \in {"bad", "on"} :
       Token("efuse", y) \in Tokens /\ Token("efuse", y).k = "efuse" /\ Token("efuse", y).v = y
  /\ \A h \in PodLines :
       Token("echo", h) \in Tokens /\ Token("echo", h).k = "echo" /\ Token("echo", h).v = h
<1>1. /\ {"refused", "saved", "joined", "failed", "unknown", "scan error", "entering", "leave"}
           \subseteq Kinds
      /\ "efuse" \in Kinds /\ "echo" \in Kinds
  BY DEF Kinds
<1>2. {"bad", "on", ""} \subseteq Values /\ PodLines \subseteq Values
  BY DEF Values
<1>3. ASSUME NEW x \in {"refused", "saved", "joined", "failed", "unknown", "scan error", "entering", "leave"}
      PROVE  Token(x, "") \in Tokens /\ Token(x, "").k = x
  <2>1. x \in Kinds /\ "" \in Values
    BY <1>1, <1>2
  <2> QED BY <2>1 DEF Token, Tokens
<1>4. ASSUME NEW y \in {"bad", "on"}
      PROVE  Token("efuse", y) \in Tokens /\ Token("efuse", y).k = "efuse" /\ Token("efuse", y).v = y
  <2>1. "efuse" \in Kinds /\ y \in Values
    BY <1>1, <1>2
  <2> QED BY <2>1 DEF Token, Tokens
<1>5. ASSUME NEW h \in PodLines
      PROVE  Token("echo", h) \in Tokens /\ Token("echo", h).k = "echo" /\ Token("echo", h).v = h
  <2>1. "echo" \in Kinds /\ h \in Values
    BY <1>1, <1>2
  <2> QED BY <2>1 DEF Token, Tokens
<1> QED BY <1>3, <1>4, <1>5

\* Each command's answer is as Answered says, whatever the pod does with the line.
LEMMA AnswerIs == Types /\ PodTakes => Answered(Head(podIn)) /\ PodTypes'
<1> SUFFICES ASSUME Types, PodTakes PROVE Answered(Head(podIn)) /\ PodTypes'
  OBVIOUS
<1> DEFINE h == Head(podIn)
<1>1. /\ podIn \in Seq(PodLines) /\ podIn # <<>> /\ scanned \subseteq Cells /\ powered \in BOOLEAN
      /\ PodTypes /\ want \in {"old", "new"}
  BY DEF Types, StreamTypes, PodTypes, HostTypes, PodTakes
<1>2. h \in PodLines
  BY <1>1
<1>3. Prompt \in Tokens /\ Prompt.k = "prompt"
  BY TokenIs
<1>4. UNCHANGED <<bridge, wired, echoes, gone>>
  BY DEF PodTakes
<1>5. CASE h = "show"
  <2>1. todo' = Status /\ UNCHANGED <<cred, wifi, shown, powered, scanned>>
    BY <1>5 DEF PodTakes, Answer, Stays
  <2>2. Without(Status, Kinds \ (ShowKinds \cup {"prompt"}))
    BY <1>1, StatusIs
  <2>3. /\ Without(todo', {"echo"}) /\ Without(todo', {"net", "done"}) /\ Without(todo', SetKinds)
        /\ Without(todo', {"entering", "leave"})
        /\ \A t \in Range(todo') : t.k # "efuse"
    BY <2>1, <2>2 DEF Without, Kinds, ShowKinds, SetKinds
  <2>4. Answered(h)
    BY <1>1, <1>5, <2>1, <2>3, StatusIs DEF Answered
  <2> QED BY <1>1, <1>4, <2>1, <2>4 DEF PodTypes
<1>6. CASE h = "set"
  <2>1. DoSet
    BY <1>6 DEF PodTakes
  <2>2. ASSUME NEW a \in Tokens, a.k = "refused", todo' = <<a, Prompt>>,
               UNCHANGED <<cred, wifi, shown, powered, scanned>>
        PROVE  Answered(h) /\ PodTypes'
    <3>1. todo' \in Seq(Tokens) /\ Range(todo') = {a, Prompt} /\ Plain(todo')
      BY <1>3, <2>2, TupleIs, PlainIs
    <3>2. Answered(h)
      BY <1>1, <1>3, <1>6, <2>2, <3>1 DEF Answered, Without, ShowKinds, Outcomes
    <3> QED BY <1>1, <1>4, <2>2, <3>2 DEF PodTypes
  <2>3. ASSUME NEW a \in Tokens, a.k = "saved", bridge, todo' = <<a, Prompt>>,
               cred' = want, wifi' = "joining", UNCHANGED <<shown, powered, scanned>>
        PROVE  Answered(h) /\ PodTypes'
    <3>1. todo' \in Seq(Tokens) /\ Range(todo') = {a, Prompt} /\ Plain(todo')
      BY <1>3, <2>3, TupleIs, PlainIs
    <3>2. Answered(h)
      BY <1>1, <1>3, <1>6, <2>3, <3>1 DEF Answered, Without, ShowKinds, Outcomes
    <3> QED BY <1>1, <1>4, <2>3, <3>2 DEF PodTypes, WifiStates
  <2>4. ASSUME NEW a \in Tokens, NEW b \in Tokens, a.k = "saved", b.k \in {"joined", "failed"},
               ~bridge, todo' = <<a, b, Prompt>>, cred' = want,
               wifi' = (IF b.k = "joined" THEN "connected" ELSE "failed"),
               shown' = [ssid |-> want, state |-> wifi'], UNCHANGED <<powered, scanned>>
        PROVE  Answered(h) /\ PodTypes'
    <3>1. todo' \in Seq(Tokens) /\ Range(todo') = {a, b, Prompt} /\ Plain(todo')
      BY <1>3, <2>4, TupleIs, PlainIs
    <3>2. /\ Without(todo', {"refused"}) /\ ~Without(todo', Outcomes)
          /\ Without(todo', {"joined"}) \/ wifi' = "connected"
      BY <1>3, <2>4, <3>1 DEF Without, Outcomes
    <3>3. wifi' \in {"connected", "failed"}
      BY <2>4
    <3>4. /\ Without(todo', {"echo"}) /\ Without(todo', {"net", "done"}) /\ Without(todo', ShowKinds)
          /\ Without(todo', {"entering", "leave"})
          /\ \A t \in Range(todo') : t.k \notin {"ssid", "state", "via", "efuse"}
      BY <1>3, <2>4, <3>1 DEF Without, ShowKinds
    <3>5. Answered(h)
      BY <1>1, <1>6, <2>4, <3>1, <3>2, <3>3, <3>4 DEF Answered
    <3>6. shown' \in [ssid : {"none", "old", "new"}, state : WifiStates]
      BY <1>1, <2>4, <3>3 DEF WifiStates
    <3> QED BY <1>1, <1>4, <2>4, <3>3, <3>5, <3>6 DEF PodTypes, WifiStates
  <2>5. CASE Answer(<<Token("refused", ""), Prompt>>) /\ Stays
    BY <2>2, <2>5, TokensAre DEF Answer, Stays
  <2>6. CASE /\ bridge /\ Answer(<<Token("saved", ""), Prompt>>)
             /\ cred' = want /\ wifi' = "joining" /\ UNCHANGED <<shown, powered, scanned>>
    BY <2>3, <2>6, TokensAre DEF Answer
  <2>7. ASSUME NEW ok \in BOOLEAN, ~bridge, cred' = want,
               wifi' = (IF ok THEN "connected" ELSE "failed"),
               Answer(<<Token("saved", ""), Token(IF ok THEN "joined" ELSE "failed", ""), Prompt>>),
               shown' = [ssid |-> want, state |-> wifi'], UNCHANGED <<powered, scanned>>
        PROVE  Answered(h) /\ PodTypes'
    <3> DEFINE kb == IF ok THEN "joined" ELSE "failed"
               b  == Token(kb, "")
    <3>1. kb \in {"joined", "failed"} /\ (kb = "joined" <=> ok)
      OBVIOUS
    <3>2. b \in Tokens /\ b.k = kb
      BY <3>1, TokensAre
    <3>3. todo' = <<Token("saved", ""), b, Prompt>>
      BY <2>7 DEF Answer
    <3> HIDE DEF b, kb
    <3> QED BY <2>4, <2>7, <3>1, <3>2, <3>3, TokensAre
  <2> QED BY <2>1, <2>5, <2>6, <2>7 DEF DoSet
<1>7. CASE h = "scan"
  <2>1. DoScan
    BY <1>7 DEF PodTakes
  <2>2. ASSUME NEW a \in Tokens, a.k \in {"unknown", "scan error"}, todo' = <<a, Prompt>>,
               UNCHANGED <<cred, wifi, shown, powered, scanned>>
        PROVE  Answered(h) /\ PodTypes'
    <3>1. todo' \in Seq(Tokens) /\ Range(todo') = {a, Prompt} /\ Plain(todo')
      BY <1>3, <2>2, TupleIs, PlainIs
    <3>2. EndsAt(todo', ScanEnds, {"prompt"}) /\ NeverThen(todo', {"done"}, {"net"})
      <4>0. \A w : w = <<a, Prompt>> => DOMAIN w = 1 .. 2 /\ Len(w) = 2 /\ w[1] = a /\ w[2] = Prompt
        OBVIOUS
      <4>1. DOMAIN todo' = 1 .. 2 /\ Len(todo') = 2 /\ todo'[1] = a /\ todo'[2] = Prompt
        BY <2>2, <4>0
      <4>2. \A i, j \in 1 .. 2 : i < j => i = 1 /\ j = 2
        OBVIOUS
      <4> QED BY <1>3, <4>1, <4>2 DEF EndsAt, NeverThen
    <3>3. /\ Without(todo', {"echo"}) /\ Without(todo', {"done"}) /\ Without(todo', ShowKinds)
          /\ Without(todo', SetKinds) /\ Without(todo', {"entering", "leave"})
          /\ \A t \in Range(todo') : t.k \notin {"net", "ssid", "state", "via", "efuse"}
      BY <1>3, <2>2, <3>1 DEF Without, ShowKinds, SetKinds
    <3>4. Answered(h)
      BY <1>1, <1>7, <2>2, <3>1, <3>2, <3>3 DEF Answered
    <3> QED BY <1>1, <1>4, <2>2, <3>4 DEF PodTypes
  <2>3. CASE Answer(<<Token("unknown", ""), Prompt>>) /\ Stays
    BY <2>2, <2>3, TokensAre DEF Answer, Stays
  <2>4. CASE Answer(<<Token("scan error", ""), Prompt>>) /\ Stays
    BY <2>2, <2>4, TokensAre DEF Answer, Stays
  <2>5. ASSUME NEW found \in SUBSET Cells, scanned' = found,
               UNCHANGED <<cred, wifi, shown, powered>>,
               Answer((IF bridge THEN <<>> ELSE <<Prompt>>)
                 \o (IF "a" \in found THEN <<Token("net", "a")>> ELSE <<>>)
                 \o (IF "b" \in found THEN <<Token("net", "b")>> ELSE <<>>)
                 \o <<Token("done", ""), Prompt>>)
        PROVE  Answered(h) /\ PodTypes'
    <3> DEFINE p == IF bridge THEN <<>> ELSE <<Prompt>>
    <3>1. p \in {<<>>, <<Prompt>>}
      OBVIOUS
    <3>2. todo' = p \o (IF "a" \in found THEN <<Token("net", "a")>> ELSE <<>>)
                    \o (IF "b" \in found THEN <<Token("net", "b")>> ELSE <<>>)
                    \o <<Token("done", ""), Prompt>>
      BY <2>5 DEF Answer
    <3> HIDE DEF p
    <3>3. /\ todo' \in Seq(Tokens) /\ Without(todo', Kinds \ {"net", "done", "prompt"})
          /\ NeverThen(todo', {"done"}, {"net"}) /\ EndsAt(todo', ScanEnds, {"prompt"})
          /\ \A t \in Range(todo') : t.k = "net" => t.v \in found
          /\ \A v \in found : \E t \in Range(todo') : t.k = "net" /\ t.v = v
      BY <3>1, <3>2, ListIs
    <3>4. /\ Without(todo', {"echo"}) /\ Without(todo', ShowKinds)
          /\ Without(todo', SetKinds) /\ Without(todo', {"entering", "leave"})
          /\ \A t \in Range(todo') : t.k \notin {"ssid", "state", "via", "efuse"}
      BY <3>3 DEF Without, ShowKinds, SetKinds, Kinds
    <3>5. Answered(h)
      BY <1>1, <1>7, <2>5, <3>3, <3>4 DEF Answered
    <3> QED BY <1>1, <1>4, <2>5, <3>5 DEF PodTypes
  <2> QED BY <2>1, <2>3, <2>4, <2>5 DEF DoScan
<1>8. CASE h = "power"
  <2>1. DoPower
    BY <1>8 DEF PodTakes
  <2>2. ASSUME NEW a \in Tokens, a.k = "unknown" \/ (a.k = "efuse" /\ (a.v = "on" => powered')),
               todo' = <<a, Prompt>>, powered => powered', powered' \in BOOLEAN,
               UNCHANGED <<cred, wifi, shown, scanned>>
        PROVE  Answered(h) /\ PodTypes'
    <3>1. todo' \in Seq(Tokens) /\ Range(todo') = {a, Prompt} /\ Plain(todo')
      BY <1>3, <2>2, TupleIs, PlainIs
    <3>3. /\ Without(todo', {"echo"}) /\ Without(todo', {"net", "done"}) /\ Without(todo', ShowKinds)
          /\ Without(todo', SetKinds) /\ Without(todo', {"entering", "leave"})
          /\ \A t \in Range(todo') : t.k \notin {"ssid", "state", "via"}
      BY <1>3, <2>2, <3>1 DEF Without, ShowKinds, SetKinds
    <3>5. (\E t \in Range(todo') : t.k = "efuse" /\ t.v = "on") => powered'
      BY <1>3, <2>2, <3>1
    <3>4. Answered(h)
      BY <1>1, <1>8, <2>2, <3>1, <3>3, <3>5 DEF Answered
    <3> QED BY <1>1, <1>4, <2>2, <3>4 DEF PodTypes
  <2>3. CASE Answer(<<Token("unknown", ""), Prompt>>) /\ Stays
    BY <1>1, <2>2, <2>3, TokensAre DEF Answer, Stays
  <2>4. CASE Answer(<<Token("efuse", "bad"), Prompt>>) /\ Stays
    BY <1>1, <2>2, <2>4, TokensAre DEF Answer, Stays
  <2>5. CASE Answer(<<Token("efuse", "on"), Prompt>>) /\ powered' = TRUE
             /\ UNCHANGED <<cred, wifi, shown, scanned>>
    BY <2>2, <2>5, TokensAre DEF Answer
  <2> QED BY <2>1, <2>3, <2>4, <2>5 DEF DoPower
<1>9. CASE h = "clear"
  <2>1. /\ todo' = <<Prompt>> /\ cred' = "none" /\ wifi' = "down"
        /\ shown' = [ssid |-> "none", state |-> "down"] /\ UNCHANGED <<powered, scanned>>
    BY <1>9 DEF PodTakes, DoClear, Answer
  <2>2. todo' \in Seq(Tokens) /\ Range(todo') = {Prompt} /\ Plain(todo')
    BY <1>3, <2>1, TupleIs, PlainIs
  <2>3. Answered(h)
    BY <1>1, <1>3, <1>9, <2>1, <2>2 DEF Answered, Without, ShowKinds, SetKinds
  <2> QED BY <1>1, <1>4, <2>1, <2>3 DEF PodTypes, WifiStates
<1>10. CASE h = "boot"
  <2>1. /\ todo' = <<Token("entering", ""), Token("leave", "")>>
        /\ UNCHANGED <<cred, wifi, shown, powered, scanned>>
    BY <1>10 DEF PodTakes, Answer, Stays
  <2> DEFINE a == Token("entering", "")
             b == Token("leave", "")
  <2>2. a \in Tokens /\ a.k = "entering" /\ b \in Tokens /\ b.k = "leave"
    BY TokensAre
  <2>3. todo' = <<a, b>>
    BY <2>1
  <2> HIDE DEF a, b
  <2>4. todo' \in Seq(Tokens) /\ Range(todo') = {a, b}
    BY <2>2, <2>3, TupleIs
  <2>5. Plain(todo')
    BY <2>2, <2>4 DEF Plain, Without
  <2>6. /\ Without(todo', {"echo"}) /\ Without(todo', {"net", "done"}) /\ Without(todo', ShowKinds)
        /\ Without(todo', SetKinds)
        /\ \A t \in Range(todo') : t.k \notin {"ssid", "state", "via", "efuse"}
    BY <2>2, <2>4 DEF Without, ShowKinds, SetKinds
  <2>7. Answered(h)
    BY <1>1, <1>10, <2>1, <2>4, <2>5, <2>6 DEF Answered
  <2> QED BY <1>1, <1>4, <2>1, <2>7 DEF PodTypes
<1> QED BY <1>2, <1>5, <1>6, <1>7, <1>8, <1>9, <1>10 DEF PodLines

\* Where the answer goes.
LEMMA TakesIs == Types /\ PodTakes =>
  /\ StreamTypes' /\ todo = <<>> /\ podIn # <<>> /\ Head(podIn) \in PodLines
  /\ podIn' = Tail(podIn) /\ podIn = <<Head(podIn)>> \o podIn' /\ Len(podIn') = Len(podIn) - 1
  /\ Answered(Head(podIn)) /\ PodTypes'
  /\ \E e \in Seq(Tokens) :
       /\ e = IF echoes THEN <<Token("echo", Head(podIn))>> ELSE <<>>
       /\ \A t \in Range(e) : echoes /\ t.k = "echo" /\ t.v = Head(podIn)
       /\ echoes => ~Without(e, {"echo"})
       /\ \A A, B : NeverThen(e, A, B)
       /\ out' = out \o e /\ Stream = acc \o out
       /\ Stream' = Stream \o (e \o todo') /\ e \o todo' \in Seq(Tokens)
       /\ Range(Stream') = Range(Stream) \cup Range(e) \cup Range(todo')
  /\ UNCHANGED <<flowv, readv, ctx, bridge, wired, echoes, gone, noise, lost>>
<1> SUFFICES ASSUME Types, PodTakes
             PROVE  /\ StreamTypes' /\ Head(podIn) \in PodLines
                    /\ podIn = <<Head(podIn)>> \o podIn' /\ Len(podIn') = Len(podIn) - 1
                    /\ Answered(Head(podIn)) /\ PodTypes'
                    /\ \E e \in Seq(Tokens) :
                       /\ e = IF echoes THEN <<Token("echo", Head(podIn))>> ELSE <<>>
                       /\ \A t \in Range(e) : echoes /\ t.k = "echo" /\ t.v = Head(podIn)
                       /\ echoes => ~Without(e, {"echo"})
                       /\ \A A, B : NeverThen(e, A, B)
                       /\ out' = out \o e /\ Stream = acc \o out
                       /\ Stream' = Stream \o (e \o todo') /\ e \o todo' \in Seq(Tokens)
                       /\ Range(Stream') = Range(Stream) \cup Range(e) \cup Range(todo')
  BY DEF PodTakes
<1> DEFINE h == Head(podIn)
           c == Token("echo", h)
           e == IF echoes THEN <<c>> ELSE <<>>
           p == acc \o out
<1>1. /\ acc \in Seq(Tokens) /\ out \in Seq(Tokens) /\ podIn \in Seq(PodLines) /\ podIn # <<>>
      /\ todo = <<>> /\ acc' = acc /\ podIn' = Tail(podIn)
  BY DEF Types, StreamTypes, PodTakes, readv
<1>2. /\ h \in PodLines /\ podIn' \in Seq(PodLines) /\ podIn = <<h>> \o podIn'
      /\ Len(podIn') = Len(podIn) - 1
  BY <1>1, Holds
<1>3. c \in Tokens /\ c.k = "echo" /\ c.v = h
  BY <1>2, TokensAre
<1>4. Answered(h) /\ PodTypes'
  BY AnswerIs
<1>5. todo' \in Seq(Tokens)
  BY <1>4 DEF Answered
<1>6. out' = IF echoes THEN Append(out, c) ELSE out
  BY DEF PodTakes
<1> HIDE DEF c
<1>7. /\ e \in Seq(Tokens) /\ (echoes => Range(e) = {c}) /\ (~echoes => Range(e) = {})
      /\ \A A, B : NeverThen(e, A, B)
  <2>1. CASE echoes
    BY <1>3, <2>1, TupleIs DEF NeverThen
  <2>2. CASE ~echoes
    BY <2>2 DEF Range, NeverThen
  <2> QED BY <2>1, <2>2
<1>8. out' = out \o e
  <2>1. CASE echoes
    BY <1>1, <1>3, <1>6, <2>1, Holds
  <2>2. CASE ~echoes
    BY <1>1, <1>6, <2>2, ConcatEmptySeq
  <2> QED BY <2>1, <2>2
<1>9. /\ \A t \in Range(e) : echoes /\ t.k = "echo" /\ t.v = h
      /\ echoes => ~Without(e, {"echo"})
  BY <1>3, <1>7 DEF Without
<1>10. e = IF echoes THEN <<Token("echo", h)>> ELSE <<>>
  BY DEF c
<1> HIDE DEF e
<1>11. p \in Seq(Tokens) /\ Stream = p
  <2>1. p \in Seq(Tokens) /\ p \o <<>> = p
    BY <1>1, ConcatProperties, ConcatEmptySeq
  <2> QED BY <1>1, <2>1 DEF Stream
<1>12. Stream' = p \o (e \o todo')
  <2>1. acc \o (out \o e) = p \o e
    BY <1>1, <1>7, TokensConcat, ZenonT(60)
  <2>2. Stream' = (p \o e) \o todo'
    BY <1>1, <1>8, <2>1 DEF Stream
  <2> HIDE DEF p
  <2> QED BY <1>5, <1>7, <1>11, <2>2, TokensConcat
<1>13. e \o todo' \in Seq(Tokens) /\ Range(e \o todo') = Range(e) \cup Range(todo')
  BY <1>5, <1>7, ConcatProperties, RangeConcatenation
<1>14. Range(Stream') = Range(Stream) \cup Range(e) \cup Range(todo')
  <2> DEFINE y == e \o todo'
  <2>1. y \in Seq(Tokens) /\ Stream' = p \o y /\ Range(y) = Range(e) \cup Range(todo')
    BY <1>12, <1>13
  <2> HIDE DEF y, p
  <2> QED BY <1>11, <2>1, RangeConcatenation
<1>15. out' \in Seq(Tokens)
  BY <1>1, <1>7, <1>8, ConcatProperties
<1>16. StreamTypes'
  BY <1>1, <1>2, <1>5, <1>15 DEF StreamTypes
<1>17. Stream = acc \o out /\ Stream' = Stream \o (e \o todo')
  BY <1>11, <1>12
<1> QED BY <1>2, <1>4, <1>7, <1>8, <1>9, <1>10, <1>13, <1>14, <1>16, <1>17

-----------------------------------------------------------------------------
(* What the commands make of it.                                           *)

\* The steps in which a command concludes from a reply that ended.
Verdict == \/ SetWifiBefore \/ WifiSet \/ SetWifiAfter \/ BridgePoll
           \/ OneCommand \/ CannotScan

\* Whatever a command concludes, it concludes from what it captured.
Judged ==
  \/ /\ pc = "before" /\ UNCHANGED <<joinSeen, polls>>
     /\ \/ pc' = "bridge set" /\ result' = result /\ ret = "ok" /\ ~Without(acc, {"via"})
        \/ /\ pc' = "set" /\ result' = result
           /\ ret = "ok" /\ (\A t \in Range(acc) : t.k = "via" => t.v = "bridge")
                => Without(acc, {"via"})
        \/ pc' = "done" /\ result' = "error"
  \/ /\ pc \in {"set", "bridge set"} /\ polls' = polls
     /\ joinSeen' \in BOOLEAN /\ (joinSeen' <=> ~Without(acc, {"joined"}))
     /\ \/ pc' = "done" /\ result' \in {"error", "join failed"}
        \/ pc' = "done" /\ result' = "not saved" /\ ret = "ok" /\ ~Without(acc, {"refused"})
        \/ /\ pc' = (IF pc = "set" THEN "after" ELSE "poll") /\ result' = result /\ ret = "ok"
           /\ ~Without(acc, {"saved"}) \/ Without(acc, {"refused"})
           /\ ~Without(acc, {"joined"}) \/ Without(acc, {"failed"})
  \/ /\ pc = "after" /\ UNCHANGED <<joinSeen, polls>> /\ pc' = "done"
     /\ result' = "saved" \/ (result' = "joined" /\ (joinSeen \/ ret = "ok"))
  \/ /\ pc = "poll" /\ joinSeen' = joinSeen
     /\ \/ pc' = "done" /\ result' \in {"saved", "join failed"} /\ polls' = polls
        \/ /\ pc' = "done" /\ result' = "joined" /\ polls' = polls /\ ret = "ok"
           /\ \E t \in Range(acc) : t.k = "ssid" /\ t.v = want
           /\ \E t \in Range(acc) : t.k = "state" /\ t.v = "connected"
        \/ pc' = "poll" /\ result' = result /\ ctx /\ polls < MaxPolls /\ polls' = polls + 1
  \/ /\ pc = "one" /\ UNCHANGED <<joinSeen, polls>>
     /\ \/ pc' = "has" /\ result' = result /\ flow = "scan" /\ ret = "ok"
        \/ pc' = "done" /\ result' \in {"error", "cleared", "shown"}
        \/ pc' = "done" /\ result' = "listed" /\ flow = "scan" /\ ret = "ok"
             /\ ~Without(acc, {"done"})
        \/ pc' = "done" /\ result' = "powered" /\ flow = "power"
             /\ \E t \in Range(acc) : t.k = "efuse" /\ t.v = "on"
        \/ pc' = "done" /\ result' = "booting" /\ flow = "boot"
             /\ (ret = "gone" \/ ~Without(acc, {"entering"}))
  \/ /\ pc = "has" /\ UNCHANGED <<joinSeen, polls>> /\ pc' = "done"
     /\ result' \in {"error", "cannot scan"}

\* Those steps leave the wire and the pod alone, and conclude as Judged says.
LEMMA VerdictIs == Types /\ Verdict =>
  /\ phase = "got" /\ phase' = "call" /\ Judged
  /\ UNCHANGED <<flow, want, ret, acc, grace, ctx, out, podIn, todo, podv, gone, noise, lost>>
<1> SUFFICES ASSUME Types, Verdict
             PROVE  /\ phase = "got" /\ phase' = "call" /\ Judged
                    /\ UNCHANGED <<flow, want, ret, acc, grace, ctx, out, podIn, todo, podv, gone,
                                   noise, lost>>
  OBVIOUS
<1>1. acc \in Seq(Tokens) /\ want \in {"old", "new"}
  BY DEF Types, StreamTypes, HostTypes
<1>2. /\ phase = "got" /\ phase' = "call"
      /\ UNCHANGED <<flow, want, ret, acc, grace, ctx, out, podIn, todo, podv, gone, noise, lost>>
  BY DEF Verdict, SetWifiBefore, WifiSet, SetWifiAfter, BridgePoll, OneCommand, CannotScan
<1>3. \A f : Says(f) <=> ~Without(acc, {f})
  BY <1>1, FieldIs
<1>4. \A f : Says(f) => \E t \in Range(acc) : t.k = f /\ t.v = Field(f)
  BY <1>1, FieldIs
<1>5. \A f, v : Shows(f) = v /\ v # "none" => ret = "ok" /\ Says(f) /\ Field(f) = v
  BY <1>1, FieldIs DEF Shows
<1>6. CASE SetWifiBefore
  <2>1. ViaBridge => ret = "ok" /\ ~Without(acc, {"via"})
    BY <1>3, <1>5 DEF ViaBridge
  <2>2. ret = "ok" /\ ~ViaBridge /\ (\A t \in Range(acc) : t.k = "via" => t.v = "bridge")
          => Without(acc, {"via"})
    BY <1>3, <1>4 DEF ViaBridge, Shows
  <2>3. /\ pc = "before" /\ UNCHANGED <<joinSeen, polls>>
        /\ \/ ViaBridge /\ pc' = "bridge set" /\ result' = result
           \/ ~ViaBridge /\ pc' = "set" /\ result' = result
           \/ pc' = "done" /\ result' = "error"
    BY <1>6 DEF SetWifiBefore, Go, Finish
  <2> QED BY <1>2, <2>1, <2>2, <2>3 DEF Judged
<1>7. CASE WifiSet
  <2>1. /\ pc \in {"set", "bridge set"} /\ polls' = polls /\ joinSeen' = Says("joined")
        /\ \/ SetVerdict # "go on" /\ pc' = "done" /\ result' = SetVerdict
           \/ SetVerdict = "go on" /\ pc' = (IF pc = "set" THEN "after" ELSE "poll")
                /\ result' = result
    BY <1>7 DEF WifiSet, Go, Finish
  <2>2. Says("joined") \in BOOLEAN
    BY DEF Says
  <2>3. \/ SetVerdict \in {"error", "join failed"}
        \/ SetVerdict = "not saved" /\ ret = "ok" /\ Says("refused")
        \/ SetVerdict = "go on" /\ ret = "ok" /\ (Says("saved") \/ ~Says("refused"))
             /\ (Says("joined") \/ ~Says("failed"))
    BY DEF SetVerdict
  <2> QED BY <1>2, <1>3, <2>1, <2>2, <2>3 DEF Judged
<1>8. CASE SetWifiAfter
  <2>1. /\ pc = "after" /\ UNCHANGED <<joinSeen, polls>> /\ pc' = "done"
        /\ result' = IF joinSeen \/ Shows("ip") = "address" \/ Shows("state") = "connected"
                     THEN "joined" ELSE "saved"
    BY <1>8 DEF SetWifiAfter, Finish
  <2>2. Shows("ip") = "address" \/ Shows("state") = "connected" => ret = "ok"
    BY <1>5
  <2> QED BY <1>2, <2>1, <2>2 DEF Judged
<1>9. CASE BridgePoll
  <2>1. /\ pc = "poll" /\ joinSeen' = joinSeen
        /\ \/ Reports /\ Shows("state") = "connected" /\ pc' = "done" /\ result' = "joined"
                /\ polls' = polls
           \/ pc' = "done" /\ result' \in {"saved", "join failed"} /\ polls' = polls
           \/ pc' = "poll" /\ result' = result /\ ctx /\ polls < MaxPolls /\ polls' = polls + 1
    BY <1>9 DEF BridgePoll, Finish
  <2>2. ASSUME Reports, Shows("state") = "connected"
        PROVE  /\ ret = "ok" /\ \E t \in Range(acc) : t.k = "ssid" /\ t.v = want
               /\ \E t \in Range(acc) : t.k = "state" /\ t.v = "connected"
    <3>1. Says("ssid") /\ Field("ssid") = want
      BY <1>1, <1>5, <2>2 DEF Reports
    <3>2. ret = "ok" /\ Says("state") /\ Field("state") = "connected"
      BY <1>5, <2>2
    <3> QED BY <1>4, <3>1, <3>2
  <2> QED BY <1>2, <2>1, <2>2 DEF Judged
<1>10. CASE OneCommand
  <2>1. /\ pc = "one" /\ UNCHANGED <<joinSeen, polls>>
        /\ \/ OneVerdict = "ask" /\ pc' = "has" /\ result' = result
           \/ OneVerdict # "ask" /\ pc' = "done" /\ result' = OneVerdict
    BY <1>10 DEF OneCommand, Go, Finish
  <2>2. \/ OneVerdict = "ask" /\ flow = "scan" /\ ret = "ok"
        \/ OneVerdict \in {"error", "cleared", "shown"}
        \/ OneVerdict = "listed" /\ flow = "scan" /\ ret = "ok" /\ Says("done")
        \/ OneVerdict = "powered" /\ flow = "power" /\ Says("efuse") /\ Field("efuse") = "on"
        \/ OneVerdict = "booting" /\ flow = "boot" /\ (ret = "gone" \/ Says("entering"))
    <3>1. CASE flow = "scan"
      BY <3>1 DEF OneVerdict, ScanVerdict
    <3>2. CASE flow = "power"
      BY <3>2 DEF OneVerdict, PowerVerdict
    <3>3. CASE flow = "boot"
      BY <3>3 DEF OneVerdict, BootVerdict
    <3>4. CASE flow \notin {"scan", "power", "boot"}
      BY <3>4 DEF OneVerdict
    <3> QED BY <3>1, <3>2, <3>3, <3>4
  <2>3. Says("efuse") /\ Field("efuse") = "on" => \E t \in Range(acc) : t.k = "efuse" /\ t.v = "on"
    BY <1>4
  <2> QED BY <1>2, <1>3, <2>1, <2>2, <2>3 DEF Judged
<1>11. CASE CannotScan
  BY <1>2, <1>11 DEF CannotScan, Finish, Judged
<1> QED BY <1>6, <1>7, <1>8, <1>9, <1>10, <1>11 DEF Verdict

\* A stream whose parts stay is the stream it was.
LEMMA SameIs == UNCHANGED <<acc, out, todo>> =>
  /\ Stream' = Stream /\ \A k, v : Bears(k, v)' <=> Bears(k, v)
  /\ podIn' = podIn /\ StreamTypes => StreamTypes'
<1> SUFFICES ASSUME UNCHANGED <<acc, out, todo>>
             PROVE  /\ Stream' = Stream /\ \A k, v : Bears(k, v)' <=> Bears(k, v)
                    /\ podIn' = podIn /\ StreamTypes => StreamTypes'
  OBVIOUS
<1>1. Stream' = Stream
  BY DEF Stream
<1> QED BY <1>1 DEF Bears, StreamTypes

-----------------------------------------------------------------------------
(* Each step keeps the invariant.                                          *)

\* The deadline passes.
LEMMA CtxKeeps == ConsoleInv /\ CtxExpires => ConsoleInv'
<1> SUFFICES ASSUME ConsoleInv, CtxExpires PROVE ConsoleInv'
  OBVIOUS
<1>1. /\ ctx' = FALSE /\ result = "none"
      /\ UNCHANGED <<flow, want, pc, result, joinSeen, phase, ret, acc, grace, polls, out, echoes,
                     podIn, todo, bridge, wired, cred, wifi, shown, powered, gone, scanned, noise,
                     lost>>
  BY DEF CtxExpires, flowv, readv, podv
<1>2. Stream' = Stream /\ Command' = Command /\ (StreamTypes => StreamTypes')
  BY <1>1, SameIs, CommandSame
<1>3. Types'
  <2>1. HostTypes'
    BY <1>1 DEF ConsoleInv, Types, HostTypes
  <2>2. PodTypes' /\ Counters' /\ StreamTypes'
    BY <1>1, <1>2 DEF ConsoleInv, Types, PodTypes, Counters
  <2> QED BY <2>1, <2>2 DEF Types
<1>4. Course'
  BY <1>1, <1>2 DEF ConsoleInv, Course
<1>5. InLine' /\ FirstLine'
  BY <1>1, <1>2 DEF ConsoleInv, InLine, FirstLine
<1>6. Piped'
  BY <1>1, <1>2 DEF ConsoleInv, Piped
<1>7. SetOnce' /\ Kept'
  BY <1>1, <1>2 DEF ConsoleInv, SetOnce, Kept
<1>8. ReadWhole' /\ AtTheEnd'
  BY <1>1, <1>2 DEF ConsoleInv, ReadWhole, AtTheEnd
<1>9. Told'
  BY <1>1, <1>2 DEF ConsoleInv, Told, Bears
<1>10. Carried'
  BY <1>1, <1>2 DEF ConsoleInv, Carried
<1>11. Joins' /\ Joined'
  BY <1>1, <1>2 DEF ConsoleInv, Joins, Joined
<1>12. Listed' /\ Powering' /\ Leaving'
  BY <1>1, <1>2 DEF ConsoleInv, Listed, Powering, Leaving, Bears
<1> QED BY <1>3, <1>4, <1>5, <1>6, <1>7, <1>8, <1>9, <1>10, <1>11, <1>12 DEF ConsoleInv

\* The bridge joins, or fails to, and the pod hears of it.
LEMMA BridgeKeeps == ConsoleInv /\ (BridgeJoins \/ BridgeTells) => ConsoleInv'
<1> SUFFICES ASSUME ConsoleInv, BridgeJoins \/ BridgeTells PROVE ConsoleInv'
  OBVIOUS
<1>1. /\ bridge
      /\ \/ wifi = "joining" /\ wifi' \in {"connected", "failed"} /\ shown' = shown
         \/ shown' = [ssid |-> cred, state |-> wifi] /\ wifi' = wifi
      /\ UNCHANGED <<flow, want, pc, result, joinSeen, phase, ret, acc, grace, polls, ctx, out,
                     echoes, podIn, todo, bridge, wired, cred, powered, gone, scanned, noise, lost>>
  BY DEF BridgeJoins, BridgeTells, flowv, readv
<1>2. Stream' = Stream /\ Command' = Command /\ (StreamTypes => StreamTypes')
  BY <1>1, SameIs, CommandSame
<1>3. Types'
  <2>1. HostTypes'
    <3>1. UNCHANGED <<flow, want, pc, result, joinSeen, phase, ret, grace, ctx>>
      BY <1>1
    <3>2. HostTypes
      BY DEF ConsoleInv, Types
    <3>3. joinSeen' \in BOOLEAN /\ grace' \in BOOLEAN
      BY <3>1, <3>2 DEF HostTypes
    <3>4. ctx' \in BOOLEAN
      BY <3>1, <3>2 DEF HostTypes
    <3>5. (pc' = "done") = (result' # "none")
      BY <3>1, <3>2 DEF HostTypes
    <3> QED BY <3>1, <3>2, <3>3, <3>4, <3>5, ZenonT(60) DEF HostTypes
  <2>2. PodTypes'
    BY <1>1 DEF ConsoleInv, Types, PodTypes, WifiStates
  <2>3. Counters' /\ StreamTypes'
    BY <1>1, <1>2 DEF ConsoleInv, Types, Counters
  <2> QED BY <2>1, <2>2, <2>3 DEF Types
<1>4. Course'
  BY <1>1, <1>2 DEF ConsoleInv, Course
<1>5. InLine' /\ FirstLine'
  BY <1>1, <1>2 DEF ConsoleInv, InLine, FirstLine
<1>6. Piped'
  BY <1>1, <1>2 DEF ConsoleInv, Piped
<1>7. SetOnce'
  BY <1>1, <1>2 DEF ConsoleInv, SetOnce
<1>8. ReadWhole' /\ AtTheEnd'
  BY <1>1, <1>2 DEF ConsoleInv, ReadWhole, AtTheEnd
<1>9. Told'
  BY <1>1, <1>2 DEF ConsoleInv, Told, Bears
<1>10. Carried'
  BY <1>1, <1>2 DEF ConsoleInv, Carried
<1>11. Joins' /\ Joined'
  BY <1>1, <1>2 DEF ConsoleInv, Joins, Joined
<1>12. Listed' /\ Powering' /\ Leaving'
  BY <1>1, <1>2 DEF ConsoleInv, Listed, Powering, Leaving, Bears
<1>13. Kept'
  <2>1. /\ Without(Stream, {"joined"}) /\ ~(pc = "after" /\ joinSeen) /\ Kept
        /\ ~Without(Stream, {"refused"}) => cred = "old" /\ Without(Stream, {"saved", "joined", "failed"})
    BY <1>1 DEF ConsoleInv, Kept
  <2>2. /\ cred = "old" => shown'.ssid = "old"
        /\ shown'.ssid = "new" /\ shown'.state = "connected" => cred = "new" /\ wifi' = "connected"
    <3>1. CASE wifi = "joining" /\ wifi' \in {"connected", "failed"} /\ shown' = shown
      BY <2>1, <3>1 DEF Kept
    <3>2. CASE shown' = [ssid |-> cred, state |-> wifi] /\ wifi' = wifi
      BY <3>2
    <3> QED BY <1>1, <3>1, <3>2
  <2> QED BY <1>1, <1>2, <2>1, <2>2 DEF Kept
<1> QED BY <1>3, <1>4, <1>5, <1>6, <1>7, <1>8, <1>9, <1>10, <1>11, <1>12, <1>13 DEF ConsoleInv

\* A reply that ends, or fails to, other than by a read.
LEMMA EndKeeps == ConsoleInv /\ (EchoGraceOver \/ ReplyGraceOver \/ ReadFails) => ConsoleInv'
<1> SUFFICES ASSUME ConsoleInv, EchoGraceOver \/ ReplyGraceOver \/ ReadFails PROVE ConsoleInv'
  OBVIOUS
<1>1. /\ phase = "reading"
      /\ UNCHANGED <<flow, want, pc, result, joinSeen, polls, acc, ctx, out, echoes,
                     podIn, todo, bridge, wired, cred, wifi, shown, powered, gone, scanned, noise,
                     lost>>
      /\ \/ /\ ctx /\ EchoIn(acc) = {} /\ podIn = <<>> /\ (echoes => out = <<>>)
            /\ \/ phase' = "got" /\ ret' = "ok" /\ grace' = grace /\ Complete(acc)
               \/ /\ grace' = (grace \/ Command # "scan") /\ phase' = phase /\ ret' = ret
                  /\ ~Complete(acc)
         \/ ctx /\ grace /\ out = <<>> /\ todo = <<>> /\ phase' = "got" /\ ret' = "ok" /\ grace' = grace
         \/ /\ \/ ~ctx /\ ret' = "timeout"
               \/ gone /\ out = <<>> /\ ret' = "gone"
            /\ phase' = "got" /\ grace' = grace
  BY DEF EchoGraceOver, ReplyGraceOver, ReadFails, Ended, flowv, podv
<1>2. Stream' = Stream /\ Command' = Command /\ (StreamTypes => StreamTypes')
  BY <1>1, SameIs, CommandSame
<1>3. Types /\ Course /\ InLine /\ FirstLine /\ Piped /\ ReadWhole
  BY DEF ConsoleInv
<1>4. /\ acc \in Seq(Tokens) /\ out \in Seq(Tokens) /\ todo \in Seq(Tokens)
      /\ HostTypes /\ PodTypes /\ echoes \in BOOLEAN /\ gone \in BOOLEAN /\ grace \in BOOLEAN
  BY <1>3 DEF Types, StreamTypes, PodTypes, HostTypes
<1>5. Command \in PodLines \cup {"none"} /\ pc # "done"
      /\ (pc \in {"set", "bridge set"} => Command = "set") /\ (pc = "one" => Command = flow)
      /\ (pc \in {"before", "after", "poll", "has"} => Command = "show")
  BY <1>1, <1>3, <1>4, CommandIs DEF Course
<1>6. \A K : Without(Stream, K) <=> Without(acc, K) /\ Without(out, K) /\ Without(todo, K)
  BY <1>4, StreamIs DEF Stream
<1>7. \A K : Without(acc \o out, K) <=> Without(acc, K) /\ Without(out, K)
  BY <1>4, StreamIs
\* On a console that echoes, only the end of a pod that is gone ends a reply without its echo.
<1>8. ctx /\ EchoIn(acc) = {} /\ podIn = <<>> => Without(acc, {"echo"})
  <2> SUFFICES ASSUME ctx, EchoIn(acc) = {}, podIn = <<>> PROVE Without(acc, {"echo"})
    OBVIOUS
  <2>1. \A t \in Range(acc) : t.k = "echo" => t.v # Command
    BY <1>4, EndIs
  <2>2. \A t \in Range(Stream) : t.k = "echo" => t.v = Command
    BY <1>1, <1>3, <1>5 DEF Piped, PodLines
  <2>3. Range(acc) \subseteq Range(Stream)
    BY <1>4, StreamIs DEF Stream
  <2> QED BY <2>1, <2>2, <2>3 DEF Without
<1>9. Without(<<>>, {"echo"}) /\ \A K : Without(<<>>, K)
  BY DEF Without, Range
<1>10. ctx /\ phase' = "got" /\ ret' = "ok" =>
         podIn = <<>> /\ Without(out, {"echo"}) /\ (echoes => out = <<>> /\ todo = <<>>)
  <2>1. CASE ctx /\ EchoIn(acc) = {} /\ podIn = <<>> /\ (echoes => out = <<>>)
    <3>1. Without(acc, {"echo"})
      BY <1>8, <2>1
    <3>2. echoes => gone
      BY <1>1, <1>3, <1>7, <1>9, <2>1, <3>1 DEF Piped
    <3> QED BY <1>3, <1>4, <1>6, <1>9, <2>1, <3>2 DEF Piped, Course
  <2>2. CASE ctx /\ grace /\ out = <<>> /\ todo = <<>>
    BY <1>1, <1>3, <1>9, <2>2 DEF Course
  <2> QED BY <1>1, <2>1, <2>2
<1>11. /\ phase' \in {"reading", "got"}
       /\ phase' = "got" =>
            /\ ret' \in {"ok", "timeout", "gone"} /\ (ret' = "ok" => ctx) /\ (ret' = "timeout" => ~ctx)
            /\ ret' = "gone" => gone /\ out = <<>>
       /\ phase' = "reading" => ctx /\ ret' = ret
       /\ grace' \in BOOLEAN /\ (phase' = "got" => grace' = grace)
  BY <1>1, <1>4
<1>12. ctx /\ phase' = "got" /\ ret' = "ok" /\ Command = "show" =>
         Without(out, ShowKinds) /\ Without(todo, ShowKinds)
  <2>1. CASE Complete(acc) /\ ctx /\ Command = "show"
    <3>1. ~Without(acc, {"rssi"})
      BY <1>4, <2>1, EndIs
    <3>2. NeverThen(Stream, {"rssi"}, ShowKinds)
      BY <1>1, <1>3, <2>1 DEF ReadWhole
    <3> QED BY <1>4, <3>1, <3>2, StreamIs DEF Stream
  <2> QED BY <1>1, <1>9, <2>1
<1>13. gone => podIn = <<>> /\ todo = <<>>
  BY <1>3 DEF Course
<1>14. Types'
  <2>1. HostTypes'
    <3>1. UNCHANGED <<flow, want, pc, result, joinSeen, ctx>>
      BY <1>1
    <3>2. joinSeen' \in BOOLEAN /\ ctx' \in BOOLEAN
      BY <1>4, <3>1 DEF HostTypes
    <3>3. (pc' = "done") = (result' # "none")
      BY <1>4, <3>1 DEF HostTypes
    <3>4. ret' \in {"none", "ok", "timeout", "gone", "unsent"}
      BY <1>4, <1>11 DEF HostTypes
    <3>5. phase' \in {"call", "reading", "got"} /\ grace' \in BOOLEAN
      BY <1>11
    <3>6. /\ flow' \in PodLines /\ want' \in {"old", "new"}
          /\ pc' \in {"before", "set", "bridge set", "after", "poll", "one", "has", "done"}
          /\ result' \in {"none", "error", "not saved", "join failed", "joined", "saved",
                         "listed", "cannot scan", "powered", "booting", "cleared", "shown"}
      BY <1>4, <3>1 DEF HostTypes
    <3> QED BY <3>2, <3>3, <3>4, <3>5, <3>6 DEF HostTypes
  <2>2. PodTypes' /\ Counters' /\ StreamTypes'
    BY <1>1, <1>2, <1>3 DEF Types, PodTypes, Counters
  <2> QED BY <2>1, <2>2 DEF Types
<1>15. Course'
  <2>1. phase' = "reading" /\ grace' => podIn = <<>> /\ Command \in {"show", "power"}
    <3>1. CASE ctx /\ podIn = <<>> /\ grace' = (grace \/ Command # "scan") /\ ~Complete(acc)
      <4>1. Command \in {"show", "scan", "power"}
        BY <3>1 DEF Complete
      <4> QED BY <1>1, <1>3, <1>4, <3>1, <4>1 DEF Course
    <3> QED BY <1>1, <3>1
  <2> QED BY <1>1, <1>2, <1>3, <1>11, <2>1 DEF Course
<1>16. InLine' /\ FirstLine'
  BY <1>1, <1>2, <1>3, <1>11 DEF InLine, FirstLine
<1>17. Piped'
  BY <1>1, <1>2, <1>3, <1>9, <1>10, <1>11, <1>13 DEF Piped
<1>18. SetOnce' /\ Kept'
  BY <1>1, <1>2, <1>11 DEF ConsoleInv, SetOnce, Kept
<1>19. ReadWhole'
  <2>1. phase' = "got" /\ ctx => Without(out, ShowKinds) /\ Without(todo, ShowKinds)
    <3>1. CASE Command # "show"
      BY <1>1, <1>3, <1>6, <3>1 DEF ReadWhole
    <3>2. CASE Command = "show"
      BY <1>9, <1>11, <1>12, <1>13, <3>2
    <3> QED BY <3>1, <3>2
  <2> QED BY <1>1, <1>2, <1>3, <1>11, <2>1 DEF ReadWhole
<1>20. AtTheEnd'
  BY <1>1, <1>2, <1>10, <1>11 DEF ConsoleInv, AtTheEnd
<1>21. Told'
  BY <1>1, <1>2, <1>11 DEF ConsoleInv, Told, Bears
<1>22. Carried'
  <2>1. bridge /\ lost = 0 /\ pc = "before" /\ phase' = "got" /\ ret' = "ok" =>
          gone \/ ~Without(acc, {"via"})
    <3> SUFFICES ASSUME bridge, lost = 0, pc = "before", phase' = "got", ret' = "ok", ~gone
                 PROVE  ~Without(acc, {"via"})
      OBVIOUS
    <3>1. ctx /\ podIn = <<>>
      BY <1>10, <1>11
    <3>2. ~Without(Stream, {"via"})
      BY <1>1, <3>1 DEF ConsoleInv, Carried
    <3>3. Without(out, ShowKinds) /\ Without(todo, ShowKinds)
      BY <1>5, <1>12, <3>1
    <3>4. Without(out, {"via"}) /\ Without(todo, {"via"})
      BY <3>3 DEF Without, ShowKinds
    <3> QED BY <1>6, <3>2, <3>4
  <2> QED BY <1>1, <1>2, <1>11, <2>1 DEF ConsoleInv, Carried
<1>23. Joins' /\ Joined'
  <2>1. /\ echoes /\ ~bridge /\ lost = 0 /\ noise = 0 /\ pc = "set" /\ phase' = "got" /\ ret' = "ok"
        => gone \/ ~Without(acc, Outcomes)
    BY <1>1, <1>6, <1>9, <1>10, <1>11 DEF ConsoleInv, Joins
  <2> QED BY <1>1, <1>2, <1>11, <2>1 DEF ConsoleInv, Joins, Joined
<1>24. Listed' /\ Powering' /\ Leaving'
  BY <1>1, <1>2 DEF ConsoleInv, Listed, Powering, Leaving, Bears
<1> QED BY <1>14, <1>15, <1>16, <1>17, <1>18, <1>19, <1>20, <1>21, <1>22, <1>23, <1>24 DEF ConsoleInv

\* What a command concludes is so.
LEMMA VerdictKeeps == ConsoleInv /\ Verdict => ConsoleInv'
<1> SUFFICES ASSUME ConsoleInv, Verdict PROVE ConsoleInv'
  OBVIOUS
<1>1. /\ Types /\ Course /\ InLine /\ FirstLine /\ Piped /\ SetOnce /\ Kept /\ ReadWhole /\ Told
      /\ AtTheEnd /\ Carried /\ Joins /\ Joined /\ Listed /\ Powering /\ Leaving
  BY DEF ConsoleInv
<1>2. /\ phase = "got" /\ phase' = "call" /\ Judged
      /\ UNCHANGED <<flow, want, ret, acc, grace, ctx, out, echoes, podIn, todo, bridge, wired, cred,
                     wifi, shown, powered, gone, scanned, noise, lost>>
  BY <1>1, VerdictIs DEF podv
<1>3. Stream' = Stream /\ (StreamTypes => StreamTypes')
  BY <1>2, SameIs
<1>4. HostTypes /\ PodTypes /\ Counters /\ StreamTypes
  BY <1>1 DEF Types
<1>5. /\ acc \in Seq(Tokens) /\ ret \in {"none", "ok", "timeout", "gone", "unsent"}
      /\ echoes \in BOOLEAN /\ bridge \in BOOLEAN /\ gone \in BOOLEAN /\ ctx \in BOOLEAN
      /\ joinSeen \in BOOLEAN /\ grace \in BOOLEAN
  BY <1>4 DEF StreamTypes, HostTypes, PodTypes
<1>6. /\ Range(acc) \subseteq Range(Stream)
      /\ \A K : Without(Stream, K) <=> Without(acc, K) /\ Without(out, K) /\ Without(todo, K)
  BY <1>4, StreamIs DEF Stream, StreamTypes
<1>7. ret = "ok" => podIn = <<>> /\ Len(podIn) = 0 /\ "set" \notin Range(podIn)
  <2>1. ret = "ok" => podIn = <<>>
    BY <1>1, <1>2 DEF Piped
  <2>2. Len(<<>>) = 0 /\ "set" \notin Range(<<>>)
    BY DEF Range
  <2> QED BY <2>1, <2>2
<1>8. ret # "ok" => ~ctx \/ gone
  BY <1>1, <1>2, <1>5 DEF Course
<1>9. pc \in {"before", "set", "bridge set", "after", "poll", "one", "has"}
  BY <1>2 DEF Judged
<1>10. Types'
  <2>1. Counters'
    <3>1. MaxPolls \in Nat
      BY SerialConsoleAssumption
    <3>2. polls' = polls \/ (polls < MaxPolls /\ polls' = polls + 1)
      BY <1>2 DEF Judged
    <3> QED BY <1>2, <1>4, <3>1, <3>2 DEF Counters
  <2>2. PodTypes' /\ StreamTypes'
    BY <1>2, <1>3, <1>4 DEF PodTypes
  <2>3. /\ pc' \in {"before", "set", "bridge set", "after", "poll", "one", "has", "done"}
        /\ result' \in {"none", "error", "not saved", "join failed", "joined", "saved",
                        "listed", "cannot scan", "powered", "booting", "cleared", "shown"}
        /\ joinSeen' \in BOOLEAN
        /\ (pc' = "done") = (result' # "none")
    BY <1>2, <1>4, <1>5 DEF HostTypes, Judged
  <2>4. ctx' \in BOOLEAN /\ grace' \in BOOLEAN
    BY <1>2, <1>5
  <2>5. HostTypes'
    BY <1>2, <1>4, <2>3, <2>4 DEF HostTypes
  <2> QED BY <2>1, <2>2, <2>5 DEF Types
<1>11. Course'
  <2>1. /\ pc' \in {"before", "set", "bridge set", "after", "poll"} => flow = "set"
        /\ pc' # "one" /\ (pc' = "has" => flow = "scan")
        /\ result' \in {"joined", "not saved"} => flow = "set"
        /\ result' = "listed" => flow = "scan"
        /\ result' = "booting" => flow = "boot"
    BY <1>1, <1>2 DEF Course, Judged
  <2> QED BY <1>1, <1>2, <2>1 DEF Course
<1>12. InLine' /\ FirstLine'
  <2>1. /\ pc' # "one"
        /\ \/ pc' = "done"
           \/ pc' = "set" /\ pc = "before"
           \/ pc' # "set" /\ (ret = "ok" \/ ctx)
    BY <1>2 DEF Judged
  <2>2. Len(podIn) <= 2 /\ (pc = "before" => Len(podIn) <= 1)
    BY <1>1, <1>2 DEF InLine
  <2>3. ctx => podIn = <<>> /\ Len(podIn) = 0
    <3>1. ctx => podIn = <<>>
      BY <1>1, <1>2 DEF Piped
    <3> QED BY <3>1
  <2>4. pc' # "done" => Len(podIn) <= (IF pc' = "set" THEN 1 ELSE 0)
    BY <1>7, <2>1, <2>2, <2>3
  <2> QED BY <1>2, <2>1, <2>2, <2>4 DEF InLine, FirstLine
<1>13. Piped'
  BY <1>1, <1>2, <1>3 DEF Piped
<1>14. SetOnce'
  <2>1. /\ pc' # "before"
        /\ pc' \in {"set", "bridge set"} => pc = "before"
        /\ pc' \in {"after", "poll"} => ret = "ok" \/ pc = "poll"
        /\ result' \in {"joined", "not saved"} => ret = "ok" \/ pc \in {"after", "poll"} \/ result' = result
    BY <1>2 DEF Judged
  <2> QED BY <1>1, <1>2, <1>3, <1>7, <2>1 DEF SetOnce
<1>15. Kept'
  <2>1. /\ pc' = "after" /\ joinSeen' => ~Without(acc, {"joined"})
        /\ result' = "not saved" => result = "not saved" \/ ~Without(acc, {"refused"})
    BY <1>2 DEF Judged
  <2>2. /\ pc' = "after" /\ joinSeen' => ~bridge /\ cred = want /\ wifi = "connected"
        /\ result' = "not saved" => cred = "old"
    BY <1>1, <1>6, <2>1 DEF Kept
  <2> QED BY <1>1, <1>2, <1>3, <2>2 DEF Kept
<1>16. ReadWhole' /\ AtTheEnd' /\ Told'
  <2>1. pc # "done"
    BY <1>9
  <2> QED BY <1>1, <1>2, <1>3, <2>1 DEF ReadWhole, AtTheEnd, Told
<1>17. Carried'
  <2>1. ~bridge => pc' \notin {"bridge set", "poll"}
    BY <1>1, <1>2, <1>6 DEF Carried, Judged
  <2>2. bridge /\ lost = 0 /\ pc' = "set" => gone \/ ~ctx
    <3>1. pc' = "set" => pc = "before" /\ (ret = "ok" => Without(acc, {"via"}))
      BY <1>1, <1>2, <1>6 DEF Carried, Judged
    <3> QED BY <1>1, <1>2, <1>8, <3>1 DEF Carried
  <2>3. bridge /\ lost = 0 => pc' # "after"
    BY <1>1, <1>2 DEF Carried, Judged
  <2>4. /\ \A t \in Range(Stream) : t.k = "via" => t.v = "bridge"
        /\ ~bridge => Without(Stream, {"via"})
    BY <1>1 DEF Carried
  <2>5. pc' # "before"
    BY <1>2 DEF Judged
  <2> QED BY <1>2, <1>3, <2>1, <2>2, <2>3, <2>4, <2>5 DEF Carried
<1>18. Joins'
  <2> SUFFICES ASSUME echoes, ~bridge, lost = 0, noise = 0, pc' = "after"
               PROVE  \/ cred = want /\ wifi = "connected"
                      \/ ~joinSeen' /\ gone
    BY <1>2 DEF Joins
  <2>1. /\ pc = "set" /\ ret = "ok" /\ (joinSeen' <=> ~Without(acc, {"joined"}))
        /\ ~Without(acc, {"saved"}) \/ Without(acc, {"refused"})
        /\ ~Without(acc, {"joined"}) \/ Without(acc, {"failed"})
    BY <1>2 DEF Judged
  <2>2. gone \/ ~Without(acc, Outcomes)
    BY <1>1, <1>2, <2>1 DEF Joins
  <2>3. CASE ~Without(acc, {"joined"})
    BY <1>1, <1>6, <2>3 DEF Kept
  <2>4. CASE Without(acc, {"joined"})
    <3>1. Without(acc, {"refused"})
      <4>1. ~Without(acc, {"refused"}) => Without(Stream, {"saved", "joined", "failed"})
        BY <1>1, <1>6 DEF Kept
      <4>2. ~Without(acc, {"refused"}) => Without(acc, {"saved"})
        BY <1>6, <4>1 DEF Without
      <4> QED BY <2>1, <4>2
    <3>2. Without(acc, Outcomes)
      BY <2>1, <2>4, <3>1 DEF Without, Outcomes
    <3> QED BY <2>1, <2>2, <2>4, <3>2
  <2> QED BY <2>3, <2>4
<1>19. Joined'
  <2> SUFFICES ASSUME result' = "joined", echoes, lost = 0, bridge => want = "new",
                      ~bridge => noise = 0
               PROVE  cred = want /\ wifi = "connected"
    BY <1>2 DEF Joined
  <2>1. \/ result' = result
        \/ pc = "after" /\ (joinSeen \/ ret = "ok")
        \/ /\ pc = "poll" /\ ret = "ok"
           /\ \E t \in Range(acc) : t.k = "ssid" /\ t.v = want
           /\ \E t \in Range(acc) : t.k = "state" /\ t.v = "connected"
    BY <1>2 DEF Judged
  <2>2. CASE result' = result
    BY <1>1, <2>2, <1>5 DEF Joined
  <2>3. CASE pc = "after" /\ (joinSeen \/ ret = "ok")
    <3>1. ~bridge /\ noise = 0
      BY <1>1, <1>5, <2>3 DEF Carried
    <3> QED BY <1>1, <1>2, <2>3, <3>1 DEF Joins, Kept
  <2>4. CASE /\ pc = "poll" /\ ret = "ok"
             /\ \E t \in Range(acc) : t.k = "ssid" /\ t.v = want
             /\ \E t \in Range(acc) : t.k = "state" /\ t.v = "connected"
    <3>1. bridge /\ want = "new"
      BY <1>1, <1>5, <2>4 DEF Carried
    <3>2. Bears("ssid", "new") /\ Bears("state", "connected")
      BY <1>6, <2>4, <3>1 DEF Bears
    <3> QED BY <1>1, <1>2, <2>4, <3>1, <3>2 DEF Told
  <2> QED BY <2>1, <2>2, <2>3, <2>4
<1>20. Listed'
  <2>1. /\ pc' # "one"
        /\ result' = "listed" => result = "listed" \/ (pc = "one" /\ flow = "scan" /\ ret = "ok"
                                                      /\ ~Without(acc, {"done"}))
    BY <1>2 DEF Judged
  <2> QED BY <1>1, <1>2, <1>3, <1>7, <2>1 DEF Listed, Bears
<1>21. Powering'
  <2>1. result' = "powered" => result = "powered" \/ \E t \in Range(acc) : t.k = "efuse" /\ t.v = "on"
    BY <1>2 DEF Judged
  <2>2. result' = "powered" => powered
    BY <1>1, <1>6, <2>1 DEF Powering, Bears
  <2> QED BY <1>1, <1>2, <1>3, <2>2 DEF Powering, Bears
<1>22. Leaving'
  <2>1. result' = "booting" => result = "booting" \/ (flow = "boot" /\ (ret = "gone" \/ ~Without(acc, {"entering"})))
    BY <1>2 DEF Judged
  <2>2. ret = "gone" => gone
    BY <1>1, <1>2 DEF Course
  <2>3. ~Without(acc, {"entering"}) => ~Without(acc \o out, {"entering"})
    BY <1>4, StreamIs DEF StreamTypes
  <2>4. flow = "boot" /\ result' = "booting" => gone \/ todo = <<Token("leave", "")>>
    BY <1>1, <2>1, <2>2, <2>3 DEF Leaving
  <2> QED BY <1>1, <1>2, <2>4 DEF Leaving
<1> QED BY <1>10, <1>11, <1>12, <1>13, <1>14, <1>15, <1>16, <1>17, <1>18, <1>19, <1>20, <1>21, <1>22
        DEF ConsoleInv

\* A line is sent with what an earlier one left unread.
LEMMA SendKeeps == ConsoleInv /\ SendLine => ConsoleInv'
<1> SUFFICES ASSUME ConsoleInv, SendLine PROVE ConsoleInv'
  OBVIOUS
<1>1. /\ Types /\ Course /\ InLine /\ FirstLine /\ Piped /\ SetOnce /\ Kept /\ ReadWhole /\ Told
      /\ AtTheEnd /\ Carried /\ Joins /\ Joined /\ Listed /\ Powering /\ Leaving
  BY DEF ConsoleInv
<1>2. /\ phase = "call" /\ Command # "none" /\ acc' = <<>> /\ grace' = FALSE
      /\ UNCHANGED <<flow, want, pc, result, joinSeen, polls, ctx, todo, bridge, wired, cred, wifi,
                     shown, powered, scanned, echoes, gone, noise, lost>>
      /\ \/ gone /\ phase' = "got" /\ ret' = "unsent" /\ podIn' = podIn
         \/ ~gone /\ phase' = "reading" /\ podIn' = Append(podIn, Command) /\ ret' = ret
  BY DEF SendLine, flowv, podv
<1>3. /\ StreamTypes' /\ Thinner(Stream, Stream')
      /\ \A K : Without(out, K) => Without(out', K)
  BY <1>1, SendIs
<1>4. HostTypes /\ PodTypes /\ Counters /\ StreamTypes
  BY <1>1 DEF Types
<1>5. /\ podIn \in Seq(PodLines) /\ podIn' \in Seq(PodLines) /\ todo \in Seq(Tokens)
      /\ acc' \in Seq(Tokens) /\ out' \in Seq(Tokens) /\ todo' \in Seq(Tokens)
      /\ ret \in {"none", "ok", "timeout", "gone", "unsent"}
      /\ echoes \in BOOLEAN /\ bridge \in BOOLEAN /\ gone \in BOOLEAN /\ ctx \in BOOLEAN
      /\ joinSeen \in BOOLEAN /\ grace \in BOOLEAN
  BY <1>3, <1>4 DEF StreamTypes, HostTypes, PodTypes
<1>6. /\ Range(Stream') \subseteq Range(Stream)
      /\ \A K : Without(Stream, K) => Without(Stream', K)
      /\ \A A, B : NeverThen(Stream, A, B) => NeverThen(Stream', A, B)
  BY <1>3, ThinnerKeeps DEF Thinner
<1>7. \A K : Without(Stream', K) <=> Without(acc', K) /\ Without(out', K) /\ Without(todo', K)
  BY <1>5, StreamIs DEF Stream
<1>8. \A K : Without(acc', K)
  BY <1>2 DEF Without, Range
<1>9. /\ Command' = Command /\ pc # "done" /\ Command \in PodLines
      /\ pc \in {"before", "after", "poll", "has"} => Command = "show"
      /\ pc \in {"set", "bridge set"} => Command = "set"
      /\ pc = "one" => Command = flow
      /\ Command = "show" \/ Command = flow
  BY <1>1, <1>2, <1>4, CommandIs, CommandSame
<1>10. /\ pc \in {"before", "set", "bridge set", "after", "poll", "one", "has"}
       /\ result = "none"
  BY <1>4, <1>9 DEF HostTypes
<1>11. phase' = "reading" =>
         /\ ~gone /\ Range(podIn') = Range(podIn) \cup {Command} /\ podIn' # <<>>
         /\ Len(podIn') = Len(podIn) + 1 /\ podIn'[Len(podIn')] = Command
         /\ \A i \in DOMAIN podIn' : i = Len(podIn') \/ (i \in DOMAIN podIn /\ podIn'[i] = podIn[i])
         /\ podIn = <<>> => podIn' = <<Command>>
  <2> SUFFICES ASSUME phase' = "reading"
               PROVE  /\ ~gone /\ Range(podIn') = Range(podIn) \cup {Command} /\ podIn' # <<>>
                      /\ Len(podIn') = Len(podIn) + 1 /\ podIn'[Len(podIn')] = Command
                      /\ \A i \in DOMAIN podIn' :
                           i = Len(podIn') \/ (i \in DOMAIN podIn /\ podIn'[i] = podIn[i])
                      /\ podIn = <<>> => podIn' = <<Command>>
    OBVIOUS
  <2> DEFINE c == Command
  <2>1. ~gone /\ podIn' = Append(podIn, c) /\ c \in PodLines
    BY <1>2, <1>9
  <2> HIDE DEF c
  <2>2. Range(podIn') = Range(podIn) \cup {c}
    <3>1. Append(podIn, c) = podIn \o <<c>> /\ <<c>> \in Seq(PodLines) /\ Range(<<c>>) = {c}
      <4>1. podIn \in Seq(PodLines) /\ c \in PodLines
        BY <1>5, <2>1
      <4>2. Append(podIn, c) = podIn \o <<c>>
        BY <4>1, AppendIsConcat
      <4>3. <<c>> \in Seq(PodLines) /\ Range(<<c>>) = {c}
        BY <4>1 DEF Range
      <4> QED BY <4>2, <4>3
    <3>2. Range(podIn \o <<c>>) = Range(podIn) \cup Range(<<c>>)
      BY <1>5, <3>1, RangeConcatenation, ZenonT(60)
    <3> QED BY <2>1, <3>1, <3>2
  <2>3. /\ Len(podIn') = Len(podIn) + 1 /\ podIn'[Len(podIn')] = c /\ podIn' # <<>>
        /\ \A i \in DOMAIN podIn' : i = Len(podIn') \/ (i \in DOMAIN podIn /\ podIn'[i] = podIn[i])
    <3>1. /\ Len(podIn) \in Nat /\ DOMAIN podIn = 1 .. Len(podIn)
          /\ Len(podIn') = Len(podIn) + 1 /\ DOMAIN podIn' = 1 .. Len(podIn')
      BY <1>5, <2>1
    <3>2. podIn'[Len(podIn) + 1] = c /\ \A i \in 1 .. Len(podIn) : podIn'[i] = podIn[i]
      BY <1>5, <2>1
    <3>3. podIn' # <<>>
      BY <3>1
    <3>4. \A i \in 1 .. (Len(podIn) + 1) : i = Len(podIn) + 1 \/ i \in 1 .. Len(podIn)
      BY <3>1
    <3> QED BY <3>1, <3>2, <3>3, <3>4
  <2>4. podIn = <<>> => podIn' = <<c>>
    BY <2>1
  <2> QED BY <2>1, <2>2, <2>3, <2>4 DEF c
<1>12. ctx => podIn = <<>> /\ Without(out', {"echo"}) /\ Without(todo', {"echo"})
              /\ Without(out', ShowKinds) /\ Without(todo', ShowKinds)
  BY <1>1, <1>2, <1>3, <1>9 DEF Piped, ReadWhole
<1>13. ctx => Without(Stream', {"echo"}) /\ Without(Stream', ShowKinds)
  BY <1>7, <1>8, <1>12
<1>14. pc = "one" => Without(Stream, Kinds \ {"prompt"}) /\ Without(Stream', Kinds \ {"prompt"})
  BY <1>1, <1>2, <1>6 DEF FirstLine
<1>15. Types'
  <2>1. joinSeen' \in BOOLEAN /\ ctx' \in BOOLEAN /\ grace' \in BOOLEAN
    BY <1>2, <1>5
  <2>2. HostTypes'
    BY <1>2, <1>4, <1>9, <1>10, <2>1 DEF HostTypes
  <2> QED BY <1>2, <1>3, <1>4, <2>2 DEF Types, PodTypes, Counters
<1>16. Course'
  <2>1. Command = flow \/ (Command = "show" /\ flow \in {"set", "scan"})
    BY <1>1, <1>9, <1>10 DEF Course
  <2>2. \A c \in Range(podIn') : c = flow \/ (c = "show" /\ flow \in {"set", "scan"})
    BY <1>1, <1>2, <1>11, <2>1 DEF Course
  <2> QED BY <1>1, <1>2, <1>9, <1>11, <2>2 DEF Course
<1>17. InLine' /\ FirstLine'
  <2>0. Len(podIn) \in Nat
    BY <1>5
  <2>1. Len(podIn) \in Nat /\ Len(podIn) <= (IF pc = "set" THEN 1 ELSE 0)
    BY <1>1, <1>2, <1>9, <2>0 DEF InLine
  <2>2. Len(podIn') <= (IF pc = "set" THEN 2 ELSE 1)
    BY <1>2, <1>11, <2>1
  <2>3. InLine'
    BY <1>2, <2>2 DEF InLine
  <2> QED BY <1>2, <1>14, <2>3 DEF FirstLine
<1>18. Piped'
  BY <1>1, <1>2, <1>6, <1>9, <1>11, <1>12, <1>13 DEF Piped
<1>19. SetOnce'
  <2>1. CASE Command = "set"
    <3>1. pc \in {"set", "bridge set"} /\ flow = "set"
      BY <1>1, <1>2, <1>9, <1>10, <2>1 DEF Course
    <3>2. cred = "old" /\ "set" \notin Range(podIn) /\ Without(Stream, SetKinds)
      BY <1>1, <1>2, <3>1 DEF SetOnce
    <3>3. \A i \in DOMAIN podIn' : podIn'[i] = "set" => i = Len(podIn')
      BY <1>2, <1>11, <3>2 DEF Range
    <3> QED BY <1>2, <1>6, <1>10, <3>1, <3>2, <3>3 DEF SetOnce
  <2>2. CASE Command # "set"
    <3>1. pc \notin {"set", "bridge set"}
      BY <1>9, <2>2
    <3>2. "set" \notin Range(podIn)
      BY <1>1, <1>2, <1>9, <1>10, <3>1 DEF SetOnce, Course
    <3>3. "set" \notin Range(podIn')
      BY <1>2, <1>11, <2>2, <3>2
    <3> QED BY <1>1, <1>2, <1>6, <3>1, <3>2, <3>3 DEF SetOnce
  <2> QED BY <2>1, <2>2
<1>20. Kept'
  BY <1>1, <1>2, <1>6 DEF Kept
<1>21. ReadWhole'
  <2>1. ctx => NeverThen(Stream', {"rssi"}, ShowKinds)
    BY <1>13 DEF NeverThen, Without, ShowKinds, Range
  <2> QED BY <1>2, <1>12, <1>13, <2>1 DEF ReadWhole
<1>22. Told'
  BY <1>2, <1>13 DEF Told, Bears, Without, ShowKinds
<1>23. AtTheEnd'
  <2>1. ctx => EndsAt(Stream', {"echo"}, {"prompt"})
    BY <1>13 DEF EndsAt, Without, Range
  <2>2. Command = "scan" => Without(Stream', ScanEnds)
    BY <1>1, <1>9, <1>10, <1>14 DEF Course, Without, ScanEnds, Kinds
  <2>3. Command = "scan" => EndsAt(Stream', ScanEnds, {"prompt"})
    BY <2>2 DEF EndsAt, Without, Range
  <2> QED BY <1>2, <1>9, <2>1, <2>3 DEF AtTheEnd
<1>24. Carried'
  BY <1>1, <1>2, <1>6, <1>11 DEF Carried
<1>25. Joins' /\ Joined'
  BY <1>1, <1>2, <1>10, <1>11 DEF Joins, Joined
<1>26. Listed'
  <2>1. pc = "one" => Without(Stream', {"done"})
    BY <1>14 DEF Without, Kinds
  <2> QED BY <1>1, <1>2, <1>6, <1>10, <2>1 DEF Listed
<1>27. Powering'
  BY <1>1, <1>2, <1>6 DEF Powering, Bears
<1>28. Leaving'
  <2>1. flow = "boot" => pc = "one"
    BY <1>1, <1>10 DEF Course
  <2>2. flow = "boot" => todo = <<>>
    <3> DEFINE l == Token("leave", "")
               e == Token("entering", "")
    <3>1. l \in Tokens /\ l.k = "leave" /\ e \in Tokens
      BY TokensAre
    <3>2. flow = "boot" => todo \in {<<>>, <<l>>, <<e, l>>} /\ Without(todo', {"leave"})
      <4>1. "leave" \in Kinds \ {"prompt"}
        BY DEF Kinds
      <4>2. flow = "boot" => Without(todo', Kinds \ {"prompt"})
        BY <1>7, <1>14, <2>1
      <4> QED BY <1>1, <4>1, <4>2 DEF Leaving, Without
    <3> HIDE DEF l, e
    <3>3. Range(<<l>>) = {l} /\ Range(<<e, l>>) = {e, l}
      BY <3>1, TupleIs
    <3> QED BY <1>2, <3>1, <3>2, <3>3 DEF Without
  <2>3. flow = "boot" => Without(acc' \o out', {"entering"})
    <3>1. flow = "boot" => Without(Stream', {"entering"})
      BY <1>14, <2>1 DEF Without, Kinds
    <3> QED BY <1>5, <1>7, <3>1, StreamIs
  <2>4. flow = "boot" => Len(podIn') <= 1
    <3>1. flow = "boot" => Len(podIn) \in Nat /\ Len(podIn) <= 0
      BY <1>1, <1>2, <1>5, <2>1 DEF InLine
    <3> QED BY <1>2, <1>11, <3>1
  <2> QED BY <1>1, <1>2, <1>10, <2>2, <2>3, <2>4 DEF Leaving
<1> QED BY <1>15, <1>16, <1>17, <1>18, <1>19, <1>20, <1>21, <1>22, <1>23, <1>24, <1>25, <1>26, <1>27,
           <1>28 DEF ConsoleInv

\* A read takes lines over, and may end the reply.
LEMMA ReadKeeps == ConsoleInv /\ Read => ConsoleInv'
<1> SUFFICES ASSUME ConsoleInv, Read PROVE ConsoleInv'
  OBVIOUS
<1>1. /\ Types /\ Course /\ InLine /\ FirstLine /\ Piped /\ SetOnce /\ Kept /\ ReadWhole /\ Told
      /\ AtTheEnd /\ Carried /\ Joins /\ Joined /\ Listed /\ Powering /\ Leaving
  BY DEF ConsoleInv
<1>2. HostTypes /\ PodTypes /\ Counters /\ StreamTypes
  BY <1>1 DEF Types
<1>3. /\ phase = "reading" /\ ctx
      /\ UNCHANGED <<flow, want, pc, result, joinSeen, polls, ctx, podIn, todo, bridge, wired, cred,
                     wifi, shown, powered, scanned, echoes, gone, noise, lost>>
      /\ StreamTypes' /\ Stream' = Stream /\ acc' \o out' = acc \o out
  BY <1>2, ReadIs DEF flowv, podv
<1>4. /\ \A K : Without(out, K) => Without(out', K)
      /\ \/ EchoedEnd(acc') /\ Complete(acc') /\ phase' = "got" /\ ret' = "ok" /\ grace' = grace
         \/ EchoedEnd(acc') /\ ~Complete(acc') /\ grace' = (grace \/ Command # "scan")
              /\ UNCHANGED <<phase, ret>>
         \/ UNCHANGED <<phase, ret, grace>>
  BY <1>2, ReadIs
<1>5. /\ acc' \in Seq(Tokens) /\ out' \in Seq(Tokens) /\ todo \in Seq(Tokens)
      /\ ret \in {"none", "ok", "timeout", "gone", "unsent"}
      /\ echoes \in BOOLEAN /\ bridge \in BOOLEAN /\ gone \in BOOLEAN /\ ctx \in BOOLEAN
      /\ joinSeen \in BOOLEAN /\ grace \in BOOLEAN
  BY <1>2, <1>3 DEF StreamTypes, HostTypes, PodTypes
<1>6. Stream = (acc' \o out') \o todo
  BY <1>3 DEF Stream
<1>7. /\ \A K : Without(Stream, K) <=> Without(acc', K) /\ Without(out', K) /\ Without(todo, K)
      /\ \A A, B : NeverThen(Stream, A, B) => Without(acc', A) \/ (Without(out', B) /\ Without(todo, B))
      /\ \A A, B : EndsAt(Stream, A, B) /\ ~NeverThen(acc', A, B) => out' = <<>> /\ todo = <<>>
  BY <1>5, <1>6, StreamIs
<1>8. /\ Command' = Command /\ pc # "done" /\ result = "none"
      /\ pc \in {"before", "after", "poll", "has"} => Command = "show"
      /\ pc \in {"set", "bridge set"} => Command = "set"
      /\ pc = "one" => Command = flow
      /\ Command \in PodLines
  <2>1. pc # "done" /\ result = "none"
    BY <1>1, <1>2, <1>3 DEF Course, HostTypes
  <2> QED BY <1>1, <1>2, <1>3, <2>1, CommandIs, CommandSame DEF HostTypes
<1>9. EchoedEnd(acc') => podIn = <<>> /\ Without(out', {"echo"})
  <2> SUFFICES ASSUME EchoedEnd(acc') PROVE podIn = <<>> /\ Without(out', {"echo"})
    OBVIOUS
  <2>1. ~Without(acc', {"echo"})
    BY <1>5, EndIs
  <2>2. ~Without(Stream, {"echo"})
    BY <1>7, <2>1
  <2>3. podIn = <<>> /\ NeverThen(Stream, {"echo"}, {"echo"})
    BY <1>1, <1>3, <2>2 DEF Piped
  <2> QED BY <1>7, <2>1, <2>3
<1>10. EchoedEnd(acc') /\ echoes /\ noise = 0 /\ (Command = "scan" => Complete(acc'))
         => out' = <<>> /\ todo = <<>>
  <2> SUFFICES ASSUME EchoedEnd(acc'), echoes, noise = 0, Command = "scan" => Complete(acc')
               PROVE  out' = <<>> /\ todo = <<>>
    OBVIOUS
  <2>1. CASE Command = "scan"
    <3>1. ~NeverThen(acc', ScanEnds, {"prompt"})
      BY <1>5, <2>1, EndIs
    <3>2. EndsAt(Stream, ScanEnds, {"prompt"})
      BY <1>1, <1>3, <2>1 DEF AtTheEnd
    <3> QED BY <1>7, <3>1, <3>2
  <2>2. CASE Command # "scan"
    <3>1. ~NeverThen(acc', {"echo"}, {"prompt"})
      BY <1>5, EndIs
    <3>2. EndsAt(Stream, {"echo"}, {"prompt"})
      BY <1>1, <1>3, <2>2 DEF AtTheEnd
    <3> QED BY <1>7, <3>1, <3>2
  <2> QED BY <2>1, <2>2
<1>11. Complete(acc') /\ Command = "show" => Without(out', ShowKinds) /\ Without(todo, ShowKinds)
  <2>1. Complete(acc') /\ Command = "show" => ~Without(acc', {"rssi"})
    BY <1>5, EndIs
  <2>2. NeverThen(Stream, {"rssi"}, ShowKinds)
    BY <1>1, <1>3 DEF ReadWhole
  <2> QED BY <1>7, <2>1, <2>2
<1>12. ~Complete(acc') => Command \in {"show", "scan", "power"}
  BY DEF Complete
<1>13. /\ phase' \in {"reading", "got"}
       /\ phase' = "got" => ret' = "ok" /\ EchoedEnd(acc') /\ Complete(acc') /\ grace' = grace
       /\ phase' = "reading" => ret' = ret
       /\ grace' => grace \/ (podIn = <<>> /\ Command \in {"show", "power"})
       /\ grace' \in BOOLEAN /\ ret' \in {"none", "ok", "timeout", "gone", "unsent"}
  <2>1. CASE EchoedEnd(acc') /\ Complete(acc') /\ phase' = "got" /\ ret' = "ok" /\ grace' = grace
    BY <1>5, <2>1
  <2>2. CASE EchoedEnd(acc') /\ ~Complete(acc') /\ grace' = (grace \/ Command # "scan")
               /\ UNCHANGED <<phase, ret>>
    <3>1. grace' \in BOOLEAN /\ (grace' => grace \/ Command # "scan")
      BY <1>5, <2>2
    <3> QED BY <1>3, <1>5, <1>9, <1>12, <2>2, <3>1
  <2>3. CASE UNCHANGED <<phase, ret, grace>>
    BY <1>3, <1>5, <2>3
  <2> QED BY <1>4, <2>1, <2>2, <2>3
<1>14. Types'
  <2>1. joinSeen' \in BOOLEAN /\ ctx' \in BOOLEAN
    BY <1>3, <1>5
  <2>2. HostTypes'
    BY <1>2, <1>3, <1>13, <2>1 DEF HostTypes
  <2> QED BY <1>2, <1>3, <2>2 DEF Types, PodTypes, Counters
<1>15. Course'
  BY <1>1, <1>3, <1>8, <1>13 DEF Course
<1>16. InLine' /\ FirstLine'
  BY <1>1, <1>3, <1>13 DEF InLine, FirstLine
<1>17. Piped'
  BY <1>1, <1>3, <1>8, <1>9, <1>13 DEF Piped
<1>18. SetOnce' /\ Kept'
  BY <1>1, <1>3, <1>13 DEF SetOnce, Kept
<1>19. ReadWhole'
  <2>1. phase' = "got" => Without(out', ShowKinds) /\ Without(todo, ShowKinds)
    <3>1. Command # "show" => Without(Stream, ShowKinds)
      BY <1>1, <1>3 DEF ReadWhole
    <3> QED BY <1>7, <1>11, <1>13, <3>1
  <2> QED BY <1>1, <1>3, <1>8, <1>13, <2>1 DEF ReadWhole
<1>20. Told'
  BY <1>1, <1>3, <1>13 DEF Told, Bears
<1>21. AtTheEnd'
  BY <1>1, <1>3, <1>8, <1>10, <1>13 DEF AtTheEnd
<1>22. Carried'
  <2>1. bridge /\ lost = 0 /\ pc = "before" /\ phase' = "got" => gone \/ ~Without(acc', {"via"})
    <3>1. phase' = "got" /\ pc = "before" => podIn = <<>> /\ Without(out', {"via"}) /\ Without(todo, {"via"})
      BY <1>8, <1>9, <1>11, <1>13 DEF Without, ShowKinds
    <3> QED BY <1>1, <1>3, <1>7, <3>1 DEF Carried
  <2> QED BY <1>1, <1>3, <1>13, <2>1 DEF Carried
<1>23. Joins' /\ Joined'
  <2>1. echoes /\ ~bridge /\ lost = 0 /\ noise = 0 /\ pc = "set" /\ phase' = "got"
        => gone \/ ~Without(acc', Outcomes)
    <3>1. \A K : Without(<<>>, K)
      BY DEF Without, Range
    <3>2. echoes /\ noise = 0 /\ pc = "set" /\ phase' = "got" => podIn = <<>> /\ out' = <<>> /\ todo = <<>>
      BY <1>8, <1>9, <1>10, <1>13
    <3> QED BY <1>1, <1>3, <1>7, <3>1, <3>2 DEF Joins
  <2> QED BY <1>1, <1>3, <1>8, <1>13, <2>1 DEF Joins, Joined
<1>24. Listed' /\ Powering' /\ Leaving'
  BY <1>1, <1>3, <1>8 DEF Listed, Powering, Leaving, Bears
<1> QED BY <1>14, <1>15, <1>16, <1>17, <1>18, <1>19, <1>20, <1>21, <1>22, <1>23, <1>24 DEF ConsoleInv

\* The pod prints a line, or leaves.
LEMMA PrintKeeps == ConsoleInv /\ PodPrints => ConsoleInv'
<1> SUFFICES ASSUME ConsoleInv, PodPrints PROVE ConsoleInv'
  OBVIOUS
<1>1. /\ Types /\ Course /\ InLine /\ FirstLine /\ Piped /\ SetOnce /\ Kept /\ ReadWhole /\ Told
      /\ AtTheEnd /\ Carried /\ Joins /\ Joined /\ Listed /\ Powering /\ Leaving
  BY DEF ConsoleInv
<1>2. HostTypes /\ PodTypes /\ Counters /\ StreamTypes
  BY <1>1 DEF Types
<1> DEFINE h == Head(todo)
<1>3. /\ StreamTypes' /\ todo # <<>> /\ todo = <<h>> \o todo' /\ h \in Tokens
      /\ Thinner(Stream, Stream') /\ Thinner(todo, todo')
      /\ \/ h.k = "leave" /\ gone' = TRUE /\ out' = out
         \/ h.k # "leave" /\ gone' = gone /\ Stream' = Stream /\ out' = out \o <<h>>
      /\ UNCHANGED <<flow, want, pc, result, joinSeen, polls, phase, ret, acc, grace, ctx, podIn,
                     bridge, wired, cred, wifi, shown, powered, scanned, echoes, noise, lost>>
  BY <1>2, PrintIs DEF flowv, readv, podv
<1> HIDE DEF h
<1>4. /\ acc \in Seq(Tokens) /\ out \in Seq(Tokens) /\ todo \in Seq(Tokens)
      /\ acc' \in Seq(Tokens) /\ out' \in Seq(Tokens) /\ todo' \in Seq(Tokens)
      /\ joinSeen \in BOOLEAN /\ grace \in BOOLEAN /\ ctx \in BOOLEAN /\ gone \in BOOLEAN
      /\ gone' \in BOOLEAN
  BY <1>2, <1>3 DEF StreamTypes, HostTypes, PodTypes
<1>5. /\ Range(Stream') \subseteq Range(Stream)
      /\ \A K : Without(Stream, K) => Without(Stream', K)
      /\ \A A, B : NeverThen(Stream, A, B) => NeverThen(Stream', A, B)
      /\ \A A, B : EndsAt(Stream, A, B) => EndsAt(Stream', A, B)
      /\ \A K : Without(todo, K) => Without(todo', K) /\ h.k \notin K
  <2>1. h \in Range(todo)
    <3> DEFINE w == <<h>>
    <3>1. w \in Seq(Tokens) /\ Range(w) = {h} /\ todo = w \o todo'
      BY <1>3, TupleIs
    <3> HIDE DEF w
    <3>2. Range(w \o todo') = Range(w) \cup Range(todo')
      BY <1>4, <3>1, RangeConcatenation
    <3> QED BY <3>1, <3>2
  <2> QED BY <1>3, <2>1, ThinnerKeeps DEF Thinner, Without
<1>6. ~gone
  BY <1>1, <1>3 DEF Course
<1>7. /\ \A K : Without(out, K) /\ Without(todo, K) => Without(out', K)
      /\ Range(acc \o out) \subseteq Range(acc' \o out')
      /\ Range(acc' \o out') \subseteq Range(acc \o out) \cup {h}
  <2> DEFINE w == <<h>>
  <2>1. w \in Seq(Tokens) /\ Range(w) = {h} /\ (out' = out \/ out' = out \o w)
    BY <1>3, TupleIs
  <2> HIDE DEF w
  <2>2. Range(out \o w) = Range(out) \cup {h}
    BY <1>4, <2>1, RangeConcatenation
  <2>3. out' = out \/ Range(out') = Range(out) \cup {h}
    BY <2>1, <2>2
  <2>4. Range(acc \o out) = Range(acc) \cup Range(out) /\ Range(acc' \o out') = Range(acc') \cup Range(out')
    BY <1>4, RangeConcatenation
  <2> QED BY <1>3, <1>5, <2>3, <2>4 DEF Without
<1>8. \A K : ~Without(acc \o out, K) => ~Without(acc' \o out', K)
  BY <1>7 DEF Without
<1>9. Command' = Command
  BY <1>3, CommandSame
\* What a run that leaves has still to print.
<1>10. flow = "boot" =>
         /\ podIn = <<>>
         /\ \/ h.k = "leave" /\ todo' = <<>>
            \/ h.k = "entering" /\ todo' = <<Token("leave", "")>> /\ todo # <<Token("leave", "")>>
  <2> SUFFICES ASSUME flow = "boot"
               PROVE  /\ podIn = <<>>
                      /\ \/ h.k = "leave" /\ todo' = <<>>
                         \/ h.k = "entering" /\ todo' = <<Token("leave", "")>>
                              /\ todo # <<Token("leave", "")>>
    OBVIOUS
  <2> DEFINE l == Token("leave", "")
             n == Token("entering", "")
  <2>1. l \in Tokens /\ l.k = "leave" /\ n \in Tokens /\ n.k = "entering"
    BY TokensAre
  <2>2. podIn = <<>> /\ todo \in {<<>>, <<l>>, <<n, l>>}
    BY <1>1, <1>3 DEF Leaving
  <2>3. h = Head(todo) /\ todo' = Tail(todo)
    BY DEF PodPrints, h
  <2> HIDE DEF l, n
  <2>4. CASE todo = <<l>>
    <3>1. Head(<<l>>) = l
      OBVIOUS
    <3>2. Tail(<<l>>) = <<>>
      OBVIOUS
    <3> QED BY <2>1, <2>2, <2>3, <2>4, <3>1, <3>2
  <2>5. CASE todo = <<n, l>>
    <3>1. h = n /\ todo' = <<l>> /\ todo # <<l>>
      BY <2>1, <2>3, <2>5
    <3> QED BY <2>1, <2>2, <3>1 DEF l
  <2> QED BY <1>3, <2>2, <2>4, <2>5
<1>11. flow # "boot" => h.k # "leave" /\ gone' = gone /\ Stream' = Stream
  BY <1>1, <1>3, <1>5 DEF Leaving
<1>12. gone' => flow = "boot" /\ podIn = <<>> /\ todo' = <<>>
  BY <1>3, <1>6, <1>10, <1>11
<1>13. Types'
  <2>1. joinSeen' \in BOOLEAN /\ ctx' \in BOOLEAN /\ grace' \in BOOLEAN
    BY <1>3, <1>4
  <2>2. HostTypes'
    BY <1>2, <1>3, <2>1, ZenonT(60) DEF HostTypes
  <2>3. PodTypes'
    BY <1>2, <1>3, <1>4 DEF PodTypes
  <2> QED BY <1>2, <1>3, <2>2, <2>3 DEF Types, Counters
<1>14. Course'
  BY <1>1, <1>3, <1>6, <1>9, <1>12 DEF Course
<1>15. InLine' /\ FirstLine'
  BY <1>1, <1>3, <1>5 DEF InLine, FirstLine
<1>16. Piped'
  <2>1. gone => gone'
    BY <1>6
  <2> QED BY <1>1, <1>3, <1>5, <1>7, <1>8, <1>9, <2>1 DEF Piped
<1>17. SetOnce' /\ Kept'
  BY <1>1, <1>3, <1>5 DEF SetOnce, Kept
<1>18. ReadWhole'
  BY <1>1, <1>3, <1>5, <1>7, <1>9 DEF ReadWhole
<1>19. Told'
  BY <1>1, <1>3, <1>5 DEF Told, Bears
<1>20. AtTheEnd'
  BY <1>1, <1>3, <1>5, <1>9 DEF AtTheEnd
<1>21. pc \in {"before", "set", "after"} => gone' = gone /\ Stream' = Stream
  BY <1>1, <1>11 DEF Course
<1>22. Carried'
  <2>1. /\ ~bridge => Without(Stream', {"via"}) /\ pc \notin {"bridge set", "poll"}
        /\ \A t \in Range(Stream') : t.k = "via" => t.v = "bridge"
    BY <1>1, <1>5 DEF Carried
  <2>2. CASE pc \in {"before", "set", "after"}
    <3>1. gone' = gone /\ Stream' = Stream
      BY <1>21, <2>2
    <3>2. /\ UNCHANGED <<pc, phase, ret, acc, podIn, bridge, lost>>
          /\ ctx' = ctx
      BY <1>3
    <3>3. (gone' <=> gone) /\ (ctx' <=> ctx)
      BY <1>4, <3>1, <3>2
    <3>4. Carried
      BY <1>1
    <3> QED BY <2>1, <3>1, <3>2, <3>3, <3>4 DEF Carried
  <2>3. CASE pc \notin {"before", "set", "after"}
    BY <1>3, <2>1, <2>3 DEF Carried
  <2> QED BY <2>2, <2>3
<1>23. Joins' /\ Joined'
  BY <1>1, <1>3, <1>21 DEF Joins, Joined
<1>24. Listed'
  BY <1>1, <1>3, <1>11 DEF Listed, Bears
<1>25. Powering'
  BY <1>1, <1>3, <1>5 DEF Powering, Bears
<1>26. Leaving'
  <2>1. flow = "boot" => todo \in {<<>>, <<Token("leave", "")>>, <<Token("entering", ""), Token("leave", "")>>}
    BY <1>1 DEF Leaving
  <2>2. flow = "boot" /\ result = "booting" => todo = <<Token("leave", "")>>
    BY <1>1, <1>6 DEF Leaving
  <2>3. flow = "boot" /\ ~Without(acc' \o out', {"entering"}) => gone' \/ todo' = <<Token("leave", "")>>
    <3>1. CASE flow = "boot" /\ h.k = "leave"
      BY <1>3, <3>1
    <3>2. CASE flow = "boot" /\ h.k = "entering"
      BY <1>10, <3>2
    <3> QED BY <1>10, <3>1, <3>2
  <2>4. flow = "boot" /\ result = "booting" => gone'
    BY <1>3, <1>10, <2>2
  <2> QED BY <1>1, <1>3, <1>5, <1>10, <2>3, <2>4 DEF Leaving
<1> QED BY <1>13, <1>14, <1>15, <1>16, <1>17, <1>18, <1>19, <1>20, <1>22, <1>23, <1>24, <1>25, <1>26
        DEF ConsoleInv

\* A line that the pod's output drops.
LEMMA DropKeeps == ConsoleInv /\ PodDropsLine => ConsoleInv'
<1> SUFFICES ASSUME ConsoleInv, PodDropsLine PROVE ConsoleInv'
  OBVIOUS
<1>1. /\ Types /\ Course /\ InLine /\ FirstLine /\ Piped /\ SetOnce /\ Kept /\ ReadWhole /\ Told
      /\ AtTheEnd /\ Carried /\ Joins /\ Joined /\ Listed /\ Powering /\ Leaving
  BY DEF ConsoleInv
<1>2. HostTypes /\ PodTypes /\ Counters /\ StreamTypes
  BY <1>1 DEF Types
<1>3. /\ StreamTypes' /\ todo # <<>> /\ Thinner(Stream, Stream') /\ Thinner(todo, todo')
      /\ Head(todo).k \notin {"prompt", "leave"} /\ lost' # 0
      /\ UNCHANGED <<flow, want, pc, result, joinSeen, polls, phase, ret, acc, grace, ctx, out, podIn,
                     bridge, wired, cred, wifi, shown, powered, gone, scanned, echoes, noise>>
  BY <1>2, DropIs DEF flowv, readv, podv, Counters
<1>4. lost' \in 0 .. MaxLost
  <2>1. MaxLost \in Nat
    BY SerialConsoleAssumption
  <2>2. lost < MaxLost /\ lost' = lost + 1
    BY DEF PodDropsLine
  <2> QED BY <1>2, <2>1, <2>2 DEF Counters
<1>5. /\ Range(Stream') \subseteq Range(Stream)
      /\ \A K : Without(Stream, K) => Without(Stream', K)
      /\ \A A, B : NeverThen(Stream, A, B) => NeverThen(Stream', A, B)
      /\ \A A, B : EndsAt(Stream, A, B) => EndsAt(Stream', A, B)
      /\ \A K : Without(todo, K) => Without(todo', K)
  BY <1>3, ThinnerKeeps DEF Thinner
<1>6. ~gone /\ Command' = Command
  BY <1>1, <1>3, CommandSame DEF Course
<1>7. joinSeen \in BOOLEAN /\ grace \in BOOLEAN /\ ctx \in BOOLEAN
  BY <1>2 DEF HostTypes
<1>8. Types'
  <2>1. joinSeen' \in BOOLEAN /\ ctx' \in BOOLEAN /\ grace' \in BOOLEAN
    BY <1>3, <1>7
  <2>2. HostTypes'
    BY <1>2, <1>3, <2>1, ZenonT(60) DEF HostTypes
  <2> QED BY <1>2, <1>3, <1>4, <2>2 DEF Types, PodTypes, Counters
<1>9. Course'
  BY <1>1, <1>3, <1>6 DEF Course
<1>10. InLine' /\ FirstLine'
  BY <1>1, <1>3, <1>5 DEF InLine, FirstLine
<1>11. Piped'
  BY <1>1, <1>3, <1>5, <1>6 DEF Piped
<1>12. SetOnce' /\ Kept'
  BY <1>1, <1>3, <1>5 DEF SetOnce, Kept
<1>13. ReadWhole'
  BY <1>1, <1>3, <1>5, <1>6 DEF ReadWhole
<1>14. Told'
  BY <1>1, <1>3, <1>5 DEF Told, Bears
<1>15. AtTheEnd'
  BY <1>1, <1>3, <1>5, <1>6 DEF AtTheEnd
<1>16. Carried' /\ Joins' /\ Joined'
  BY <1>1, <1>3, <1>5 DEF Carried, Joins, Joined
<1>17. Listed' /\ Powering'
  BY <1>1, <1>3, <1>5 DEF Listed, Powering, Bears
<1>18. Leaving'
  <2> DEFINE l == Token("leave", "")
             n == Token("entering", "")
  <2>1. l \in Tokens /\ l.k = "leave" /\ n \in Tokens /\ n.k = "entering"
    BY TokensAre
  <2>2. flow = "boot" => todo \in {<<>>, <<l>>, <<n, l>>} /\ podIn = <<>>
    BY <1>1, <1>3 DEF Leaving
  <2>3. todo' = Tail(todo)
    BY DEF PodDropsLine
  <2>4. flow = "boot" => todo' = <<l>> /\ podIn = <<>>
    <3> HIDE DEF l, n
    <3>1. todo # <<l>>
      BY <1>3, <2>1
    <3>2. todo = <<n, l>> => todo' = <<l>>
      BY <2>3
    <3> QED BY <1>3, <2>2, <3>1, <3>2
  <2> QED BY <1>1, <1>3, <1>5, <2>4 DEF Leaving
<1> QED BY <1>8, <1>9, <1>10, <1>11, <1>12, <1>13, <1>14, <1>15, <1>16, <1>17, <1>18 DEF ConsoleInv

\* A fragment of a log line that looks like a prompt.
LEMMA NoiseKeeps == ConsoleInv /\ Noise => ConsoleInv'
<1> SUFFICES ASSUME ConsoleInv, Noise PROVE ConsoleInv'
  OBVIOUS
<1>1. /\ Types /\ Course /\ InLine /\ FirstLine /\ Piped /\ SetOnce /\ Kept /\ ReadWhole /\ Told
      /\ AtTheEnd /\ Carried /\ Joins /\ Joined /\ Listed /\ Powering /\ Leaving
  BY DEF ConsoleInv
<1>2. HostTypes /\ PodTypes /\ Counters /\ StreamTypes
  BY <1>1 DEF Types
<1>3. /\ StreamTypes' /\ out' = out \o <<Prompt>> /\ ~gone /\ phase = "reading" /\ noise' # 0
      /\ Range(Stream') = Range(Stream) \cup {Prompt}
      /\ UNCHANGED <<flow, want, pc, result, joinSeen, polls, phase, ret, acc, grace, ctx, podIn, todo,
                     bridge, wired, cred, wifi, shown, powered, gone, scanned, echoes, lost>>
  BY <1>2, NoiseIs DEF flowv, readv, podv, Counters
<1>4. /\ \A K : "prompt" \notin K => (Without(Stream', K) <=> Without(Stream, K))
      /\ \A A, B : "prompt" \notin A \cup B /\ NeverThen(Stream, A, B) => NeverThen(Stream', A, B)
      /\ \A k, v : k # "prompt" => (Bears(k, v)' <=> Bears(k, v))
      /\ \A t \in Range(Stream') : t.k # "prompt" => t \in Range(Stream)
  BY <1>2, <1>3, NoiseIs, TokenIs DEF Bears, Without
<1>5. \A K : "prompt" \notin K => (Without(acc' \o out', K) <=> Without(acc \o out, K))
  <2> DEFINE w == <<Prompt>>
  <2>1. /\ w \in Seq(Tokens) /\ Range(w) = {Prompt} /\ out' = out \o w
        /\ acc \in Seq(Tokens) /\ out \in Seq(Tokens) /\ out' \in Seq(Tokens)
    BY <1>2, <1>3, TupleIs, TokenIs DEF StreamTypes
  <2> HIDE DEF w
  <2>2. Range(out') = Range(out) \cup {Prompt}
    BY <2>1, RangeConcatenation
  <2>3. Range(acc \o out) = Range(acc) \cup Range(out)
    <3>1. acc \in Seq(Tokens) /\ out \in Seq(Tokens)
      BY <2>1
    <3> QED BY ONLY <3>1, RangeConcatenation
  <2>4. Range(acc \o out') = Range(acc) \cup Range(out')
    <3>1. acc \in Seq(Tokens) /\ out' \in Seq(Tokens)
      BY <2>1
    <3> QED BY ONLY <3>1, RangeConcatenation
  <2> QED BY <1>3, <2>2, <2>3, <2>4, TokenIs DEF Without
<1>6. Command' = Command /\ pc # "done" /\ result = "none"
  BY <1>1, <1>2, <1>3, CommandSame DEF Course, HostTypes
<1>7. noise' \in 0 .. MaxNoise
  <2>1. MaxNoise \in Nat
    BY SerialConsoleAssumption
  <2>2. noise < MaxNoise /\ noise' = noise + 1
    BY DEF Noise
  <2> QED BY <1>2, <2>1, <2>2 DEF Counters
<1>8. joinSeen \in BOOLEAN /\ grace \in BOOLEAN /\ ctx \in BOOLEAN
  BY <1>2 DEF HostTypes
<1>9. Types'
  <2>1. joinSeen' \in BOOLEAN /\ ctx' \in BOOLEAN /\ grace' \in BOOLEAN
    BY <1>3, <1>8
  <2>2. HostTypes'
    BY <1>2, <1>3, <2>1 DEF HostTypes
  <2> QED BY <1>2, <1>3, <1>7, <2>2 DEF Types, PodTypes, Counters
<1>10. Course'
  BY <1>1, <1>3, <1>6 DEF Course
<1>11. InLine' /\ FirstLine'
  BY <1>1, <1>3, <1>4 DEF InLine, FirstLine
<1>12. Piped'
  BY <1>1, <1>3, <1>4, <1>5, <1>6 DEF Piped
<1>13. SetOnce' /\ Kept'
  BY <1>1, <1>3, <1>4 DEF SetOnce, Kept, SetKinds
<1>14. ReadWhole'
  BY <1>1, <1>3, <1>4, <1>6 DEF ReadWhole, ShowKinds
<1>15. Told'
  BY <1>1, <1>3, <1>4 DEF Told
<1>16. AtTheEnd' /\ Joins'
  BY <1>3 DEF AtTheEnd, Joins
<1>17. Carried'
  BY <1>1, <1>3, <1>4 DEF Carried
<1>18. Joined'
  BY <1>3, <1>6 DEF Joined
<1>19. Listed'
  BY <1>1, <1>3, <1>4, <1>6 DEF Listed
<1>20. Powering'
  BY <1>1, <1>3, <1>4 DEF Powering
<1>21. Leaving'
  BY <1>1, <1>3, <1>5 DEF Leaving
<1> QED BY <1>9, <1>10, <1>11, <1>12, <1>13, <1>14, <1>15, <1>16, <1>17, <1>18, <1>19, <1>20, <1>21
        DEF ConsoleInv

\* The port vanishes, and with it what the pod had still to print.
LEMMA UnplugKeeps == ConsoleInv /\ Unplug => ConsoleInv'
<1> SUFFICES ASSUME ConsoleInv, Unplug PROVE ConsoleInv'
  OBVIOUS
<1>1. /\ Types /\ Course /\ InLine /\ FirstLine /\ Piped /\ SetOnce /\ Kept /\ ReadWhole /\ Told
      /\ AtTheEnd /\ Carried /\ Joins /\ Joined /\ Listed /\ Powering /\ Leaving
  BY DEF ConsoleInv
<1>2. HostTypes /\ PodTypes /\ Counters /\ StreamTypes
  BY <1>1 DEF Types
<1>3. /\ StreamTypes' /\ podIn' = <<>> /\ todo' = <<>> /\ gone' = TRUE /\ Stream' = acc \o out
      /\ Thinner(Stream, Stream') /\ result = "none"
      /\ UNCHANGED <<flow, want, pc, result, joinSeen, polls, phase, ret, acc, grace, ctx, out,
                     bridge, wired, cred, wifi, shown, powered, scanned, echoes, noise, lost>>
  BY <1>2, UnplugIs DEF flowv, readv, podv, Unplug
<1>4. /\ Range(Stream') \subseteq Range(Stream)
      /\ \A K : Without(Stream, K) => Without(Stream', K)
      /\ \A A, B : NeverThen(Stream, A, B) => NeverThen(Stream', A, B)
      /\ \A A, B : EndsAt(Stream, A, B) => EndsAt(Stream', A, B)
  BY <1>3, ThinnerKeeps DEF Thinner
<1>5. Command' = Command /\ pc # "done"
  BY <1>2, <1>3, CommandSame DEF HostTypes
<1>6. Range(<<>>) = {} /\ Len(<<>>) = 0 /\ \A K : Without(<<>>, K)
  BY DEF Range, Without
<1>7. joinSeen \in BOOLEAN /\ grace \in BOOLEAN /\ ctx \in BOOLEAN
  BY <1>2 DEF HostTypes
<1>8. Types'
  <2>1. joinSeen' \in BOOLEAN /\ ctx' \in BOOLEAN /\ grace' \in BOOLEAN
    BY <1>3, <1>7
  <2>2. HostTypes'
    BY <1>2, <1>3, <2>1 DEF HostTypes
  <2> QED BY <1>2, <1>3, <2>2 DEF Types, PodTypes, Counters
<1>9. Course'
  BY <1>1, <1>3, <1>5, <1>6 DEF Course
<1>10. InLine' /\ FirstLine'
  BY <1>1, <1>3, <1>4, <1>6 DEF InLine, FirstLine
<1>11. Piped'
  <2>1. \A s : Without(s, {"echo"}) => NeverThen(s, {"echo"}, {"echo"})
    BY DEF Without, NeverThen, Range
  <2>2. \A t \in Range(Stream') : Without(Stream, {"echo"}) => t.k # "echo"
    BY <1>4 DEF Without
  <2>3. phase = "reading" /\ ctx =>
          /\ NeverThen(Stream', {"echo"}, {"echo"})
          /\ \A t \in Range(Stream') : t.k = "echo" => t.v = Command
    BY <1>1, <1>4, <2>1, <2>2 DEF Piped
  <2> QED BY <1>1, <1>3, <1>4, <1>5, <1>6, <2>3 DEF Piped
<1>12. SetOnce' /\ Kept'
  BY <1>1, <1>3, <1>4, <1>6 DEF SetOnce, Kept
<1>13. ReadWhole'
  BY <1>1, <1>3, <1>4, <1>5, <1>6 DEF ReadWhole
<1>14. Told'
  BY <1>1, <1>3, <1>4 DEF Told, Bears
<1>15. AtTheEnd'
  BY <1>1, <1>3, <1>4, <1>5 DEF AtTheEnd
<1>16. Carried'
  <2>1. /\ ~bridge => Without(Stream', {"via"}) /\ pc \notin {"bridge set", "poll"}
        /\ \A t \in Range(Stream') : t.k = "via" => t.v = "bridge"
        /\ bridge /\ lost = 0 => pc # "after"
        /\ bridge /\ lost = 0 /\ pc = "set" =>
             (phase = "reading" => ~ctx) /\ (phase = "got" => ret # "ok")
    BY <1>1, <1>4 DEF Carried
  <2> QED BY <1>3, <2>1 DEF Carried
<1>17. Joins' /\ Joined'
  BY <1>1, <1>3 DEF Joins, Joined
<1>18. Listed'
  <2>1. \A A, B : NeverThen(Stream, A, B) => Without(Stream', A) \/ Without(todo, B)
    <3> DEFINE p == acc \o out
    <3>1. p \in Seq(Tokens) /\ todo \in Seq(Tokens) /\ Stream = p \o todo /\ Stream' = p
      BY <1>2, <1>3, StreamIs DEF Stream, StreamTypes
    <3> HIDE DEF p
    <3> QED BY <3>1, NeverParts
  <2>2. Range(Stream) = Range(Stream') \cup Range(todo)
    BY <1>2, <1>3, StreamIs, RangeConcatenation DEF Stream, StreamTypes
  <2>3. flow = "scan" /\ pc = "one" /\ lost = 0 /\ ~Without(Stream', {"done"}) =>
          \A v \in scanned : Bears("net", v)'
    <3> SUFFICES ASSUME flow = "scan", pc = "one", lost = 0, ~Without(Stream', {"done"}),
                        NEW v \in scanned
                 PROVE  \E t \in Range(Stream') : t.k = "net" /\ t.v = v
      BY DEF Bears
    <3>1. NeverThen(Stream, {"done"}, {"net"}) /\ \E t \in Range(Stream) : t.k = "net" /\ t.v = v
      BY <1>1, <1>4 DEF Listed, Bears
    <3>2. Without(todo, {"net"})
      BY <2>1, <3>1
    <3> QED BY <2>2, <3>1, <3>2 DEF Without
  <2> QED BY <1>1, <1>3, <1>4, <2>3 DEF Listed
<1>19. Powering'
  BY <1>1, <1>3, <1>4 DEF Powering, Bears
<1>20. Leaving'
  <2>1. /\ Without(todo', {"leave"}) /\ Len(podIn') <= 1
        /\ todo' \in {<<>>, <<Token("leave", "")>>, <<Token("entering", ""), Token("leave", "")>>}
    BY <1>3, <1>6
  <2> QED BY <1>3, <2>1 DEF Leaving
<1> QED BY <1>8, <1>9, <1>10, <1>11, <1>12, <1>13, <1>14, <1>15, <1>16, <1>17, <1>18, <1>19, <1>20
        DEF ConsoleInv

\* The pod takes a line and answers it.
LEMMA TakesKeeps == ConsoleInv /\ PodTakes => ConsoleInv'
<1> SUFFICES ASSUME ConsoleInv, PodTakes PROVE ConsoleInv'
  OBVIOUS
<1>1. /\ Types /\ Course /\ InLine /\ FirstLine /\ Piped /\ SetOnce /\ Kept /\ ReadWhole /\ Told
      /\ AtTheEnd /\ Carried /\ Joins /\ Joined /\ Listed /\ Powering /\ Leaving
  BY DEF ConsoleInv
<1>2. HostTypes /\ PodTypes /\ Counters /\ StreamTypes
  BY <1>1 DEF Types
<1> DEFINE h == Head(podIn)
<1>3. /\ StreamTypes' /\ todo = <<>> /\ podIn # <<>> /\ h \in PodLines
      /\ podIn' = Tail(podIn) /\ podIn = <<h>> \o podIn' /\ Len(podIn') = Len(podIn) - 1
      /\ Answered(h) /\ PodTypes'
      /\ UNCHANGED <<flow, want, pc, result, joinSeen, polls, phase, ret, acc, grace, ctx,
                     bridge, wired, echoes, gone, noise, lost>>
  BY <1>1, TakesIs DEF flowv, readv
<1>4. PICK e \in Seq(Tokens) :
        /\ \A t \in Range(e) : echoes /\ t.k = "echo" /\ t.v = h
        /\ echoes => ~Without(e, {"echo"})
        /\ \A A, B : NeverThen(e, A, B)
        /\ out' = out \o e /\ Stream = acc \o out
        /\ Stream' = Stream \o (e \o todo') /\ e \o todo' \in Seq(Tokens)
        /\ Range(Stream') = Range(Stream) \cup Range(e) \cup Range(todo')
  BY <1>1, TakesIs
<1>5. h = Head(podIn)
  OBVIOUS
<1> HIDE DEF h
<1>6. /\ acc \in Seq(Tokens) /\ out \in Seq(Tokens) /\ out' \in Seq(Tokens) /\ todo' \in Seq(Tokens)
      /\ Stream \in Seq(Tokens) /\ podIn \in Seq(PodLines) /\ podIn' \in Seq(PodLines)
      /\ joinSeen \in BOOLEAN /\ grace \in BOOLEAN /\ ctx \in BOOLEAN /\ gone \in BOOLEAN
      /\ echoes \in BOOLEAN /\ bridge \in BOOLEAN
  BY <1>2, <1>3, <1>4, ConcatProperties DEF StreamTypes, HostTypes, PodTypes
\* The line taken, and those behind it.
<1>7. /\ h \in Range(podIn) /\ Range(podIn') \subseteq Range(podIn)
      /\ podIn[1] = h /\ Len(podIn) \in Nat \ {0} /\ DOMAIN podIn = 1 .. Len(podIn)
      /\ DOMAIN podIn' = 1 .. (Len(podIn) - 1) /\ Len(podIn') = Len(podIn) - 1
      /\ \A i \in DOMAIN podIn' : podIn'[i] = podIn[i + 1] /\ i + 1 \in DOMAIN podIn
      /\ Len(podIn) <= 1 => podIn' = <<>>
  <2>1. Len(podIn) \in Nat \ {0} /\ DOMAIN podIn = 1 .. Len(podIn) /\ podIn[1] = h
    BY <1>3, <1>5, <1>6
  <2>2. /\ DOMAIN podIn' = 1 .. (Len(podIn) - 1) /\ Len(podIn') = Len(podIn) - 1
        /\ \A i \in 1 .. (Len(podIn) - 1) : podIn'[i] = podIn[i + 1]
    BY <1>3, <1>6
  <2>3. \A i \in 1 .. (Len(podIn) - 1) : i + 1 \in 1 .. Len(podIn)
    BY <2>1
  <2>4. h \in Range(podIn)
    BY <2>1 DEF Range
  <2>5. Range(podIn') \subseteq Range(podIn)
    BY <2>1, <2>2, <2>3 DEF Range
  <2>6. Len(podIn) <= 1 => podIn' = <<>>
    BY <1>6, <2>1, <2>2, EmptySeq
  <2> QED BY <2>1, <2>2, <2>3, <2>4, <2>5, <2>6
<1>8. ~gone /\ Command' = Command
  BY <1>1, <1>3, CommandSame DEF Course
<1>9. h = flow \/ (h = "show" /\ flow \in {"set", "scan"})
  BY <1>1, <1>7 DEF Course
\* Whoever waits for an answer waits for this one.
<1>10. /\ ctx => phase = "reading" \/ pc = "done"
       /\ phase = "got" => ret # "ok" /\ ~ctx
       /\ phase = "reading" /\ ctx =>
            h = Command /\ podIn' = <<>> /\ Without(Stream, {"echo"})
  <2>1. ctx => phase = "reading" \/ pc = "done"
    BY <1>1, <1>2, <1>3 DEF Piped, HostTypes
  <2>2. phase = "got" => ret # "ok" /\ ~ctx
    BY <1>1, <1>3 DEF Piped
  <2>3. phase = "reading" /\ ctx => podIn = <<Command>> /\ Without(Stream, {"echo"})
    BY <1>1, <1>3 DEF Piped
  <2>4. podIn = <<Command>> => h = Command /\ podIn' = <<>>
    <3> DEFINE c == Command
    <3> HIDE DEF c
    <3>1. podIn = <<c>> => Head(podIn) = c /\ Len(podIn) <= 1
      OBVIOUS
    <3> QED BY <1>5, <1>7, <3>1 DEF c
  <2> QED BY <2>1, <2>2, <2>3, <2>4
<1>11. \A K : "echo" \notin K =>
         /\ Without(e, K)
         /\ Without(Stream', K) <=> Without(Stream, K) /\ Without(todo', K)
  BY <1>4 DEF Without
<1>12. /\ pc \in {"before", "after", "poll", "has"} => Command = "show"
       /\ pc \in {"set", "bridge set"} => Command = "set"
       /\ pc = "one" => Command = flow
       /\ phase = "reading" => pc # "done"
  BY <1>1, <1>2, CommandIs DEF Course
<1>13. \A A, B : Without(Stream, A) => (NeverThen(e \o todo', A, B) => NeverThen(Stream', A, B))
  <2> DEFINE w == e \o todo'
  <2>1. w \in Seq(Tokens) /\ Stream' = Stream \o w
    BY <1>4
  <2> HIDE DEF w
  <2>2. \A A, B : Without(Stream, A) => NeverThen(Stream, A, B)
    BY DEF Without, NeverThen, Range
  <2>3. \A A, B : Without(Stream, A) /\ NeverThen(w, A, B) => NeverThen(Stream', A, B)
    BY <1>6, <2>1, <2>2, NeverParts
  <2> QED BY <2>3 DEF w
<1>14. \A A, B : NeverThen(todo', A, B) /\ (Without(e, A) \/ Without(todo', B)) => NeverThen(e \o todo', A, B)
  BY <1>4, <1>6, NeverParts
<1>15. \A A, B : Without(Stream, A) /\ EndsAt(e \o todo', A, B) => EndsAt(Stream', A, B)
  <2> DEFINE w == e \o todo'
  <2>1. w \in Seq(Tokens) /\ Stream' = Stream \o w
    BY <1>4
  <2> HIDE DEF w
  <2>2. \A A, B : Without(Stream, A) /\ EndsAt(w, A, B) => EndsAt(Stream', A, B)
    BY <1>6, <2>1, EndsParts
  <2> QED BY <2>2 DEF w
<1>16. /\ Without(todo', {"echo"})
       /\ h # "set" => Without(todo', SetKinds)
       /\ h # "show" => Without(todo', ShowKinds)
       /\ h # "boot" => Without(todo', {"entering", "leave"})
       /\ h = "boot" => todo' = <<Token("entering", ""), Token("leave", "")>>
       /\ h \notin {"set", "clear"} => UNCHANGED <<cred, wifi, shown>>
       /\ h = "clear" => cred' = "none" /\ wifi' = "down" /\ shown' = [ssid |-> "none", state |-> "down"]
       /\ h = "show" => NeverThen(todo', {"rssi"}, ShowKinds) /\ (bridge => ~Without(todo', {"via"}))
       /\ \A t \in Range(todo') :
            /\ t.k = "ssid" => t.v = shown.ssid
            /\ t.k = "state" => t.v = shown.state
            /\ t.k = "via" => bridge /\ t.v = "bridge"
  BY <1>3 DEF Answered
\* What becomes of the line set-wifi wrote.
<1>17. "set" \in Range(podIn) => cred = "old" /\ Without(Stream, SetKinds) /\ flow = "set"
  <2>1. "set" \in Range(podIn) => flow = "set"
    BY <1>1 DEF Course
  <2> QED BY <1>1, <2>1 DEF SetOnce
<1>18. "set" \in Range(podIn') => h # "set"
  <2> SUFFICES ASSUME "set" \in Range(podIn'), h = "set" PROVE FALSE
    OBVIOUS
  <2>1. \A i \in DOMAIN podIn : podIn[i] = "set" => i = Len(podIn)
    BY <1>1, <1>7 DEF SetOnce
  <2>2. PICK i \in DOMAIN podIn' : podIn'[i] = "set"
    BY DEF Range
  <2>3. Len(podIn) = 1
    BY <1>7, <2>1, <2>2
  <2> QED BY <1>7, <2>2, <2>3
<1>19. pc \in {"after", "poll"} \/ result \in {"joined", "not saved"} =>
         h = "show" /\ UNCHANGED <<cred, wifi, shown>>
  <2>1. pc \in {"after", "poll"} \/ result \in {"joined", "not saved"} =>
          flow = "set" /\ "set" \notin Range(podIn)
    BY <1>1 DEF Course, SetOnce
  <2> QED BY <1>7, <1>9, <1>16, <2>1
<1>20. Types'
  <2>1. joinSeen' \in BOOLEAN /\ ctx' \in BOOLEAN /\ grace' \in BOOLEAN
    BY <1>3, <1>6
  <2>2. HostTypes'
    BY <1>2, <1>3, <2>1, ZenonT(60) DEF HostTypes
  <2> QED BY <1>2, <1>3, <2>2 DEF Types, Counters
<1>21. Course'
  BY <1>1, <1>3, <1>7, <1>8 DEF Course
<1>22. InLine'
  <2>1. Len(podIn') <= Len(podIn) /\ Len(podIn') \in Nat
    BY <1>7
  <2>2. /\ Len(podIn) <= 2
        /\ phase = "call" /\ pc # "done" => Len(podIn) <= (IF pc = "set" THEN 1 ELSE 0)
        /\ phase # "call" => Len(podIn) <= (IF pc = "set" THEN 2 ELSE 1)
    BY <1>1 DEF InLine
  <2>3. /\ Len(podIn') <= 2
        /\ phase = "call" /\ pc # "done" => Len(podIn') <= (IF pc = "set" THEN 1 ELSE 0)
        /\ phase # "call" => Len(podIn') <= (IF pc = "set" THEN 2 ELSE 1)
    BY <1>7, <2>1, <2>2
  <2> QED BY <1>3, <2>3 DEF InLine
<1>23. FirstLine'
  <2>1. pc = "one" /\ phase = "call" => FALSE
    <3>1. pc = "one" /\ phase = "call" => Len(podIn) <= 0
      BY <1>1 DEF InLine
    <3> QED BY <1>7, <3>1
  <2>2. pc = "one" /\ phase # "call" => Len(podIn) <= 1
    BY <1>1 DEF InLine
  <2>3. pc = "one" => phase # "call" /\ podIn' = <<>>
    BY <1>7, <2>1, <2>2
  <2> QED BY <1>3, <2>3 DEF FirstLine
<1>24. Piped'
  <2>1. ~echoes => Without(Stream', {"echo"})
    BY <1>1, <1>4, <1>16 DEF Piped, Without
  <2>2. ASSUME phase = "reading", ctx
        PROVE  /\ NeverThen(Stream', {"echo"}, {"echo"})
               /\ \A t \in Range(Stream') : t.k = "echo" => t.v = Command
               /\ echoes => ~Without(acc \o out', {"echo"})
    <3>1. NeverThen(todo', {"echo"}, {"echo"})
      BY <1>16 DEF Without, NeverThen, Range
    <3>2. NeverThen(Stream', {"echo"}, {"echo"})
      BY <1>10, <1>13, <1>14, <1>16, <2>2, <3>1
    <3>3. \A t \in Range(Stream') : t.k = "echo" => t.v = Command
      BY <1>4, <1>10, <1>16, <2>2 DEF Without
    <3>4. echoes => ~Without(out', {"echo"})
      <4>1. Range(out \o e) = Range(out) \cup Range(e)
        BY <1>6, RangeConcatenation
      <4> QED BY <1>4, <4>1 DEF Without
    <3>5. Range(acc \o out') = Range(acc) \cup Range(out')
      BY <1>6, RangeConcatenation
    <3> QED BY <3>2, <3>3, <3>4, <3>5 DEF Without
  <2>3. ctx => phase = "reading" \/ pc = "done"
    BY <1>10
  <2>4. phase = "got" => ~ctx /\ ret # "ok"
    BY <1>10
  <2> QED BY <1>3, <1>6, <1>8, <1>10, <1>16, <2>1, <2>2, <2>3, <2>4 DEF Piped
<1>25. SetOnce'
  <2>1. ASSUME flow # "set"
        PROVE  "set" \notin Range(podIn') /\ Without(Stream', SetKinds)
    <3>1. "set" \notin Range(podIn) /\ Without(Stream, SetKinds)
      BY <1>1, <2>1 DEF SetOnce
    <3> QED BY <1>7, <1>11, <1>16, <3>1 DEF SetKinds
  <2>2. ASSUME pc = "before" \/ (pc \in {"set", "bridge set"} /\ phase = "call")
        PROVE  cred' = "old" /\ "set" \notin Range(podIn') /\ Without(Stream', SetKinds)
    <3>1. cred = "old" /\ "set" \notin Range(podIn) /\ Without(Stream, SetKinds) /\ flow = "set"
      BY <1>1, <2>2 DEF SetOnce, Course
    <3>2. h = "show"
      BY <1>7, <1>9, <3>1
    <3> QED BY <1>7, <1>11, <1>16, <3>1, <3>2 DEF SetKinds
  <2>3. ASSUME "set" \in Range(podIn')
        PROVE  /\ cred' = "old" /\ Without(Stream', SetKinds)
               /\ \A i \in DOMAIN podIn' : podIn'[i] = "set" => i = Len(podIn')
    <3>1. "set" \in Range(podIn) /\ h = "show"
      BY <1>7, <1>9, <1>17, <1>18, <2>3
    <3>2. \A i \in DOMAIN podIn : podIn[i] = "set" => i = Len(podIn)
      BY <1>1, <3>1 DEF SetOnce
    <3>3. \A i \in DOMAIN podIn' : podIn'[i] = "set" => i = Len(podIn')
      <4> SUFFICES ASSUME NEW i \in DOMAIN podIn', podIn'[i] = "set" PROVE i = Len(podIn')
        OBVIOUS
      <4>1. i + 1 = Len(podIn)
        BY <1>7, <3>2
      <4> QED BY <1>7, <4>1
    <3> QED BY <1>11, <1>16, <1>17, <3>1, <3>3 DEF SetKinds
  <2>4. (pc \in {"after", "poll"} \/ result \in {"joined", "not saved"}) => "set" \notin Range(podIn')
    BY <1>1, <1>7 DEF SetOnce
  <2> QED BY <1>3, <2>1, <2>2, <2>3, <2>4 DEF SetOnce
<1>26. Kept'
  <2>1. CASE h = "set"
    <3>1. cred = "old" /\ Without(Stream, SetKinds)
      BY <1>7, <1>17, <2>1
    <3>2. shown.ssid = "old"
      BY <1>1, <3>1 DEF Kept
    <3>3. \A K : K \subseteq SetKinds => (Without(Stream', K) <=> Without(todo', K))
      <4>1. "echo" \notin SetKinds
        BY DEF SetKinds
      <4> QED BY <1>11, <3>1, <4>1 DEF Without
    <3>4. /\ pc \notin {"after", "poll"} /\ result # "not saved"
      BY <1>19, <2>1
    <3>5. /\ Without(Stream', {"refused"}) <=> Without(todo', {"refused"})
          /\ Without(Stream', {"joined"}) <=> Without(todo', {"joined"})
          /\ Without(Stream', {"saved", "joined", "failed"}) <=> Without(todo', {"saved", "joined", "failed"})
          /\ Without(todo', Outcomes) => Without(todo', {"refused"}) /\ Without(todo', {"joined"})
          /\ Without(todo', {"saved", "joined", "failed"}) => Without(todo', {"joined"})
      <4>1. {"refused"} \subseteq SetKinds /\ {"joined"} \subseteq SetKinds
            /\ {"saved", "joined", "failed"} \subseteq SetKinds
        BY DEF SetKinds
      <4> QED BY <3>3, <4>1 DEF Without, Outcomes
    <3>6. CASE /\ Without(todo', {"saved", "joined", "failed"}) /\ ~Without(todo', Outcomes)
               /\ UNCHANGED <<cred, wifi, shown>>
      BY <1>1, <1>3, <3>1, <3>2, <3>4, <3>5, <3>6 DEF Kept
    <3>7. CASE /\ bridge /\ Without(todo', Outcomes)
               /\ cred' = want /\ wifi' = "joining" /\ shown' = shown
      BY <1>3, <3>2, <3>4, <3>5, <3>7 DEF Kept
    <3>8. CASE /\ ~bridge /\ Without(todo', {"refused"}) /\ ~Without(todo', Outcomes)
               /\ cred' = want /\ wifi' \in {"connected", "failed"}
               /\ shown' = [ssid |-> want, state |-> wifi']
               /\ Without(todo', {"joined"}) \/ wifi' = "connected"
      <4>1. shown'.ssid = want /\ shown'.state = wifi'
        BY <3>8
      <4> QED BY <1>3, <3>4, <3>5, <3>8, <4>1 DEF Kept
    <3> QED BY <1>3, <2>1, <3>6, <3>7, <3>8 DEF Answered
  <2>2. CASE h # "set"
    <3>1. \A K : K \subseteq SetKinds => (Without(Stream', K) <=> Without(Stream, K))
      <4>1. "echo" \notin SetKinds
        BY DEF SetKinds
      <4> QED BY <1>11, <1>16, <2>2, <4>1 DEF Without
    <3>2. /\ Without(Stream', {"refused"}) <=> Without(Stream, {"refused"})
          /\ Without(Stream', {"joined"}) <=> Without(Stream, {"joined"})
          /\ Without(Stream', {"saved", "joined", "failed"}) <=> Without(Stream, {"saved", "joined", "failed"})
      <4>1. {"refused"} \subseteq SetKinds /\ {"joined"} \subseteq SetKinds
            /\ {"saved", "joined", "failed"} \subseteq SetKinds
        BY DEF SetKinds
      <4> QED BY <3>1, <4>1
    <3>3. CASE h = "clear"
      <4>1. flow # "set"
        BY <1>9, <3>3
      <4>2. Without(Stream, SetKinds)
        BY <1>1, <4>1 DEF SetOnce
      <4>3. Without(Stream, {"refused"}) /\ Without(Stream, {"joined"})
        BY <4>2 DEF Without, SetKinds
      <4>4. pc # "after" /\ result # "not saved"
        BY <1>1, <4>1 DEF Course
      <4>5. cred' = "none" /\ shown'.ssid = "none"
        BY <1>16, <3>3
      <4> QED BY <1>3, <3>2, <4>3, <4>4, <4>5 DEF Kept
    <3>4. CASE h # "clear"
      <4>1. UNCHANGED <<cred, wifi, shown>>
        BY <1>16, <2>2, <3>4
      <4> QED BY <1>1, <1>3, <3>2, <4>1 DEF Kept
    <3> QED BY <3>3, <3>4
  <2> QED BY <2>1, <2>2
<1>27. ReadWhole'
  <2>1. ASSUME phase = "reading", ctx
        PROVE  /\ Command # "show" => Without(Stream', ShowKinds)
               /\ NeverThen(Stream', {"rssi"}, ShowKinds)
    <3>1. Without(Stream, ShowKinds) /\ h = Command
      BY <1>1, <1>3, <1>10, <2>1 DEF ReadWhole
    <3>2. Without(Stream, {"rssi"}) /\ "echo" \notin ShowKinds /\ Without(e, {"rssi"})
      BY <1>11, <3>1 DEF Without, ShowKinds
    <3>3. NeverThen(todo', {"rssi"}, ShowKinds)
      BY <1>16, <3>2 DEF Without, NeverThen, Range
    <3> QED BY <1>11, <1>13, <1>14, <1>16, <3>1, <3>2, <3>3
  <2>2. ctx => phase = "reading" \/ pc = "done"
    BY <1>10
  <2>3. phase = "reading" /\ ctx => podIn' = <<>>
    BY <1>10
  <2> QED BY <1>3, <1>8, <2>1, <2>2, <2>3 DEF ReadWhole
<1>28. Told'
  <2> SUFFICES ASSUME pc = "poll", phase = "reading", ctx, Bears("ssid", "new")',
                      Bears("state", "connected")'
               PROVE  cred' = "new" /\ wifi' = "connected"
    BY <1>3, <1>10 DEF Told
  <2>1. Without(Stream, ShowKinds)
    BY <1>1, <1>3 DEF ReadWhole
  <2>2. \A t \in Range(Stream') : t.k \in {"ssid", "state"} => t \in Range(todo')
    BY <1>4, <2>1 DEF Without, ShowKinds
  <2>3. shown.ssid = "new" /\ shown.state = "connected"
    BY <1>16, <2>2 DEF Bears
  <2>4. cred = "new" /\ wifi = "connected"
    BY <1>1, <2>3 DEF Kept
  <2> QED BY <1>19, <2>4
<1>29. AtTheEnd'
  <2>1. ASSUME echoes, phase = "reading", ctx, Command = "scan"
        PROVE  EndsAt(Stream', ScanEnds, {"prompt"})
    <3>1. pc = "one"
      BY <1>1, <1>2, <1>12, <2>1 DEF HostTypes, Course
    <3>2. Without(Stream, Kinds \ {"prompt"})
      BY <1>1, <1>3, <3>1 DEF FirstLine
    <3>3. Without(Stream, ScanEnds)
      BY <3>2 DEF Without, ScanEnds, Kinds
    <3>4. h = "scan"
      BY <1>10, <2>1
    <3>5. EndsAt(todo', ScanEnds, {"prompt"})
      BY <1>3, <3>4 DEF Answered
    <3>6. Without(e, ScanEnds)
      BY <1>11 DEF ScanEnds
    <3>7. EndsAt(e \o todo', ScanEnds, {"prompt"})
      BY <1>6, <3>5, <3>6, EndsParts
    <3> QED BY <1>15, <3>3, <3>7
  <2>2. ASSUME phase = "reading", ctx, Command # "scan"
        PROVE  EndsAt(Stream', {"echo"}, {"prompt"})
    <3>1. Plain(todo')
      BY <1>3, <1>10, <2>2 DEF Answered
    <3>2. Without(e, {"prompt"})
      BY <1>11
    <3>3. EndsAt(e \o todo', {"echo"}, {"prompt"})
      BY <1>6, <3>1, <3>2, PlainEnds
    <3> QED BY <1>10, <1>15, <2>2, <3>3
  <2>3. phase = "got" => ret # "ok"
    BY <1>10
  <2> QED BY <1>3, <1>8, <2>1, <2>2, <2>3 DEF AtTheEnd
<1>30. Carried'
  <2>1. ~bridge => Without(Stream', {"via"})
    BY <1>1, <1>11, <1>16 DEF Carried, Without
  <2>2. \A t \in Range(Stream') : t.k = "via" => t.v = "bridge"
    BY <1>1, <1>4, <1>16 DEF Carried
  <2>3. pc = "before" /\ phase = "reading" /\ ctx /\ bridge => ~Without(Stream', {"via"})
    BY <1>10, <1>11, <1>12, <1>16
  <2>4. phase = "got" => ret # "ok"
    BY <1>10
  <2>5. /\ ~bridge => pc \notin {"bridge set", "poll"}
        /\ bridge /\ lost = 0 =>
              /\ pc = "set" =>
                   /\ gone \/ ~ctx
                   /\ phase = "reading" => ~ctx
                   /\ phase = "got" => ret # "ok"
              /\ pc # "after"
    BY <1>1 DEF Carried
  <2>6. (ctx' <=> ctx) /\ (gone' <=> gone) /\ (bridge' <=> bridge)
    BY <1>3, <1>6
  <2>7. UNCHANGED <<pc, phase, ret, acc, lost>>
    BY <1>3
  <2>8. ~bridge' => Without(Stream', {"via"}) /\ pc' \notin {"bridge set", "poll"}
    BY <2>1, <2>5, <2>6, <2>7
  <2>9. bridge' /\ lost' = 0 =>
          /\ pc' = "before" /\ phase' = "reading" /\ ctx' /\ podIn' = <<>>
               => gone' \/ ~Without(Stream', {"via"})
          /\ pc' = "before" /\ phase' = "got" /\ ret' = "ok" => gone' \/ ~Without(acc', {"via"})
    BY <2>3, <2>4, <2>6, <2>7
  <2>10. bridge' /\ lost' = 0 =>
           /\ pc' = "set" =>
                /\ gone' \/ ~ctx'
                /\ phase' = "reading" => ~ctx'
                /\ phase' = "got" => ret' # "ok"
           /\ pc' # "after"
    BY <2>5, <2>6, <2>7
  <2> QED BY <2>2, <2>8, <2>9, <2>10 DEF Carried
<1>31. Joins'
  <2>1. ASSUME ~bridge, pc = "set", phase = "reading", ctx PROVE ~Without(Stream', Outcomes)
    <3>1. h = "set"
      BY <1>10, <1>12, <2>1
    <3>2. ~Without(todo', Outcomes)
      BY <1>3, <2>1, <3>1 DEF Answered
    <3> QED BY <1>11, <3>2 DEF Outcomes
  <2>2. echoes /\ ~bridge /\ lost = 0 /\ noise = 0 /\ pc = "after" => cred' = want /\ wifi' = "connected"
    BY <1>1, <1>8, <1>19 DEF Joins
  <2>3. phase = "got" => ret # "ok"
    BY <1>10
  <2> QED BY <1>3, <2>1, <2>2, <2>3 DEF Joins
<1>32. Joined'
  BY <1>1, <1>3, <1>19 DEF Joined
<1>33. Listed'
  <2> SUFFICES ASSUME flow = "scan", pc = "one" \/ result = "listed"
               PROVE  /\ \A t \in Range(Stream') : t.k = "net" => t.v \in scanned'
                      /\ NeverThen(Stream', {"done"}, {"net"})
                      /\ ~Without(Stream', {"done"}) => \A v \in scanned' : Bears("net", v)'
                      /\ result # "listed"
    BY <1>3 DEF Listed
  <2>1. result # "listed"
    BY <1>1, <1>3 DEF Listed
  <2>2. Without(Stream, Kinds \ {"prompt"})
    BY <1>1, <1>3, <2>1 DEF FirstLine
  <2>3. Without(Stream, {"net"}) /\ Without(Stream, {"done"}) /\ Without(e, {"net"}) /\ Without(e, {"done"})
    BY <1>11, <2>2 DEF Without, Kinds
  <2>4. /\ \A t \in Range(todo') : t.k = "net" => t.v \in scanned'
        /\ NeverThen(todo', {"done"}, {"net"})
        /\ ~Without(todo', {"done"}) => \A v \in scanned' : \E t \in Range(todo') : t.k = "net" /\ t.v = v
    <3>1. CASE h = "scan"
      BY <1>3, <3>1 DEF Answered
    <3>2. CASE h # "scan"
      <4>1. Without(todo', {"net", "done"})
        BY <1>3, <3>2 DEF Answered
      <4> QED BY <4>1 DEF Without, NeverThen, Range
    <3> QED BY <3>1, <3>2
  <2>5. NeverThen(Stream', {"done"}, {"net"})
    BY <1>13, <1>14, <2>3, <2>4
  <2>6. \A t \in Range(Stream') : t.k = "net" => t \in Range(todo')
    BY <1>4, <2>3 DEF Without
  <2>7. Without(Stream', {"done"}) <=> Without(todo', {"done"})
    BY <1>11, <2>3
  <2>8. Range(todo') \subseteq Range(Stream')
    BY <1>4
  <2> QED BY <2>1, <2>4, <2>5, <2>6, <2>7, <2>8 DEF Bears
<1>34. Powering'
  <2>1. /\ powered => powered'
        /\ (\E t \in Range(todo') : t.k = "efuse" /\ t.v = "on") => powered'
    BY <1>3 DEF Answered
  <2>2. \A t \in Range(Stream') : t.k = "efuse" => t \in Range(Stream) \/ t \in Range(todo')
    BY <1>4
  <2> QED BY <1>1, <1>3, <2>1, <2>2 DEF Powering, Bears
<1>35. Leaving'
  <2>1. ASSUME flow # "boot" PROVE Without(todo', {"leave"})
    <3>1. h # "boot"
      BY <1>9, <2>1
    <3> QED BY <1>16, <3>1 DEF Without
  <2>2. ASSUME flow = "boot"
        PROVE  /\ h = "boot" /\ podIn' = <<>> /\ Len(podIn') <= 1 /\ result # "booting"
               /\ Without(acc \o out', {"entering"})
    <3>1. h = "boot" /\ Len(podIn) <= 1
      BY <1>1, <1>9, <2>2 DEF Leaving
    <3>2. todo # <<Token("leave", "")>>
      BY <1>3
    <3>3. result # "booting" /\ Without(acc \o out, {"entering"})
      BY <1>1, <1>8, <2>2, <3>2 DEF Leaving
    <3>4. Range(out') = Range(out) \cup Range(e)
      BY <1>4, <1>6, RangeConcatenation
    <3>5. Range(acc \o out') = Range(acc) \cup Range(out') /\ Range(acc \o out) = Range(acc) \cup Range(out)
      BY <1>6, RangeConcatenation
    <3>6. Without(acc \o out', {"entering"})
      BY <1>4, <3>3, <3>4, <3>5 DEF Without
    <3> QED BY <1>7, <3>1, <3>3, <3>6
  <2>3. flow = "boot" => todo' = <<Token("entering", ""), Token("leave", "")>>
    BY <1>16, <2>2
  <2> QED BY <1>3, <2>1, <2>2, <2>3 DEF Leaving
<1> QED BY <1>20, <1>21, <1>22, <1>23, <1>24, <1>25, <1>26, <1>27, <1>28, <1>29, <1>30, <1>31, <1>32,
           <1>33, <1>34, <1>35 DEF ConsoleInv

-----------------------------------------------------------------------------

\* No line of a command has been sent, and the stream has a prompt at most.
LEMMA ConsoleStarts == ConsoleInit => ConsoleInv
<1> SUFFICES ASSUME ConsoleInit PROVE ConsoleInv
  OBVIOUS
<1>1. /\ flow \in PodLines /\ want \in {"old", "new"} /\ wired \in BOOLEAN
  BY SerialConsoleAssumption DEF ConsoleInit, PodLines
<1>2. /\ pc = (IF flow = "set" THEN "before" ELSE "one") /\ result = "none"
      /\ joinSeen = FALSE /\ phase = "call" /\ ret = "none" /\ acc = <<>> /\ grace = FALSE
      /\ ctx = TRUE /\ polls = 0 /\ echoes \in BOOLEAN /\ podIn = <<>> /\ todo = <<>>
      /\ bridge \in BOOLEAN /\ cred = "old" /\ wifi \in {"down", "connected"}
      /\ shown = [ssid |-> "old", state |-> wifi]
      /\ powered = FALSE /\ gone = FALSE /\ scanned = {} /\ noise = 0 /\ lost = 0
      /\ out \in {<<>>, <<Prompt>>}
  BY DEF ConsoleInit
<1>3. \A S : <<>> \in Seq(S)
  OBVIOUS
<1>4. Range(<<>>) = {} /\ Len(<<>>) = 0 /\ (\A K : Without(<<>>, K))
  BY DEF Range, Without
<1>5. out \in Seq(Tokens) /\ \A t \in Range(out) : t.k = "prompt"
  <2>1. CASE out = <<>>
    BY <1>3, <1>4, <2>1
  <2>2. CASE out = <<Prompt>>
    BY <2>2, TupleIs, TokenIs
  <2> QED BY <1>2, <2>1, <2>2
<1>6. StreamTypes
  BY <1>2, <1>3, <1>5 DEF StreamTypes
<1>7. Stream \in Seq(Tokens) /\ Range(Stream) = Range(acc) \cup Range(out) \cup Range(todo)
  BY <1>6, StreamIs DEF Stream, StreamTypes
<1>8. /\ \A t \in Range(Stream) : t.k = "prompt"
      /\ \A K : "prompt" \notin K => Without(Stream, K) /\ Without(out, K) /\ Without(todo, K)
  BY <1>2, <1>4, <1>5, <1>7 DEF Without
<1>9. Without(acc \o out, {"entering"})
  BY <1>6, <1>8, <1>2, <1>4, StreamIs DEF StreamTypes
<1>10. HostTypes /\ PodTypes
  BY <1>1, <1>2 DEF HostTypes, PodTypes, WifiStates
<1>11. Counters
  <2>1. MaxPolls \in Nat /\ MaxNoise \in Nat /\ MaxLost \in Nat
    BY SerialConsoleAssumption
  <2> QED BY <1>2, <2>1 DEF Counters
<1>12. Course
  BY <1>2, <1>4 DEF Course
<1>13. InLine /\ FirstLine
  <2>1. "prompt" \notin Kinds \ {"prompt"}
    OBVIOUS
  <2> QED BY <1>2, <1>4, <1>8, <2>1 DEF InLine, FirstLine
<1>14. Piped
  BY <1>2, <1>8 DEF Piped
<1>15. SetOnce
  BY <1>2, <1>4, <1>8 DEF SetOnce, SetKinds
<1>16. Kept
  BY <1>2, <1>8 DEF Kept
<1>17. ReadWhole
  BY <1>2, <1>8 DEF ReadWhole, ShowKinds
<1>18. Told /\ AtTheEnd /\ Joins /\ Joined
  BY <1>2 DEF Told, AtTheEnd, Joins, Joined
<1>19. Carried
  BY <1>2, <1>8 DEF Carried
<1>20. Listed
  <2>1. NeverThen(Stream, {"done"}, {"net"}) /\ Without(Stream, {"done"})
    BY <1>8 DEF NeverThen, Without, Range
  <2> QED BY <1>2, <1>8, <2>1 DEF Listed
<1>21. Powering
  BY <1>2, <1>8 DEF Powering, Bears
<1>22. Leaving
  BY <1>2, <1>4, <1>8, <1>9 DEF Leaving
<1> QED BY <1>6, <1>10, <1>11, <1>12, <1>13, <1>14, <1>15, <1>16, <1>17, <1>18, <1>19, <1>20, <1>21, <1>22
        DEF ConsoleInv, Types

\* Every step of the console keeps the invariant, one lemma for each kind of step.
LEMMA ConsoleStep == ConsoleInv /\ [ConsoleNext]_consoleVars => ConsoleInv'
<1> SUFFICES ASSUME ConsoleInv, [ConsoleNext]_consoleVars PROVE ConsoleInv'
  OBVIOUS
<1>1. ASSUME UNCHANGED consoleVars PROVE ConsoleInv'
  <2>1. UNCHANGED <<flow, want, pc, result, joinSeen, polls, phase, ret, acc, grace, ctx, out, podIn,
                    todo, bridge, wired, cred, wifi, shown, powered, scanned, echoes, gone, noise,
                    lost>>
    BY <1>1 DEF consoleVars, flowv, readv, podv
  <2>2. Stream' = Stream /\ Command' = Command
    BY <2>1, SameIs, CommandSame
  <2>3. /\ Types /\ Course /\ InLine /\ FirstLine /\ Piped /\ SetOnce /\ Kept /\ ReadWhole /\ Told
        /\ AtTheEnd /\ Carried /\ Joins /\ Joined /\ Listed /\ Powering /\ Leaving
    BY DEF ConsoleInv
  <2>4. Types'
    <3>1. HostTypes /\ PodTypes
      BY <2>3 DEF Types
    <3>2. joinSeen' \in BOOLEAN /\ grace' \in BOOLEAN /\ ctx' \in BOOLEAN
      BY <2>1, <3>1 DEF HostTypes
    <3>3. HostTypes'
      BY <2>1, <3>1, <3>2, ZenonT(60) DEF HostTypes
    <3>4. PodTypes'
      BY <2>1, <3>1 DEF PodTypes
    <3> QED BY <2>1, <2>3, <3>3, <3>4 DEF Types, Counters, StreamTypes
  <2>5. Course' /\ InLine' /\ FirstLine'
    BY <2>1, <2>2, <2>3, ZenonT(60) DEF Course, InLine, FirstLine
  <2>6. Piped' /\ SetOnce'
    BY <2>1, <2>2, <2>3 DEF Piped, SetOnce
  <2>10. Kept'
    BY <2>1, <2>2, <2>3 DEF Kept
  <2>11. ReadWhole'
    BY <2>1, <2>2, <2>3 DEF ReadWhole
  <2>7. Told' /\ AtTheEnd'
    BY <2>1, <2>2, <2>3 DEF Told, AtTheEnd, Bears
  <2>8. Carried' /\ Joins' /\ Joined'
    BY <2>1, <2>2, <2>3 DEF Carried, Joins, Joined
  <2>9. Listed' /\ Powering' /\ Leaving'
    BY <2>1, <2>2, <2>3 DEF Listed, Powering, Leaving, Bears
  <2> QED BY <2>4, <2>5, <2>6, <2>7, <2>8, <2>9, <2>10, <2>11 DEF ConsoleInv
<1>2. CASE SendLine
  BY <1>2, SendKeeps
<1>3. CASE Read
  BY <1>3, ReadKeeps
<1>4. CASE EchoGraceOver \/ ReplyGraceOver \/ ReadFails
  BY <1>4, EndKeeps
<1>5. CASE Verdict
  BY <1>5, VerdictKeeps
<1>6. CASE PodTakes
  BY <1>6, TakesKeeps
<1>7. CASE PodPrints
  BY <1>7, PrintKeeps
<1>8. CASE PodDropsLine
  BY <1>8, DropKeeps
<1>9. CASE Noise
  BY <1>9, NoiseKeeps
<1>10. CASE Unplug
  BY <1>10, UnplugKeeps
<1>11. CASE BridgeJoins \/ BridgeTells
  BY <1>11, BridgeKeeps
<1>12. CASE CtxExpires
  BY <1>12, CtxKeeps
<1>13. CASE Finished
  BY <1>1, <1>13 DEF Finished
<1> QED BY <1>1, <1>2, <1>3, <1>4, <1>5, <1>6, <1>7, <1>8, <1>9, <1>10, <1>11, <1>12, <1>13
        DEF ConsoleNext, Host, Pod, Verdict

\* The invariant holds of every run of the console, whatever its bounds.
THEOREM ConsoleInvariant == ConsoleSpec => []ConsoleInv
<1> QED BY ConsoleStarts, ConsoleStep, PTL DEF ConsoleSpec

\* Nothing a command or the pod keeps leaves its type, and at most two lines wait for
\* the pod: one that timed out and the one that follows it.
THEOREM ConsoleTypes == ConsoleSpec => []ConsoleTypeOK
<1>1. ConsoleInv => ConsoleTypeOK
  <2> SUFFICES ASSUME ConsoleInv PROVE ConsoleTypeOK
    OBVIOUS
  <2>1. HostTypes /\ PodTypes /\ Counters /\ StreamTypes /\ InLine
    BY DEF ConsoleInv, Types
  <2>2. \A s \in {acc, out, todo} : \A i \in DOMAIN s : s[i].k \in Kinds
    <3> SUFFICES ASSUME NEW s \in Seq(Tokens), NEW i \in DOMAIN s PROVE s[i].k \in Kinds
      BY <2>1 DEF StreamTypes
    <3>1. s[i] \in Tokens
      OBVIOUS
    <3> QED BY <3>1 DEF Tokens
  <2>3. {joinSeen, grace, ctx, echoes, bridge, wired, powered, gone} \subseteq BOOLEAN
    BY <2>1 DEF HostTypes, PodTypes
  <2>4. polls <= MaxPolls /\ noise <= MaxNoise /\ lost <= MaxLost
    BY <2>1, SerialConsoleAssumption DEF Counters
  <2> QED BY <2>1, <2>2, <2>3, <2>4 DEF ConsoleTypeOK, HostTypes, PodTypes, InLine, WifiStates
<1> QED BY <1>1, ConsoleInvariant, PTL

\* sendCommandWait: on a console that echoes, and while no log line interferes, a
\* command that returned has read its reply to the end, whatever was unread before it.
THEOREM ConsoleReadsToTheEnd == ConsoleSpec => []ReadToItsEnd
<1>1. ConsoleInv => ReadToItsEnd
  BY DEF ConsoleInv, ReadToItsEnd, AtTheEnd, Piped
<1> QED BY <1>1, ConsoleInvariant, PTL

\* set-wifi, scan-wifi, bootsel, dfu and flash's power command: on a console that
\* echoes, what is reported is what the pod did.
THEOREM ConsoleReportIsTrue == ConsoleSpec => []ReportIsTrue
<1>1. ConsoleInv => ReportIsTrue
  <2> SUFFICES ASSUME ConsoleInv, echoes PROVE ReportIsTrue
    BY DEF ReportIsTrue
  <2>1. /\ Types /\ Course /\ Kept /\ Joined /\ Listed /\ Powering /\ Leaving
    BY DEF ConsoleInv
  <2>2. result = "joined" /\ lost = 0 /\ (IF bridge THEN want = "new" ELSE noise = 0)
          => cred = want /\ wifi = "connected"
    BY <2>1 DEF Joined
  <2>3. result = "not saved" => cred = "old"
    BY <2>1 DEF Kept
  <2>4. result = "listed" =>
          LET nets == {acc[i].v : i \in At(acc, "net")}
          IN  nets \subseteq scanned /\ (lost = 0 => nets = scanned)
    <3> SUFFICES ASSUME result = "listed"
                 PROVE  LET nets == {acc[i].v : i \in At(acc, "net")}
                        IN  nets \subseteq scanned /\ (lost = 0 => nets = scanned)
      OBVIOUS
    <3>1. acc \in Seq(Tokens) /\ out \in Seq(Tokens) /\ todo \in Seq(Tokens) /\ Range(acc) \subseteq Range(Stream)
      BY <2>1, StreamIs DEF Types, StreamTypes, Stream
    <3>2. /\ \A t \in Range(Stream) : t.k = "net" => t.v \in scanned
          /\ NeverThen(Stream, {"done"}, {"net"}) /\ ~Without(acc, {"done"})
          /\ lost = 0 /\ ~Without(Stream, {"done"}) => \A v \in scanned : Bears("net", v)
      BY <2>1 DEF Listed, Course
    <3>3. ~Without(Stream, {"done"}) /\ Without(out, {"net"}) /\ Without(todo, {"net"})
      BY <3>1, <3>2, StreamIs DEF Stream
    <3>4. lost = 0 => \A v \in scanned : \E t \in Range(acc) : t.k = "net" /\ t.v = v
      <4>1. Range(Stream) = Range(acc) \cup Range(out) \cup Range(todo)
        BY <3>1, StreamIs DEF Stream
      <4> QED BY <3>2, <3>3, <4>1 DEF Bears, Without
    <3>5. \A i \in At(acc, "net") : acc[i] \in Range(acc) /\ acc[i].k = "net"
      BY DEF At, Range
    <3>6. \A t \in Range(acc) : t.k = "net" => \E i \in At(acc, "net") : t = acc[i]
      BY DEF At, Range
    <3> QED BY <3>1, <3>2, <3>4, <3>5, <3>6
  <2>5. result = "powered" => powered
    BY <2>1 DEF Powering
  <2>6. result = "booting" => gone \/ (todo # <<>> /\ Head(todo).k = "leave")
    <3>1. result = "booting" => gone \/ todo = <<Token("leave", "")>>
      BY <2>1 DEF Course, Leaving
    <3> DEFINE l == Token("leave", "")
    <3>2. l.k = "leave"
      BY TokensAre
    <3>3. result = "booting" => gone \/ todo = <<l>>
      BY <3>1
    <3> HIDE DEF l
    <3>4. <<l>> # <<>> /\ Head(<<l>>) = l
      OBVIOUS
    <3> QED BY <3>2, <3>3, <3>4
  <2> QED BY <2>2, <2>3, <2>4, <2>5, <2>6 DEF ReportIsTrue
<1> QED BY <1>1, ConsoleInvariant, PTL
=============================================================================

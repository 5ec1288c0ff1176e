------------------------- MODULE FlashBridge_proofs -------------------------
(***************************************************************************)
(* Proofs about FlashBridge, for any number of packets, any window and any *)
(* set of transports, stalling or not: its type correctness, that nothing  *)
(* of flash runs on when it returns, and that its verdict is true.         *)
(***************************************************************************)
EXTENDS FlashBridge, TLAPS

Early   == {"check", "server", "power", "ack", "args", "listen", "start"}
Waiting == {"select", "rewait", "drain"}
Closing == {"closepod", "join", "done"}

\* What there is of the run at each place main can be: before the start no process
\* and no bridge, then the process, then the bridge; in the deferred calls main has
\* waited for the process if there was one.
Shape ==
  /\ pc \in Early => oc = "no"
  /\ pc \in Early \ {"start"} => ~listener
  /\ pc \in Early \cup Waiting =>
       ocConn = "none" /\ toPod = "no" /\ fromPod = "no" /\ ~exited
  /\ pc = "bridge" => ocConn = "open" /\ ~exited
  /\ waiter = "told" => oc = "exited"
  /\ pc \in Closing \cup {"drain"} => oc # "running"
  /\ pc \in Closing =>
       IF exited THEN ocConn = "closed" /\ oc = "exited"
                 ELSE ocConn = "none" /\ toPod = "no" /\ fromPod = "no"
  /\ pc \in {"check", "server", "power"} => conn = "none"
  /\ pc \in {"ack", "args", "listen", "start", "bridge"} \cup Waiting =>
       conn \in {"open", "cut"}
  /\ pc = "join" => conn = "closed"

\* Why OpenOCD exited and the bridge ended, which is what the verdict is read from.
Cause ==
  /\ oc # "exited" => ocExit = "none"
  /\ ocExit = "ok" /\ dialled => sent = Packets
  /\ accept = "got" \/ pc = "bridge" \/ exited => dialled
  /\ conn = "cut" => cutOnce
  /\ podDropped => fromPod = "done"
  /\ podDropped \/ (fromPod = "ended" /\ ~exited) =>
       Dropped
  /\ (conn = "cut" \/ badFrame) /\ ~exited => lostAt # "not"
  /\ lostAt = "unheard" => oc = "exited"
  /\ (oc = "running" /\ ~runCtx) \/ ocExit = "killed" =>
       ~ctx \/ (podDropped /\ lostAt = "before")
  /\ pc # "done" => result \notin {"success", "unreachable", "dropped"}

IInv == TypeOK /\ Shape /\ NothingLeftRunning /\ Cause /\ VerdictIsTrue

\* No step of flash, of its goroutines, of OpenOCD or of the pod leaves the types.
LEMMA PlacesStep == Places /\ [Next]_vars => Places'
<1> SUFFICES ASSUME Places, [Next]_vars PROVE Places'
  OBVIOUS
<1> USE FlashBridgeAssumption DEF Places, Results, mainv, podv, procv, startv, bridgev,
  packets, past
<1>1. CASE Check
  BY <1>1 DEF Check, Refused, ServerSide, OnServer, Options, BuildReady, OpenOCDReady
<1>2. CASE FlashOnServer
  BY <1>2 DEF FlashOnServer
<1>3. CASE StartDAP
  BY <1>3 DEF StartDAP
<1>4. CASE Armed
  BY <1>4 DEF Armed
<1>5. CASE NotArmed
  BY <1>5 DEF NotArmed
<1>6. CASE BuildArgs
  BY <1>6 DEF BuildArgs, Return
<1>7. CASE Listen
  BY <1>7 DEF Listen, Return
<1>8. CASE Start
  BY <1>8 DEF Start, Return
<1>9. CASE OpenOCDConnected
  BY <1>9 DEF OpenOCDConnected
<1>10. CASE AcceptFailed
  BY <1>10 DEF AcceptFailed
<1>11. CASE Rewaited
  BY <1>11 DEF Rewaited, Return
<1>12. CASE ExitedEarly
  BY <1>12 DEF ExitedEarly
<1>13. CASE Drained
  BY <1>13 DEF Drained, Return
<1>14. CASE OpenOCDExited
  BY <1>14 DEF OpenOCDExited
<1>15. CASE ClosePod
  BY <1>15 DEF ClosePod
<1>16. CASE Join
  BY <1>16 DEF Join, Verdict
<1>17. CASE ToRead
  BY <1>17 DEF ToRead
<1>18. CASE ToWrite
  BY <1>18 DEF ToWrite
<1>19. CASE ToEnds
  BY <1>19 DEF ToEnds
<1>20. CASE FromRead
  BY <1>20 DEF FromRead
<1>21. CASE FromWrite
  BY <1>21 DEF FromWrite
<1>22. CASE FromEnds
  BY <1>22 DEF FromEnds
<1>23. CASE PodSideEnded
  BY <1>23 DEF PodSideEnded
<1>24. CASE Waited
  BY <1>24 DEF Waited
<1>25. CASE Dial
  BY <1>25 DEF Dial
<1>26. CASE Send
  BY <1>26 DEF Send
<1>27. CASE PodArms
  BY <1>27 DEF PodArms
<1>28. CASE PodAnswers
  BY <1>28 DEF PodAnswers
<1>29. CASE PodLeaves
  BY <1>29 DEF PodLeaves
<1>30. CASE PodStalls
  BY <1>30 DEF PodStalls
<1>31. CASE Cut
  BY <1>31 DEF Cut, LoseIt
<1>32. CASE PodGarbles
  BY <1>32 DEF PodGarbles, LoseIt
<1>33. CASE CtxDone
  BY <1>33 DEF CtxDone
<1>34. ASSUME NEW r \in {"got", "err"}, Accept(r) PROVE Places'
  BY <1>34 DEF Accept
<1>35. ASSUME NEW e \in {"ok", "err", "killed"}, Exit(e) PROVE Places'
  BY <1>35 DEF Exit
<1>36. CASE UNCHANGED vars
  BY <1>36 DEF vars
<1> QED
  BY <1>1, <1>2, <1>3, <1>4, <1>5, <1>6, <1>7, <1>8, <1>9, <1>10, <1>11, <1>12,
     <1>13, <1>14, <1>15, <1>16, <1>17, <1>18, <1>19, <1>20, <1>21, <1>22,
     <1>23, <1>24, <1>25, <1>26, <1>27, <1>28, <1>29, <1>30, <1>31, <1>32,
     <1>33, <1>34, <1>35, <1>36
  DEF Next, Main, Copies, OpenOCD, Pod, Finished

\* The same for what is yes or no.
LEMMA FlagsStep == Flags /\ [Next]_vars => Flags'
<1> SUFFICES ASSUME Flags, [Next]_vars PROVE Flags'
  OBVIOUS
<1> USE FlashBridgeAssumption DEF Flags, mainv, podv, procv, startv, bridgev, packets,
  past
<1>1. CASE Check
  BY <1>1 DEF Check, Refused, ServerSide, OnServer, Options, BuildReady, OpenOCDReady,
    MainFlags, PodFlags, StartFlags, BridgeFlags
<1>2. CASE FlashOnServer
  BY <1>2 DEF FlashOnServer, MainFlags, PodFlags, StartFlags, BridgeFlags
<1>3. CASE StartDAP
  <2>1. MainFlags'
    BY <1>3 DEF MainFlags, StartDAP
  <2>2. PodFlags'
    BY <1>3 DEF PodFlags, StartDAP
  <2>3. StartFlags'
    BY <1>3 DEF StartFlags, StartDAP
  <2>4. BridgeFlags'
    BY <1>3 DEF BridgeFlags, StartDAP
  <2> QED BY <2>1, <2>2, <2>3, <2>4
<1>4. CASE Armed
  BY <1>4 DEF Armed, MainFlags, PodFlags, StartFlags, BridgeFlags
<1>5. CASE NotArmed
  BY <1>5 DEF NotArmed, MainFlags, PodFlags, StartFlags, BridgeFlags
<1>6. CASE BuildArgs
  <2>1. MainFlags'
    BY <1>6 DEF MainFlags, BuildArgs, Return
  <2>2. PodFlags'
    BY <1>6 DEF PodFlags, BuildArgs, Return
  <2>3. StartFlags'
    BY <1>6 DEF StartFlags, BuildArgs, Return
  <2>4. BridgeFlags'
    BY <1>6 DEF BridgeFlags, BuildArgs, Return
  <2> QED BY <2>1, <2>2, <2>3, <2>4
<1>7. CASE Listen
  <2>1. MainFlags'
    BY <1>7 DEF MainFlags, Listen, Return
  <2>2. PodFlags'
    BY <1>7 DEF PodFlags, Listen, Return
  <2>3. StartFlags'
    BY <1>7 DEF StartFlags, Listen, Return
  <2>4. BridgeFlags'
    BY <1>7 DEF BridgeFlags, Listen, Return
  <2> QED BY <2>1, <2>2, <2>3, <2>4
<1>8. CASE Start
  <2>1. MainFlags'
    BY <1>8 DEF MainFlags, Start, Return
  <2>2. PodFlags'
    BY <1>8 DEF PodFlags, Start, Return
  <2>3. StartFlags'
    BY <1>8 DEF StartFlags, Start, Return
  <2>4. BridgeFlags'
    BY <1>8 DEF BridgeFlags, Start, Return
  <2> QED BY <2>1, <2>2, <2>3, <2>4
<1>9. CASE OpenOCDConnected
  BY <1>9 DEF OpenOCDConnected, MainFlags, PodFlags, StartFlags, BridgeFlags
<1>10. CASE AcceptFailed
  BY <1>10 DEF AcceptFailed, MainFlags, PodFlags, StartFlags, BridgeFlags
<1>11. CASE Rewaited
  <2>1. MainFlags'
    BY <1>11 DEF MainFlags, Rewaited, Return
  <2>2. PodFlags'
    BY <1>11 DEF PodFlags, Rewaited, Return
  <2>3. StartFlags'
    BY <1>11 DEF StartFlags, Rewaited, Return
  <2>4. BridgeFlags'
    BY <1>11 DEF BridgeFlags, Rewaited, Return
  <2> QED BY <2>1, <2>2, <2>3, <2>4
<1>12. CASE ExitedEarly
  <2>1. MainFlags'
    BY <1>12 DEF MainFlags, ExitedEarly
  <2>2. PodFlags'
    BY <1>12 DEF PodFlags, ExitedEarly
  <2>3. StartFlags'
    BY <1>12 DEF StartFlags, ExitedEarly
  <2>4. BridgeFlags'
    BY <1>12 DEF BridgeFlags, ExitedEarly
  <2> QED BY <2>1, <2>2, <2>3, <2>4
<1>13. CASE Drained
  <2>1. MainFlags'
    BY <1>13 DEF MainFlags, Drained, Return
  <2>2. PodFlags'
    BY <1>13 DEF PodFlags, Drained, Return
  <2>3. StartFlags'
    BY <1>13 DEF StartFlags, Drained, Return
  <2>4. BridgeFlags'
    BY <1>13 DEF BridgeFlags, Drained, Return
  <2> QED BY <2>1, <2>2, <2>3, <2>4
<1>14. CASE OpenOCDExited
  BY <1>14 DEF OpenOCDExited, MainFlags, PodFlags, StartFlags, BridgeFlags
<1>15. CASE ClosePod
  <2>1. MainFlags'
    BY <1>15 DEF MainFlags, ClosePod
  <2>2. PodFlags'
    BY <1>15 DEF PodFlags, ClosePod
  <2>3. StartFlags'
    BY <1>15 DEF StartFlags, ClosePod
  <2>4. BridgeFlags'
    BY <1>15 DEF BridgeFlags, ClosePod
  <2> QED BY <2>1, <2>2, <2>3, <2>4
<1>16. CASE Join
  <2>1. MainFlags'
    BY <1>16 DEF MainFlags, Join, Verdict
  <2>2. PodFlags'
    BY <1>16 DEF PodFlags, Join, Verdict
  <2>3. StartFlags'
    BY <1>16 DEF StartFlags, Join, Verdict
  <2>4. BridgeFlags'
    BY <1>16 DEF BridgeFlags, Join, Verdict
  <2> QED BY <2>1, <2>2, <2>3, <2>4
<1>17. CASE ToRead
  BY <1>17 DEF ToRead, MainFlags, PodFlags, StartFlags, BridgeFlags
<1>18. CASE ToWrite
  BY <1>18 DEF ToWrite, MainFlags, PodFlags, StartFlags, BridgeFlags
<1>19. CASE ToEnds
  BY <1>19 DEF ToEnds, MainFlags, PodFlags, StartFlags, BridgeFlags
<1>20. CASE FromRead
  BY <1>20 DEF FromRead, MainFlags, PodFlags, StartFlags, BridgeFlags
<1>21. CASE FromWrite
  BY <1>21 DEF FromWrite, MainFlags, PodFlags, StartFlags, BridgeFlags
<1>22. CASE FromEnds
  BY <1>22 DEF FromEnds, MainFlags, PodFlags, StartFlags, BridgeFlags
<1>23. CASE PodSideEnded
  BY <1>23 DEF PodSideEnded, MainFlags, PodFlags, StartFlags, BridgeFlags
<1>24. CASE Waited
  BY <1>24 DEF Waited, MainFlags, PodFlags, StartFlags, BridgeFlags
<1>25. CASE Dial
  BY <1>25 DEF Dial, MainFlags, PodFlags, StartFlags, BridgeFlags
<1>26. CASE Send
  BY <1>26 DEF Send, MainFlags, PodFlags, StartFlags, BridgeFlags
<1>27. CASE PodArms
  <2>1. MainFlags'
    BY <1>27 DEF MainFlags, PodArms
  <2>2. PodFlags'
    BY <1>27 DEF PodFlags, PodArms
  <2>3. StartFlags'
    BY <1>27 DEF StartFlags, PodArms
  <2>4. BridgeFlags'
    BY <1>27 DEF BridgeFlags, PodArms
  <2> QED BY <2>1, <2>2, <2>3, <2>4
<1>28. CASE PodAnswers
  BY <1>28 DEF PodAnswers, MainFlags, PodFlags, StartFlags, BridgeFlags
<1>29. CASE PodLeaves
  BY <1>29 DEF PodLeaves, MainFlags, PodFlags, StartFlags, BridgeFlags
<1>30. CASE PodStalls
  BY <1>30 DEF PodStalls, MainFlags, PodFlags, StartFlags, BridgeFlags
<1>31. CASE Cut
  BY <1>31 DEF Cut, MainFlags, PodFlags, StartFlags, BridgeFlags
<1>32. CASE PodGarbles
  BY <1>32 DEF PodGarbles, MainFlags, PodFlags, StartFlags, BridgeFlags
<1>33. CASE CtxDone
  <2>1. MainFlags'
    BY <1>33 DEF MainFlags, CtxDone
  <2>2. PodFlags'
    BY <1>33 DEF PodFlags, CtxDone
  <2>3. StartFlags'
    BY <1>33 DEF StartFlags, CtxDone
  <2>4. BridgeFlags'
    BY <1>33 DEF BridgeFlags, CtxDone
  <2> QED BY <2>1, <2>2, <2>3, <2>4
<1>34. ASSUME NEW r \in {"got", "err"}, Accept(r) PROVE Flags'
  BY <1>34 DEF Accept, MainFlags, PodFlags, StartFlags, BridgeFlags
<1>35. ASSUME NEW e \in {"ok", "err", "killed"}, Exit(e) PROVE Flags'
  <2>1. MainFlags'
    BY <1>35 DEF MainFlags, Exit
  <2>2. PodFlags'
    BY <1>35 DEF PodFlags, Exit
  <2>3. StartFlags'
    BY <1>35 DEF StartFlags, Exit
  <2>4. BridgeFlags'
    BY <1>35 DEF BridgeFlags, Exit
  <2> QED BY <2>1, <2>2, <2>3, <2>4
<1>36. CASE UNCHANGED vars
  BY <1>36 DEF vars, MainFlags, PodFlags, StartFlags, BridgeFlags
<1> QED
  BY <1>1, <1>2, <1>3, <1>4, <1>5, <1>6, <1>7, <1>8, <1>9, <1>10, <1>11, <1>12,
     <1>13, <1>14, <1>15, <1>16, <1>17, <1>18, <1>19, <1>20, <1>21, <1>22,
     <1>23, <1>24, <1>25, <1>26, <1>27, <1>28, <1>29, <1>30, <1>31, <1>32,
     <1>33, <1>34, <1>35, <1>36
  DEF Next, Main, Copies, OpenOCD, Pod, Finished

\* A packet is passed on once and never before it was received.
LEMMA OrderStep == TypeOK /\ [Next]_vars => Order'
<1> SUFFICES ASSUME TypeOK, [Next]_vars PROVE Order'
  OBVIOUS
<1> USE FlashBridgeAssumption DEF TypeOK, Places, Order, mainv, podv, procv, startv,
  bridgev, packets, past
<1>1. CASE Check
  BY <1>1 DEF Check, Refused, ServerSide, OnServer, Options, BuildReady, OpenOCDReady
<1>2. CASE FlashOnServer
  BY <1>2 DEF FlashOnServer
<1>3. CASE StartDAP
  BY <1>3 DEF StartDAP
<1>4. CASE Armed
  BY <1>4 DEF Armed
<1>5. CASE NotArmed
  BY <1>5 DEF NotArmed
<1>6. CASE BuildArgs
  BY <1>6 DEF BuildArgs, Return
<1>7. CASE Listen
  BY <1>7 DEF Listen, Return
<1>8. CASE Start
  BY <1>8 DEF Start, Return
<1>9. CASE OpenOCDConnected
  BY <1>9 DEF OpenOCDConnected
<1>10. CASE AcceptFailed
  BY <1>10 DEF AcceptFailed
<1>11. CASE Rewaited
  BY <1>11 DEF Rewaited, Return
<1>12. CASE ExitedEarly
  BY <1>12 DEF ExitedEarly
<1>13. CASE Drained
  BY <1>13 DEF Drained, Return
<1>14. CASE OpenOCDExited
  BY <1>14 DEF OpenOCDExited
<1>15. CASE ClosePod
  BY <1>15 DEF ClosePod
<1>16. CASE Join
  BY <1>16 DEF Join, Verdict
<1>17. CASE ToRead
  BY <1>17 DEF ToRead
<1>18. CASE ToWrite
  BY <1>18 DEF ToWrite
<1>19. CASE ToEnds
  BY <1>19 DEF ToEnds
<1>20. CASE FromRead
  BY <1>20 DEF FromRead
<1>21. CASE FromWrite
  BY <1>21 DEF FromWrite
<1>22. CASE FromEnds
  BY <1>22 DEF FromEnds
<1>23. CASE PodSideEnded
  BY <1>23 DEF PodSideEnded
<1>24. CASE Waited
  BY <1>24 DEF Waited
<1>25. CASE Dial
  BY <1>25 DEF Dial
<1>26. CASE Send
  BY <1>26 DEF Send
<1>27. CASE PodArms
  BY <1>27 DEF PodArms
<1>28. CASE PodAnswers
  BY <1>28 DEF PodAnswers
<1>29. CASE PodLeaves
  BY <1>29 DEF PodLeaves
<1>30. CASE PodStalls
  BY <1>30 DEF PodStalls
<1>31. CASE Cut
  BY <1>31 DEF Cut, LoseIt
<1>32. CASE PodGarbles
  BY <1>32 DEF PodGarbles, LoseIt
<1>33. CASE CtxDone
  BY <1>33 DEF CtxDone
<1>34. ASSUME NEW r \in {"got", "err"}, Accept(r) PROVE Order'
  BY <1>34 DEF Accept
<1>35. ASSUME NEW e \in {"ok", "err", "killed"}, Exit(e) PROVE Order'
  BY <1>35 DEF Exit
<1>36. CASE UNCHANGED vars
  BY <1>36, SMTT(60) DEF vars
<1> QED
  BY <1>1, <1>2, <1>3, <1>4, <1>5, <1>6, <1>7, <1>8, <1>9, <1>10, <1>11, <1>12,
     <1>13, <1>14, <1>15, <1>16, <1>17, <1>18, <1>19, <1>20, <1>21, <1>22,
     <1>23, <1>24, <1>25, <1>26, <1>27, <1>28, <1>29, <1>30, <1>31, <1>32,
     <1>33, <1>34, <1>35, <1>36
  DEF Next, Main, Copies, OpenOCD, Pod, Finished

\* Main is never past a process, a listener or a bridge that is still there.
LEMMA ShapeStep == TypeOK /\ Shape /\ [Next]_vars => Shape'
<1> SUFFICES ASSUME TypeOK, Shape, [Next]_vars PROVE Shape'
  OBVIOUS
<1> USE FlashBridgeAssumption DEF TypeOK, Places, Flags, MainFlags, PodFlags,
       StartFlags, BridgeFlags, Order, Shape, Early, Waiting, Closing, mainv, podv,
       procv, startv, bridgev, packets, past
<1>1. CASE Check
  BY <1>1 DEF Check, Refused, ServerSide, OnServer, Options, BuildReady, OpenOCDReady
<1>2. CASE FlashOnServer
  BY <1>2 DEF FlashOnServer
<1>3. CASE StartDAP
  BY <1>3 DEF StartDAP
<1>4. CASE Armed
  BY <1>4 DEF Armed
<1>5. CASE NotArmed
  BY <1>5 DEF NotArmed
<1>6. CASE BuildArgs
  BY <1>6 DEF BuildArgs, Return
<1>7. CASE Listen
  BY <1>7 DEF Listen, Return
<1>8. CASE Start
  BY <1>8 DEF Start, Return
<1>9. CASE OpenOCDConnected
  BY <1>9 DEF OpenOCDConnected
<1>10. CASE AcceptFailed
  BY <1>10 DEF AcceptFailed
<1>11. CASE Rewaited
  BY <1>11 DEF Rewaited, Return
<1>12. CASE ExitedEarly
  BY <1>12 DEF ExitedEarly
<1>13. CASE Drained
  BY <1>13 DEF Drained, Return
<1>14. CASE OpenOCDExited
  BY <1>14 DEF OpenOCDExited
<1>15. CASE ClosePod
  BY <1>15 DEF ClosePod
<1>16. CASE Join
  BY <1>16 DEF Join, Verdict
<1>17. CASE ToRead
  BY <1>17 DEF ToRead
<1>18. CASE ToWrite
  BY <1>18 DEF ToWrite
<1>19. CASE ToEnds
  BY <1>19 DEF ToEnds
<1>20. CASE FromRead
  BY <1>20 DEF FromRead
<1>21. CASE FromWrite
  BY <1>21 DEF FromWrite
<1>22. CASE FromEnds
  BY <1>22 DEF FromEnds
<1>23. CASE PodSideEnded
  BY <1>23 DEF PodSideEnded
<1>24. CASE Waited
  BY <1>24 DEF Waited
<1>25. CASE Dial
  BY <1>25 DEF Dial
<1>26. CASE Send
  BY <1>26 DEF Send
<1>27. CASE PodArms
  BY <1>27 DEF PodArms
<1>28. CASE PodAnswers
  BY <1>28 DEF PodAnswers
<1>29. CASE PodLeaves
  BY <1>29 DEF PodLeaves
<1>30. CASE PodStalls
  BY <1>30 DEF PodStalls
<1>31. CASE Cut
  BY <1>31 DEF Cut, LoseIt
<1>32. CASE PodGarbles
  BY <1>32 DEF PodGarbles, LoseIt
<1>33. CASE CtxDone
  BY <1>33 DEF CtxDone
<1>34. ASSUME NEW r \in {"got", "err"}, Accept(r) PROVE Shape'
  BY <1>34 DEF Accept
<1>35. ASSUME NEW e \in {"ok", "err", "killed"}, Exit(e) PROVE Shape'
  BY <1>35 DEF Exit
<1>36. CASE UNCHANGED vars
  BY <1>36 DEF vars
<1> QED
  BY <1>1, <1>2, <1>3, <1>4, <1>5, <1>6, <1>7, <1>8, <1>9, <1>10, <1>11, <1>12,
     <1>13, <1>14, <1>15, <1>16, <1>17, <1>18, <1>19, <1>20, <1>21, <1>22,
     <1>23, <1>24, <1>25, <1>26, <1>27, <1>28, <1>29, <1>30, <1>31, <1>32,
     <1>33, <1>34, <1>35, <1>36
  DEF Next, Main, Copies, OpenOCD, Pod, Finished

\* Join is the only way out of a bridge, and it waits for the copies.
LEMMA QuietStep ==
  TypeOK /\ Shape /\ NothingLeftRunning /\ [Next]_vars
    => NothingLeftRunning'
<1> SUFFICES ASSUME TypeOK, Shape, NothingLeftRunning, [Next]_vars
             PROVE NothingLeftRunning'
  OBVIOUS
<1> USE FlashBridgeAssumption DEF TypeOK, Places, Flags, MainFlags, PodFlags,
       StartFlags, BridgeFlags, Order, Shape, NothingLeftRunning, Early, Waiting,
       Closing, mainv, podv, procv, startv, bridgev, packets, past
<1>1. CASE Check
  BY <1>1 DEF Check, Refused, ServerSide, OnServer, Options, BuildReady, OpenOCDReady
<1>2. CASE FlashOnServer
  BY <1>2 DEF FlashOnServer
<1>3. CASE StartDAP
  BY <1>3 DEF StartDAP
<1>4. CASE Armed
  BY <1>4 DEF Armed
<1>5. CASE NotArmed
  BY <1>5 DEF NotArmed
<1>6. CASE BuildArgs
  BY <1>6 DEF BuildArgs, Return
<1>7. CASE Listen
  BY <1>7 DEF Listen, Return
<1>8. CASE Start
  BY <1>8 DEF Start, Return
<1>9. CASE OpenOCDConnected
  BY <1>9 DEF OpenOCDConnected
<1>10. CASE AcceptFailed
  BY <1>10 DEF AcceptFailed
<1>11. CASE Rewaited
  BY <1>11 DEF Rewaited, Return
<1>12. CASE ExitedEarly
  BY <1>12 DEF ExitedEarly
<1>13. CASE Drained
  BY <1>13 DEF Drained, Return
<1>14. CASE OpenOCDExited
  BY <1>14 DEF OpenOCDExited
<1>15. CASE ClosePod
  BY <1>15 DEF ClosePod
<1>16. CASE Join
  BY <1>16 DEF Join, Verdict
<1>17. CASE ToRead
  BY <1>17 DEF ToRead
<1>18. CASE ToWrite
  BY <1>18 DEF ToWrite
<1>19. CASE ToEnds
  BY <1>19 DEF ToEnds
<1>20. CASE FromRead
  BY <1>20 DEF FromRead
<1>21. CASE FromWrite
  BY <1>21 DEF FromWrite
<1>22. CASE FromEnds
  BY <1>22 DEF FromEnds
<1>23. CASE PodSideEnded
  BY <1>23 DEF PodSideEnded
<1>24. CASE Waited
  BY <1>24 DEF Waited
<1>25. CASE Dial
  BY <1>25 DEF Dial
<1>26. CASE Send
  BY <1>26 DEF Send
<1>27. CASE PodArms
  BY <1>27 DEF PodArms
<1>28. CASE PodAnswers
  BY <1>28 DEF PodAnswers
<1>29. CASE PodLeaves
  BY <1>29 DEF PodLeaves
<1>30. CASE PodStalls
  BY <1>30 DEF PodStalls
<1>31. CASE Cut
  BY <1>31 DEF Cut, LoseIt
<1>32. CASE PodGarbles
  BY <1>32 DEF PodGarbles, LoseIt
<1>33. CASE CtxDone
  BY <1>33 DEF CtxDone
<1>34. ASSUME NEW r \in {"got", "err"}, Accept(r) PROVE NothingLeftRunning'
  BY <1>34 DEF Accept
<1>35. ASSUME NEW e \in {"ok", "err", "killed"}, Exit(e) PROVE NothingLeftRunning'
  BY <1>35 DEF Exit
<1>36. CASE UNCHANGED vars
  BY <1>36, SMTT(60) DEF vars
<1> QED
  BY <1>1, <1>2, <1>3, <1>4, <1>5, <1>6, <1>7, <1>8, <1>9, <1>10, <1>11, <1>12,
     <1>13, <1>14, <1>15, <1>16, <1>17, <1>18, <1>19, <1>20, <1>21, <1>22,
     <1>23, <1>24, <1>25, <1>26, <1>27, <1>28, <1>29, <1>30, <1>31, <1>32,
     <1>33, <1>34, <1>35, <1>36
  DEF Next, Main, Copies, OpenOCD, Pod, Finished

\* A dropped link, a killed OpenOCD and a good exit have the causes the verdict names.
LEMMA CauseStep == TypeOK /\ Shape /\ Cause /\ [Next]_vars => Cause'
<1> SUFFICES ASSUME TypeOK, Shape, Cause, [Next]_vars PROVE Cause'
  OBVIOUS
<1> USE FlashBridgeAssumption DEF TypeOK, Places, Flags, MainFlags, PodFlags,
       StartFlags, BridgeFlags, Order, Shape, Cause, Dropped, Results, Early, Waiting, Closing,
       mainv, podv, procv, startv, bridgev, packets, past
<1>1. CASE Check
  BY <1>1 DEF Check, Refused, ServerSide, OnServer, Options, BuildReady, OpenOCDReady
<1>2. CASE FlashOnServer
  BY <1>2 DEF FlashOnServer
<1>3. CASE StartDAP
  BY <1>3 DEF StartDAP
<1>4. CASE Armed
  BY <1>4 DEF Armed
<1>5. CASE NotArmed
  BY <1>5 DEF NotArmed
<1>6. CASE BuildArgs
  BY <1>6 DEF BuildArgs, Return
<1>7. CASE Listen
  BY <1>7 DEF Listen, Return
<1>8. CASE Start
  BY <1>8 DEF Start, Return
<1>9. CASE OpenOCDConnected
  BY <1>9 DEF OpenOCDConnected
<1>10. CASE AcceptFailed
  BY <1>10 DEF AcceptFailed
<1>11. CASE Rewaited
  BY <1>11 DEF Rewaited, Return
<1>12. CASE ExitedEarly
  BY <1>12 DEF ExitedEarly
<1>13. CASE Drained
  BY <1>13 DEF Drained, Return
<1>14. CASE OpenOCDExited
  BY <1>14 DEF OpenOCDExited
<1>15. CASE ClosePod
  BY <1>15 DEF ClosePod
<1>16. CASE Join
  BY <1>16 DEF Join, Verdict
<1>17. CASE ToRead
  BY <1>17 DEF ToRead
<1>18. CASE ToWrite
  BY <1>18 DEF ToWrite
<1>19. CASE ToEnds
  BY <1>19 DEF ToEnds
<1>20. CASE FromRead
  BY <1>20 DEF FromRead
<1>21. CASE FromWrite
  BY <1>21 DEF FromWrite
<1>22. CASE FromEnds
  BY <1>22 DEF FromEnds
<1>23. CASE PodSideEnded
  BY <1>23 DEF PodSideEnded
<1>24. CASE Waited
  BY <1>24 DEF Waited
<1>25. CASE Dial
  BY <1>25 DEF Dial
<1>26. CASE Send
  BY <1>26 DEF Send
<1>27. CASE PodArms
  BY <1>27 DEF PodArms
<1>28. CASE PodAnswers
  BY <1>28 DEF PodAnswers
<1>29. CASE PodLeaves
  BY <1>29 DEF PodLeaves
<1>30. CASE PodStalls
  BY <1>30 DEF PodStalls
<1>31. CASE Cut
  BY <1>31 DEF Cut, LoseIt
<1>32. CASE PodGarbles
  BY <1>32 DEF PodGarbles, LoseIt
<1>33. CASE CtxDone
  BY <1>33 DEF CtxDone
<1>34. ASSUME NEW r \in {"got", "err"}, Accept(r) PROVE Cause'
  BY <1>34 DEF Accept
<1>35. ASSUME NEW e \in {"ok", "err", "killed"}, Exit(e) PROVE Cause'
  BY <1>35 DEF Exit
<1>36. CASE UNCHANGED vars
  BY <1>36 DEF vars
<1> QED
  BY <1>1, <1>2, <1>3, <1>4, <1>5, <1>6, <1>7, <1>8, <1>9, <1>10, <1>11, <1>12,
     <1>13, <1>14, <1>15, <1>16, <1>17, <1>18, <1>19, <1>20, <1>21, <1>22,
     <1>23, <1>24, <1>25, <1>26, <1>27, <1>28, <1>29, <1>30, <1>31, <1>32,
     <1>33, <1>34, <1>35, <1>36
  DEF Next, Main, Copies, OpenOCD, Pod, Finished

\* The verdict is given in Join, from causes that no longer change.
LEMMA VerdictStep ==
  TypeOK /\ Shape /\ Cause /\ NothingLeftRunning /\ VerdictIsTrue /\ [Next]_vars
    => VerdictIsTrue'
<1> SUFFICES ASSUME TypeOK, Shape, Cause, NothingLeftRunning, VerdictIsTrue, [Next]_vars
             PROVE VerdictIsTrue'
  OBVIOUS
<1> USE FlashBridgeAssumption DEF TypeOK, Places, Flags, MainFlags, PodFlags,
       StartFlags, BridgeFlags, Order, Shape, Cause, Dropped, NothingLeftRunning, VerdictIsTrue,
       Early, Waiting, Closing, mainv, podv, procv, startv, bridgev, packets, past
<1>1. CASE Check
  BY <1>1 DEF Check, Refused, ServerSide, OnServer, Options, BuildReady, OpenOCDReady
<1>2. CASE FlashOnServer
  BY <1>2 DEF FlashOnServer
<1>3. CASE StartDAP
  BY <1>3 DEF StartDAP
<1>4. CASE Armed
  BY <1>4 DEF Armed
<1>5. CASE NotArmed
  BY <1>5 DEF NotArmed
<1>6. CASE BuildArgs
  BY <1>6 DEF BuildArgs, Return
<1>7. CASE Listen
  BY <1>7 DEF Listen, Return
<1>8. CASE Start
  BY <1>8 DEF Start, Return
<1>9. CASE OpenOCDConnected
  BY <1>9 DEF OpenOCDConnected
<1>10. CASE AcceptFailed
  BY <1>10 DEF AcceptFailed
<1>11. CASE Rewaited
  BY <1>11 DEF Rewaited, Return
<1>12. CASE ExitedEarly
  BY <1>12 DEF ExitedEarly
<1>13. CASE Drained
  BY <1>13 DEF Drained, Return
<1>14. CASE OpenOCDExited
  BY <1>14 DEF OpenOCDExited
<1>15. CASE ClosePod
  BY <1>15 DEF ClosePod
<1>16. CASE Join
  <2>1. CASE ~exited
    <3>1. result' = result /\ result \notin {"success", "unreachable", "dropped"}
      BY <1>16, <2>1 DEF Join
    <3>2. ~podDropped
      BY <1>16, <2>1 DEF Join
    <3>3. ocExit # "killed" \/ ~ctx
      BY <3>2
    <3>4. /\ result' \notin {"success", "unreachable", "dropped"}
          /\ ~exited' /\ ~(ocExit' = "killed" /\ ctx')
      BY <1>16, <2>1, <3>1, <3>3 DEF Join
    <3> QED BY ONLY <3>4 DEF VerdictIsTrue
  <2>2. CASE exited
    <3>1. result' = Verdict
      BY <1>16, <2>2 DEF Join
    <3>2. CASE podDropped
      <4>1. result' = "dropped" /\ Dropped' /\ (ocExit = "killed" /\ ctx => lostAt = "before")
        BY <1>16, <2>2, <3>1, <3>2 DEF Join, Verdict
      <4>2. result' = "dropped" /\ Dropped' /\ (ocExit' = "killed" /\ ctx' => lostAt' = "before")
        BY <1>16, <4>1 DEF Join
      <4> QED BY ONLY <4>2 DEF VerdictIsTrue
    <3>3. CASE ~podDropped /\ ocExit = "ok"
      BY <1>16, <2>2, <3>1, <3>3 DEF Join, Verdict
    <3>4. CASE ~podDropped /\ ocExit # "ok" /\ marker
      <4>1. result' = "unreachable"
        BY <3>1, <3>4 DEF Verdict
      <4> QED BY <1>16, <2>2, <3>4, <4>1 DEF Join
    <3>5. CASE ~podDropped /\ ocExit # "ok" /\ ~marker
      BY <1>16, <2>2, <3>1, <3>5 DEF Join, Verdict
    <3> QED BY <3>2, <3>3, <3>4, <3>5
  <2> QED BY <2>1, <2>2
<1>17. CASE ToRead
  BY <1>17 DEF ToRead
<1>18. CASE ToWrite
  BY <1>18 DEF ToWrite
<1>19. CASE ToEnds
  BY <1>19 DEF ToEnds
<1>20. CASE FromRead
  BY <1>20 DEF FromRead
<1>21. CASE FromWrite
  BY <1>21 DEF FromWrite
<1>22. CASE FromEnds
  BY <1>22 DEF FromEnds
<1>23. CASE PodSideEnded
  BY <1>23 DEF PodSideEnded
<1>24. CASE Waited
  BY <1>24 DEF Waited
<1>25. CASE Dial
  BY <1>25 DEF Dial
<1>26. CASE Send
  BY <1>26 DEF Send
<1>27. CASE PodArms
  BY <1>27 DEF PodArms
<1>28. CASE PodAnswers
  BY <1>28 DEF PodAnswers
<1>29. CASE PodLeaves
  BY <1>29 DEF PodLeaves
<1>30. CASE PodStalls
  BY <1>30 DEF PodStalls
<1>31. CASE Cut
  BY <1>31 DEF Cut, LoseIt
<1>32. CASE PodGarbles
  BY <1>32 DEF PodGarbles, LoseIt
<1>33. CASE CtxDone
  BY <1>33 DEF CtxDone
<1>34. ASSUME NEW r \in {"got", "err"}, Accept(r) PROVE VerdictIsTrue'
  BY <1>34 DEF Accept
<1>35. ASSUME NEW e \in {"ok", "err", "killed"}, Exit(e) PROVE VerdictIsTrue'
  BY <1>35 DEF Exit
<1>36. CASE UNCHANGED vars
  BY <1>36 DEF vars
<1> QED
  BY <1>1, <1>2, <1>3, <1>4, <1>5, <1>6, <1>7, <1>8, <1>9, <1>10, <1>11, <1>12,
     <1>13, <1>14, <1>15, <1>16, <1>17, <1>18, <1>19, <1>20, <1>21, <1>22,
     <1>23, <1>24, <1>25, <1>26, <1>27, <1>28, <1>29, <1>30, <1>31, <1>32,
     <1>33, <1>34, <1>35, <1>36
  DEF Next, Main, Copies, OpenOCD, Pod, Finished

\* A run that has not begun satisfies all of it.
LEMMA InitHolds == Init => IInv
<1> SUFFICES ASSUME Init PROVE IInv
  OBVIOUS
<1>1. Places
  BY DEF Init, Places, Results
<1>2. Flags
  BY DEF Init, Flags, MainFlags, PodFlags, StartFlags, BridgeFlags
<1>3. Order
  BY FlashBridgeAssumption DEF Init, Order
<1>4. Shape
  BY DEF Init, Shape, Early, Waiting, Closing
<1>5. NothingLeftRunning /\ Cause /\ VerdictIsTrue
  BY DEF Init, NothingLeftRunning, Cause, VerdictIsTrue, Dropped
<1> QED BY <1>1, <1>2, <1>3, <1>4, <1>5 DEF IInv, TypeOK

THEOREM Invariance == Spec => []IInv
<1>1. IInv /\ [Next]_vars => IInv'
  BY PlacesStep, FlagsStep, OrderStep, ShapeStep, QuietStep, CauseStep, VerdictStep
  DEF IInv, TypeOK
<1> QED BY InitHolds, <1>1, PTL DEF Spec

\* Types hold in every reachable state, the order of the packet counters with them.
THEOREM TypeCorrect == Spec => []TypeOK
<1>1. IInv => TypeOK
  BY DEF IInv
<1> QED BY Invariance, <1>1, PTL

\* When runFlash has returned, OpenOCD, the copies, both connections and the listener
\* of runBridge are gone.
THEOREM NothingRunsOn == Spec => []NothingLeftRunning
<1>1. IInv => NothingLeftRunning
  BY DEF IInv
<1> QED BY Invariance, <1>1, PTL

\* What runBridge's verdict says of OpenOCD, the target and the link is what happened.
THEOREM VerdictHolds == Spec => []VerdictIsTrue
<1>1. IInv => VerdictIsTrue
  BY DEF IInv
<1> QED BY Invariance, <1>1, PTL
=============================================================================

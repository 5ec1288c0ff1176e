-------------------------- MODULE UsbBridge_proofs --------------------------
(***************************************************************************)
(* Proofs about UsbBridge, for any pods, any names and any other clients:  *)
(* type correctness, that nobody else's proxy is replaced, and that a run, *)
(* or the uninstall after it, takes its proxy away again.                  *)
(***************************************************************************)
EXTENDS UsbBridge, TLAPS

\* A pod for which a request is under way, or still to be made, has somebody else's
\* proxy only if it was set since the look; uninstall's look lets another port pass.
Looked ==
  /\ at \in {"listen", "set"} /\ proxy[link] \in Theirs => link \in since
  /\ at \notin {"done", "killed"} /\ setOn # NoPod /\ proxy[setOn] \in Theirs => setOn \in since
  /\ uat = "clear" /\ proxy[ulink] = "foreign" => ulink \in since
  /\ late # NoReq /\ proxy[late[1]] \in Theirs
       => \/ late[1] \in since
          \/ proxy[late[1]] = "port" /\ uat \notin {"no", "pick"} /\ ulink = late[1]

\* Where the bridge and uninstall have a pod, and which pods the run has set.
Picked ==
  /\ at \in {"read", "listen", "set", "serve"} => link # NoPod
  /\ uat \in {"read", "clear", "cleared", "notOurs"} => ulink # NoPod
  /\ uat # "no" => ctxDone
  /\ uat \in {"clear", "cleared", "notOurs"} /\ ~early => at \in {"done", "killed"}
  /\ at = "killed" => killed
  /\ ~lost => late = NoReq
  /\ ~killed => (setOn # NoPod <=> setPods # {}) /\ (setOn # NoPod => setOn \in setPods)

IInv == TypeOK /\ Looked /\ Picked /\ StopClears /\ UninstallHeals

\* No step of the bridge, uninstall, the pods or their clients leaves the types.
LEMMA PlacesStep == Places /\ [Next]_vars => Places'
<1> SUFFICES ASSUME Places, [Next]_vars PROVE Places'
  OBVIOUS
<1> USE UsbBridgeAssumption DEF Places, run, flags, uninst, pods, past
<1>1. CASE LoopEnds
  BY <1>1 DEF LoopEnds
<1>2. CASE PickLink
  BY <1>2 DEF PickLink, Waits, RoundEnds, CanPick, CanFail
<1>3. CASE ReadProxy
  BY <1>3 DEF ReadProxy, Refuse, Looks, Pending, Waits, RoundEnds, CanFail
<1>4. CASE Listen
  BY <1>4 DEF Listen, Waits, RoundEnds, CanFail
<1>5. CASE SetProxy
  BY <1>5 DEF SetProxy, SetDone, SetFailed, Answered, Unanswered, CanFail, Waits, RoundEnds
<1>6. CASE ServeEnds
  BY <1>6 DEF ServeEnds, Gone, RoundEnds
<1>7. CASE AcceptFails
  BY <1>7 DEF AcceptFails, RoundEnds
<1>8. CASE Wait
  BY <1>8 DEF Wait
<1>9. CASE End
  BY <1>9 DEF End, Exit, Answered, Unanswered, CanFail
<1>10. CASE UninstallPicks
  BY <1>10 DEF UninstallPicks, CanPick, CanFail
<1>11. CASE UninstallReads
  BY <1>11 DEF UninstallReads, IsOurs, Looks, Pending, CanFail
<1>12. CASE UninstallClears
  BY <1>12 DEF UninstallClears, Answered, Unanswered, CanFail
<1>13. CASE CtrlC
  BY <1>13 DEF CtrlC
<1>14. CASE StartUninstall
  BY <1>14 DEF StartUninstall
<1>15. CASE Killed
  BY <1>15 DEF Killed, RoundEnds
<1>16. CASE Restarts
  BY <1>16 DEF Restarts
<1>17. CASE Collected
  BY <1>17 DEF Collected
<1>18. CASE Cable
  BY <1>18 DEF Cable
<1>19. CASE PodExecutesLate
  BY <1>19 DEF PodExecutesLate
<1>20. CASE BecomesCalm
  BY <1>20 DEF BecomesCalm
<1>21. ASSUME NEW p \in Pods, OtherClient(p) PROVE Places'
  BY <1>21 DEF OtherClient, Pending
<1>22. CASE UNCHANGED vars
  BY <1>22 DEF vars
<1> QED BY <1>1, <1>2, <1>3, <1>4, <1>5, <1>6, <1>7, <1>8, <1>9, <1>10, <1>11, <1>12,
  <1>13, <1>14, <1>15, <1>16, <1>17, <1>18, <1>19, <1>20, <1>21, <1>22
  DEF Next, Bridge, Uninstall, Environment

LEMMA RunFlagsStep == RunFlags /\ [Next]_vars => RunFlags'
<1> SUFFICES ASSUME RunFlags, [Next]_vars PROVE RunFlags'
  OBVIOUS
<1> USE UsbBridgeAssumption DEF RunFlags, run, flags, uninst, pods, past
<1>1. CASE LoopEnds
  BY <1>1 DEF LoopEnds
<1>2. CASE PickLink
  BY <1>2 DEF PickLink, Waits, RoundEnds, CanPick, CanFail
<1>3. CASE ReadProxy
  BY <1>3 DEF ReadProxy, Refuse, Looks, Pending, Waits, RoundEnds, CanFail
<1>4. CASE Listen
  BY <1>4 DEF Listen, Waits, RoundEnds, CanFail
<1>5. CASE SetProxy
  BY <1>5 DEF SetProxy, SetDone, SetFailed, Answered, Unanswered, CanFail, Waits, RoundEnds
<1>6. CASE ServeEnds
  BY <1>6 DEF ServeEnds, Gone, RoundEnds
<1>7. CASE AcceptFails
  BY <1>7 DEF AcceptFails, RoundEnds
<1>8. CASE Wait
  BY <1>8 DEF Wait
<1>9. CASE End
  BY <1>9 DEF End, Exit, Answered, Unanswered, CanFail
<1>10. CASE UninstallPicks
  BY <1>10 DEF UninstallPicks, CanPick, CanFail
<1>11. CASE UninstallReads
  BY <1>11 DEF UninstallReads, IsOurs, Looks, Pending, CanFail
<1>12. CASE UninstallClears
  BY <1>12 DEF UninstallClears, Answered, Unanswered, CanFail
<1>13. CASE CtrlC
  BY <1>13 DEF CtrlC
<1>14. CASE StartUninstall
  BY <1>14 DEF StartUninstall
<1>15. CASE Killed
  BY <1>15 DEF Killed, RoundEnds
<1>16. CASE Restarts
  BY <1>16 DEF Restarts
<1>17. CASE Collected
  BY <1>17 DEF Collected
<1>18. CASE Cable
  BY <1>18 DEF Cable
<1>19. CASE PodExecutesLate
  BY <1>19 DEF PodExecutesLate
<1>20. CASE BecomesCalm
  BY <1>20 DEF BecomesCalm
<1>21. ASSUME NEW p \in Pods, OtherClient(p) PROVE RunFlags'
  BY <1>21 DEF OtherClient, Pending
<1>22. CASE UNCHANGED vars
  BY <1>22 DEF vars
<1> QED BY <1>1, <1>2, <1>3, <1>4, <1>5, <1>6, <1>7, <1>8, <1>9, <1>10, <1>11, <1>12,
  <1>13, <1>14, <1>15, <1>16, <1>17, <1>18, <1>19, <1>20, <1>21, <1>22
  DEF Next, Bridge, Uninstall, Environment

LEMMA PastFlagsStep == PastFlags /\ [Next]_vars => PastFlags'
<1> SUFFICES ASSUME PastFlags, [Next]_vars PROVE PastFlags'
  OBVIOUS
<1> USE UsbBridgeAssumption DEF PastFlags, run, flags, uninst, pods, past
<1>1. CASE LoopEnds
  BY <1>1 DEF LoopEnds
<1>2. CASE PickLink
  BY <1>2 DEF PickLink, Waits, RoundEnds, CanPick, CanFail
<1>3. CASE ReadProxy
  BY <1>3 DEF ReadProxy, Refuse, Looks, Pending, Waits, RoundEnds, CanFail
<1>4. CASE Listen
  BY <1>4 DEF Listen, Waits, RoundEnds, CanFail
<1>5. CASE SetProxy
  BY <1>5 DEF SetProxy, SetDone, SetFailed, Answered, Unanswered, CanFail, Waits, RoundEnds
<1>6. CASE ServeEnds
  BY <1>6 DEF ServeEnds, Gone, RoundEnds
<1>7. CASE AcceptFails
  BY <1>7 DEF AcceptFails, RoundEnds
<1>8. CASE Wait
  BY <1>8 DEF Wait
<1>9. CASE End
  BY <1>9 DEF End, Exit, Answered, Unanswered, CanFail
<1>10. CASE UninstallPicks
  BY <1>10 DEF UninstallPicks, CanPick, CanFail
<1>11. CASE UninstallReads
  BY <1>11 DEF UninstallReads, IsOurs, Looks, Pending, CanFail
<1>12. CASE UninstallClears
  BY <1>12 DEF UninstallClears, Answered, Unanswered, CanFail
<1>13. CASE CtrlC
  BY <1>13 DEF CtrlC
<1>14. CASE StartUninstall
  BY <1>14 DEF StartUninstall
<1>15. CASE Killed
  BY <1>15 DEF Killed, RoundEnds
<1>16. CASE Restarts
  BY <1>16 DEF Restarts
<1>17. CASE Collected
  BY <1>17 DEF Collected
<1>18. CASE Cable
  BY <1>18 DEF Cable
<1>19. CASE PodExecutesLate
  BY <1>19 DEF PodExecutesLate
<1>20. CASE BecomesCalm
  BY <1>20 DEF BecomesCalm
<1>21. ASSUME NEW p \in Pods, OtherClient(p) PROVE PastFlags'
  BY <1>21 DEF OtherClient, Pending
<1>22. CASE UNCHANGED vars
  BY <1>22 DEF vars
<1> QED BY <1>1, <1>2, <1>3, <1>4, <1>5, <1>6, <1>7, <1>8, <1>9, <1>10, <1>11, <1>12,
  <1>13, <1>14, <1>15, <1>16, <1>17, <1>18, <1>19, <1>20, <1>21, <1>22
  DEF Next, Bridge, Uninstall, Environment

LEMMA PodsStep == Places /\ PodsOK /\ Picked /\ [Next]_vars => PodsOK'
<1> SUFFICES ASSUME Places, PodsOK, Picked, [Next]_vars PROVE PodsOK'
  OBVIOUS
<1> USE UsbBridgeAssumption DEF Places, PodsOK, Picked, Proxies, Theirs, NoReq, run, flags, uninst, pods, past
<1>1. CASE LoopEnds
  BY <1>1 DEF LoopEnds
<1>2. CASE PickLink
  BY <1>2 DEF PickLink, Waits, RoundEnds, CanPick, CanFail
<1>3. CASE ReadProxy
  BY <1>3 DEF ReadProxy, Refuse, Looks, Pending, Waits, RoundEnds, CanFail
<1>4. CASE Listen
  BY <1>4 DEF Listen, Waits, RoundEnds, CanFail
<1>5. CASE SetProxy
  <2>1. late' = late \/ (late' = <<link, "ours">> /\ link \in Pods)
    BY <1>5 DEF SetProxy, SetDone, SetFailed, Answered, Unanswered
  <2>2. late' \in {NoReq} \cup (Pods \X {"none", "ours"})
    <3>1. CASE late' = late
      BY <3>1
    <3>2. CASE late' = <<link, "ours">> /\ link \in Pods
      <4>1. <<link, "ours">> \in Pods \X {"none", "ours"}
        BY <3>2
      <4> QED BY <3>2, <4>1
    <3> QED BY <2>1, <3>1, <3>2
  <2>3. proxy' \in [Pods -> Proxies]
    BY <1>5 DEF SetProxy, SetDone, SetFailed, Answered, Unanswered
  <2>4. UNCHANGED <<want, since, others>> /\ plugged' \subseteq Pods /\ setPods' \subseteq Pods
    BY <1>5 DEF SetProxy, SetDone, SetFailed, Answered, Unanswered
  <2> QED BY <2>2, <2>3, <2>4
<1>6. CASE ServeEnds
  BY <1>6 DEF ServeEnds, Gone, RoundEnds
<1>7. CASE AcceptFails
  BY <1>7 DEF AcceptFails, RoundEnds
<1>8. CASE Wait
  BY <1>8 DEF Wait
<1>9. CASE End
  <2>1. late' = late \/ (late' = <<setOn, "none">> /\ setOn \in Pods)
    BY <1>9 DEF End, Answered, Unanswered
  <2>2. late' \in {NoReq} \cup (Pods \X {"none", "ours"})
    <3>1. CASE late' = late
      BY <3>1
    <3>2. CASE late' = <<setOn, "none">> /\ setOn \in Pods
      <4>1. <<setOn, "none">> \in Pods \X {"none", "ours"}
        BY <3>2
      <4> QED BY <3>2, <4>1
    <3> QED BY <2>1, <3>1, <3>2
  <2>3. proxy' \in [Pods -> Proxies]
    BY <1>9 DEF End, Answered, Unanswered
  <2>4. UNCHANGED <<want, since, others>> /\ plugged' \subseteq Pods /\ setPods' \subseteq Pods
    BY <1>9 DEF End, Answered, Unanswered
  <2> QED BY <2>2, <2>3, <2>4
<1>10. CASE UninstallPicks
  BY <1>10 DEF UninstallPicks, CanPick, CanFail
<1>11. CASE UninstallReads
  BY <1>11 DEF UninstallReads, IsOurs, Looks, Pending, CanFail
<1>12. CASE UninstallClears
  <2>1. late' = late \/ (late' = <<ulink, "none">> /\ ulink \in Pods)
    BY <1>12 DEF UninstallClears, Answered, Unanswered
  <2>2. late' \in {NoReq} \cup (Pods \X {"none", "ours"})
    <3>1. CASE late' = late
      BY <3>1
    <3>2. CASE late' = <<ulink, "none">> /\ ulink \in Pods
      <4>1. <<ulink, "none">> \in Pods \X {"none", "ours"}
        BY <3>2
      <4> QED BY <3>2, <4>1
    <3> QED BY <2>1, <3>1, <3>2
  <2>3. proxy' \in [Pods -> Proxies]
    BY <1>12 DEF UninstallClears, Answered, Unanswered
  <2>4. UNCHANGED <<want, since, others>> /\ plugged' \subseteq Pods /\ setPods' \subseteq Pods
    BY <1>12 DEF UninstallClears, Answered, Unanswered
  <2> QED BY <2>2, <2>3, <2>4
<1>13. CASE CtrlC
  BY <1>13 DEF CtrlC
<1>14. CASE StartUninstall
  BY <1>14 DEF StartUninstall
<1>15. CASE Killed
  <2>1. late' = late \/ (late' = <<link, "ours">> /\ link \in Pods)
    BY <1>15 DEF Killed, RoundEnds
  <2>2. late' \in {NoReq} \cup (Pods \X {"none", "ours"})
    <3>1. CASE late' = late
      BY <3>1
    <3>2. CASE late' = <<link, "ours">> /\ link \in Pods
      <4>1. <<link, "ours">> \in Pods \X {"none", "ours"}
        BY <3>2
      <4> QED BY <3>2, <4>1
    <3> QED BY <2>1, <3>1, <3>2
  <2>3. proxy' \in [Pods -> Proxies]
    BY <1>15 DEF Killed, RoundEnds
  <2>4. UNCHANGED <<want, since, others>> /\ plugged' \subseteq Pods /\ setPods' \subseteq Pods
    BY <1>15 DEF Killed, RoundEnds
  <2> QED BY <2>2, <2>3, <2>4
<1>16. CASE Restarts
  BY <1>16 DEF Restarts
<1>17. CASE Collected
  BY <1>17 DEF Collected
<1>18. CASE Cable
  BY <1>18 DEF Cable
<1>19. CASE PodExecutesLate
  BY <1>19 DEF PodExecutesLate
<1>20. CASE BecomesCalm
  BY <1>20 DEF BecomesCalm
<1>21. ASSUME NEW p \in Pods, OtherClient(p) PROVE PodsOK'
  BY <1>21, ZenonT(60) DEF OtherClient, Pending
<1>22. CASE UNCHANGED vars
  BY <1>22 DEF vars
<1> QED BY <1>1, <1>2, <1>3, <1>4, <1>5, <1>6, <1>7, <1>8, <1>9, <1>10, <1>11, <1>12,
  <1>13, <1>14, <1>15, <1>16, <1>17, <1>18, <1>19, <1>20, <1>21, <1>22
  DEF Next, Bridge, Uninstall, Environment

LEMMA ListeningStep == Places /\ Picked /\ Listening /\ [Next]_vars => Listening'
<1> SUFFICES ASSUME Places, Picked, Listening, [Next]_vars PROVE Listening'
  OBVIOUS
<1> USE UsbBridgeAssumption DEF Places, Picked, Listening, run, flags, uninst, pods, past
<1>1. CASE LoopEnds
  BY <1>1 DEF LoopEnds
<1>2. CASE PickLink
  BY <1>2 DEF PickLink, Waits, RoundEnds, CanPick, CanFail
<1>3. CASE ReadProxy
  BY <1>3 DEF ReadProxy, Refuse, Looks, Pending, Waits, RoundEnds, CanFail
<1>4. CASE Listen
  <2>1. at = "listen" /\ listening = NoPod /\ UNCHANGED leaked
    BY <1>4 DEF Listen
  <2>2. CASE link \in plugged \ leaked /\ listening' = link /\ link' = link
             /\ at' = IF cur = "ours" THEN "serve" ELSE "set"
    BY <2>1, <2>2, ZenonT(30)
  <2>3. CASE Waits /\ UNCHANGED listening
    <3>1. at' \in {"end", "wait"}
      BY <2>3 DEF Waits
    <3> QED BY <2>1, <2>3, <3>1
  <2> QED BY <1>4, <2>2, <2>3, ZenonT(30) DEF Listen
<1>5. CASE SetProxy
  BY <1>5 DEF SetProxy, SetDone, SetFailed, Answered, Unanswered, CanFail, Waits, RoundEnds
<1>6. CASE ServeEnds
  BY <1>6 DEF ServeEnds, Gone, RoundEnds
<1>7. CASE AcceptFails
  BY <1>7 DEF AcceptFails, RoundEnds
<1>8. CASE Wait
  BY <1>8 DEF Wait
<1>9. CASE End
  BY <1>9 DEF End, Exit, Answered, Unanswered, CanFail
<1>10. CASE UninstallPicks
  BY <1>10 DEF UninstallPicks, CanPick, CanFail
<1>11. CASE UninstallReads
  BY <1>11 DEF UninstallReads, IsOurs, Looks, Pending, CanFail
<1>12. CASE UninstallClears
  BY <1>12 DEF UninstallClears, Answered, Unanswered, CanFail
<1>13. CASE CtrlC
  BY <1>13 DEF CtrlC
<1>14. CASE StartUninstall
  BY <1>14 DEF StartUninstall
<1>15. CASE Killed
  BY <1>15 DEF Killed, RoundEnds
<1>16. CASE Restarts
  BY <1>16 DEF Restarts
<1>17. CASE Collected
  BY <1>17 DEF Collected
<1>18. CASE Cable
  BY <1>18 DEF Cable
<1>19. CASE PodExecutesLate
  BY <1>19 DEF PodExecutesLate
<1>20. CASE BecomesCalm
  BY <1>20 DEF BecomesCalm
<1>21. ASSUME NEW p \in Pods, OtherClient(p) PROVE Listening'
  BY <1>21 DEF OtherClient, Pending
<1>22. CASE UNCHANGED vars
  BY <1>22 DEF vars
<1> QED BY <1>1, <1>2, <1>3, <1>4, <1>5, <1>6, <1>7, <1>8, <1>9, <1>10, <1>11, <1>12,
  <1>13, <1>14, <1>15, <1>16, <1>17, <1>18, <1>19, <1>20, <1>21, <1>22
  DEF Next, Bridge, Uninstall, Environment

\* A proxy is looked at before it is set, and only others make it foreign.
LEMMA LookedStep == Places /\ PodsOK /\ Picked /\ Looked /\ [Next]_vars => Looked'
<1> SUFFICES ASSUME Places, PodsOK, Picked, Looked, [Next]_vars PROVE Looked'
  OBVIOUS
<1> USE UsbBridgeAssumption DEF Places, PodsOK, Proxies, Theirs, NoReq, Picked, Looked, run, flags, uninst, pods, past
<1>1. CASE LoopEnds
  BY <1>1 DEF LoopEnds
<1>2. CASE PickLink
  BY <1>2 DEF PickLink, Waits, RoundEnds, CanPick, CanFail
<1>3. CASE ReadProxy
  BY <1>3 DEF ReadProxy, Refuse, Looks, Pending, Waits, RoundEnds, CanFail
<1>4. CASE Listen
  BY <1>4 DEF Listen, Waits, RoundEnds, CanFail
<1>5. CASE SetProxy
  <2>1. late' = late \/ (late' = <<link, "ours">> /\ link \in Pods)
    BY <1>5 DEF SetProxy, SetDone, SetFailed, Answered, Unanswered
  <2>2. since' = since /\ (proxy' = proxy \/ proxy' = [proxy EXCEPT ![link] = "ours"])
    BY <1>5 DEF SetProxy, SetDone, SetFailed, Answered, Unanswered
  <2>3. late' # NoReq /\ proxy'[late'[1]] \in Theirs
          => \/ late'[1] \in since'
             \/ proxy'[late'[1]] = "port" /\ uat' \notin {"no", "pick"} /\ ulink' = late'[1]
    <3>1. CASE late' = late
      BY <1>5, <2>2, <3>1 DEF SetProxy
    <3>2. CASE late' = <<link, "ours">>
      BY <1>5, <2>2, <3>2 DEF SetProxy, SetDone, SetFailed, Answered, Unanswered
    <3> QED BY <2>1, <3>1, <3>2
  <2>4. /\ at' \in {"listen", "set"} /\ proxy'[link'] \in Theirs => link' \in since'
        /\ at' \notin {"done", "killed"} /\ setOn' # NoPod /\ proxy'[setOn'] \in Theirs => setOn' \in since'
        /\ uat' = "clear" /\ proxy'[ulink'] = "foreign" => ulink' \in since'
    BY <1>5, <2>2 DEF SetProxy, SetDone, SetFailed, Answered, Unanswered, Waits, RoundEnds
  <2> QED BY <2>3, <2>4
<1>6. CASE ServeEnds
  BY <1>6 DEF ServeEnds, Gone, RoundEnds
<1>7. CASE AcceptFails
  BY <1>7 DEF AcceptFails, RoundEnds
<1>8. CASE Wait
  BY <1>8 DEF Wait
<1>9. CASE End
  <2>1. late' = late \/ (late' = <<setOn, "none">> /\ setOn \in Pods)
    BY <1>9 DEF End, Answered, Unanswered
  <2>2. since' = since /\ (proxy' = proxy \/ proxy' = [proxy EXCEPT ![setOn] = "none"])
    BY <1>9 DEF End, Answered, Unanswered
  <2>3. late' # NoReq /\ proxy'[late'[1]] \in Theirs
          => \/ late'[1] \in since'
             \/ proxy'[late'[1]] = "port" /\ uat' \notin {"no", "pick"} /\ ulink' = late'[1]
    <3>1. CASE late' = late
      BY <1>9, <2>2, <3>1 DEF End
    <3>2. CASE late' = <<setOn, "none">>
      BY <1>9, <2>2, <3>2 DEF End, Answered, Unanswered
    <3> QED BY <2>1, <3>1, <3>2
  <2>4. /\ at' \in {"listen", "set"} /\ proxy'[link'] \in Theirs => link' \in since'
        /\ at' \notin {"done", "killed"} /\ setOn' # NoPod /\ proxy'[setOn'] \in Theirs => setOn' \in since'
        /\ uat' = "clear" /\ proxy'[ulink'] = "foreign" => ulink' \in since'
    BY <1>9, <2>2 DEF End, Answered, Unanswered, Waits, RoundEnds
  <2> QED BY <2>3, <2>4
<1>10. CASE UninstallPicks
  BY <1>10 DEF UninstallPicks, CanPick, CanFail
<1>11. CASE UninstallReads
  BY <1>11 DEF UninstallReads, IsOurs, Looks, Pending, CanFail
<1>12. CASE UninstallClears
  <2>1. late' = late \/ (late' = <<ulink, "none">> /\ ulink \in Pods)
    BY <1>12 DEF UninstallClears, Answered, Unanswered
  <2>2. since' = since /\ (proxy' = proxy \/ proxy' = [proxy EXCEPT ![ulink] = "none"])
    BY <1>12 DEF UninstallClears, Answered, Unanswered
  <2>3. late' # NoReq /\ proxy'[late'[1]] \in Theirs
          => \/ late'[1] \in since'
             \/ proxy'[late'[1]] = "port" /\ uat' \notin {"no", "pick"} /\ ulink' = late'[1]
    <3>1. CASE late' = late
      BY <1>12, <2>2, <3>1 DEF UninstallClears
    <3>2. CASE late' = <<ulink, "none">>
      BY <1>12, <2>2, <3>2 DEF UninstallClears, Answered, Unanswered
    <3> QED BY <2>1, <3>1, <3>2
  <2>4. /\ at' \in {"listen", "set"} /\ proxy'[link'] \in Theirs => link' \in since'
        /\ at' \notin {"done", "killed"} /\ setOn' # NoPod /\ proxy'[setOn'] \in Theirs => setOn' \in since'
        /\ uat' = "clear" /\ proxy'[ulink'] = "foreign" => ulink' \in since'
    BY <1>12, <2>2 DEF UninstallClears, Answered, Unanswered, Waits, RoundEnds
  <2> QED BY <2>3, <2>4
<1>13. CASE CtrlC
  BY <1>13 DEF CtrlC
<1>14. CASE StartUninstall
  BY <1>14 DEF StartUninstall
<1>15. CASE Killed
  <2>1. late' = late \/ (late' = <<link, "ours">> /\ link \in Pods)
    BY <1>15 DEF Killed, RoundEnds
  <2>2. since' = since /\ (proxy' = proxy \/ proxy' = [proxy EXCEPT ![link] = "ours"])
    BY <1>15 DEF Killed, RoundEnds
  <2>3. late' # NoReq /\ proxy'[late'[1]] \in Theirs
          => \/ late'[1] \in since'
             \/ proxy'[late'[1]] = "port" /\ uat' \notin {"no", "pick"} /\ ulink' = late'[1]
    <3>1. CASE late' = late
      BY <1>15, <2>2, <3>1 DEF Killed
    <3>2. CASE late' = <<link, "ours">>
      BY <1>15, <2>2, <3>2 DEF Killed, RoundEnds
    <3> QED BY <2>1, <3>1, <3>2
  <2>4. /\ at' \in {"listen", "set"} /\ proxy'[link'] \in Theirs => link' \in since'
        /\ at' \notin {"done", "killed"} /\ setOn' # NoPod /\ proxy'[setOn'] \in Theirs => setOn' \in since'
        /\ uat' = "clear" /\ proxy'[ulink'] = "foreign" => ulink' \in since'
    BY <1>15, <2>2 DEF Killed, RoundEnds, Waits, RoundEnds
  <2> QED BY <2>3, <2>4
<1>16. CASE Restarts
  BY <1>16 DEF Restarts
<1>17. CASE Collected
  BY <1>17 DEF Collected
<1>18. CASE Cable
  BY <1>18 DEF Cable
<1>19. CASE PodExecutesLate
  BY <1>19 DEF PodExecutesLate
<1>20. CASE BecomesCalm
  BY <1>20 DEF BecomesCalm
<1>21. ASSUME NEW p \in Pods, OtherClient(p) PROVE Looked'
  BY <1>21, ZenonT(120) DEF OtherClient, Pending
<1>22. CASE UNCHANGED vars
  BY <1>22 DEF vars
<1> QED BY <1>1, <1>2, <1>3, <1>4, <1>5, <1>6, <1>7, <1>8, <1>9, <1>10, <1>11, <1>12,
  <1>13, <1>14, <1>15, <1>16, <1>17, <1>18, <1>19, <1>20, <1>21, <1>22
  DEF Next, Bridge, Uninstall, Environment

LEMMA PickedStep ==
  Places /\ RunFlags /\ PastFlags /\ PodsOK /\ Picked /\ [Next]_vars => Picked'
<1> SUFFICES ASSUME Places, RunFlags, PastFlags, PodsOK, Picked, [Next]_vars PROVE Picked'
  OBVIOUS
<1> USE UsbBridgeAssumption DEF Places, PodsOK, Proxies, Theirs, NoReq, RunFlags, PastFlags, Picked, run, flags, uninst, pods, past
<1>1. CASE LoopEnds
  BY <1>1 DEF LoopEnds
<1>2. CASE PickLink
  BY <1>2 DEF PickLink, Waits, RoundEnds, CanPick, CanFail
<1>3. CASE ReadProxy
  BY <1>3 DEF ReadProxy, Refuse, Looks, Pending, Waits, RoundEnds, CanFail
<1>4. CASE Listen
  BY <1>4 DEF Listen, Waits, RoundEnds, CanFail
<1>5. CASE SetProxy
  BY <1>5 DEF SetProxy, SetDone, SetFailed, Answered, Unanswered, CanFail, Waits, RoundEnds
<1>6. CASE ServeEnds
  BY <1>6 DEF ServeEnds, Gone, RoundEnds
<1>7. CASE AcceptFails
  BY <1>7 DEF AcceptFails, RoundEnds
<1>8. CASE Wait
  BY <1>8 DEF Wait
<1>9. CASE End
  BY <1>9 DEF End, Exit, Answered, Unanswered, CanFail
<1>10. CASE UninstallPicks
  BY <1>10 DEF UninstallPicks, CanPick, CanFail
<1>11. CASE UninstallReads
  BY <1>11 DEF UninstallReads, IsOurs, Looks, Pending, CanFail
<1>12. CASE UninstallClears
  BY <1>12 DEF UninstallClears, Answered, Unanswered, CanFail
<1>13. CASE CtrlC
  BY <1>13 DEF CtrlC
<1>14. CASE StartUninstall
  BY <1>14 DEF StartUninstall
<1>15. CASE Killed
  BY <1>15 DEF Killed, RoundEnds
<1>16. CASE Restarts
  BY <1>16 DEF Restarts
<1>17. CASE Collected
  BY <1>17 DEF Collected
<1>18. CASE Cable
  BY <1>18 DEF Cable
<1>19. CASE PodExecutesLate
  BY <1>19 DEF PodExecutesLate
<1>20. CASE BecomesCalm
  BY <1>20 DEF BecomesCalm
<1>21. ASSUME NEW p \in Pods, OtherClient(p) PROVE Picked'
  BY <1>21 DEF OtherClient, Pending
<1>22. CASE UNCHANGED vars
  BY <1>22 DEF vars
<1> QED BY <1>1, <1>2, <1>3, <1>4, <1>5, <1>6, <1>7, <1>8, <1>9, <1>10, <1>11, <1>12,
  <1>13, <1>14, <1>15, <1>16, <1>17, <1>18, <1>19, <1>20, <1>21, <1>22
  DEF Next, Bridge, Uninstall, Environment

\* Once the run has cleared what it set only a late request could set it again.
LEMMA StopStep ==
  Places /\ PastFlags /\ PodsOK /\ Picked /\ StopClears /\ [Next]_vars => StopClears'
<1> SUFFICES ASSUME Places, PastFlags, PodsOK, Picked, StopClears, [Next]_vars
             PROVE StopClears'
  OBVIOUS
<1> USE UsbBridgeAssumption DEF Places, PodsOK, Proxies, Theirs, NoReq, PastFlags, Picked, StopClears, run, flags, uninst, pods, past
<1>1. CASE LoopEnds
  BY <1>1 DEF LoopEnds
<1>2. CASE PickLink
  BY <1>2 DEF PickLink, Waits, RoundEnds, CanPick, CanFail
<1>3. CASE ReadProxy
  BY <1>3 DEF ReadProxy, Refuse, Looks, Pending, Waits, RoundEnds, CanFail
<1>4. CASE Listen
  BY <1>4 DEF Listen, Waits, RoundEnds, CanFail
<1>5. CASE SetProxy
  BY <1>5 DEF SetProxy, SetDone, SetFailed, Answered, Unanswered, CanFail, Waits, RoundEnds
<1>6. CASE ServeEnds
  BY <1>6 DEF ServeEnds, Gone, RoundEnds
<1>7. CASE AcceptFails
  BY <1>7 DEF AcceptFails, RoundEnds
<1>8. CASE Wait
  BY <1>8 DEF Wait
<1>9. CASE End
  BY <1>9 DEF End, Exit, Answered, Unanswered, CanFail
<1>10. CASE UninstallPicks
  BY <1>10 DEF UninstallPicks, CanPick, CanFail
<1>11. CASE UninstallReads
  BY <1>11 DEF UninstallReads, IsOurs, Looks, Pending, CanFail
<1>12. CASE UninstallClears
  BY <1>12 DEF UninstallClears, Answered, Unanswered, CanFail
<1>13. CASE CtrlC
  BY <1>13 DEF CtrlC
<1>14. CASE StartUninstall
  BY <1>14 DEF StartUninstall
<1>15. CASE Killed
  BY <1>15 DEF Killed, RoundEnds
<1>16. CASE Restarts
  BY <1>16 DEF Restarts
<1>17. CASE Collected
  BY <1>17 DEF Collected
<1>18. CASE Cable
  BY <1>18 DEF Cable
<1>19. CASE PodExecutesLate
  BY <1>19 DEF PodExecutesLate
<1>20. CASE BecomesCalm
  BY <1>20 DEF BecomesCalm
<1>21. ASSUME NEW p \in Pods, OtherClient(p) PROVE StopClears'
  BY <1>21, ZenonT(60) DEF OtherClient, Pending
<1>22. CASE UNCHANGED vars
  BY <1>22 DEF vars
<1> QED BY <1>1, <1>2, <1>3, <1>4, <1>5, <1>6, <1>7, <1>8, <1>9, <1>10, <1>11, <1>12,
  <1>13, <1>14, <1>15, <1>16, <1>17, <1>18, <1>19, <1>20, <1>21, <1>22
  DEF Next, Bridge, Uninstall, Environment

LEMMA HealsStep ==
  Places /\ PastFlags /\ PodsOK /\ Picked /\ UninstallHeals /\ [Next]_vars => UninstallHeals'
<1> SUFFICES ASSUME Places, PastFlags, PodsOK, Picked, UninstallHeals, [Next]_vars
             PROVE UninstallHeals'
  OBVIOUS
<1> USE UsbBridgeAssumption DEF Places, PodsOK, Proxies, Theirs, NoReq, PastFlags, Picked, UninstallHeals, run, flags, uninst, pods, past
<1>1. CASE LoopEnds
  BY <1>1 DEF LoopEnds
<1>2. CASE PickLink
  BY <1>2 DEF PickLink, Waits, RoundEnds, CanPick, CanFail
<1>3. CASE ReadProxy
  BY <1>3 DEF ReadProxy, Refuse, Looks, Pending, Waits, RoundEnds, CanFail
<1>4. CASE Listen
  BY <1>4 DEF Listen, Waits, RoundEnds, CanFail
<1>5. CASE SetProxy
  BY <1>5 DEF SetProxy, SetDone, SetFailed, Answered, Unanswered, CanFail, Waits, RoundEnds
<1>6. CASE ServeEnds
  BY <1>6 DEF ServeEnds, Gone, RoundEnds
<1>7. CASE AcceptFails
  BY <1>7 DEF AcceptFails, RoundEnds
<1>8. CASE Wait
  BY <1>8 DEF Wait
<1>9. CASE End
  BY <1>9 DEF End, Exit, Answered, Unanswered, CanFail
<1>10. CASE UninstallPicks
  BY <1>10 DEF UninstallPicks, CanPick, CanFail
<1>11. CASE UninstallReads
  BY <1>11 DEF UninstallReads, IsOurs, Looks, Pending, CanFail
<1>12. CASE UninstallClears
  BY <1>12 DEF UninstallClears, Answered, Unanswered, CanFail
<1>13. CASE CtrlC
  BY <1>13 DEF CtrlC
<1>14. CASE StartUninstall
  BY <1>14 DEF StartUninstall
<1>15. CASE Killed
  BY <1>15 DEF Killed, RoundEnds
<1>16. CASE Restarts
  BY <1>16 DEF Restarts
<1>17. CASE Collected
  BY <1>17 DEF Collected
<1>18. CASE Cable
  BY <1>18 DEF Cable
<1>19. CASE PodExecutesLate
  BY <1>19 DEF PodExecutesLate
<1>20. CASE BecomesCalm
  BY <1>20 DEF BecomesCalm
<1>21. ASSUME NEW p \in Pods, OtherClient(p) PROVE UninstallHeals'
  BY <1>21, ZenonT(60) DEF OtherClient, Pending
<1>22. CASE UNCHANGED vars
  BY <1>22 DEF vars
<1> QED BY <1>1, <1>2, <1>3, <1>4, <1>5, <1>6, <1>7, <1>8, <1>9, <1>10, <1>11, <1>12,
  <1>13, <1>14, <1>15, <1>16, <1>17, <1>18, <1>19, <1>20, <1>21, <1>22
  DEF Next, Bridge, Uninstall, Environment

\* A bridge that has not begun satisfies all of it.
LEMMA InitHolds == Init => IInv
<1> SUFFICES ASSUME Init PROVE IInv
  OBVIOUS
<1> USE UsbBridgeAssumption DEF Init
<1>1. Places /\ Listening
  BY DEF Places, Listening
<1>2. RunFlags /\ PastFlags
  <2>1. others = MaxOthers
    OBVIOUS
  <2>2. others \in 0 .. MaxOthers
    BY ONLY <2>1, UsbBridgeAssumption
  <2> QED BY <2>2, ZenonT(30) DEF RunFlags, PastFlags
<1>3. PodsOK
  BY DEF PodsOK, Proxies, NoReq
<1>4. Looked /\ Picked
  BY DEF Looked, Picked
<1>5. StopClears /\ UninstallHeals
  BY DEF StopClears, UninstallHeals
<1> QED BY <1>1, <1>2, <1>3, <1>4, <1>5 DEF IInv, TypeOK

THEOREM Invariance == Spec => []IInv
<1>1. IInv /\ [Next]_vars => IInv'
  BY PlacesStep, RunFlagsStep, PastFlagsStep, PodsStep, ListeningStep, LookedStep,
     PickedStep, StopStep, HealsStep DEF IInv, TypeOK
<1> QED BY InitHolds, <1>1, PTL DEF Spec

\* Types hold in every reachable state: it listens on the link it serves, or is about
\* to, and apart from that only where a failed Accept left its listener open, which is
\* never the link it serves.
THEOREM TypeCorrect == Spec => []TypeOK
<1>1. IInv => TypeOK
  BY DEF IInv
<1> QED BY Invariance, <1>1, PTL

\* A run that ends has cleared the proxy of the pod it served.
THEOREM StopCleared == Spec => []StopClears
<1>1. IInv => StopClears
  BY DEF IInv
<1> QED BY Invariance, <1>1, PTL

\* clearBridgeProxy takes the proxy of a service that was killed away.
THEOREM UninstallHealed == Spec => []UninstallHeals
<1>1. IInv => UninstallHeals
  BY DEF IInv
<1> QED BY Invariance, <1>1, PTL

\* Neither the bridge nor uninstall changes a proxy of somebody else's, unless another
\* client set it after the look the change rests on.
THEOREM ForeignStays == Spec => ForeignProxyStays
<1> DEFINE Stays == \A p \in Pods : proxy[p] \in Theirs /\ p \notin since'
                       => \/ proxy'[p] = proxy[p] \/ others' < others
                          \/ proxy[p] = "port" /\ uat \notin {"no", "pick"} /\ ulink = p
<1>1. IInv /\ [Next]_vars => [Stays]_vars
  <2> SUFFICES ASSUME IInv, [Next]_vars PROVE Stays \/ UNCHANGED vars
    OBVIOUS
  <2> USE DEF IInv, TypeOK, Places, PodsOK, Picked, Looked, Theirs, Proxies, NoReq, run, flags, uninst, pods, past
  <2>1. CASE LoopEnds
    BY <2>1 DEF LoopEnds
  <2>2. CASE PickLink
    BY <2>2 DEF PickLink, Waits, RoundEnds, CanPick, CanFail
  <2>3. CASE ReadProxy
    BY <2>3 DEF ReadProxy, Refuse, Looks, Pending, Waits, RoundEnds, CanFail
  <2>4. CASE Listen
    BY <2>4 DEF Listen, Waits, RoundEnds, CanFail
  <2>5. CASE SetProxy
    BY <2>5 DEF SetProxy, SetDone, SetFailed, Answered, Unanswered, CanFail, Waits, RoundEnds
  <2>6. CASE ServeEnds
    BY <2>6 DEF ServeEnds, Gone, RoundEnds
  <2>7. CASE AcceptFails
    BY <2>7 DEF AcceptFails, RoundEnds
  <2>8. CASE Wait
    BY <2>8 DEF Wait
  <2>9. CASE End
    BY <2>9 DEF End, Exit, Answered, Unanswered, CanFail
  <2>10. CASE UninstallPicks
    BY <2>10 DEF UninstallPicks, CanPick, CanFail
  <2>11. CASE UninstallReads
    BY <2>11 DEF UninstallReads, IsOurs, Looks, Pending, CanFail
  <2>12. CASE UninstallClears
    BY <2>12 DEF UninstallClears, Answered, Unanswered, CanFail
  <2>13. CASE CtrlC
    BY <2>13 DEF CtrlC
  <2>14. CASE StartUninstall
    BY <2>14 DEF StartUninstall
  <2>15. CASE Killed
    BY <2>15 DEF Killed, RoundEnds
  <2>16. CASE Restarts
    BY <2>16 DEF Restarts
  <2>17. CASE Collected
    BY <2>17 DEF Collected
  <2>18. CASE Cable
    BY <2>18 DEF Cable
  <2>19. CASE PodExecutesLate
    BY <2>19 DEF PodExecutesLate
  <2>20. CASE BecomesCalm
    BY <2>20 DEF BecomesCalm
  <2>21. ASSUME NEW p \in Pods, OtherClient(p) PROVE Stays
    <3>1. others \in 0 .. MaxOthers /\ others > 0 /\ others' = others - 1
      BY <2>21, ZenonT(30) DEF OtherClient, PastFlags
    <3>2. others' < others
      BY ONLY <3>1, UsbBridgeAssumption
    <3> QED BY <3>2
  <2>22. CASE UNCHANGED vars
    BY <2>22 DEF vars
  <2> QED BY <2>1, <2>2, <2>3, <2>4, <2>5, <2>6, <2>7, <2>8, <2>9, <2>10, <2>11, <2>12,
    <2>13, <2>14, <2>15, <2>16, <2>17, <2>18, <2>19, <2>20, <2>21, <2>22
    DEF Next, Bridge, Uninstall, Environment
<1> QED BY Invariance, <1>1, PTL DEF Spec, ForeignProxyStays
=============================================================================

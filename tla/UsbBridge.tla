------------------------------ MODULE UsbBridge ------------------------------
(***************************************************************************)
(* `benchpod usb-bridge`: watchBridge picks a pod on a USB network link,   *)
(* listens on this computer's end of the link, sets that address as the    *)
(* pod's cloud proxy and serves it until the link goes away or Ctrl-C; on  *)
(* the way out it clears the proxy of the pod it last set.  `usb-bridge    *)
(* uninstall` stops it and clears one pod's proxy if it is ours.           *)
(*                                                                         *)
(* Every request to a pod is a connection of its own: it is answered, or   *)
(* it fails and the pod may still execute it, then or later.  The pods,    *)
(* the cable, the service manager and other clients are external.          *)
(***************************************************************************)
EXTENDS Naturals, FiniteSets

CONSTANTS
  Pods, NoPod,
  Names,      \* what --connection may name: pods, or NoPod for none
  OtherSets,  \* the proxies other clients set
  MaxOthers,  \* bound: the changes other clients make
  MaxLeaks    \* bound: the listeners left open at a time

ASSUME UsbBridgeAssumption ==
  /\ NoPod \notin Pods /\ Names \subseteq Pods \cup {NoPod}
  /\ OtherSets \subseteq {"none", "port", "foreign"}
  /\ MaxOthers \in Nat /\ MaxLeaks \in Nat

VARIABLES
  at,        \* where watchBridge is
  link, cur, \* this round's: the pod it picked, its proxy as read ("none" or "ours")
  setOn,     \* the pod whose proxy this run set
  stopWhy,   \* a one-shot bridge has its reason to stop
  listening, \* the pod on whose link it listens
  leaked,    \* the pods whose link it left its listener open on
  exit,      \* "" or what a finished run returns
  ctxDone,   \* Ctrl-C, or the service is stopped
  want, once, keep,         \* --connection usb:<name>, no --watch, --keep-proxy
  uat, ulink,               \* uninstall: where it is, and the pod it picked
  plugged, proxy, late,     \* the pods: linked, proxy, a request still to execute
  calm,      \* from here on pods answer, cables stay and other clients rest
  \* what happened, for the properties
  setPods, killed, lost,
  others,    \* the changes other clients may still make
  since,     \* pods they changed after the bridge or uninstall had looked
  early      \* uninstall looked at the proxy before the bridge had ended

run   == <<at, link, cur, setOn, stopWhy, listening, leaked, exit, ctxDone>>
flags == <<want, once, keep>>
uninst == <<uat, ulink>>
pods  == <<plugged, proxy, late, calm>>
past  == <<setPods, killed, lost, others, since, early>>
vars  == <<run, flags, uninst, pods, past>>

\* A pod's proxy: the address the bridge serves, this computer's end of the link with
\* another port, or somebody else's.
Proxies == {"none", "ours", "port", "foreign"}
Theirs  == {"port", "foreign"}
NoReq   == <<>>

Places ==
  /\ at \in {"pick", "read", "listen", "set", "serve", "wait", "end", "done", "killed"}
  /\ link \in Pods \cup {NoPod} /\ setOn \in Pods \cup {NoPod} /\ ulink \in Pods \cup {NoPod}
  /\ cur \in {"none", "ours"}
  /\ exit \in {"", "ok", "stopped", "not cleared"}
  /\ uat \in {"no", "pick", "read", "clear", "cleared", "notOurs", "failed"}

RunFlags  == stopWhy \in BOOLEAN /\ ctxDone \in BOOLEAN /\ once \in BOOLEAN /\ keep \in BOOLEAN
PastFlags ==
  /\ calm \in BOOLEAN /\ killed \in BOOLEAN /\ lost \in BOOLEAN /\ early \in BOOLEAN
  /\ others \in 0 .. MaxOthers

PodsOK ==
  /\ want \in Pods \cup {NoPod}
  /\ plugged \subseteq Pods /\ proxy \in [Pods -> Proxies]
  /\ late \in {NoReq} \cup (Pods \X {"none", "ours"})
  /\ setPods \subseteq Pods /\ since \subseteq Pods

\* It listens on the link it serves, or is about to, and on no other, but for those
\* it left its listener open on: on such a link it does not serve.
Listening ==
  /\ listening = (IF at \in {"set", "serve"} THEN link ELSE NoPod)
  /\ leaked \subseteq Pods /\ listening \notin leaked

TypeOK == Places /\ RunFlags /\ PastFlags /\ PodsOK /\ Listening

Init ==
  /\ at = "pick" /\ link = NoPod /\ cur = "none" /\ setOn = NoPod
  /\ stopWhy = FALSE /\ listening = NoPod /\ leaked = {} /\ exit = "" /\ ctxDone = FALSE
  /\ want \in Names /\ once \in BOOLEAN /\ keep \in BOOLEAN
  /\ uat = "no" /\ ulink = NoPod
  /\ plugged \in SUBSET Pods /\ proxy \in [Pods -> Proxies] /\ late = NoReq
  /\ calm = FALSE
  /\ setPods = {} /\ killed = FALSE /\ lost = FALSE /\ others = MaxOthers /\ since = {}
  /\ early = FALSE

-----------------------------------------------------------------------------
(* Picking a pod and asking it, for the bridge and for uninstall.          *)

\* pickUSBLink can choose p: the only pod there is, or the one named, which has
\* told its identity.
CanPick(p) == p \in plugged /\ IF want = NoPod THEN plugged = {p} ELSE want = p

\* A request to p may fail.
CanFail(p) == ~calm \/ p \notin plugged

\* The round's variables go out of scope.
RoundEnds == link' = NoPod /\ cur' = "none"

\* note(why) and wait(): a one-shot bridge stops with the reason.
Waits ==
  /\ stopWhy' = once
  /\ at' = IF once THEN "end" ELSE "wait"
  /\ RoundEnds

\* A cloud_proxy request that changes p's proxy to v and is answered.
Answered(p, v) ==
  /\ p \in plugged
  /\ proxy' = [proxy EXCEPT ![p] = v]
  /\ UNCHANGED <<late, lost>>

\* It fails; the pod may execute it later.
Unanswered(p, v) ==
  /\ CanFail(p)
  /\ late' \in {late} \cup (IF late = NoReq /\ p \in plugged THEN {<<p, v>>} ELSE {})
  /\ lost' = TRUE
  /\ UNCHANGED proxy

-----------------------------------------------------------------------------
(* watchBridge.                                                            *)

LoopEnds ==
  /\ at = "pick" /\ ctxDone
  /\ at' = "end"
  /\ UNCHANGED <<link, cur, setOn, stopWhy, listening, leaked, exit, ctxDone, flags, uninst, pods, past>>

\* A named pod is asked for its identity, which takes an answer.
PickLink ==
  /\ at = "pick" /\ ~ctxDone
  /\ \/ \E p \in Pods : CanPick(p) /\ link' = p /\ at' = "read" /\ UNCHANGED <<cur, stopWhy>>
     \/ /\ \A p \in Pods : CanPick(p) => want = p /\ CanFail(p)
        /\ Waits
  /\ UNCHANGED <<setOn, listening, leaked, exit, ctxDone, flags, uninst, pods, past>>

\* Mutant: any proxy the pod has is taken as none.
RefuseNone(v) == FALSE

\* The pod has a proxy, and its host and port are not the bridge's.
Refuse(v) == v \in Theirs

\* A request is under way or still to be made for p, on the strength of an earlier look.
Pending(p) ==
  \/ at \in {"listen", "set"} /\ link = p
  \/ at \notin {"done", "killed"} /\ setOn = p
  \/ uat = "clear" /\ ulink = p
  \/ late # NoReq /\ late[1] = p

\* The proxy of p is read.
Looks(p) == since' = IF Pending(p) THEN since ELSE since \ {p}

\* The pod's proxy is read: someone else's is left alone.
ReadProxy ==
  /\ at = "read"
  /\ \/ /\ link \in plugged /\ Looks(link)
        /\ IF Refuse(proxy[link])
             THEN Waits
             ELSE /\ at' = "listen" /\ cur' = IF proxy[link] = "ours" THEN "ours" ELSE "none"
                  /\ UNCHANGED <<link, stopWhy>>
     \/ /\ CanFail(link) \/ ctxDone
        /\ Waits /\ UNCHANGED since
  /\ UNCHANGED <<setOn, listening, leaked, exit, ctxDone, flags, uninst, pods, setPods,
                 killed, lost, others, early>>

\* net.Listen on this computer's address: it must be there, and free.
Listen ==
  /\ at = "listen"
  /\ \/ /\ link \in plugged \ leaked
        /\ listening' = link
        /\ at' = IF cur = "ours" THEN "serve" ELSE "set"
        /\ UNCHANGED <<link, cur, stopWhy>>
     \/ /\ CanFail(link) \/ link \in leaked
        /\ Waits /\ UNCHANGED listening
  /\ UNCHANGED <<setOn, leaked, exit, ctxDone, flags, uninst, pods, past>>

\* Mutant: the run forgets that it set the proxy.
SetDoneForgets ==
  /\ Answered(link, "ours")
  /\ at' = "serve" /\ setPods' = setPods \cup {link}
  /\ UNCHANGED <<link, cur, setOn, stopWhy, listening>>

\* bridgeSetProxy succeeded.
SetDone ==
  /\ Answered(link, "ours")
  /\ at' = "serve" /\ setOn' = link /\ setPods' = setPods \cup {link}
  /\ UNCHANGED <<link, cur, stopWhy, listening>>

\* bridgeSetProxy failed: setByUs and setOn stay.
SetFailed ==
  /\ Unanswered(link, "ours")
  /\ listening' = NoPod
  /\ Waits
  /\ UNCHANGED <<setOn, setPods>>

SetProxy ==
  /\ at = "set"
  /\ SetDone \/ SetFailed
  /\ UNCHANGED <<leaked, exit, ctxDone, flags, uninst, plugged, calm, killed, others, since,
                 early>>

\* Mutant: only Ctrl-C stops the proxy.
GoneNever == FALSE

\* hostHasIP is false: this computer's end of the link is gone.
Gone == link \notin plugged

\* serveBridge returns: Ctrl-C, or the link went away when its ticker looked.
ServeEnds ==
  /\ at = "serve"
  /\ \/ ctxDone /\ at' = "end" /\ UNCHANGED stopWhy
     \/ /\ Gone
        /\ at' = IF once THEN "end" ELSE "pick"
        /\ stopWhy' = once
  /\ listening' = NoPod /\ RoundEnds
  /\ UNCHANGED <<setOn, leaked, exit, ctxDone, flags, uninst, pods, past>>

\* It returns after Accept failed: nobody closes the listener, and without Ctrl-C the
\* loop takes it for the link going away.
AcceptFails ==
  /\ at = "serve" /\ Cardinality(leaked \cup {link}) <= MaxLeaks
  /\ at' = IF ctxDone \/ once THEN "end" ELSE "pick"
  /\ stopWhy' = (once /\ ~ctxDone)
  /\ leaked' = leaked \cup {link}
  /\ listening' = NoPod /\ RoundEnds
  /\ UNCHANGED <<setOn, exit, ctxDone, flags, uninst, pods, past>>

Wait ==
  /\ at = "wait"
  /\ \/ ctxDone /\ at' = "end"
     \/ at' = "pick"
  /\ UNCHANGED <<link, cur, setOn, stopWhy, listening, leaked, exit, ctxDone, flags, uninst, pods, past>>

\* What the deferred function returns for a run without an error of its own.
Exit == IF stopWhy THEN "stopped" ELSE "ok"

\* The end: clear the proxy this run set, unless --keep-proxy.
End ==
  /\ at = "end"
  /\ at' = "done" /\ leaked' = {}
  /\ IF setOn = NoPod \/ keep
       THEN exit' = Exit /\ UNCHANGED <<proxy, late, lost>>
       ELSE \/ Answered(setOn, "none") /\ exit' = Exit
            \/ Unanswered(setOn, "none") /\ exit' = "not cleared"
  /\ UNCHANGED <<link, cur, setOn, stopWhy, listening, ctxDone, flags, uninst,
                 plugged, calm, setPods, killed, others, since, early>>

Bridge == LoopEnds \/ PickLink \/ ReadProxy \/ Listen \/ SetProxy \/ ServeEnds \/ Wait \/ End

-----------------------------------------------------------------------------
(* usb-bridge uninstall, one second after it had the service stopped.      *)

UninstallPicks ==
  /\ uat = "pick"
  /\ \/ \E p \in Pods : CanPick(p) /\ ulink' = p /\ uat' = "read"
     \/ /\ \A p \in Pods : CanPick(p) => want = p /\ CanFail(p)
        /\ uat' = "failed" /\ UNCHANGED ulink
  /\ UNCHANGED <<run, flags, pods, past>>

\* Mutant: the proxy's host is compared with the pod's own address.
IsOursNever(v) == FALSE

\* clearBridgeProxy compares the proxy's host with this computer's address, not its port.
IsOurs(v) == v \in {"ours", "port"}

UninstallReads ==
  /\ uat = "read"
  /\ \/ /\ ulink \in plugged /\ Looks(ulink)
        /\ uat' = IF IsOurs(proxy[ulink]) THEN "clear" ELSE "notOurs"
        /\ early' = (at \notin {"done", "killed"})
     \/ CanFail(ulink) /\ uat' = "failed" /\ UNCHANGED <<since, early>>
  /\ UNCHANGED <<run, flags, ulink, pods, setPods, killed, lost, others>>

UninstallClears ==
  /\ uat = "clear"
  /\ \/ Answered(ulink, "none") /\ uat' = "cleared"
     \/ Unanswered(ulink, "none") /\ uat' = "failed"
  /\ UNCHANGED <<run, flags, ulink, plugged, calm, setPods, killed, others, since, early>>

Uninstall == UninstallPicks \/ UninstallReads \/ UninstallClears

-----------------------------------------------------------------------------
(* The user, the service manager, the cable, the pods and their clients.   *)

\* A command is at work: what happens after it does not matter here.
Active == at \notin {"done", "killed"} \/ (at = "killed" /\ ~ctxDone) \/ uat \in {"pick", "read", "clear"}

CtrlC ==
  /\ ~ctxDone /\ at \notin {"done", "killed"}
  /\ ctxDone' = TRUE
  /\ UNCHANGED <<at, link, cur, setOn, stopWhy, listening, leaked, exit, flags, uninst, pods, past>>

\* The service (--watch, never --keep-proxy) is stopped and the uninstall goes on,
\* whether it has ended or not.
StartUninstall ==
  /\ uat = "no" /\ ~once /\ ~keep
  /\ uat' = "pick" /\ ctxDone' = TRUE
  /\ UNCHANGED <<at, link, cur, setOn, stopWhy, listening, leaked, exit, flags, ulink, pods, past>>

\* The runtime closes a listener nothing refers to any more, sooner or later or never.
Collected ==
  /\ leaked # {}
  /\ leaked' = {}
  /\ UNCHANGED <<at, link, cur, setOn, stopWhy, listening, exit, ctxDone, flags, uninst, pods, past>>

\* The process dies; what it asked of a pod may still be executed.
Killed ==
  /\ at \notin {"done", "killed"} /\ ~calm
  /\ at' = "killed" /\ listening' = NoPod /\ leaked' = {} /\ RoundEnds /\ killed' = TRUE
  /\ late' \in {late} \cup
       (IF late # NoReq THEN {}
        ELSE IF at = "set" /\ link \in plugged THEN {<<link, "ours">>} ELSE {})
  /\ lost' = (lost \/ late' # late)
  /\ UNCHANGED <<setOn, stopWhy, exit, ctxDone, flags, uninst, plugged, proxy,
                 calm, setPods, others, since, early>>

\* The service manager starts it again, unless it was stopped.
Restarts ==
  /\ at = "killed" /\ ~once /\ ~ctxDone
  /\ at' = "pick" /\ setOn' = NoPod /\ stopWhy' = FALSE
  /\ UNCHANGED <<link, cur, listening, leaked, exit, ctxDone, flags, uninst, pods, past>>

Cable ==
  /\ ~calm /\ Active
  /\ plugged' \in SUBSET Pods \ {plugged}
  /\ late' = IF late # NoReq /\ late[1] \notin plugged' THEN NoReq ELSE late
  /\ UNCHANGED <<run, flags, uninst, proxy, calm, past>>

PodExecutesLate ==
  /\ late # NoReq
  /\ proxy' = [proxy EXCEPT ![late[1]] = late[2]]
  /\ late' = NoReq
  /\ UNCHANGED <<run, flags, uninst, plugged, calm, past>>

\* `benchpod cloud proxy set` or `clear`, or a bridge with another --port.
OtherClient(p) ==
  /\ ~calm /\ p \in plugged /\ Active
  /\ others > 0 /\ others' = others - 1
  /\ proxy' \in {[proxy EXCEPT ![p] = v] : v \in OtherSets \ {proxy[p]}}
  /\ since' = IF Pending(p) THEN since \cup {p} ELSE since
  /\ UNCHANGED <<run, flags, uninst, plugged, late, calm, setPods, killed, lost, early>>

BecomesCalm ==
  /\ ~calm /\ ~ctxDone /\ late = NoReq
  /\ calm' = TRUE /\ others' = 0
  /\ UNCHANGED <<run, flags, uninst, plugged, proxy, late, setPods, killed, lost, since, early>>

Environment ==
  \/ AcceptFails \/ Collected
  \/ CtrlC \/ StartUninstall \/ Killed \/ Restarts \/ Cable \/ PodExecutesLate \/ BecomesCalm
  \/ \E p \in Pods : OtherClient(p)

-----------------------------------------------------------------------------
Next == Bridge \/ Uninstall \/ Environment

Spec     == Init /\ [][Next]_vars

\* The processes run, their requests time out and their timers fire; the service
\* manager restarts the service.
FairSpec == Spec /\ WF_vars(Bridge) /\ WF_vars(Restarts)

-----------------------------------------------------------------------------
(* Properties.                                                             *)

\* "It refuses to replace a proxy the pod already has", and uninstall clears one only
\* "when it points at this computer's end of that link": somebody else's proxy changes
\* only if another client set it after the look the change rests on.
ForeignProxyStays ==
  [][\A p \in Pods : proxy[p] \in Theirs /\ p \notin since'
       => \/ proxy'[p] = proxy[p] \/ others' < others
          \/ proxy[p] = "port" /\ uat \notin {"no", "pick"} /\ ulink = p]_vars

\* It "clears the pod's proxy again": a run that ends without --keep-proxy and does
\* not report that it could not, leaves no proxy on the one pod it served, however
\* often that was unplugged, unless a request was lost on the way.
StopClears ==
  at = "done" /\ exit # "not cleared" /\ ~keep /\ ~killed /\ ~lost
    => \A p \in setPods : setPods = {p} => proxy[p] # "ours"

\* "The stopped service may not have cleared the proxy": uninstall that ends without
\* an error leaves its pod without our proxy, killed service or not, if it had ended
\* by the time uninstall looked.
UninstallHeals ==
  uat \in {"cleared", "notOurs"} /\ ~early /\ ~lost
    => proxy[ulink] # "ours"

\* "picks the pod up again when it comes back": once cables and pods are calm, a
\* --watch bridge serves the pod it can pick, or ends if Ctrl-C comes first, whatever
\* happened before; unless a failed Accept left its listener open on that link.
PicksUpAgain ==
  \A p \in Pods :
    calm /\ ~once /\ CanPick(p) /\ ~Refuse(proxy[p])
      ~> \/ ctxDone /\ at \in {"done", "killed"}
         \/ p \in leaked
         \/ at = "serve" /\ link = p /\ listening = p

\* The same without that exception: the process then holds the address itself, and every
\* later net.Listen on it fails.
ServesAgain ==
  \A p \in Pods :
    calm /\ ~once /\ CanPick(p) /\ ~Refuse(proxy[p])
      ~> ctxDone \/ (at = "serve" /\ link = p /\ listening = p)

\* "It refuses to replace a proxy the pod already has", and it clears its own: between
\* the look and the request the pod may get another one, and the run's end looks no more.
NeverReplaced ==
  [][\A p \in Pods : proxy[p] \in Theirs /\ uat = "no"
       => proxy'[p] = proxy[p] \/ others' < others]_vars

\* The help: "It runs until Ctrl-C, then clears the pod's proxy again (--keep-proxy
\* leaves it set)."  For every pod on which the run set it and that is there to be
\* cleared.
NothingLeftSet ==
  at = "done" /\ exit = "ok" /\ ~keep /\ ~killed /\ ~lost
    => \A p \in setPods \cap plugged : proxy[p] # "ours"
=============================================================================

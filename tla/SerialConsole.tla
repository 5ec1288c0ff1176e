---------------------------- MODULE SerialConsole ----------------------------
(***************************************************************************)
(* The pod's USB console and the commands that use it: set-wifi,           *)
(* show-network, scan-wifi, clear-wifi, bootsel and dfu, and the power     *)
(* command of flash.  sendCommandWait must find the end of a reply in a    *)
(* stream that also carries the tail of earlier replies and log lines of   *)
(* other tasks, fragments of which look like the prompt; what the command  *)
(* then reports is read from all it captured.                              *)
(*                                                                         *)
(* A line of the stream is a token [k, v].  A prompt and a fragment that   *)
(* looks like one are the same token.  The pod, its Wi-Fi and its Wi-Fi    *)
(* bridge are external.                                                    *)
(***************************************************************************)
EXTENDS Naturals, Sequences, FiniteSets, FiniteSetsExt

CONSTANTS
  Flows,      \* the commands the run may be
  Networks,   \* the network asked for: "new", or "old", the one the pod has
  Wired,      \* whether a pod may also have an Ethernet lease
  MaxNoise,   \* bound: fragments that look like a prompt
  MaxLost,    \* bound: lines the pod's non-blocking output drops
  MaxPolls    \* bound: wifi-show polls of a bridge that is joining

ASSUME SerialConsoleAssumption ==
  /\ Flows \subseteq {"set", "show", "scan", "clear", "boot", "power"}
  /\ Networks \subseteq {"old", "new"} /\ Wired \subseteq BOOLEAN
  /\ {MaxNoise, MaxLost, MaxPolls} \subseteq Nat

VARIABLES
  flow, want,        \* the command, and the network asked for
  pc, result,        \* where it is, and what it reports
  joinSeen,          \* WifiSet saw the pod report the join
  phase, ret,        \* the console command under way, and how it returned
  acc, grace,        \* what it captured; a prompt came before the reply looked whole
  ctx, polls,        \* the context's deadline has not passed; polls made
  out, echoes,       \* what the pod printed and is unread; the console echoes
  podIn, todo,       \* the pod's input line, and what it has still to print
  bridge, wired,     \* a Wi-Fi bridge carries Wi-Fi; it has an Ethernet lease
  cred, wifi, shown, \* its credentials, its Wi-Fi, and what wifi-show prints of both
  powered, gone,     \* the target's power; the port has vanished
  scanned,           \* the networks a finished scan saw
  noise, lost        \* counters of the faults

flowv == <<flow, want, pc, result, joinSeen, polls>>
readv == <<phase, ret, acc, grace>>
podv  == <<bridge, wired, cred, wifi, shown, powered, scanned, echoes>>
consoleVars ==
  <<flowv, readv, ctx, out, podIn, todo, podv, gone, noise, lost>>

Token(k, v) == [k |-> k, v |-> v]
Prompt == Token("prompt", "")
Cells  == {"a", "b"}   \* the networks around

\* What the console command of a step is.
Command == CASE pc \in {"before", "after", "poll", "has"} -> "show"
             [] pc \in {"set", "bridge set"} -> "set"
             [] pc = "one" -> flow
             [] OTHER -> "none"

ConsoleInit ==
  /\ flow \in Flows /\ want \in Networks
  /\ pc = (IF flow = "set" THEN "before" ELSE "one") /\ result = "none"
  /\ joinSeen = FALSE /\ phase = "call" /\ ret = "none" /\ acc = <<>> /\ grace = FALSE
  /\ ctx = TRUE /\ polls = 0
  /\ out \in {<<>>, <<Prompt>>} /\ echoes \in BOOLEAN
  /\ podIn = <<>> /\ todo = <<>>
  /\ bridge \in BOOLEAN /\ wired \in Wired
  /\ cred = "old" /\ wifi \in {"down", "connected"}
  /\ shown = [ssid |-> "old", state |-> wifi]
  /\ powered = FALSE /\ gone = FALSE /\ scanned = {} /\ noise = 0 /\ lost = 0

-----------------------------------------------------------------------------
(* sendCommandWait.                                                        *)

At(s, k)     == {i \in DOMAIN s : s[i].k = k}
PromptIn(s)  == At(s, "prompt") # {}
PromptAfter(s, i) == \E j \in At(s, "prompt") : j > i

\* The command's echo, by its text: an earlier command that reads the same
\* matches too.
EchoIn(s) == {i \in At(s, "echo") : s[i].v = Command}

\* A prompt after the echo.
EchoedEnd(s) == EchoIn(s) # {} /\ PromptAfter(s, Min(EchoIn(s)))

\* Bug: any prompt after the echo ends the reply.
CompleteAtPrompt(s) == PromptIn(s)

\* wifiShowComplete, wifiScanComplete and TargetPower's complete.
Complete(s) ==
  CASE Command = "show"  -> At(s, "rssi") # {} /\ PromptAfter(s, Max(At(s, "rssi")))
    [] Command = "scan"  -> LET m == At(s, "done") \cup At(s, "scan error") \cup At(s, "unknown")
                            IN  m # {} /\ PromptAfter(s, Max(m))
    [] Command = "power" -> At(s, "efuse") \cup At(s, "unknown") # {}
    [] OTHER -> TRUE

\* A complete reply returns; otherwise it is waited for, for replyGrace, or for
\* wifi-scan (grace 0) until the deadline.
Ended(s) ==
  IF Complete(s) THEN phase' = "got" /\ ret' = "ok" /\ UNCHANGED grace
  ELSE grace' = (grace \/ Command # "scan") /\ UNCHANGED <<phase, ret>>

\* What is unread is dropped, except what is still on its way; then the line is
\* written, which fails when the port has vanished.
SendLine ==
  /\ phase = "call" /\ Command # "none"
  /\ IF gone
     THEN phase' = "got" /\ ret' = "unsent" /\ UNCHANGED <<out, podIn>>
     ELSE /\ phase' = "reading" /\ podIn' = Append(podIn, Command) /\ UNCHANGED ret
          /\ \E n \in 0 .. Len(out) : out' = SubSeq(out, n + 1, Len(out))
  /\ acc' = <<>> /\ grace' = FALSE
  /\ UNCHANGED <<flowv, ctx, todo, podv, gone, noise, lost>>

\* One read may bring several lines.
Read == \E n \in 1 .. Len(out) :
  /\ phase = "reading" /\ ctx
  /\ acc' = acc \o SubSeq(out, 1, n) /\ out' = SubSeq(out, n + 1, Len(out))
  /\ IF EchoedEnd(acc') THEN Ended(acc') ELSE UNCHANGED <<phase, ret, grace>>
  /\ UNCHANGED <<flowv, ctx, podIn, todo, podv, gone, noise, lost>>

\* A prompt without an echo ends the reply once echoGrace has passed: a pod that
\* was idle has by then taken the line, and its echo, if it echoes, has come.
EchoGraceOver ==
  /\ phase = "reading" /\ ctx /\ ~grace /\ PromptIn(acc) /\ EchoIn(acc) = {}
  /\ podIn = <<>> /\ (echoes => out = <<>>)
  /\ Ended(acc)
  /\ UNCHANGED <<flowv, acc, ctx, out, podIn, todo, podv, gone, noise, lost>>

\* replyGrace has passed: by then a pod that was printing has printed the rest.
ReplyGraceOver ==
  /\ phase = "reading" /\ ctx /\ grace /\ out = <<>> /\ todo = <<>>
  /\ phase' = "got" /\ ret' = "ok"
  /\ UNCHANGED <<flowv, acc, grace, ctx, out, podIn, todo, podv, gone, noise, lost>>

\* Bug: reading has no deadline.
ReadFailsGone ==
  /\ phase = "reading" /\ gone /\ out = <<>> /\ ret' = "gone" /\ phase' = "got"
  /\ UNCHANGED <<flowv, acc, grace, ctx, out, podIn, todo, podv, gone, noise, lost>>

\* The deadline, or the port has vanished and everything it sent is read.
ReadFails ==
  /\ phase = "reading"
  /\ \/ ~ctx /\ ret' = "timeout"
     \/ gone /\ out = <<>> /\ ret' = "gone"
  /\ phase' = "got"
  /\ UNCHANGED <<flowv, acc, grace, ctx, out, podIn, todo, podv, gone, noise, lost>>

CtxExpires ==
  /\ ctx /\ result = "none" /\ ctx' = FALSE
  /\ UNCHANGED <<flowv, readv, out, podIn, todo, podv, gone, noise, lost>>

-----------------------------------------------------------------------------
(* What the commands make of it.                                           *)

Says(k)  == At(acc, k) # {}
Field(k) == IF Says(k) THEN acc[Max(At(acc, k))].v ELSE "none"   \* the last one wins

\* wifi-show as parseWifiShow reads it; nothing when it failed.
Shows(k) == IF ret = "ok" THEN Field(k) ELSE "none"
ViaBridge == Shows("via") = "bridge"

Finish(r) == pc' = "done" /\ result' = r /\ UNCHANGED polls
Go(p)     == pc' = p /\ UNCHANGED <<result, polls>>

\* runSetWifi, before it writes: a bridge keeps the credentials itself; without
\* one the ESP32-C3's image is looked at and installed if missing, which may fail.
SetWifiBefore ==
  /\ pc = "before" /\ phase = "got" /\ phase' = "call"
  /\ IF ViaBridge THEN Go("bridge set") ELSE Go("set") \/ Finish("error")
  /\ UNCHANGED <<flow, want, joinSeen, ret, acc, grace, ctx, out, podIn, todo, podv,
                 gone, noise, lost>>

\* WifiSet's verdict on the captured lines.
SetVerdict ==
  CASE ret # "ok" -> "error"
    [] ret = "ok" /\ ~Says("saved") /\ Says("refused") -> "not saved"
    [] ret = "ok" /\ (Says("saved") \/ ~Says("refused"))
         /\ ~Says("joined") /\ Says("failed") -> "join failed"
    [] OTHER -> "go on"

\* Then the state is read back, or a bridge's join watched.
WifiSet ==
  /\ pc \in {"set", "bridge set"} /\ phase = "got" /\ phase' = "call"
  /\ IF SetVerdict # "go on" THEN Finish(SetVerdict)
                             ELSE Go(IF pc = "set" THEN "after" ELSE "poll")
  /\ joinSeen' = Says("joined")
  /\ UNCHANGED <<flow, want, ret, acc, grace, ctx, out, podIn, todo, podv, gone,
                 noise, lost>>

\* Without a bridge: the join was reported, or wifi-show has an address or a
\* state that says so.
SetWifiAfter ==
  /\ pc = "after" /\ phase = "got" /\ phase' = "call"
  /\ Finish(IF joinSeen \/ Shows("ip") = "address" \/ Shows("state") = "connected"
            THEN "joined" ELSE "saved")
  /\ UNCHANGED <<flow, want, joinSeen, ret, acc, grace, ctx, out, podIn, todo, podv,
                 gone, noise, lost>>

\* Bug: a status counts whatever network it is about.
ReportsAny == ViaBridge

\* A status counts when it is about the network asked for.
Reports == ViaBridge /\ Shows("ssid") = want

\* With a bridge: until it has joined or cannot, or bridgeJoinWait is over.
BridgePoll ==
  /\ pc = "poll" /\ phase = "got" /\ phase' = "call"
  /\ IF Reports /\ Shows("state") = "connected" THEN Finish("joined")
     ELSE IF Reports /\ Shows("state") = "failed" THEN Finish("join failed")
     ELSE \/ Finish("saved")
          \/ ctx /\ polls < MaxPolls /\ polls' = polls + 1 /\ UNCHANGED <<pc, result>>
  /\ UNCHANGED <<flow, want, joinSeen, ret, acc, grace, ctx, out, podIn, todo, podv,
                 gone, noise, lost>>

\* parseWifiScan, parsePowerReply, Bootsel and Dfu, WifiClear, show-network.
ScanVerdict ==
  CASE ret # "ok" \/ Says("scan error") -> "error"
    [] ret = "ok" /\ ~Says("scan error") /\ Says("unknown") -> "ask"
    [] OTHER -> IF Says("done") THEN "listed" ELSE "error"
PowerVerdict ==
  CASE Says("unknown") -> "error"
    [] ~Says("unknown") /\ Says("efuse") ->
         IF Field("efuse") = "on" THEN "powered" ELSE "error"
    [] OTHER -> "error"
BootVerdict == IF Says("entering") \/ ret = "gone" THEN "booting" ELSE "error"
OneVerdict ==
  CASE flow = "scan"  -> ScanVerdict
    [] flow = "power" -> PowerVerdict
    [] flow = "boot"  -> BootVerdict
    [] flow = "clear" -> IF ret = "ok" THEN "cleared" ELSE "error"
    [] OTHER          -> IF ret = "ok" THEN "shown" ELSE "error"

OneCommand ==
  /\ pc = "one" /\ phase = "got" /\ phase' = "call"
  /\ IF OneVerdict = "ask" THEN Go("has") ELSE Finish(OneVerdict)
  /\ UNCHANGED <<flow, want, joinSeen, ret, acc, grace, ctx, out, podIn, todo, podv,
                 gone, noise, lost>>

\* scanWifiUnsupported: firmware that cannot scan may still have Wi-Fi.
CannotScan ==
  /\ pc = "has" /\ phase = "got" /\ phase' = "call"
  /\ Finish(IF Shows("state") = "none" THEN "error" ELSE "cannot scan")
  /\ UNCHANGED <<flow, want, joinSeen, ret, acc, grace, ctx, out, podIn, todo, podv,
                 gone, noise, lost>>

-----------------------------------------------------------------------------
(* The pod: it takes a line when it has answered the one before, echoes it *)
(* and prints its reply line by line.                                      *)

Status ==
  <<Token("ssid", shown.ssid), Token("state", shown.state)>>
    \o (IF wired \/ (~bridge /\ wifi = "connected")
        THEN <<Token("ip", "address")>> ELSE <<>>)
    \o (IF bridge THEN <<Token("via", "bridge")>> ELSE <<>>)
    \o <<Token("rssi", ""), Prompt>>

Answer(r) == todo' = r
Stays == UNCHANGED <<cred, wifi, shown, powered, scanned>>

\* wifi-set without a bridge saves, then joins or fails before it prompts; a
\* bridge joins later.
DoSet ==
  \/ Answer(<<Token("refused", ""), Prompt>>) /\ Stays
  \/ /\ bridge /\ Answer(<<Token("saved", ""), Prompt>>)
     /\ cred' = want /\ wifi' = "joining" /\ UNCHANGED <<shown, powered, scanned>>
  \/ \E ok \in BOOLEAN :
       /\ ~bridge /\ cred' = want /\ wifi' = (IF ok THEN "connected" ELSE "failed")
       /\ Answer(<<Token("saved", ""), Token(IF ok THEN "joined" ELSE "failed", ""),
                   Prompt>>)
       /\ shown' = [ssid |-> want, state |-> wifi'] /\ UNCHANGED <<powered, scanned>>

\* The built-in Wi-Fi prints what it found after the prompt.
DoScan ==
  \/ Answer(<<Token("unknown", ""), Prompt>>) /\ Stays
  \/ Answer(<<Token("scan error", ""), Prompt>>) /\ Stays
  \/ \E found \in SUBSET Cells :
       /\ scanned' = found /\ UNCHANGED <<cred, wifi, shown, powered>>
       /\ Answer((IF bridge THEN <<>> ELSE <<Prompt>>)
                 \o (IF "a" \in found THEN <<Token("net", "a")>> ELSE <<>>)
                 \o (IF "b" \in found THEN <<Token("net", "b")>> ELSE <<>>)
                 \o <<Token("done", ""), Prompt>>)

DoPower ==
  \/ Answer(<<Token("unknown", ""), Prompt>>) /\ Stays
  \/ Answer(<<Token("efuse", "bad"), Prompt>>) /\ Stays
  \/ /\ Answer(<<Token("efuse", "on"), Prompt>>)
     /\ powered' = TRUE /\ UNCHANGED <<cred, wifi, shown, scanned>>

DoClear ==
  /\ Answer(<<Prompt>>) /\ cred' = "none" /\ wifi' = "down"
  /\ shown' = [ssid |-> "none", state |-> "down"] /\ UNCHANGED <<powered, scanned>>

PodTakes ==
  /\ podIn # <<>> /\ todo = <<>> /\ podIn' = Tail(podIn)
  /\ CASE Head(podIn) = "show"  -> Answer(Status) /\ Stays
       [] Head(podIn) = "set"   -> DoSet
       [] Head(podIn) = "scan"  -> DoScan
       [] Head(podIn) = "power" -> DoPower
       [] Head(podIn) = "clear" -> DoClear
       [] Head(podIn) = "boot"  -> Answer(<<Token("entering", ""), Token("leave", "")>>)
                                   /\ Stays
  /\ out' = IF echoes THEN Append(out, Token("echo", Head(podIn))) ELSE out
  /\ UNCHANGED <<flowv, readv, ctx, bridge, wired, echoes, gone, noise, lost>>

PodPrints ==
  /\ todo # <<>> /\ todo' = Tail(todo)
  /\ IF Head(todo).k = "leave" THEN gone' = TRUE /\ UNCHANGED out
                               ELSE out' = Append(out, Head(todo)) /\ UNCHANGED gone
  /\ UNCHANGED <<flowv, readv, ctx, podIn, podv, noise, lost>>

PodDropsLine ==
  /\ todo # <<>> /\ Head(todo).k \notin {"prompt", "leave"} /\ lost < MaxLost
  /\ todo' = Tail(todo) /\ lost' = lost + 1
  /\ UNCHANGED <<flowv, readv, ctx, out, podIn, podv, gone, noise>>

\* A log line of another task, a chunk of which starts a line with "> ".
Noise ==
  /\ noise < MaxNoise /\ ~gone /\ phase = "reading"
  /\ out' = Append(out, Prompt) /\ noise' = noise + 1
  /\ UNCHANGED <<flowv, readv, ctx, podIn, todo, podv, gone, lost>>

Unplug ==
  /\ ~gone /\ result = "none" /\ gone' = TRUE /\ podIn' = <<>> /\ todo' = <<>>
  /\ UNCHANGED <<flowv, readv, ctx, out, podv, noise, lost>>

\* The bridge joins in the background, and the pod hears of its state now and then.
BridgeJoins == \E r \in {"connected", "failed"} :
  /\ bridge /\ wifi = "joining" /\ wifi' = r
  /\ UNCHANGED <<flowv, readv, ctx, out, podIn, todo, bridge, wired, cred, shown,
                 powered, scanned, echoes, gone, noise, lost>>
BridgeTells ==
  /\ bridge /\ shown # [ssid |-> cred, state |-> wifi]
  /\ shown' = [ssid |-> cred, state |-> wifi]
  /\ UNCHANGED <<flowv, readv, ctx, out, podIn, todo, bridge, wired, cred, wifi,
                 powered, scanned, echoes, gone, noise, lost>>

Host == \/ SendLine \/ Read \/ EchoGraceOver \/ ReplyGraceOver \/ ReadFails
        \/ SetWifiBefore \/ WifiSet \/ SetWifiAfter \/ BridgePoll
        \/ OneCommand \/ CannotScan
Pod  == \/ PodTakes \/ PodPrints \/ PodDropsLine \/ Noise \/ Unplug
        \/ BridgeJoins \/ BridgeTells

Finished == result # "none" /\ UNCHANGED consoleVars

ConsoleNext == Host \/ Pod \/ CtxExpires \/ Finished

\* The host takes its steps and its deadline comes; nothing of the pod is fair.
ConsoleSpec ==
  /\ ConsoleInit /\ [][ConsoleNext]_consoleVars
  /\ WF_consoleVars(Host) /\ WF_consoleVars(CtxExpires)

-----------------------------------------------------------------------------
(* Properties.                                                             *)

Kinds == {"prompt", "echo", "ssid", "state", "ip", "via", "rssi", "saved", "refused",
          "joined", "failed", "net", "done", "unknown", "scan error", "efuse",
          "entering", "leave"}

ConsoleTypeOK ==
  /\ pc \in {"before", "set", "bridge set", "after", "poll", "one", "has", "done"}
  /\ result \in {"none", "error", "not saved", "join failed", "joined", "saved",
                 "listed", "cannot scan", "powered", "booting", "cleared", "shown"}
  /\ phase \in {"call", "reading", "got"} /\ ret \in {"none", "ok", "timeout", "gone", "unsent"}
  /\ \A s \in {acc, out, todo} : \A i \in DOMAIN s : s[i].k \in Kinds
  /\ Len(podIn) <= 2
  /\ {joinSeen, grace, ctx, echoes, bridge, wired, powered, gone} \subseteq BOOLEAN
  /\ cred \in {"none", "old", "new"} /\ wifi \in {"down", "joining", "connected", "failed"}
  /\ polls <= MaxPolls /\ noise <= MaxNoise /\ lost <= MaxLost
  /\ (pc = "done") = (result # "none")

\* On a console that echoes, and without fragments of log lines, a command returns
\* with its reply read to the end: an unread prompt, the prompt before a scan's
\* list, or the tail of a reply cut short is not taken for its end, and nothing of
\* the reply is left for the next command to read.
ReadToItsEnd ==
  (phase = "got" /\ ret = "ok" /\ echoes /\ noise = 0)
    => podIn = <<>> /\ todo = <<>> /\ out = <<>>

\* On a console that echoes, what is reported is what the pod did.  Joined: the
\* pod's Wi-Fi is connected with the credentials asked for, not with those it had
\* before, if no line was dropped; without a bridge only if no log line interfered
\* either (JoinIsConfirmed), through one only for a new network, for a bridge's status
\* names the network and not the attempt.  Not saved: it has the old credentials.  A
\* list of networks is the scan's, all of it unless lines were dropped.  Powered: the
\* eFuse is on.  Booting: the port is going, or gone.
ReportIsTrue == echoes =>
  /\ result = "joined" /\ lost = 0 /\ (IF bridge THEN want = "new" ELSE noise = 0)
       => cred = want /\ wifi = "connected"
  /\ result = "not saved" => cred = "old"
  /\ result = "listed" =>
       LET nets == {acc[i].v : i \in At(acc, "net")}
       IN  nets \subseteq scanned /\ (lost = 0 => nets = scanned)
  /\ result = "powered" => powered
  /\ result = "booting" => gone \/ (todo # <<>> /\ Head(todo).k = "leave")

\* set-wifi says what became of it although the bridge never joins, the pod says
\* nothing, or the port vanishes.
CommandEnds == <>(result # "none")

\* runSetWifi: "returning the pod's address when the join is confirmed".
JoinIsConfirmed == result = "joined" => cred = want /\ wifi = "connected"
=============================================================================

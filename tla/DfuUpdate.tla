------------------------------ MODULE DfuUpdate ------------------------------
(***************************************************************************)
(* flash-self over USB DFU: find the pod's console among the serial ports, *)
(* reboot it into its bootloader, let dfu-util write the image, find the   *)
(* pod again and install its blobs.  Pods, dfu-util and the person who     *)
(* presses BOOT and RESET are external.                                    *)
(*                                                                         *)
(* A pod's console has two ports, "cu", which the enumerator lists with a  *)
(* pod's USB id, and its twin "tty".  A port of something else is a pod's  *)
(* that does not answer.  A pod's serial number and name are the pod.      *)
(***************************************************************************)
EXTENDS Naturals, FiniteSets

CONSTANTS
  Pods,
  None,      \* nothing, "" in the code
  MaxMoves   \* bound: what the person does to pods while the command runs

ASSUME DfuUpdateAssumption ==
  /\ IsFiniteSet(Pods) /\ MaxMoves \in Nat
  /\ None \notin Pods /\ None \notin [pod : Pods, end : {"cu", "tty"}]

VARIABLES
  mode, next, fw, blobs,   \* each pod: what it runs, or "gone"; what it comes up in; its
                           \* firmware; its blobs
  byHand, moves,           \* pods put in DFU with their buttons
  enter, leave, skip, named, hint,  \* --enter-dfu, ~--no-leave, --skip-blobs, usb:<name>,
                           \* and the port cached as LastSerial
  builtIn,                 \* the new firmware has its blobs built in
  pc, purpose,             \* where the command is, and what it wants a console for
  todo, found, held,       \* ports to probe, consoles found, consoles open
  answered,                \* pods whose console answered
  console, serial,         \* the console's port; flashedPodSerial
  flashed, installedOn,    \* the pod dfu-util wrote; the pod the blobs went to
  result

device == <<mode, next, fw, blobs, byHand, moves>>
flags  == <<enter, leave, skip, named, builtIn>>
probe  == <<todo, found, held, answered>>
update == <<serial, flashed, installedOn>>
vars   == <<device, flags, hint, pc, purpose, probe, console, update, result>>

PodOrNone == Pods \cup {None}
Ports     == [pod : Pods, end : {"cu", "tty"}]
InDfu     == {p \in Pods : mode[p] = "dfu"}
OnUSB     == {n \in Ports : mode[n.pod] = "app"}

Init ==
  /\ fw \in [Pods -> {"old", "broken"}] /\ blobs = [p \in Pods |-> "old"]
  /\ mode \in [Pods -> {"app", "dfu", "gone"}] /\ next = [p \in Pods |-> "none"]
  /\ \A p \in Pods : mode[p] = "app" => fw[p] = "old"
  /\ byHand = InDfu /\ moves = 0
  /\ enter \in BOOLEAN /\ leave \in BOOLEAN /\ skip \in BOOLEAN /\ builtIn \in BOOLEAN
  /\ named \in PodOrNone /\ hint \in Ports \cup {None}
  /\ pc = "image" /\ purpose = "none" /\ todo = {} /\ found = {} /\ held = {}
  /\ answered = {} /\ console = None
  /\ serial = None /\ flashed = None /\ installedOn = None /\ result = "none"

-----------------------------------------------------------------------------
(* Pods and the person.                                                    *)

\* Unplugged, or BOOT or RESET pressed: the pod comes up in DFU, or in its firmware if
\* it has one.
Press(p, m) ==
  /\ moves < MaxMoves /\ moves' = moves + 1
  /\ m = "app" => fw[p] # "broken"
  /\ mode' = [mode EXCEPT ![p] = "gone"] /\ next' = [next EXCEPT ![p] = m]
  /\ byHand' = (IF m = "dfu" THEN byHand \cup {p} ELSE byHand)
  /\ UNCHANGED <<fw, blobs, flags, hint, pc, purpose, probe, console, update, result>>

ComesUp(p) ==
  /\ mode[p] = "gone" /\ next[p] # "none"
  /\ mode' = [mode EXCEPT ![p] = next[p]] /\ next' = [next EXCEPT ![p] = "none"]
  /\ UNCHANGED <<fw, blobs, byHand, moves, flags, hint, pc, purpose, probe, console,
                 update, result>>

-----------------------------------------------------------------------------
(* OpenBenchpodSelect, which looks for a pod's console.                    *)

\* candidatePortsVID and preferFirst: the hint, then the ports with a pod's USB id, then
\* the rest.
First(S) == IF hint \in S THEN {hint}
            ELSE IF \E n \in S : n.end = "cu" THEN {n \in S : n.end = "cu"} ELSE S

\* Bug: two consoles without identity are taken for one pod's.
SameIdAny(f, id) == \E g \in f : g.id = id

\* The same pod on its second port: the same identity, and it has one.
SameId(f, id) == \E g \in f : g.id # None /\ g.id = id

Look(why) ==
  /\ pc' = "probe" /\ purpose' = why /\ todo' = OnUSB /\ found' = {} /\ held' = {}
  /\ answered' = {}

\* A console, or None: the errors' consoles have been closed.
Selected(n) == pc' = "selected" /\ console' = n

\* A port is opened and asked for its status and its identity, which may fail.
ProbePort(n) ==
  /\ pc = "probe" /\ n \in First(todo) /\ todo' = todo \ {n}
  /\ IF found # {} /\ n.end # "cu"
     THEN UNCHANGED <<found, held, answered, pc, console>>
     ELSE \/ UNCHANGED <<found, held, answered, pc, console>>
          \/ \E id \in {n.pod, None} :
               /\ n \in OnUSB /\ answered' = answered \cup {n.pod}
               /\ CASE named # None /\ id = named ->
                         Selected(n) /\ held' = {n} /\ UNCHANGED found
                    [] ~(named # None /\ id = named) /\ SameId(found, id) ->
                         UNCHANGED <<found, held, pc, console>>
                    [] OTHER -> /\ found' = found \cup {[port |-> n, id |-> id]}
                                /\ held' = held \cup {n} /\ UNCHANGED <<pc, console>>
  /\ UNCHANGED <<device, flags, hint, purpose, update, result>>

\* closeAll: the consoles found, but the one returned.
CloseAll(c) == held' = held \cap {c}

\* No port is left: the pod named was not found, or there is one pod, or not one.
ProbeEnds ==
  /\ pc = "probe" /\ todo = {}
  /\ LET one == IF named = None /\ Cardinality(found) = 1
                THEN (CHOOSE f \in found : TRUE).port ELSE None
     IN  Selected(one) /\ CloseAll(one)
  /\ UNCHANGED <<device, flags, hint, purpose, todo, found, answered, update,
                 result>>

\* openBenchpodSerial's saveLastSerial, which may fail.
Cached == hint' \in {hint, console}

-----------------------------------------------------------------------------
(* flash-self.                                                             *)

Finish(r) == pc' = "ended" /\ result' = r /\ held' = {} /\ console' = None

\* resolveFirmware, its checksum and its signature: an image, or an error.
ResolveFirmware ==
  /\ pc = "image"
  /\ IF InDfu = {} THEN Look("versions") /\ UNCHANGED <<result, console>>
     ELSE /\ pc' = "ready" /\ UNCHANGED <<probe, purpose, result, console>>
  /\ UNCHANGED <<device, flags, hint, update>>

\* No image, or firmware reports are off and the pod's versions are not asked for.
NoVersions ==
  /\ pc = "image"
  /\ \/ Finish("error") /\ UNCHANGED <<todo, found, answered>>
     \/ pc' = "ready" /\ UNCHANGED <<probe, console, result>>
  /\ UNCHANGED <<device, flags, hint, purpose, update>>

\* runningPodVersions closes its console.
Versions ==
  /\ pc = "selected" /\ purpose = "versions" /\ pc' = "ready"
  /\ IF console = None THEN UNCHANGED hint ELSE Cached
  /\ held' = {} /\ console' = None
  /\ UNCHANGED <<device, flags, purpose, todo, found, answered, update, result>>

\* ensureDfuReady.
EnsureDfuReady ==
  /\ pc = "ready"
  /\ IF enter THEN Look("enter") ELSE pc' = "wait" /\ UNCHANGED <<probe, purpose>>
  /\ UNCHANGED <<device, flags, hint, console, update, result>>

\* PortSerialNumber.
PortSerialNumber(n) == n.pod

\* enterDfuViaConsole: "dfu" is answered, or the port vanishes; else it is an error,
\* although the pod may have taken the command.  The enumerator may not know the serial
\* number.
EnterDfu ==
  /\ pc = "selected" /\ purpose = "enter"
  /\ IF console = None
     THEN Finish("error") /\ UNCHANGED <<device, hint, serial>>
     ELSE /\ Cached /\ serial' \in {None, PortSerialNumber(console)}
          /\ LET p == console.pod
             IN  \/ /\ mode[p] = "app" /\ mode' = [mode EXCEPT ![p] = "gone"]
                    /\ next' = [next EXCEPT ![p] = "dfu"]
                 \/ UNCHANGED <<mode, next>>
          /\ \/ /\ mode'[console.pod] # "app" /\ pc' = "wait"
                /\ held' = {} /\ console' = None /\ UNCHANGED result
             \/ Finish("error")
          /\ UNCHANGED <<fw, blobs, byHand, moves>>
  /\ UNCHANGED <<flags, purpose, todo, found, answered, flashed, installedOn>>

\* waitForDfuDevice: any device in DFU mode will do; or time is up.
WaitForDfuDevice ==
  /\ pc = "wait"
  /\ \/ InDfu # {} /\ pc' = "check" /\ UNCHANGED <<held, console, result>>
     \/ Finish("error")
  /\ UNCHANGED <<device, flags, hint, purpose, todo, found, answered, update>>

\* checkImageFitsPod: it does, or dfu-util's listing does not tell; or it does not.
CheckImageFitsPod ==
  /\ pc = "check"
  /\ \/ pc' = "dfu-util" /\ UNCHANGED <<held, console, result>>
     \/ Finish("error")
  /\ UNCHANGED <<device, flags, hint, purpose, todo, found, answered, update>>

\* dfu-util writes to the only device in DFU mode: its flash is erased first.
DfuUtilWrites ==
  /\ pc = "dfu-util"
  /\ \/ /\ Cardinality(InDfu) = 1 /\ pc' = "writing"
        /\ \E p \in InDfu : flashed' = p /\ fw' = [fw EXCEPT ![p] = "broken"]
        /\ UNCHANGED <<held, console, result>>
     \/ Finish("error") /\ UNCHANGED <<fw, flashed>>
  /\ UNCHANGED <<mode, next, blobs, byHand, moves, flags, hint, purpose, todo, found,
                 answered, serial, installedOn>>

\* "File downloaded successfully".
DfuUtilDone ==
  /\ pc = "writing" /\ mode[flashed] = "dfu" /\ pc' = "downloaded"
  /\ fw' = [fw EXCEPT ![flashed] = "new"]
  /\ UNCHANGED <<mode, next, blobs, byHand, moves, flags, hint, purpose, probe, console,
                 update, result>>

\* dfuLeaveBenign.
DfuLeaveBenign(downloaded) == leave /\ downloaded

\* What flash-self does when dfu-util is done: it is left in DFU mode, or the blobs
\* follow.
Flashed == IF leave /\ ~skip THEN pc' = "come back" /\ UNCHANGED <<held, console, result>>
                             ELSE Finish("success")

\* dfu-util ends, or is killed at flash-self's deadline.  With :leave the pod starts its
\* firmware, but after its buttons it stays away until it is reset; it may not have left
\* at all, and the status poll may fail.
DfuUtilExits ==
  /\ pc \in {"writing", "downloaded"}
  /\ \/ /\ pc = "downloaded" /\ leave /\ mode[flashed] = "dfu"
        /\ mode' = [mode EXCEPT ![flashed] = "gone"]
        /\ next' = [next EXCEPT ![flashed] = IF flashed \in byHand THEN "none" ELSE "app"]
     \/ UNCHANGED <<mode, next>>
  /\ \/ pc = "downloaded" /\ Flashed
     \/ DfuLeaveBenign(pc = "downloaded") /\ Flashed
     \/ ~DfuLeaveBenign(pc = "downloaded") /\ Finish("error")
  /\ UNCHANGED <<fw, blobs, byHand, moves, flags, hint, purpose, todo, found, answered, update>>

\* Bug: the pod flashed is not looked for by its serial number.
FoundAny == OnUSB

\* FindPodPortBySerial.
FindPodPortBySerial == {n \in OnUSB : n = [pod |-> serial, end |-> "cu"]}

\* openFlashedConsole: the port with the serial number, opened as it is; else any pod.
OpenFlashedConsole ==
  /\ pc = "come back"
  /\ IF serial # None
     THEN /\ \E n \in FindPodPortBySerial : Selected(n) /\ held' = {n}
          /\ purpose' = "blobs" /\ UNCHANGED <<todo, found, answered>>
     ELSE Look("blobs") /\ UNCHANGED console
  /\ UNCHANGED <<device, flags, hint, update, result>>

\* No console: it is tried again.
NotBack ==
  /\ pc = "selected" /\ purpose = "blobs" /\ console = None /\ pc' = "come back"
  /\ UNCHANGED <<device, flags, hint, purpose, probe, console, update, result>>

NeverBack ==
  /\ pc = "come back" /\ Finish("error")
  /\ UNCHANGED <<device, flags, hint, purpose, todo, found, answered, update>>

\* installBlobsAfterFlash with a console: the blobs are installed, or built into the
\* firmware that answers, or it fails.  A pod that has gone answers nothing.
InstallBlobs ==
  /\ pc = "selected" /\ purpose = "blobs" /\ console # None
  /\ IF serial = None THEN Cached ELSE UNCHANGED hint
  /\ LET p == console.pod
     IN  \/ /\ mode[p] = "app" /\ (fw[p] = "new" => ~builtIn)
            /\ blobs' = [blobs EXCEPT ![p] = "new"] /\ installedOn' = p
            /\ Finish("success")
         \/ /\ mode[p] = "app" /\ (fw[p] = "new" => builtIn)
            /\ Finish("success") /\ UNCHANGED <<blobs, installedOn>>
         \/ Finish("error") /\ UNCHANGED <<blobs, installedOn>>
  /\ UNCHANGED <<mode, next, fw, byHand, moves, flags, purpose, todo, found, answered, serial, flashed>>

\* Ctrl-C ends the command, and dfu-util with it.
Killed ==
  /\ pc # "ended" /\ Finish("killed")
  /\ UNCHANGED <<device, flags, hint, purpose, todo, found, answered, update>>

FlashSelf ==
  \/ ResolveFirmware \/ NoVersions \/ Versions \/ EnsureDfuReady \/ EnterDfu
  \/ WaitForDfuDevice \/ CheckImageFitsPod \/ DfuUtilWrites \/ DfuUtilDone \/ DfuUtilExits
  \/ (\E n \in Ports : ProbePort(n)) \/ ProbeEnds \/ OpenFlashedConsole \/ NotBack \/ NeverBack \/ InstallBlobs

Person == \E p \in Pods : ComesUp(p) \/ \E m \in {"dfu", "app", "none"} : Press(p, m)

Next == FlashSelf \/ Killed \/ Person \/ (pc = "ended" /\ UNCHANGED vars)

Spec == Init /\ [][Next]_vars

-----------------------------------------------------------------------------
(* Properties.                                                             *)

Devices ==
  /\ mode \in [Pods -> {"app", "dfu", "gone"}] /\ next \in [Pods -> {"app", "dfu", "none"}]
  /\ fw \in [Pods -> {"old", "new", "broken"}] /\ blobs \in [Pods -> {"old", "new"}]
  /\ byHand \subseteq Pods /\ moves \in 0 .. MaxMoves

Options ==
  /\ enter \in BOOLEAN /\ leave \in BOOLEAN /\ skip \in BOOLEAN /\ builtIn \in BOOLEAN
  /\ named \in PodOrNone /\ hint \in Ports \cup {None}

Probing ==
  /\ todo \subseteq Ports /\ held \subseteq Ports /\ answered \subseteq Pods
  /\ found \subseteq [port : Ports, id : PodOrNone]
  /\ console \in Ports \cup {None}

Progress ==
  /\ serial \in PodOrNone /\ flashed \in PodOrNone /\ installedOn \in PodOrNone
  /\ pc \in {"image", "probe", "selected", "ready", "wait", "check", "dfu-util", "writing",
             "downloaded", "come back", "ended"}
  /\ purpose \in {"none", "versions", "enter", "blobs"}
  /\ result \in {"none", "error", "success", "killed"}

TypeOK == Devices /\ Options /\ Probing /\ Progress

\* Only the console returned stays open, whatever was probed before it and however the
\* search ended; it is the pod's that was named; and without a name no other pod
\* answered, although one pod answers on two ports and may fail to say who it is.
OneConsole == (pc = "selected" /\ ~(purpose = "blobs" /\ serial # None)) =>
  /\ held = {console} \ {None}
  /\ console # None => IF named # None THEN console.pod = named
                                        ELSE answered = {console.pod}

\* flash-self calls a pod flashed only if its whole image was written, whatever ends
\* dfu-util.  With the serial number of the pod it rebooted, and no other pod in its
\* bootloader by hand, that pod was flashed and the blobs went to it and no other.
UpdateIsTrue ==
  /\ result = "success" => flashed # None /\ fw[flashed] = "new"
  /\ (serial # None /\ byHand \subseteq {serial}) =>
       /\ flashed \in {None, serial} /\ installedOn \in {None, serial}
       /\ result = "success" /\ leave /\ ~skip /\ ~builtIn => blobs[serial] = "new"

\* installBlobsAfterFlash: "flash-self does not report success for a pod that is missing
\* [its blobs]".
BlobsAreThere ==
  (result = "success" /\ leave /\ ~skip /\ ~builtIn /\ named \in {None, flashed})
    => blobs[flashed] = "new"
=============================================================================

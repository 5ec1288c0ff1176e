--------------------------- MODULE Updates_proofs ---------------------------
(***************************************************************************)
(* Proofs about the two ways an image reaches a pod.                       *)
(*                                                                         *)
(* DfuUpdate, for any finite set of pods and any number of moves of the    *)
(* person: type correctness, that the search for a console returns the     *)
(* right one and leaves no other open, and that flash-self's word about    *)
(* what it flashed is true.                                                *)
(*                                                                         *)
(* PodUpload, for any number of blobs, chunks and attempts, and any number *)
(* of messages lost or late: type correctness, that what the command says  *)
(* of slots and firmware is so, that the host is never ahead of the pod,   *)
(* that lost chunks are repeated and no others, and that a manifest is on  *)
(* the pod whole when it is reported sent.                                 *)
(***************************************************************************)
EXTENDS DfuUpdate, PodUpload, SequenceTheorems, FiniteSetTheorems, TLAPS


\* The search: the consoles found are the ones held open, each of a pod that answered,
\* and a pod that said who it is said so truly.
Search ==
  pc = "probe" =>
    /\ IsFiniteSet(found)
    /\ \A f \in found : /\ f.id \in {f.port.pod, None}
                        /\ f.port \in held /\ f.port.pod \in answered
    /\ \A n \in held : \E f \in found : f.port = n
    /\ \A p \in answered : \E f \in found : f.port.pod = p

\* Before enterDfuViaConsole has answered.
Before == pc \in {"image", "ready"} \/ (pc \in {"probe", "selected"} /\ purpose # "blobs")

\* Who is in DFU mode, or on the way: pods of the person's and the one rebooted.
Rebooted ==
  serial # None \/ Before =>
    \A p \in Pods : mode[p] = "dfu" \/ next[p] = "dfu" => p \in byHand \cup {serial}

\* What has been written when.
Written ==
  /\ Before => serial = None /\ flashed = None
  /\ pc \in {"wait", "check", "dfu-util"} => flashed = None
  /\ pc = "writing" => flashed # None
  /\ pc \in {"downloaded", "come back"} \/ (pc \in {"probe", "selected"} /\ purpose = "blobs")
       => flashed # None /\ fw[flashed] = "new"
  /\ flashed = None => installedOn = None
  /\ pc # "ended" => result = "none" /\ installedOn = None
  /\ pc \in {"probe", "selected"} /\ purpose = "blobs" => leave /\ ~skip
  /\ pc = "come back" => leave /\ ~skip

\* With a serial number the console is opened by it.
BySerial ==
  serial # None =>
    /\ ~(pc = "probe" /\ purpose = "blobs")
    /\ pc = "selected" /\ purpose = "blobs" /\ console # None => console.pod = serial

IInv == TypeOK /\ Search /\ Rebooted /\ Written /\ BySerial /\ OneConsole /\ UpdateIsTrue

\* One more move is within the bound.
LEMMA MovesBounded ==
  ASSUME NEW k \in Nat, NEW j \in 0 .. k, j < k
  PROVE  j + 1 \in 0 .. k
OBVIOUS

\* What a probe of one port can come to.
LEMMA ProbeOutcome ==
  ASSUME NEW n \in Ports, ProbePort(n)
  PROVE  /\ pc = "probe" /\ UNCHANGED <<device, flags, hint, purpose, update, result>>
         /\ todo' = todo \ {n}
         /\ \/ UNCHANGED <<found, held, answered, pc, console>>
            \/ /\ answered' = answered \cup {n.pod}
               /\ \/ /\ named # None /\ named = n.pod /\ pc' = "selected" /\ console' = n
                     /\ held' = {n} /\ found' = found
                  \/ UNCHANGED <<found, held, pc, console>> /\ SameId(found, n.pod)
                  \/ /\ \E id \in {n.pod, None} : found' = found \cup {[port |-> n, id |-> id]}
                     /\ held' = held \cup {n} /\ UNCHANGED <<pc, console>>
<1>1. pc = "probe" /\ UNCHANGED <<device, flags, hint, purpose, update, result>> /\ todo' = todo \ {n}
  BY DEF ProbePort
<1>2. CASE UNCHANGED <<found, held, answered, pc, console>>
  BY <1>1, <1>2
<1>3. ASSUME NEW id \in {n.pod, None}, answered' = answered \cup {n.pod},
             CASE named # None /\ id = named ->
                    Selected(n) /\ held' = {n} /\ UNCHANGED found
               [] ~(named # None /\ id = named) /\ SameId(found, id) ->
                    UNCHANGED <<found, held, pc, console>>
               [] OTHER -> /\ found' = found \cup {[port |-> n, id |-> id]}
                           /\ held' = held \cup {n} /\ UNCHANGED <<pc, console>>
      PROVE \/ /\ named # None /\ named = n.pod /\ pc' = "selected" /\ console' = n
               /\ held' = {n} /\ found' = found
            \/ UNCHANGED <<found, held, pc, console>> /\ SameId(found, n.pod)
            \/ /\ found' = found \cup {[port |-> n, id |-> id]}
               /\ held' = held \cup {n} /\ UNCHANGED <<pc, console>>
  <2>1. CASE named # None /\ id = named
    BY <1>3, <2>1 DEF Selected
  <2>2. CASE ~(named # None /\ id = named) /\ SameId(found, id)
    BY <1>3, <2>2 DEF SameId
  <2>3. CASE ~(named # None /\ id = named) /\ ~SameId(found, id)
    BY <1>3, <2>3
  <2> QED BY <2>1, <2>2, <2>3
<1> QED BY <1>1, <1>2, <1>3 DEF ProbePort

\* What a search without a port left can come to.
LEMMA SearchOutcome ==
  ASSUME Search, ProbeEnds
  PROVE  /\ pc = "probe" /\ pc' = "selected" /\ held' = held \cap {console'}
         /\ UNCHANGED <<device, flags, hint, purpose, todo, found, answered, update, result>>
         /\ \/ console' = None
            \/ named = None /\ \E f \in found : found = {f} /\ console' = f.port
<1>1. CASE named = None /\ Cardinality(found) = 1
  <2>1. PICK f : found = {f}
    BY <1>1, FS_Singleton DEF Search, ProbeEnds
  <2>2. (CHOOSE g \in found : TRUE) = f
    BY <2>1
  <2> QED BY <1>1, <2>1, <2>2 DEF ProbeEnds, Selected, CloseAll
<1>2. CASE ~(named = None /\ Cardinality(found) = 1)
  BY <1>2 DEF ProbeEnds, Selected, CloseAll
<1> QED BY <1>1, <1>2

\* No step of flash-self, dfu-util, the pods or the person leaves the types.
LEMMA DevicesStep == Devices /\ Probing /\ Progress /\ [Next]_vars => Devices'
<1> SUFFICES ASSUME Devices, Probing, Progress, [Next]_vars PROVE Devices'
  OBVIOUS
<1> USE DfuUpdateAssumption DEF Devices, Probing, Progress, Ports, PodOrNone, InDfu,
  device, flags, probe, update
<1>1. ASSUME NEW p \in Pods, NEW m \in {"dfu", "app", "none"}, Press(p, m) PROVE Devices'
  <2>1. moves' \in 0 .. MaxMoves
    BY <1>1, MovesBounded DEF Press
  <2>2. /\ mode' \in [Pods -> {"app", "dfu", "gone"}]
        /\ next' \in [Pods -> {"app", "dfu", "none"}]
    BY <1>1 DEF Press
  <2>3. byHand' \subseteq Pods /\ UNCHANGED <<fw, blobs>>
    BY <1>1 DEF Press
  <2> QED BY <2>1, <2>2, <2>3
<1>2. ASSUME NEW p \in Pods, ComesUp(p) PROVE Devices'
  BY <1>2 DEF ComesUp
<1>3. ASSUME NEW n \in Ports, ProbePort(n) PROVE Devices'
  BY <1>3, ProbeOutcome, ZenonT(60)
<1>4. CASE ProbeEnds
  BY <1>4 DEF ProbeEnds, Selected, CloseAll
<1>5. CASE ResolveFirmware
  BY <1>5 DEF ResolveFirmware, Look
<1>6. CASE NoVersions
  BY <1>6 DEF NoVersions, Finish
<1>7. CASE Versions
  BY <1>7 DEF Versions, Cached
<1>8. CASE EnsureDfuReady
  BY <1>8 DEF EnsureDfuReady, Look
<1>9. CASE EnterDfu
  BY <1>9 DEF EnterDfu, Finish, Cached, PortSerialNumber
<1>10. CASE WaitForDfuDevice
  BY <1>10 DEF WaitForDfuDevice, Finish
<1>11. CASE CheckImageFitsPod
  BY <1>11 DEF CheckImageFitsPod, Finish
<1>12. CASE DfuUtilWrites
  BY <1>12 DEF DfuUtilWrites, Finish
<1>13. CASE DfuUtilDone
  BY <1>13 DEF DfuUtilDone
<1>14. CASE DfuUtilExits
  BY <1>14, ZenonT(120) DEF DfuUtilExits, Flashed, DfuLeaveBenign, Finish
<1>15. CASE OpenFlashedConsole
  BY <1>15 DEF OpenFlashedConsole, Look, Selected, FindPodPortBySerial
<1>16. CASE NotBack
  BY <1>16 DEF NotBack
<1>17. CASE NeverBack
  BY <1>17 DEF NeverBack, Finish
<1>18. CASE InstallBlobs
  BY <1>18 DEF InstallBlobs, Cached, Finish
<1>19. CASE Killed
  BY <1>19 DEF Killed, Finish
<1>20. CASE UNCHANGED vars
  BY <1>20 DEF vars
<1> HIDE DEF Devices
<1> QED BY <1>1, <1>2, <1>3, <1>4, <1>5, <1>6, <1>7, <1>8, <1>9, <1>10, <1>11, <1>12,
  <1>13, <1>14, <1>15, <1>16, <1>17, <1>18, <1>19, <1>20, ZenonT(60)
  DEF Next, FlashSelf, Person

LEMMA OptionsStep == Options /\ Probing /\ [Next]_vars => Options'
<1> SUFFICES ASSUME Options, Probing, [Next]_vars PROVE Options'
  OBVIOUS
<1> USE DfuUpdateAssumption DEF Options, Probing, device, flags, probe, update
<1>1. ASSUME NEW p \in Pods, NEW m \in {"dfu", "app", "none"}, Press(p, m) PROVE Options'
  BY <1>1 DEF Press
<1>2. ASSUME NEW p \in Pods, ComesUp(p) PROVE Options'
  BY <1>2 DEF ComesUp
<1>3. ASSUME NEW n \in Ports, ProbePort(n) PROVE Options'
  BY <1>3, ProbeOutcome
<1>4. CASE ProbeEnds
  BY <1>4 DEF ProbeEnds, Selected, CloseAll
<1>5. CASE ResolveFirmware
  BY <1>5 DEF ResolveFirmware, Look
<1>6. CASE NoVersions
  BY <1>6 DEF NoVersions, Finish
<1>7. CASE Versions
  BY <1>7 DEF Versions, Cached
<1>8. CASE EnsureDfuReady
  BY <1>8 DEF EnsureDfuReady, Look
<1>9. CASE EnterDfu
  BY <1>9 DEF EnterDfu, Finish, Cached, PortSerialNumber
<1>10. CASE WaitForDfuDevice
  BY <1>10 DEF WaitForDfuDevice, Finish
<1>11. CASE CheckImageFitsPod
  BY <1>11 DEF CheckImageFitsPod, Finish
<1>12. CASE DfuUtilWrites
  BY <1>12 DEF DfuUtilWrites, Finish
<1>13. CASE DfuUtilDone
  BY <1>13 DEF DfuUtilDone
<1>14. CASE DfuUtilExits
  BY <1>14 DEF DfuUtilExits, Flashed, DfuLeaveBenign, Finish
<1>15. CASE OpenFlashedConsole
  BY <1>15 DEF OpenFlashedConsole, Look, Selected, FindPodPortBySerial
<1>16. CASE NotBack
  BY <1>16 DEF NotBack
<1>17. CASE NeverBack
  BY <1>17 DEF NeverBack, Finish
<1>18. CASE InstallBlobs
  BY <1>18 DEF InstallBlobs, Cached, Finish
<1>19. CASE Killed
  BY <1>19 DEF Killed, Finish
<1>20. CASE UNCHANGED vars
  BY <1>20 DEF vars
<1> HIDE DEF Options
<1> QED BY <1>1, <1>2, <1>3, <1>4, <1>5, <1>6, <1>7, <1>8, <1>9, <1>10, <1>11, <1>12,
  <1>13, <1>14, <1>15, <1>16, <1>17, <1>18, <1>19, <1>20
  DEF Next, FlashSelf, Person

LEMMA ProbingStep == Devices /\ Options /\ Probing /\ Search /\ [Next]_vars => Probing'
<1> SUFFICES ASSUME Devices, Options, Probing, Search, [Next]_vars PROVE Probing'
  OBVIOUS
<1> USE DfuUpdateAssumption DEF Devices, Options, Probing, Ports, PodOrNone, OnUSB,
  device, flags, probe, update
<1>1. ASSUME NEW p \in Pods, NEW m \in {"dfu", "app", "none"}, Press(p, m) PROVE Probing'
  BY <1>1 DEF Press
<1>2. ASSUME NEW p \in Pods, ComesUp(p) PROVE Probing'
  BY <1>2 DEF ComesUp
<1>3. ASSUME NEW n \in Ports, ProbePort(n) PROVE Probing'
  BY <1>3, ProbeOutcome
<1>4. CASE ProbeEnds
  BY <1>4, SearchOutcome
<1>5. CASE ResolveFirmware
  BY <1>5 DEF ResolveFirmware, Look
<1>6. CASE NoVersions
  BY <1>6 DEF NoVersions, Finish
<1>7. CASE Versions
  BY <1>7 DEF Versions, Cached
<1>8. CASE EnsureDfuReady
  BY <1>8 DEF EnsureDfuReady, Look
<1>9. CASE EnterDfu
  BY <1>9 DEF EnterDfu, Finish, Cached, PortSerialNumber
<1>10. CASE WaitForDfuDevice
  BY <1>10 DEF WaitForDfuDevice, Finish
<1>11. CASE CheckImageFitsPod
  BY <1>11 DEF CheckImageFitsPod, Finish
<1>12. CASE DfuUtilWrites
  BY <1>12 DEF DfuUtilWrites, Finish
<1>13. CASE DfuUtilDone
  BY <1>13 DEF DfuUtilDone
<1>14. CASE DfuUtilExits
  BY <1>14 DEF DfuUtilExits, Flashed, DfuLeaveBenign, Finish
<1>15. CASE OpenFlashedConsole
  <2>1. CASE serial # None
    <3>1. PICK n \in OnUSB : console' = n /\ held' = {n} /\ UNCHANGED <<todo, found, answered>>
      BY <1>15, <2>1 DEF OpenFlashedConsole, FindPodPortBySerial, Selected
    <3> QED BY <3>1
  <2>2. CASE serial = None
    BY <1>15, <2>2, ZenonT(60) DEF OpenFlashedConsole, Look
  <2> QED BY <2>1, <2>2
<1>16. CASE NotBack
  BY <1>16 DEF NotBack
<1>17. CASE NeverBack
  BY <1>17 DEF NeverBack, Finish
<1>18. CASE InstallBlobs
  BY <1>18 DEF InstallBlobs, Cached, Finish
<1>19. CASE Killed
  BY <1>19 DEF Killed, Finish
<1>20. CASE UNCHANGED vars
  BY <1>20 DEF vars
<1> HIDE DEF Probing
<1> QED BY <1>1, <1>2, <1>3, <1>4, <1>5, <1>6, <1>7, <1>8, <1>9, <1>10, <1>11, <1>12,
  <1>13, <1>14, <1>15, <1>16, <1>17, <1>18, <1>19, <1>20
  DEF Next, FlashSelf, Person

LEMMA ProgressStep == Devices /\ Probing /\ Progress /\ [Next]_vars => Progress'
<1> SUFFICES ASSUME Devices, Probing, Progress, [Next]_vars PROVE Progress'
  OBVIOUS
<1> USE DfuUpdateAssumption DEF Devices, Probing, Progress, Ports, PodOrNone, InDfu,
  device, flags, probe, update
<1>1. ASSUME NEW p \in Pods, NEW m \in {"dfu", "app", "none"}, Press(p, m) PROVE Progress'
  BY <1>1, ZenonT(60) DEF Press
<1>2. ASSUME NEW p \in Pods, ComesUp(p) PROVE Progress'
  BY <1>2, ZenonT(60) DEF ComesUp
<1>3. ASSUME NEW n \in Ports, ProbePort(n) PROVE Progress'
  BY <1>3 DEF ProbePort, SameId, Selected
<1>4. CASE ProbeEnds
  BY <1>4 DEF ProbeEnds, Selected, CloseAll
<1>5. CASE ResolveFirmware
  BY <1>5 DEF ResolveFirmware, Look
<1>6. CASE NoVersions
  BY <1>6 DEF NoVersions, Finish
<1>7. CASE Versions
  BY <1>7 DEF Versions, Cached
<1>8. CASE EnsureDfuReady
  BY <1>8 DEF EnsureDfuReady, Look
<1>9. CASE EnterDfu
  BY <1>9, ZenonT(60) DEF EnterDfu, Finish, Cached, PortSerialNumber
<1>10. CASE WaitForDfuDevice
  BY <1>10 DEF WaitForDfuDevice, Finish
<1>11. CASE CheckImageFitsPod
  BY <1>11 DEF CheckImageFitsPod, Finish
<1>12. CASE DfuUtilWrites
  BY <1>12, ZenonT(60) DEF DfuUtilWrites, Finish
<1>13. CASE DfuUtilDone
  BY <1>13 DEF DfuUtilDone
<1>14. CASE DfuUtilExits
  BY <1>14 DEF DfuUtilExits, Flashed, DfuLeaveBenign, Finish
<1>15. CASE OpenFlashedConsole
  BY <1>15 DEF OpenFlashedConsole, Look, Selected, FindPodPortBySerial
<1>16. CASE NotBack
  BY <1>16 DEF NotBack
<1>17. CASE NeverBack
  BY <1>17 DEF NeverBack, Finish
<1>18. CASE InstallBlobs
  BY <1>18, ZenonT(60) DEF InstallBlobs, Cached, Finish
<1>19. CASE Killed
  BY <1>19 DEF Killed, Finish
<1>20. CASE UNCHANGED vars
  BY <1>20, ZenonT(60) DEF vars
<1> HIDE DEF Progress
<1> QED BY <1>1, <1>2, <1>3, <1>4, <1>5, <1>6, <1>7, <1>8, <1>9, <1>10, <1>11, <1>12,
  <1>13, <1>14, <1>15, <1>16, <1>17, <1>18, <1>19, <1>20
  DEF Next, FlashSelf, Person

\* A port adds its console and its pod, or only its pod when that is known already.
LEMMA SearchStep == Probing /\ Search /\ [Next]_vars => Search'
<1> SUFFICES ASSUME Probing, Search, [Next]_vars PROVE Search'
  OBVIOUS
<1> USE DfuUpdateAssumption DEF Search, device, flags, probe, update
<1>1. ASSUME NEW p \in Pods, NEW m \in {"dfu", "app", "none"}, Press(p, m) PROVE Search'
  BY <1>1 DEF Press
<1>2. ASSUME NEW p \in Pods, ComesUp(p) PROVE Search'
  BY <1>2 DEF ComesUp
<1>3. ASSUME NEW n \in Ports, ProbePort(n) PROVE Search'
  <2>1. pc = "probe"
    BY <1>3, ProbeOutcome
  <2>2. CASE pc' # "probe"
    BY <2>2
  <2>3. CASE UNCHANGED <<found, held, answered>>
    BY <2>1, <2>3
  <2>4. CASE /\ answered' = answered \cup {n.pod} /\ UNCHANGED <<found, held>>
             /\ SameId(found, n.pod)
    <3>1. PICK g \in found : g.id = n.pod /\ g.id # None
      BY <2>4 DEF SameId
    <3>2. g.port.pod = n.pod
      BY <2>1, <3>1
    <3>3. answered' = answered
      BY <2>1, <2>4, <3>1, <3>2
    <3> QED BY <2>1, <2>4, <3>3
  <2>5. ASSUME NEW id \in {n.pod, None}, found' = found \cup {[port |-> n, id |-> id]},
               held' = held \cup {n}, answered' = answered \cup {n.pod}
        PROVE Search'
    <3>1. IsFiniteSet(found')
      BY <2>1, <2>5, FS_AddElement, ZenonT(60)
    <3> DEFINE r == [port |-> n, id |-> id]
    <3>2. r.port = n /\ r.id = id /\ found' = found \cup {r}
      BY <2>5
    <3> HIDE DEF r
    <3>3. \A f \in found' : /\ f.id \in {f.port.pod, None}
                            /\ f.port \in held' /\ f.port.pod \in answered'
      BY <2>1, <2>5, <3>2
    <3>4. \A q \in held' : \E f \in found' : f.port = q
      BY <2>1, <2>5, <3>2
    <3>5. \A q \in answered' : \E f \in found' : f.port.pod = q
      BY <2>1, <2>5, <3>2
    <3> QED BY <3>1, <3>3, <3>4, <3>5
  <2> QED BY <1>3, <2>1, <2>2, <2>3, <2>4, <2>5, ProbeOutcome
<1>4. CASE ProbeEnds
  BY <1>4 DEF ProbeEnds, Selected, CloseAll
<1>5. CASE ResolveFirmware
  <2>1. CASE pc' # "probe"
    BY <2>1
  <2>2. CASE pc' = "probe"
    <3>1. found' = {} /\ held' = {} /\ answered' = {}
      BY <1>5, <2>2 DEF ResolveFirmware, Look, Selected
    <3>2. IsFiniteSet(found')
      BY <3>1, FS_EmptySet
    <3> QED BY <3>1, <3>2
  <2> QED BY <2>1, <2>2
<1>6. CASE NoVersions
  BY <1>6 DEF NoVersions, Finish
<1>7. CASE Versions
  BY <1>7 DEF Versions, Cached
<1>8. CASE EnsureDfuReady
  <2>1. CASE pc' # "probe"
    BY <2>1
  <2>2. CASE pc' = "probe"
    <3>1. found' = {} /\ held' = {} /\ answered' = {}
      BY <1>8, <2>2 DEF EnsureDfuReady, Look, Selected
    <3>2. IsFiniteSet(found')
      BY <3>1, FS_EmptySet
    <3> QED BY <3>1, <3>2
  <2> QED BY <2>1, <2>2
<1>9. CASE EnterDfu
  BY <1>9 DEF EnterDfu, Finish, Cached, PortSerialNumber
<1>10. CASE WaitForDfuDevice
  BY <1>10 DEF WaitForDfuDevice, Finish
<1>11. CASE CheckImageFitsPod
  BY <1>11 DEF CheckImageFitsPod, Finish
<1>12. CASE DfuUtilWrites
  BY <1>12 DEF DfuUtilWrites, Finish
<1>13. CASE DfuUtilDone
  BY <1>13 DEF DfuUtilDone
<1>14. CASE DfuUtilExits
  BY <1>14 DEF DfuUtilExits, Flashed, DfuLeaveBenign, Finish
<1>15. CASE OpenFlashedConsole
  <2>1. CASE pc' # "probe"
    BY <2>1
  <2>2. CASE pc' = "probe"
    <3>1. found' = {} /\ held' = {} /\ answered' = {}
      BY <1>15, <2>2 DEF OpenFlashedConsole, Look, Selected
    <3>2. IsFiniteSet(found')
      BY <3>1, FS_EmptySet
    <3> QED BY <3>1, <3>2
  <2> QED BY <2>1, <2>2
<1>16. CASE NotBack
  BY <1>16 DEF NotBack
<1>17. CASE NeverBack
  BY <1>17 DEF NeverBack, Finish
<1>18. CASE InstallBlobs
  BY <1>18 DEF InstallBlobs, Cached, Finish
<1>19. CASE Killed
  BY <1>19 DEF Killed, Finish
<1>20. CASE UNCHANGED vars
  BY <1>20 DEF vars
<1> HIDE DEF Search
<1> QED BY <1>1, <1>2, <1>3, <1>4, <1>5, <1>6, <1>7, <1>8, <1>9, <1>10, <1>11, <1>12,
  <1>13, <1>14, <1>15, <1>16, <1>17, <1>18, <1>19, <1>20
  DEF Next, FlashSelf, Person

\* Only the person's buttons and enterDfuViaConsole send a pod to its bootloader.
LEMMA RebootedStep == TypeOK /\ Written /\ Rebooted /\ [Next]_vars => Rebooted'
<1> SUFFICES ASSUME TypeOK, Written, Rebooted, [Next]_vars PROVE Rebooted'
  OBVIOUS
<1> USE DfuUpdateAssumption DEF TypeOK, Devices, Probing, Progress, Rebooted, Before,
  Written, InDfu, PodOrNone, Ports, device, flags, probe, update
<1>1. ASSUME NEW p \in Pods, NEW m \in {"dfu", "app", "none"}, Press(p, m) PROVE Rebooted'
  BY <1>1, ZenonT(60) DEF Press
<1>2. ASSUME NEW p \in Pods, ComesUp(p) PROVE Rebooted'
  BY <1>2, ZenonT(60) DEF ComesUp
<1>3. ASSUME NEW n \in Ports, ProbePort(n) PROVE Rebooted'
  BY <1>3, ProbeOutcome
<1>4. CASE ProbeEnds
  BY <1>4 DEF ProbeEnds, Selected, CloseAll
<1>5. CASE ResolveFirmware
  BY <1>5 DEF ResolveFirmware, Look
<1>6. CASE NoVersions
  BY <1>6 DEF NoVersions, Finish
<1>7. CASE Versions
  BY <1>7 DEF Versions, Cached
<1>8. CASE EnsureDfuReady
  BY <1>8 DEF EnsureDfuReady, Look
<1>9. CASE EnterDfu
  BY <1>9 DEF EnterDfu, Finish, Cached, PortSerialNumber
<1>10. CASE WaitForDfuDevice
  BY <1>10 DEF WaitForDfuDevice, Finish
<1>11. CASE CheckImageFitsPod
  BY <1>11 DEF CheckImageFitsPod, Finish
<1>12. CASE DfuUtilWrites
  BY <1>12 DEF DfuUtilWrites, Finish
<1>13. CASE DfuUtilDone
  BY <1>13 DEF DfuUtilDone
<1>14. CASE DfuUtilExits
  BY <1>14, ZenonT(60) DEF DfuUtilExits, Flashed, DfuLeaveBenign, Finish
<1>15. CASE OpenFlashedConsole
  BY <1>15 DEF OpenFlashedConsole, Look, Selected, FindPodPortBySerial
<1>16. CASE NotBack
  BY <1>16 DEF NotBack
<1>17. CASE NeverBack
  BY <1>17 DEF NeverBack, Finish
<1>18. CASE InstallBlobs
  BY <1>18 DEF InstallBlobs, Cached, Finish
<1>19. CASE Killed
  BY <1>19 DEF Killed, Finish
<1>20. CASE UNCHANGED vars
  BY <1>20 DEF vars
<1> HIDE DEF Rebooted
<1> QED BY <1>1, <1>2, <1>3, <1>4, <1>5, <1>6, <1>7, <1>8, <1>9, <1>10, <1>11, <1>12,
  <1>13, <1>14, <1>15, <1>16, <1>17, <1>18, <1>19, <1>20, ZenonT(60)
  DEF Next, FlashSelf, Person

LEMMA WrittenStep == TypeOK /\ Written /\ [Next]_vars => Written'
<1> SUFFICES ASSUME TypeOK, Written, [Next]_vars PROVE Written'
  OBVIOUS
<1> USE DfuUpdateAssumption DEF TypeOK, Devices, Progress, Before, Written, PodOrNone,
  InDfu, device, flags, probe, update
<1>1. ASSUME NEW p \in Pods, NEW m \in {"dfu", "app", "none"}, Press(p, m) PROVE Written'
  BY <1>1 DEF Press
<1>2. ASSUME NEW p \in Pods, ComesUp(p) PROVE Written'
  BY <1>2 DEF ComesUp
<1>3. ASSUME NEW n \in Ports, ProbePort(n) PROVE Written'
  BY <1>3, ProbeOutcome
<1>4. CASE ProbeEnds
  BY <1>4 DEF ProbeEnds, Selected, CloseAll
<1>5. CASE ResolveFirmware
  BY <1>5 DEF ResolveFirmware, Look
<1>6. CASE NoVersions
  BY <1>6 DEF NoVersions, Finish
<1>7. CASE Versions
  BY <1>7 DEF Versions, Cached
<1>8. CASE EnsureDfuReady
  BY <1>8 DEF EnsureDfuReady, Look
<1>9. CASE EnterDfu
  BY <1>9 DEF EnterDfu, Finish, Cached, PortSerialNumber
<1>10. CASE WaitForDfuDevice
  BY <1>10 DEF WaitForDfuDevice, Finish
<1>11. CASE CheckImageFitsPod
  BY <1>11 DEF CheckImageFitsPod, Finish
<1>12. CASE DfuUtilWrites
  BY <1>12, ZenonT(60) DEF DfuUtilWrites, Finish
<1>13. CASE DfuUtilDone
  BY <1>13 DEF DfuUtilDone
<1>14. CASE DfuUtilExits
  BY <1>14 DEF DfuUtilExits, Flashed, DfuLeaveBenign, Finish
<1>15. CASE OpenFlashedConsole
  BY <1>15 DEF OpenFlashedConsole, Look, Selected, FindPodPortBySerial
<1>16. CASE NotBack
  BY <1>16 DEF NotBack
<1>17. CASE NeverBack
  BY <1>17 DEF NeverBack, Finish
<1>18. CASE InstallBlobs
  BY <1>18 DEF InstallBlobs, Cached, Finish
<1>19. CASE Killed
  BY <1>19 DEF Killed, Finish
<1>20. CASE UNCHANGED vars
  BY <1>20 DEF vars
<1> HIDE DEF Written
<1> QED BY <1>1, <1>2, <1>3, <1>4, <1>5, <1>6, <1>7, <1>8, <1>9, <1>10, <1>11, <1>12,
  <1>13, <1>14, <1>15, <1>16, <1>17, <1>18, <1>19, <1>20
  DEF Next, FlashSelf, Person

LEMMA BySerialStep == TypeOK /\ Written /\ BySerial /\ [Next]_vars => BySerial'
<1> SUFFICES ASSUME TypeOK, Written, BySerial, [Next]_vars PROVE BySerial'
  OBVIOUS
<1> USE DfuUpdateAssumption DEF TypeOK, Progress, Before, Written, BySerial,
  FindPodPortBySerial, device, flags, probe, update
<1>1. ASSUME NEW p \in Pods, NEW m \in {"dfu", "app", "none"}, Press(p, m) PROVE BySerial'
  BY <1>1 DEF Press
<1>2. ASSUME NEW p \in Pods, ComesUp(p) PROVE BySerial'
  BY <1>2 DEF ComesUp
<1>3. ASSUME NEW n \in Ports, ProbePort(n) PROVE BySerial'
  BY <1>3, ProbeOutcome
<1>4. CASE ProbeEnds
  BY <1>4 DEF ProbeEnds, Selected, CloseAll
<1>5. CASE ResolveFirmware
  BY <1>5 DEF ResolveFirmware, Look
<1>6. CASE NoVersions
  BY <1>6 DEF NoVersions, Finish
<1>7. CASE Versions
  BY <1>7 DEF Versions, Cached
<1>8. CASE EnsureDfuReady
  BY <1>8 DEF EnsureDfuReady, Look
<1>9. CASE EnterDfu
  BY <1>9 DEF EnterDfu, Finish, Cached, PortSerialNumber
<1>10. CASE WaitForDfuDevice
  BY <1>10 DEF WaitForDfuDevice, Finish
<1>11. CASE CheckImageFitsPod
  BY <1>11 DEF CheckImageFitsPod, Finish
<1>12. CASE DfuUtilWrites
  BY <1>12 DEF DfuUtilWrites, Finish
<1>13. CASE DfuUtilDone
  BY <1>13 DEF DfuUtilDone
<1>14. CASE DfuUtilExits
  BY <1>14 DEF DfuUtilExits, Flashed, DfuLeaveBenign, Finish
<1>15. CASE OpenFlashedConsole
  <2>1. CASE serial # None
    <3>1. PICK n \in FindPodPortBySerial : pc' = "selected" /\ console' = n
      BY <1>15, <2>1 DEF OpenFlashedConsole, Selected
    <3>2. n = [pod |-> serial, end |-> "cu"]
      BY DEF FindPodPortBySerial
    <3>3. serial' = serial
      BY <1>15 DEF OpenFlashedConsole
    <3> QED BY <3>1, <3>2, <3>3
  <2>2. CASE serial = None
    BY <1>15, <2>2 DEF OpenFlashedConsole
  <2> QED BY <2>1, <2>2
<1>16. CASE NotBack
  BY <1>16 DEF NotBack
<1>17. CASE NeverBack
  BY <1>17 DEF NeverBack, Finish
<1>18. CASE InstallBlobs
  BY <1>18 DEF InstallBlobs, Cached, Finish
<1>19. CASE Killed
  BY <1>19 DEF Killed, Finish
<1>20. CASE UNCHANGED vars
  BY <1>20 DEF vars
<1> HIDE DEF BySerial
<1> QED BY <1>1, <1>2, <1>3, <1>4, <1>5, <1>6, <1>7, <1>8, <1>9, <1>10, <1>11, <1>12,
  <1>13, <1>14, <1>15, <1>16, <1>17, <1>18, <1>19, <1>20
  DEF Next, FlashSelf, Person

\* With one console found, or the one of the pod named, closeAll leaves that open.
LEMMA ConsoleStep == TypeOK /\ Search /\ OneConsole /\ [Next]_vars => OneConsole'
<1> SUFFICES ASSUME TypeOK, Search, OneConsole, [Next]_vars PROVE OneConsole'
  OBVIOUS
<1> USE DfuUpdateAssumption DEF TypeOK, Options, Probing, OneConsole, device, flags,
  probe, update
<1>1. ASSUME NEW p \in Pods, NEW m \in {"dfu", "app", "none"}, Press(p, m) PROVE OneConsole'
  BY <1>1 DEF Press
<1>2. ASSUME NEW p \in Pods, ComesUp(p) PROVE OneConsole'
  BY <1>2 DEF ComesUp
<1>3. ASSUME NEW n \in Ports, ProbePort(n) PROVE OneConsole'
  <2>1. CASE pc' # "selected"
    BY <2>1
  <2>2. CASE pc' = "selected"
    <3>1. /\ named' = named /\ named # None /\ named = n.pod
          /\ console' = n /\ held' = {n}
      BY <1>3, <2>2, ProbeOutcome
    <3>2. n # None
      BY DEF Ports
    <3> QED BY <3>1, <3>2
  <2> QED BY <2>1, <2>2
<1>4. CASE ProbeEnds
  <2>1. /\ pc = "probe" /\ held' = held \cap {console'} /\ UNCHANGED <<named, answered>>
        /\ \/ console' = None
           \/ named = None /\ \E f \in found : found = {f} /\ console' = f.port
    BY <1>4, SearchOutcome
  <2>2. None \notin held
    BY DEF Ports
  <2>3. CASE console' = None
    BY <2>1, <2>2, <2>3
  <2>4. ASSUME NEW f \in found, found = {f}, console' = f.port, named = None
        PROVE OneConsole'
    <3>1. held = {f.port} /\ answered = {f.port.pod}
      BY <2>1, <2>4 DEF Search
    <3>2. f.port # None
      BY <3>1, <2>2
    <3> QED BY <2>1, <2>4, <3>1, <3>2
  <2> QED BY <2>1, <2>3, <2>4
<1>5. CASE ResolveFirmware
  BY <1>5 DEF ResolveFirmware, Look
<1>6. CASE NoVersions
  BY <1>6 DEF NoVersions, Finish
<1>7. CASE Versions
  BY <1>7 DEF Versions, Cached
<1>8. CASE EnsureDfuReady
  BY <1>8 DEF EnsureDfuReady, Look
<1>9. CASE EnterDfu
  BY <1>9 DEF EnterDfu, Finish, Cached, PortSerialNumber
<1>10. CASE WaitForDfuDevice
  BY <1>10 DEF WaitForDfuDevice, Finish
<1>11. CASE CheckImageFitsPod
  BY <1>11 DEF CheckImageFitsPod, Finish
<1>12. CASE DfuUtilWrites
  BY <1>12 DEF DfuUtilWrites, Finish
<1>13. CASE DfuUtilDone
  BY <1>13 DEF DfuUtilDone
<1>14. CASE DfuUtilExits
  BY <1>14 DEF DfuUtilExits, Flashed, DfuLeaveBenign, Finish
<1>15. CASE OpenFlashedConsole
  BY <1>15 DEF OpenFlashedConsole, Look, Selected, FindPodPortBySerial
<1>16. CASE NotBack
  BY <1>16 DEF NotBack
<1>17. CASE NeverBack
  BY <1>17 DEF NeverBack, Finish
<1>18. CASE InstallBlobs
  BY <1>18 DEF InstallBlobs, Cached, Finish
<1>19. CASE Killed
  BY <1>19 DEF Killed, Finish
<1>20. CASE UNCHANGED vars
  BY <1>20 DEF vars
<1> HIDE DEF OneConsole
<1> QED BY <1>1, <1>2, <1>3, <1>4, <1>5, <1>6, <1>7, <1>8, <1>9, <1>10, <1>11, <1>12,
  <1>13, <1>14, <1>15, <1>16, <1>17, <1>18, <1>19, <1>20
  DEF Next, FlashSelf, Person

\* What dfu-util wrote, and where the blobs went.
LEMMA UpdateStep ==
  TypeOK /\ Rebooted /\ Written /\ BySerial /\ UpdateIsTrue /\ [Next]_vars => UpdateIsTrue'
<1> SUFFICES ASSUME TypeOK, Rebooted, Written, BySerial, UpdateIsTrue, [Next]_vars
             PROVE UpdateIsTrue'
  OBVIOUS
<1> USE DfuUpdateAssumption DEF TypeOK, Devices, Options, Probing, Progress, Rebooted,
  Before, Written, BySerial,
            UpdateIsTrue, PodOrNone, InDfu, device, flags, probe, update
<1>1. ASSUME NEW p \in Pods, NEW m \in {"dfu", "app", "none"}, Press(p, m) PROVE UpdateIsTrue'
  BY <1>1 DEF Press
<1>2. ASSUME NEW p \in Pods, ComesUp(p) PROVE UpdateIsTrue'
  BY <1>2 DEF ComesUp
<1>3. ASSUME NEW n \in Ports, ProbePort(n) PROVE UpdateIsTrue'
  BY <1>3, ProbeOutcome
<1>4. CASE ProbeEnds
  BY <1>4 DEF ProbeEnds, Selected, CloseAll
<1>5. CASE ResolveFirmware
  BY <1>5 DEF ResolveFirmware, Look
<1>6. CASE NoVersions
  BY <1>6 DEF NoVersions, Finish
<1>7. CASE Versions
  BY <1>7 DEF Versions, Cached
<1>8. CASE EnsureDfuReady
  BY <1>8 DEF EnsureDfuReady, Look
<1>9. CASE EnterDfu
  BY <1>9 DEF EnterDfu, Finish, Cached, PortSerialNumber
<1>10. CASE WaitForDfuDevice
  BY <1>10 DEF WaitForDfuDevice, Finish
<1>11. CASE CheckImageFitsPod
  BY <1>11 DEF CheckImageFitsPod, Finish
<1>12. CASE DfuUtilWrites
  BY <1>12 DEF DfuUtilWrites, Finish
<1>13. CASE DfuUtilDone
  BY <1>13 DEF DfuUtilDone
<1>14. CASE DfuUtilExits
  BY <1>14 DEF DfuUtilExits, Flashed, DfuLeaveBenign, Finish
<1>15. CASE OpenFlashedConsole
  BY <1>15 DEF OpenFlashedConsole, Look, Selected, FindPodPortBySerial
<1>16. CASE NotBack
  BY <1>16 DEF NotBack
<1>17. CASE NeverBack
  BY <1>17 DEF NeverBack, Finish
<1>18. CASE InstallBlobs
  BY <1>18 DEF InstallBlobs, Cached, Finish
<1>19. CASE Killed
  BY <1>19 DEF Killed, Finish
<1>20. CASE UNCHANGED vars
  BY <1>20 DEF vars
<1> QED BY <1>1, <1>2, <1>3, <1>4, <1>5, <1>6, <1>7, <1>8, <1>9, <1>10, <1>11, <1>12,
  <1>13, <1>14, <1>15, <1>16, <1>17, <1>18, <1>19, <1>20, ZenonT(60)
  DEF Next, FlashSelf, Person

\* A command that has not begun satisfies all of it.
LEMMA InitHolds == Init => IInv
<1> SUFFICES ASSUME Init PROVE IInv
  OBVIOUS
<1> USE DfuUpdateAssumption DEF Init
<1>1. TypeOK
  BY DEF TypeOK, Devices, Options, Probing, Progress, PodOrNone, InDfu
<1>2. Search /\ BySerial /\ OneConsole
  BY DEF Search, BySerial, OneConsole
<1>3. Rebooted
  BY DEF Rebooted, InDfu
<1>4. Written /\ UpdateIsTrue
  BY DEF Written, Before, UpdateIsTrue
<1> QED BY <1>1, <1>2, <1>3, <1>4 DEF IInv

THEOREM Invariance == Spec => []IInv
<1>1. IInv /\ [Next]_vars => IInv'
  BY DevicesStep, OptionsStep, ProbingStep, ProgressStep, SearchStep, RebootedStep,
     WrittenStep, BySerialStep, ConsoleStep, UpdateStep DEF IInv, TypeOK
<1> QED BY InitHolds, <1>1, PTL DEF Spec

\* Types hold in every reachable state.
THEOREM TypeCorrect == Spec => []TypeOK
<1>1. IInv => TypeOK
  BY DEF IInv
<1> QED BY Invariance, <1>1, PTL

\* OpenBenchpodSelect returns the console of the pod named, or of the only pod that
\* answered, with no other left open, for any number of pods.
THEOREM ConsoleIsTheOne == Spec => []OneConsole
<1>1. IInv => OneConsole
  BY DEF IInv
<1> QED BY Invariance, <1>1, PTL

\* What flash-self says was flashed was, in full; and with the serial number of the pod
\* it rebooted that pod and no other was.
THEOREM UpdateTrue == Spec => []UpdateIsTrue
<1>1. IInv => UpdateIsTrue
  BY DEF IInv
<1> QED BY Invariance, <1>1, PTL

-----------------------------------------------------------------------------
(* Least and greatest elements.                                            *)

\* The least element of a nonempty set of naturals.
LEMMA MinIs ==
  ASSUME NEW S, S \subseteq Nat, S # {}
  PROVE  Min(S) \in S /\ \A x \in S : Min(S) <= x
<1>1. PICK m \in S : \A y \in S : ~(<<y, m>> \in OpToRel(<, Nat))
  BY NatLessThanWellFounded, WFMin
<1>2. \A y \in S : ~(y < m)
  BY <1>1 DEF OpToRel
<1>3. m \in S /\ \A y \in S : m <= y
  BY <1>2
<1> QED BY <1>3 DEF Min

\* The greatest element of a nonempty set of naturals that has a bound.
LEMMA MaxIs ==
  ASSUME NEW n \in Nat, NEW S, S \subseteq 0 .. n, S # {}
  PROVE  Max(S) \in S /\ \A x \in S : x <= Max(S)
<1> DEFINE T == {n - x : x \in S}
<1>1. T \subseteq Nat /\ T # {}
  <2>1. PICK s \in S : TRUE
    OBVIOUS
  <2>2. n - s \in T /\ \A x \in S : n - x \in Nat
    OBVIOUS
  <2> QED BY <2>2
<1>2. Min(T) \in T /\ \A x \in T : Min(T) <= x
  BY <1>1, MinIs
<1>3. PICK m \in S : Min(T) = n - m
  BY <1>2
<1>4. \A x \in S : n - m <= n - x
  BY <1>2, <1>3
<1>5. m \in S /\ \A x \in S : m >= x
  BY <1>4
<1>6. Max(S) \in S /\ \A x \in S : Max(S) >= x
  BY <1>5 DEF Max
<1> QED BY <1>6

-----------------------------------------------------------------------------
(* A queue that loses some of what it holds, and keeps the order of the    *)
(* rest.                                                                   *)

\* v is w with some messages gone: what each message is for, and the order, are kept.
Thins(w, v) == \E h \in [DOMAIN v -> DOMAIN w] :
  /\ \A i, j \in DOMAIN v : i < j => h[i] < h[j]
  /\ \A i \in DOMAIN v : v[i].c = w[h[i]].c

\* The first words that are, or are not, among the messages w.
Absent(w, c)     == \A i \in DOMAIN w : w[i].c # c
Single(w, c)     == \A i, j \in DOMAIN w : w[i].c = c /\ w[j].c = c => i = j
Ordered(w, c, d) == \A i, j \in DOMAIN w : w[i].c = c /\ w[j].c = d => i < j
Alone(w)         == \A i, j \in DOMAIN w : i = j
Only(w, c)       == \A i \in DOMAIN w : w[i].c = c

\* What is absent, single, ordered, alone or of one kind stays so.
LEMMA ThinKeeps ==
  ASSUME NEW S, NEW T, NEW w \in Seq(S), NEW v \in Seq(T), Thins(w, v)
  PROVE  /\ \A c : Absent(w, c) => Absent(v, c)
         /\ \A c : Single(w, c) => Single(v, c)
         /\ \A c, d : Ordered(w, c, d) => Ordered(v, c, d)
         /\ Alone(w) => Alone(v)
         /\ \A c : Only(w, c) => Only(v, c)
         /\ w = <<>> => v = <<>>
<1>1. PICK h \in [DOMAIN v -> DOMAIN w] :
         /\ \A i, j \in DOMAIN v : i < j => h[i] < h[j]
         /\ \A i \in DOMAIN v : v[i].c = w[h[i]].c
  BY DEF Thins
<1>2. DOMAIN v \subseteq Nat /\ DOMAIN w \subseteq Nat
  OBVIOUS
<1>3. \A i, j \in DOMAIN v : h[i] = h[j] => i = j
  <2> SUFFICES ASSUME NEW i \in DOMAIN v, NEW j \in DOMAIN v, h[i] = h[j], i # j PROVE FALSE
    OBVIOUS
  <2>1. i < j \/ j < i
    BY <1>2
  <2>2. h[i] \in Nat /\ h[j] \in Nat
    BY <1>2
  <2> QED BY <1>1, <2>1, <2>2
<1>4. \A c, d : Ordered(w, c, d) => Ordered(v, c, d)
  <2> SUFFICES ASSUME NEW c, NEW d, Ordered(w, c, d), NEW i \in DOMAIN v, NEW j \in DOMAIN v,
                      v[i].c = c, v[j].c = d
               PROVE  i < j
    BY DEF Ordered
  <2>1. h[i] < h[j]
    BY <1>1 DEF Ordered
  <2>2. h[i] \in Nat /\ h[j] \in Nat /\ i \in Nat /\ j \in Nat
    BY <1>2
  <2>3. CASE j < i
    <3>1. h[j] < h[i]
      BY <1>1, <2>3
    <3> QED BY <2>1, <2>2, <3>1
  <2>4. CASE i = j
    BY <2>1, <2>2, <2>4
  <2> QED BY <2>2, <2>3, <2>4
<1>5. w = <<>> => v = <<>>
  <2>1. ASSUME w = <<>>, 1 \in DOMAIN v PROVE FALSE
    <3>1. h[1] \in DOMAIN w
      BY <2>1
    <3> QED BY <2>1, <3>1
  <2> QED BY <2>1
<1>6. \A c : Absent(w, c) => Absent(v, c)
  BY <1>1 DEF Absent
<1>7. \A c : Only(w, c) => Only(v, c)
  BY <1>1 DEF Only
<1>8. Alone(w) => Alone(v)
  BY <1>1, <1>3 DEF Alone
<1>9. \A c : Single(w, c) => Single(v, c)
  <2> SUFFICES ASSUME NEW c, Single(w, c), NEW i \in DOMAIN v, NEW j \in DOMAIN v,
                      v[i].c = c, v[j].c = c
               PROVE  i = j
    BY DEF Single
  <2>1. h[i] \in DOMAIN w /\ h[j] \in DOMAIN w /\ w[h[i]].c = c /\ w[h[j]].c = c
    BY <1>1
  <2>2. h[i] = h[j]
    BY <2>1 DEF Single
  <2> QED BY <1>3, <2>2
<1> QED BY <1>4, <1>5, <1>6, <1>7, <1>8, <1>9

\* Two queues end to end lose what each loses.
LEMMA ThinJoin ==
  ASSUME NEW S, NEW s \in Seq(S), NEW t \in Seq(S), NEW u \in Seq(S), NEW v \in Seq(S),
         Thins(s, t), Thins(u, v)
  PROVE  Thins(s \o u, t \o v)
<1>1. PICK h \in [DOMAIN t -> DOMAIN s] :
         /\ \A i, j \in DOMAIN t : i < j => h[i] < h[j]
         /\ \A i \in DOMAIN t : t[i].c = s[h[i]].c
  BY DEF Thins
<1>2. PICK g \in [DOMAIN v -> DOMAIN u] :
         /\ \A i, j \in DOMAIN v : i < j => g[i] < g[j]
         /\ \A i \in DOMAIN v : v[i].c = u[g[i]].c
  BY DEF Thins
<1> DEFINE f == [i \in DOMAIN (t \o v) |-> IF i <= Len(t) THEN h[i] ELSE Len(s) + g[i - Len(t)]]
<1>3. /\ DOMAIN (t \o v) = 1 .. Len(t) + Len(v) /\ DOMAIN (s \o u) = 1 .. Len(s) + Len(u)
      /\ DOMAIN t = 1 .. Len(t) /\ DOMAIN s = 1 .. Len(s) /\ DOMAIN u = 1 .. Len(u)
      /\ DOMAIN v = 1 .. Len(v)
      /\ Len(t) \in Nat /\ Len(s) \in Nat /\ Len(u) \in Nat /\ Len(v) \in Nat
  BY ConcatProperties
<1>4. \A i \in DOMAIN (t \o v) :
        \/ i \in DOMAIN t /\ f[i] = h[i] /\ f[i] \in DOMAIN s /\ i <= Len(t)
           /\ (t \o v)[i] = t[i] /\ (s \o u)[f[i]] = s[h[i]]
        \/ /\ i > Len(t) /\ i - Len(t) \in DOMAIN v /\ f[i] = Len(s) + g[i - Len(t)]
           /\ g[i - Len(t)] \in DOMAIN u
           /\ (t \o v)[i] = v[i - Len(t)] /\ (s \o u)[f[i]] = u[g[i - Len(t)]]
  <2> TAKE i \in DOMAIN (t \o v)
  <2>1. CASE i <= Len(t)
    <3>1. i \in DOMAIN t /\ f[i] = h[i] /\ h[i] \in DOMAIN s
      BY <1>3, <2>1
    <3> QED BY <1>3, <2>1, <3>1
  <2>2. CASE i > Len(t)
    <3>1. i - Len(t) \in DOMAIN v /\ f[i] = Len(s) + g[i - Len(t)]
      BY <1>3, <2>2
    <3>2. g[i - Len(t)] \in DOMAIN u
      BY <3>1
    <3>3. (t \o v)[i] = v[i - Len(t)]
      BY <1>3, <2>2, <3>1
    <3>4. (s \o u)[f[i]] = u[g[i - Len(t)]]
      BY <1>3, <3>1, <3>2, SMTT(60)
    <3> QED BY <2>2, <3>1, <3>2, <3>3, <3>4
  <2> QED BY <1>3, <2>1, <2>2, SMTT(60)
<1>5. f \in [DOMAIN (t \o v) -> DOMAIN (s \o u)]
  <2>1. \A i \in DOMAIN (t \o v) : f[i] \in DOMAIN (s \o u)
    BY <1>3, <1>4
  <2> QED BY <2>1
<1>6. \A i \in DOMAIN (t \o v) : (t \o v)[i].c = (s \o u)[f[i]].c
  BY <1>1, <1>2, <1>4, ZenonT(60)
<1>7. ASSUME NEW i \in DOMAIN (t \o v), NEW j \in DOMAIN (t \o v), i < j PROVE f[i] < f[j]
  <2>1. CASE j <= Len(t)
    <3>1. f[i] = h[i] /\ f[j] = h[j] /\ i \in DOMAIN t /\ j \in DOMAIN t
      BY <1>3, <1>4, <1>7, <2>1
    <3> QED BY <1>1, <1>7, <3>1
  <2>2. CASE i <= Len(t) /\ j > Len(t)
    <3>1. f[i] \in DOMAIN s
      BY <1>3, <1>4, <2>2
    <3>2. f[j] = Len(s) + g[j - Len(t)] /\ g[j - Len(t)] \in DOMAIN u
      BY <1>3, <1>4, <2>2
    <3> QED BY <1>3, <3>1, <3>2, SMTT(60)
  <2>3. CASE i > Len(t)
    <3>1. /\ f[i] = Len(s) + g[i - Len(t)] /\ g[i - Len(t)] \in DOMAIN u
          /\ f[j] = Len(s) + g[j - Len(t)] /\ g[j - Len(t)] \in DOMAIN u
          /\ i - Len(t) \in DOMAIN v /\ j - Len(t) \in DOMAIN v
      BY <1>3, <1>4, <1>7, <2>3
    <3>2. i - Len(t) < j - Len(t)
      BY <1>3, <1>7
    <3>3. g[i - Len(t)] < g[j - Len(t)]
      BY <1>2, <3>1, <3>2
    <3> QED BY <1>3, <3>1, <3>3, SMTT(60)
  <2> QED BY <1>3, <2>1, <2>2, <2>3
<1> HIDE DEF f
<1> QED BY <1>5, <1>6, <1>7 DEF Thins

\* Nothing is lost.
LEMMA ThinSame == ASSUME NEW S, NEW s \in Seq(S) PROVE Thins(s, s)
<1> DEFINE h == [i \in DOMAIN s |-> i]
<1>1. /\ h \in [DOMAIN s -> DOMAIN s]
      /\ \A i, j \in DOMAIN s : i < j => h[i] < h[j]
      /\ \A i \in DOMAIN s : s[i].c = s[h[i]].c
  OBVIOUS
<1> QED BY <1>1 DEF Thins

\* Everything is lost.
LEMMA ThinNone == ASSUME NEW S, NEW s \in Seq(S) PROVE Thins(s, <<>>)
<1> DEFINE h == [i \in {} |-> i]
<1>1. h \in [DOMAIN <<>> -> DOMAIN s]
  OBVIOUS
<1> QED BY <1>1 DEF Thins

\* The front of a queue is lost.
LEMMA ThinCut ==
  ASSUME NEW S, NEW s \in Seq(S), NEW m \in 0 .. Len(s)
  PROVE  /\ SubSeq(s, m + 1, Len(s)) \in Seq(S)
         /\ Thins(s, SubSeq(s, m + 1, Len(s)))
         /\ DOMAIN SubSeq(s, m + 1, Len(s)) = 1 .. Len(s) - m
         /\ \A i \in 1 .. Len(s) - m : SubSeq(s, m + 1, Len(s))[i] = s[i + m]
<1> DEFINE t == SubSeq(s, m + 1, Len(s))
           h == [i \in DOMAIN t |-> i + m]
<1>1. /\ t \in Seq(S) /\ DOMAIN t = 1 .. Len(s) - m
      /\ \A i \in 1 .. Len(s) - m : t[i] = s[i + m]
  OBVIOUS
<1>2. /\ h \in [DOMAIN t -> DOMAIN s]
      /\ \A i, j \in DOMAIN t : i < j => h[i] < h[j]
      /\ \A i \in DOMAIN t : t[i].c = s[h[i]].c
  BY <1>1
<1> QED BY <1>1, <1>2 DEF Thins

\* The head of a queue is lost.
LEMMA ThinTail ==
  ASSUME NEW S, NEW s \in Seq(S), s # <<>>
  PROVE  Tail(s) \in Seq(S) /\ Thins(s, Tail(s))
<1>1. Tail(s) = SubSeq(s, 2, Len(s))
  BY TailIsSubSeq
<1>2. 1 \in 0 .. Len(s) /\ 1 + 1 = 2
  OBVIOUS
<1>3. SubSeq(s, 1 + 1, Len(s)) \in Seq(S) /\ Thins(s, SubSeq(s, 1 + 1, Len(s)))
  BY <1>2, ThinCut
<1> QED BY <1>1, <1>2, <1>3

\* One message of a queue is lost.
LEMMA ThinRemove ==
  ASSUME NEW S, NEW s \in Seq(S), NEW n \in DOMAIN s
  PROVE  RemoveAt(s, n) \in Seq(S) /\ Thins(s, RemoveAt(s, n))
<1> DEFINE t == SubSeq(s, 1, n - 1) \o SubSeq(s, n + 1, Len(s))
           h == [i \in DOMAIN t |-> IF i < n THEN i ELSE i + 1]
<1>1. n \in 1 .. Len(s) /\ Len(s) \in Nat
  OBVIOUS
<1> DEFINE a == SubSeq(s, 1, n - 1)
           b == SubSeq(s, n + 1, Len(s))
<1>2. a \in Seq(S) /\ Len(a) = n - 1 /\ \A i \in 1 .. n - 1 : a[i] = s[i]
  BY <1>1
<1>3. b \in Seq(S) /\ Len(b) = Len(s) - n /\ \A i \in 1 .. Len(s) - n : b[i] = s[i + n]
  BY <1>1
<1>4. /\ t \in Seq(S) /\ DOMAIN t = 1 .. Len(s) - 1
      /\ \A i \in DOMAIN t : t[i] = IF i < n THEN s[i] ELSE s[i + 1]
  <2> HIDE DEF a, b
  <2> DEFINE ab == a \o b
  <2>1. /\ ab \in Seq(S) /\ Len(ab) = Len(s) - 1
        /\ \A i \in 1 .. Len(s) - 1 : ab[i] = IF i <= n - 1 THEN a[i] ELSE b[i - (n - 1)]
    BY <1>1, <1>2, <1>3, ConcatProperties, SMTT(60)
  <2>2. \A i \in 1 .. Len(s) - 1 : ab[i] = IF i < n THEN s[i] ELSE s[i + 1]
    <3>1. ASSUME NEW i \in 1 .. Len(s) - 1, i < n PROVE ab[i] = s[i]
      BY <1>1, <1>2, <2>1, <3>1
    <3>2. ASSUME NEW i \in 1 .. Len(s) - 1, ~(i < n) PROVE ab[i] = s[i + 1]
      <4>1. i - (n - 1) \in 1 .. Len(s) - n /\ (i - (n - 1)) + n = i + 1 /\ ~(i <= n - 1)
        BY <1>1, <3>2
      <4>2. ab[i] = b[i - (n - 1)]
        BY <2>1, <4>1
      <4>3. b[i - (n - 1)] = s[(i - (n - 1)) + n]
        BY <1>3, <4>1
      <4> QED BY <4>1, <4>2, <4>3
    <3> HIDE DEF ab
    <3> QED BY <3>1, <3>2
  <2>3. DOMAIN ab = 1 .. Len(s) - 1
    BY <2>1
  <2> HIDE DEF ab
  <2> QED BY <2>1, <2>2, <2>3 DEF a, b, ab
<1>5. /\ h \in [DOMAIN t -> DOMAIN s]
      /\ \A i, j \in DOMAIN t : i < j => h[i] < h[j]
      /\ \A i \in DOMAIN t : t[i].c = s[h[i]].c
  <2> HIDE DEF t
  <2>1. \A i \in 1 .. Len(s) - 1 : i \in DOMAIN s /\ i + 1 \in DOMAIN s
    BY <1>1
  <2> QED BY <1>1, <1>4, <2>1
<1> HIDE DEF h, t
<1>6. Thins(s, t)
  BY <1>5 DEF Thins
<1> QED BY <1>4, <1>6 DEF RemoveAt, t

\* The head of the requests becomes the last of the answers.
LEMMA ThinMove ==
  ASSUME NEW S, NEW s \in Seq(S), NEW u \in Seq(S), u # <<>>, NEW r \in S, r.c = Head(u).c
  PROVE  Thins(s \o u, Append(s, r) \o Tail(u))
<1> DEFINE w == s \o u
           v == Append(s, r) \o Tail(u)
           h == [i \in DOMAIN v |-> i]
<1>1. /\ Len(s) \in Nat /\ Len(u) \in Nat /\ Len(u) > 0
      /\ DOMAIN w = 1 .. Len(s) + Len(u)
      /\ \A i \in DOMAIN w : w[i] = IF i <= Len(s) THEN s[i] ELSE u[i - Len(s)]
  OBVIOUS
<1>2. /\ Append(s, r) \in Seq(S) /\ Len(Append(s, r)) = Len(s) + 1
      /\ \A i \in 1 .. Len(s) + 1 : Append(s, r)[i] = IF i <= Len(s) THEN s[i] ELSE r
  OBVIOUS
<1>3. /\ Tail(u) \in Seq(S) /\ Len(Tail(u)) = Len(u) - 1
      /\ \A i \in 1 .. Len(u) - 1 : Tail(u)[i] = u[i + 1]
  BY <1>1
<1>4. DOMAIN v = 1 .. Len(s) + Len(u)
  BY <1>1, <1>2, <1>3, ConcatProperties
<1>5. \A i \in DOMAIN v : v[i].c = w[i].c
  <2> TAKE i \in DOMAIN v
  <2>1. CASE i <= Len(s)
    BY <1>1, <1>2, <1>3, <1>4, <2>1
  <2>2. CASE i = Len(s) + 1
    <3>1. v[i] = r
      BY <1>1, <1>2, <1>3, <1>4, <2>2
    <3>2. w[i] = u[1] /\ u[1] = Head(u)
      BY <1>1, <1>4, <2>2
    <3> QED BY <3>1, <3>2
  <2>3. CASE i > Len(s) + 1
    <3>1. v[i] = Tail(u)[i - (Len(s) + 1)]
      BY <1>1, <1>2, <1>3, <1>4, <2>3
    <3>2. Tail(u)[i - (Len(s) + 1)] = u[i - Len(s)]
      BY <1>1, <1>3, <1>4, <2>3
    <3> QED BY <1>1, <1>4, <2>3, <3>1, <3>2
  <2> QED BY <1>1, <1>4, <2>1, <2>2, <2>3
<1>6. /\ h \in [DOMAIN v -> DOMAIN w]
      /\ \A i, j \in DOMAIN v : i < j => h[i] < h[j]
      /\ \A i \in DOMAIN v : v[i].c = w[h[i]].c
  BY <1>1, <1>4, <1>5
<1> HIDE DEF h, v, w
<1>7. Thins(w, v)
  BY <1>6 DEF Thins
<1> QED BY <1>7 DEF v, w

-----------------------------------------------------------------------------
(* The two directions as one queue: answers first, then requests.          *)

\* Places in two queues end to end.
LEMMA CatFacts ==
  ASSUME NEW S, NEW s \in Seq(S), NEW u \in Seq(S)
  PROVE  /\ s \o u \in Seq(S) /\ DOMAIN (s \o u) = 1 .. Len(s) + Len(u)
         /\ Len(s) \in Nat /\ Len(u) \in Nat /\ DOMAIN s = 1 .. Len(s) /\ DOMAIN u = 1 .. Len(u)
         /\ \A i \in DOMAIN s : i \in DOMAIN (s \o u) /\ (s \o u)[i] = s[i]
         /\ \A i \in DOMAIN u : Len(s) + i \in DOMAIN (s \o u) /\ (s \o u)[Len(s) + i] = u[i]
         /\ \A k \in DOMAIN (s \o u) : \/ k \in DOMAIN s
                                       \/ k > Len(s) /\ k - Len(s) \in DOMAIN u
<1>1. /\ s \o u \in Seq(S) /\ Len(s \o u) = Len(s) + Len(u)
      /\ \A i \in 1 .. Len(s) + Len(u) : (s \o u)[i] = IF i <= Len(s) THEN s[i] ELSE u[i - Len(s)]
  BY ConcatProperties
<1>2. /\ Len(s) \in Nat /\ Len(u) \in Nat /\ DOMAIN s = 1 .. Len(s) /\ DOMAIN u = 1 .. Len(u)
      /\ DOMAIN (s \o u) = 1 .. Len(s) + Len(u)
  BY <1>1
<1>3. ASSUME NEW i \in DOMAIN u
      PROVE  Len(s) + i \in DOMAIN (s \o u) /\ (s \o u)[Len(s) + i] = u[i]
  <2>1. Len(s) + i \in 1 .. Len(s) + Len(u) /\ ~(Len(s) + i <= Len(s)) /\ (Len(s) + i) - Len(s) = i
    BY <1>2
  <2> QED BY <1>1, <1>2, <2>1
<1>4. \A i \in DOMAIN s : i \in DOMAIN (s \o u) /\ (s \o u)[i] = s[i]
  BY <1>1, <1>2
<1>5. \A k \in DOMAIN (s \o u) : k \in DOMAIN s \/ (k > Len(s) /\ k - Len(s) \in DOMAIN u)
  BY <1>2
<1> QED BY <1>1, <1>2, <1>3, <1>4, <1>5

\* What a queue holds after each thing that happens to one.
LEMMA RangeFacts ==
  ASSUME NEW S, NEW s \in Seq(S)
  PROVE  /\ Range(s) \subseteq S
         /\ \A m \in Range(s) : \E i \in DOMAIN s : s[i] = m
         /\ \A i \in DOMAIN s : s[i] \in Range(s)
         /\ \A r \in S : Append(s, r) \in Seq(S) /\ Range(Append(s, r)) = Range(s) \cup {r}
         /\ s # <<>> => Head(s) \in Range(s) /\ Range(Tail(s)) \subseteq Range(s)
         /\ \A m \in 0 .. Len(s) : Range(SubSeq(s, m + 1, Len(s))) \subseteq Range(s)
         /\ \A n \in DOMAIN s : Range(RemoveAt(s, n)) \subseteq Range(s)
<1> USE DEF Range
<1>1. \A r \in S : Append(s, r) \in Seq(S) /\ Range(Append(s, r)) = Range(s) \cup {r}
  <2> SUFFICES ASSUME NEW r \in S
               PROVE  Append(s, r) \in Seq(S) /\ Range(Append(s, r)) = Range(s) \cup {r}
    OBVIOUS
  <2>1. /\ Append(s, r) \in Seq(S) /\ DOMAIN Append(s, r) = 1 .. Len(s) + 1 /\ DOMAIN s = 1 .. Len(s)
        /\ \A i \in 1 .. Len(s) : Append(s, r)[i] = s[i]
        /\ Append(s, r)[Len(s) + 1] = r /\ Len(s) \in Nat
    BY AppendProperties
  <2>2. Range(Append(s, r)) \subseteq Range(s) \cup {r}
    <3> SUFFICES ASSUME NEW i \in 1 .. Len(s) + 1 PROVE Append(s, r)[i] \in Range(s) \cup {r}
      BY <2>1
    <3>1. CASE i = Len(s) + 1
      BY <2>1, <3>1
    <3>2. CASE i \in 1 .. Len(s)
      BY <2>1, <3>2
    <3> QED BY <2>1, <3>1, <3>2
  <2>3. \A i \in 1 .. Len(s) : s[i] \in Range(Append(s, r))
    BY <2>1
  <2>4. r \in Range(Append(s, r))
    <3>1. Len(s) + 1 \in DOMAIN Append(s, r)
      BY <2>1
    <3> QED BY <2>1, <3>1
  <2> QED BY <2>1, <2>2, <2>3, <2>4
<1>2. s # <<>> => Head(s) \in Range(s) /\ Range(Tail(s)) \subseteq Range(s)
  <2> SUFFICES ASSUME s # <<>> PROVE Head(s) \in Range(s) /\ Range(Tail(s)) \subseteq Range(s)
    OBVIOUS
  <2>1. 1 \in DOMAIN s /\ Head(s) = s[1]
    OBVIOUS
  <2>2. /\ Tail(s) \in Seq(S) /\ DOMAIN Tail(s) = 1 .. Len(s) - 1
        /\ \A i \in 1 .. Len(s) - 1 : Tail(s)[i] = s[i + 1] /\ i + 1 \in DOMAIN s
    BY HeadTailProperties
  <2> QED BY <2>1, <2>2
<1>3. \A m \in 0 .. Len(s) : Range(SubSeq(s, m + 1, Len(s))) \subseteq Range(s)
  <2> SUFFICES ASSUME NEW m \in 0 .. Len(s)
               PROVE  Range(SubSeq(s, m + 1, Len(s))) \subseteq Range(s)
    OBVIOUS
  <2>1. /\ DOMAIN SubSeq(s, m + 1, Len(s)) = 1 .. Len(s) - m
        /\ \A i \in 1 .. Len(s) - m : SubSeq(s, m + 1, Len(s))[i] = s[i + m]
    BY ThinCut
  <2>2. \A i \in 1 .. Len(s) - m : i + m \in DOMAIN s
    OBVIOUS
  <2> QED BY <2>1, <2>2
<1>4. \A n \in DOMAIN s : Range(RemoveAt(s, n)) \subseteq Range(s)
  <2> SUFFICES ASSUME NEW n \in DOMAIN s PROVE Range(RemoveAt(s, n)) \subseteq Range(s)
    OBVIOUS
  <2> DEFINE a == SubSeq(s, 1, n - 1)
             b == SubSeq(s, n + 1, Len(s))
  <2>1. n \in 1 .. Len(s) /\ Len(s) \in Nat
    OBVIOUS
  <2>2. a \in Seq(S) /\ Range(a) \subseteq Range(s)
    <3>1. a \in Seq(S) /\ Len(a) = n - 1 /\ \A i \in 1 .. n - 1 : a[i] = s[i] /\ i \in DOMAIN s
      BY <2>1
    <3> QED BY <3>1, SMTT(60)
  <2>3. b \in Seq(S) /\ Range(b) \subseteq Range(s)
    <3>1. /\ b \in Seq(S) /\ Len(b) = Len(s) - n
          /\ \A i \in 1 .. Len(s) - n : b[i] = s[i + n] /\ i + n \in DOMAIN s
      BY <2>1
    <3> QED BY <3>1
  <2> HIDE DEF a, b
  <2>4. \A i \in DOMAIN (a \o b) : (a \o b)[i] \in Range(a) \cup Range(b)
    <3> TAKE i \in DOMAIN (a \o b)
    <3>1. CASE i \in DOMAIN a
      BY <2>2, <2>3, <3>1, CatFacts
    <3>2. CASE i > Len(a) /\ i - Len(a) \in DOMAIN b
      <4>1. Len(a) + (i - Len(a)) = i
        BY <2>2, <2>3, CatFacts
      <4>2. (a \o b)[Len(a) + (i - Len(a))] = b[i - Len(a)]
        BY <2>2, <2>3, <3>2, CatFacts, SMTT(60)
      <4> QED BY <3>2, <4>1, <4>2
    <3> QED BY <2>2, <2>3, <3>1, <3>2, CatFacts
  <2>5. RemoveAt(s, n) = a \o b
    BY DEF RemoveAt, a, b
  <2>6. Range(a \o b) \subseteq Range(s)
    BY <2>2, <2>3, <2>4
  <2> QED BY <2>5, <2>6
<1>5. /\ Range(s) \subseteq S
      /\ \A m \in Range(s) : \E i \in DOMAIN s : s[i] = m
      /\ \A i \in DOMAIN s : s[i] \in Range(s)
  OBVIOUS
<1> HIDE DEF Range
<1> QED BY <1>1, <1>2, <1>3, <1>4, <1>5

\* What two queues end to end hold.
LEMMA CatRange ==
  ASSUME NEW S, NEW s \in Seq(S), NEW u \in Seq(S)
  PROVE  /\ \A c : Absent(s \o u, c) <=> \A m \in Range(s) \cup Range(u) : m.c # c
         /\ \A c : Only(s \o u, c) <=> \A m \in Range(s) \cup Range(u) : m.c = c
         /\ s \o u = <<>> <=> s = <<>> /\ u = <<>>
         /\ Alone(s \o u) => Len(s) + Len(u) <= 1
<1>1. \A i \in DOMAIN (s \o u) : (s \o u)[i] \in Range(s) \cup Range(u)
  <2> TAKE i \in DOMAIN (s \o u)
  <2>1. CASE i \in DOMAIN s
    BY <2>1, CatFacts DEF Range
  <2>2. CASE i > Len(s) /\ i - Len(s) \in DOMAIN u
    <3>1. Len(s) + (i - Len(s)) = i
      BY CatFacts
    <3>2. (s \o u)[Len(s) + (i - Len(s))] = u[i - Len(s)]
      BY <2>2, CatFacts
    <3> QED BY <2>2, <3>1, <3>2 DEF Range
  <2> QED BY <2>1, <2>2, CatFacts
<1>2. \A m \in Range(s) \cup Range(u) : \E i \in DOMAIN (s \o u) : (s \o u)[i] = m
  <2>1. \A m \in Range(s) : \E i \in DOMAIN (s \o u) : (s \o u)[i] = m
    BY CatFacts DEF Range
  <2>2. \A k \in DOMAIN u : \E i \in DOMAIN (s \o u) : (s \o u)[i] = u[k]
    <3> TAKE k \in DOMAIN u
    <3>1. Len(s) + k \in DOMAIN (s \o u) /\ (s \o u)[Len(s) + k] = u[k]
      BY CatFacts
    <3> QED BY <3>1
  <2> QED BY <2>1, <2>2, SMTT(60) DEF Range
<1>3. ASSUME Alone(s \o u) PROVE Len(s) + Len(u) <= 1
  <2>1. DOMAIN (s \o u) = 1 .. Len(s) + Len(u) /\ Len(s) \in Nat /\ Len(u) \in Nat
    BY CatFacts
  <2>2. ASSUME Len(s) + Len(u) > 1 PROVE FALSE
    <3>1. 1 \in DOMAIN (s \o u) /\ 2 \in DOMAIN (s \o u)
      BY <2>1, <2>2
    <3>2. 1 = 2
      BY <1>3, <3>1 DEF Alone
    <3> QED BY <3>2
  <2> QED BY <2>1, <2>2
<1>4. s \o u = <<>> <=> s = <<>> /\ u = <<>>
  <2>1. DOMAIN (s \o u) = 1 .. Len(s) + Len(u) /\ Len(s) \in Nat /\ Len(u) \in Nat /\ s \o u \in Seq(S)
    BY CatFacts
  <2>2. Len(s \o u) = Len(s) + Len(u)
    BY ConcatProperties
  <2>3. (s = <<>> <=> Len(s) = 0) /\ (u = <<>> <=> Len(u) = 0) /\ (s \o u = <<>> <=> Len(s \o u) = 0)
    BY <2>1, EmptySeq
  <2> QED BY <2>1, <2>2, <2>3
<1> QED BY <1>1, <1>2, <1>3, <1>4 DEF Absent, Only

\* The oldest request, and an answer that is taken together with all that is before it.
LEMMA HeadFacts ==
  ASSUME NEW S, NEW s \in Seq(S), NEW u \in Seq(S), u # <<>>
  PROVE  /\ Single(s \o u, Head(u).c) => \A m \in Range(s) \cup Range(Tail(u)) : m.c # Head(u).c
         /\ \A c : Ordered(s \o u, c, Head(u).c) => \A m \in Range(Tail(u)) : m.c # c
         /\ Alone(s \o u) => s = <<>> /\ Tail(u) = <<>>
<1> DEFINE w == s \o u
           n == Len(s) + 1
<1>1. /\ Len(s) \in Nat /\ Len(u) \in Nat /\ Len(u) > 0 /\ DOMAIN u = 1 .. Len(u)
      /\ DOMAIN s = 1 .. Len(s)
  OBVIOUS
<1>2. n \in DOMAIN w /\ w[n] = Head(u) /\ n \in Nat
  BY <1>1, CatFacts
<1>3. \A m \in Range(s) : \E i \in DOMAIN w : i < n /\ w[i] = m
  BY <1>1, CatFacts DEF Range
<1>4. \A m \in Range(Tail(u)) : \E i \in DOMAIN w : i > n /\ w[i] = m
  <2> SUFFICES ASSUME NEW k \in DOMAIN Tail(u) PROVE \E i \in DOMAIN w : i > n /\ w[i] = Tail(u)[k]
    BY DEF Range
  <2>1. k \in 1 .. Len(u) - 1 /\ Tail(u)[k] = u[k + 1]
    BY HeadTailProperties
  <2>2. k + 1 \in DOMAIN u /\ Len(s) + (k + 1) > n
    BY <1>1, <2>1
  <2>3. Len(s) + (k + 1) \in DOMAIN w /\ w[Len(s) + (k + 1)] = u[k + 1]
    BY <2>2, CatFacts
  <2> QED BY <2>1, <2>2, <2>3
<1>5. DOMAIN w \subseteq Nat
  BY CatFacts
<1>6. Single(w, Head(u).c) => \A m \in Range(s) \cup Range(Tail(u)) : m.c # Head(u).c
  <2> SUFFICES ASSUME Single(w, Head(u).c), NEW m \in Range(s) \cup Range(Tail(u)),
                      m.c = Head(u).c
               PROVE  FALSE
    OBVIOUS
  <2>1. PICK i \in DOMAIN w : i # n /\ w[i] = m
    BY <1>2, <1>3, <1>4, <1>5
  <2>2. i = n
    BY <1>2, <2>1 DEF Single
  <2> QED BY <2>1, <2>2
<1>7. \A c : Ordered(w, c, Head(u).c) => \A m \in Range(Tail(u)) : m.c # c
  <2> SUFFICES ASSUME NEW c, Ordered(w, c, Head(u).c), NEW m \in Range(Tail(u)), m.c = c PROVE FALSE
    OBVIOUS
  <2>1. PICK i \in DOMAIN w : i > n /\ w[i] = m
    BY <1>4
  <2>2. i < n
    BY <1>2, <2>1 DEF Ordered
  <2> QED BY <1>2, <1>5, <2>1, <2>2
<1>8. Alone(w) => s = <<>> /\ Tail(u) = <<>>
  <2> SUFFICES ASSUME Alone(w) PROVE s = <<>> /\ Tail(u) = <<>>
    OBVIOUS
  <2>1. Len(s) + Len(u) <= 1
    BY CatRange
  <2>2. Tail(u) \in Seq(S) /\ Len(Tail(u)) = Len(u) - 1
    BY HeadTailProperties
  <2> QED BY <1>1, <2>1, <2>2, EmptySeq
<1> QED BY <1>6, <1>7, <1>8

\* An answer is taken, with all that came before it.
LEMMA CutFacts ==
  ASSUME NEW S, NEW s \in Seq(S), NEW u \in Seq(S), NEW n \in DOMAIN s
  PROVE  LET v == SubSeq(s, n + 1, Len(s)) \o u
         IN  /\ Thins(s \o u, v)
             /\ Single(s \o u, s[n].c) => Absent(v, s[n].c)
             /\ \A c : Ordered(s \o u, c, s[n].c) => Absent(v, c)
             /\ Alone(s \o u) => v = <<>>
<1> DEFINE t == SubSeq(s, n + 1, Len(s))
           w == s \o u
           v == t \o u
<1>1. /\ t \in Seq(S) /\ Thins(s, t) /\ DOMAIN t = 1 .. Len(s) - n
      /\ \A i \in 1 .. Len(s) - n : t[i] = s[i + n]
  <2>1. n \in 0 .. Len(s)
    OBVIOUS
  <2> QED BY <2>1, ThinCut
<1>2. Thins(w, v)
  BY <1>1, ThinSame, ThinJoin
<1>3. n \in DOMAIN w /\ w[n] = s[n] /\ DOMAIN w \subseteq Nat /\ n \in Nat
  BY CatFacts
<1>4. \A m \in Range(t) \cup Range(u) : \E i \in DOMAIN w : i > n /\ w[i] = m
  <2>1. ASSUME NEW k \in DOMAIN t PROVE \E i \in DOMAIN w : i > n /\ w[i] = t[k]
    <3>1. k + n \in DOMAIN s /\ k + n > n /\ t[k] = s[k + n]
      BY <1>1, SMTT(60)
    <3> QED BY <3>1, CatFacts, SMTT(60)
  <2>2. ASSUME NEW k \in DOMAIN u PROVE \E i \in DOMAIN w : i > n /\ w[i] = u[k]
    <3>1. Len(s) + k \in DOMAIN w /\ w[Len(s) + k] = u[k]
      BY CatFacts
    <3>2. Len(s) + k > n
      OBVIOUS
    <3> QED BY <3>1, <3>2
  <2> QED BY <2>1, <2>2 DEF Range
<1>5. Single(w, s[n].c) => Absent(v, s[n].c)
  <2> SUFFICES ASSUME Single(w, s[n].c), NEW m \in Range(t) \cup Range(u), m.c = s[n].c PROVE FALSE
    BY <1>1, CatRange, ZenonT(60)
  <2>1. PICK i \in DOMAIN w : i > n /\ w[i] = m
    BY <1>4
  <2>2. i = n
    BY <1>3, <2>1 DEF Single
  <2> QED BY <1>3, <2>1, <2>2
<1>6. ASSUME NEW c, Ordered(w, c, s[n].c) PROVE Absent(v, c)
  <2> SUFFICES ASSUME NEW m \in Range(t) \cup Range(u), m.c = c PROVE FALSE
    BY <1>1, CatRange, ZenonT(60)
  <2>1. PICK i \in DOMAIN w : i > n /\ w[i] = m
    BY <1>4
  <2>2. i < n
    BY <1>3, <1>6, <2>1 DEF Ordered
  <2> QED BY <1>3, <2>1, <2>2
<1>7. ASSUME Alone(w) PROVE v = <<>>
  <2>1. Len(s) + Len(u) <= 1 /\ Len(s) \in Nat /\ Len(u) \in Nat /\ n \in 1 .. Len(s)
    BY <1>7, CatRange
  <2>2. Len(t) = 0 /\ Len(u) = 0
    BY <1>1, <2>1
  <2> QED BY <1>1, <2>2, CatRange, EmptySeq
<1> HIDE DEF t, w, v
<1> QED BY <1>2, <1>5, <1>6, <1>7 DEF t, w, v

\* A new request.
LEMMA AddFacts ==
  ASSUME NEW S, NEW s \in Seq(S), NEW u \in Seq(S), NEW r \in S
  PROVE  LET w == s \o u
             v == s \o Append(u, r)
         IN  /\ \A c : Absent(w, c) => Single(v, c)
             /\ \A c : c # r.c /\ Absent(w, c) => Absent(v, c)
             /\ \A c : c # r.c /\ Single(w, c) => Single(v, c)
             /\ \A c : c # r.c /\ Absent(w, r.c) => Ordered(v, c, r.c)
             /\ w = <<>> => Alone(v) /\ Only(v, r.c)
<1> DEFINE w == s \o u
           v == s \o Append(u, r)
           n == Len(s) + Len(u) + 1
<1>1. /\ Append(u, r) \in Seq(S) /\ Len(Append(u, r)) = Len(u) + 1
      /\ \A i \in 1 .. Len(u) : Append(u, r)[i] = u[i]
      /\ Append(u, r)[Len(u) + 1] = r
  BY AppendProperties
<1>2. /\ Len(s) \in Nat /\ Len(u) \in Nat /\ DOMAIN u = 1 .. Len(u) /\ DOMAIN s = 1 .. Len(s)
      /\ DOMAIN w = 1 .. n - 1 /\ n \in Nat
  BY CatFacts
<1>3. DOMAIN v = 1 .. n
  BY <1>1, <1>2, CatFacts
<1>4. \A i \in 1 .. n - 1 : v[i] = w[i]
  <2> SUFFICES ASSUME NEW i \in 1 .. n - 1 PROVE v[i] = w[i]
    OBVIOUS
  <2>1. CASE i \in DOMAIN s
    BY <1>1, <2>1, CatFacts
  <2>2. CASE i > Len(s) /\ i - Len(s) \in DOMAIN u
    <3>1. Len(s) + (i - Len(s)) = i /\ i - Len(s) \in 1 .. Len(u) /\ i - Len(s) \in DOMAIN Append(u, r)
      BY <1>1, <1>2, <2>2
    <3>2. w[Len(s) + (i - Len(s))] = u[i - Len(s)]
      BY <2>2, CatFacts
    <3>3. v[Len(s) + (i - Len(s))] = Append(u, r)[i - Len(s)]
      BY <1>1, <3>1, CatFacts
    <3> QED BY <1>1, <3>1, <3>2, <3>3
  <2> QED BY <1>2, <2>1, <2>2, CatFacts
<1>5. v[n] = r
  <2>1. Len(u) + 1 \in DOMAIN Append(u, r) /\ Len(s) + (Len(u) + 1) = n
    BY <1>1, <1>2
  <2>2. v[Len(s) + (Len(u) + 1)] = Append(u, r)[Len(u) + 1]
    BY <1>1, <2>1, CatFacts
  <2> QED BY <1>1, <2>1, <2>2
<1>6. w = <<>> => n = 1
  BY <1>2
<1> HIDE DEF w, v, n
<1>7. \A i \in DOMAIN v : (i \in DOMAIN w /\ v[i] = w[i] /\ i < n) \/ (i = n /\ v[i] = r)
  BY <1>2, <1>3, <1>4, <1>5
<1>8. ASSUME NEW c, Absent(w, c) PROVE Single(v, c)
  BY <1>7, <1>8 DEF Absent, Single
<1>9. ASSUME NEW c, c # r.c, Absent(w, c) PROVE Absent(v, c)
  BY <1>7, <1>9 DEF Absent
<1>10. ASSUME NEW c, c # r.c, Single(w, c) PROVE Single(v, c)
  BY <1>7, <1>10 DEF Single
<1>11. ASSUME NEW c, c # r.c, Absent(w, r.c) PROVE Ordered(v, c, r.c)
  BY <1>7, <1>11 DEF Absent, Ordered
<1>12. ASSUME w = <<>> PROVE Alone(v) /\ Only(v, r.c)
  <2>1. n = 1 /\ DOMAIN w = {}
    BY <1>2, <1>6, <1>12
  <2> QED BY <1>7, <2>1 DEF Alone, Only
<1> QED BY <1>8, <1>9, <1>10, <1>11, <1>12 DEF w, v

\* Nothing that comes after the oldest request is an answer.
LEMMA HeadFirst ==
  ASSUME NEW S, NEW s \in Seq(S), NEW u \in Seq(S), u # <<>>, NEW d, Ordered(s \o u, Head(u).c, d)
  PROVE  \A m \in Range(s) : m.c # d
<1> SUFFICES ASSUME NEW i \in DOMAIN s, s[i].c = d PROVE FALSE
  BY RangeFacts
<1>1. /\ Len(s) \in Nat /\ i \in 1 .. Len(s) /\ 1 \in DOMAIN u /\ Head(u) = u[1]
  OBVIOUS
<1>2. i \in DOMAIN (s \o u) /\ (s \o u)[i] = s[i]
  BY CatFacts
<1>3. Len(s) + 1 \in DOMAIN (s \o u) /\ (s \o u)[Len(s) + 1] = u[1]
  BY <1>1, CatFacts
<1>4. Len(s) + 1 < i
  BY <1>1, <1>2, <1>3 DEF Ordered
<1> QED BY <1>1, <1>4

-----------------------------------------------------------------------------
(* The inductive invariant.                                                *)

\* The first words of requests and answers.
Words   == {"list", "sig", "half", "begin", "chunk", "status", "end", "commit", "abort"}
Replies == (SUBSET (1 .. Blobs))
             \cup {"ok", "error", "timeout", "retry", "busy", "result", "unknown", "received"}
Asks    == [c : Words, i : Items, k : Nat]
Tells   == [c : Words, r : Replies, k : Nat]

\* What is on the wire, oldest first: answers, then requests.
Wired == toHost \o toPod

\* UploadTypeOK, with the messages in flight.
Types ==
  /\ {lan, flash, man, sent, sup, sigSent, broken, ctxDone, sigAware} \subseteq BOOLEAN
  /\ {trouble, lostOther, unanswered, resent} \subseteq BOOLEAN
  /\ at \in Phases \cup {"done"} /\ exit \in {""} \cup Reports
  /\ item \in Items /\ off \in 1..Chunks /\ try \in 1..Attempts
  /\ missing \subseteq 1..Blobs /\ installed \subseteq Items
  /\ sigs \in 0..2 /\ lost \in 0..MaxLost /\ late \in 0..MaxLate
  /\ slot \in [Items -> {"old", "new"}]
  /\ stage \in [item : Items, got : SUBSET (1..Chunks),
                state : {"idle", "receiving", "verified"}, sigs : 0..2]
  /\ toPod \in Seq(Asks) /\ toHost \in Seq(Tells)
  /\ \A m \in Range(toPod) : m.c = "chunk" => m.k \in 1..Chunks
  /\ \A a \in Range(toHost) : a.c = "list" => a.r \in SUBSET (1..Blobs)

\* Where the host can be, and with what.
Control ==
  /\ flash \/ broken => lan
  /\ sigSent => sup
  /\ at = "probe" => ~sigSent
  /\ sup => man /\ ~lan
  /\ at \in {"probe", "half0", "half1", "clear", "query"} => man /\ ~lan
  /\ at \in {"half0", "half1", "clear", "query"} => sup
  /\ at = "done" => ~sent /\ exit # ""
  /\ at # "done" => exit = ""
  /\ at = "wait" => ~sent
  /\ at \notin {"list", "wait", "done"} /\ ~flash => item # 0
  /\ at \in {"probe", "half0", "half1", "clear", "begin", "query"} => off = 1 /\ try = 1
  /\ at \in {"end", "commit"} => off = Chunks

\* Where the host can go from each phase.
Goes(p) ==
  CASE p = "list"   -> {"done", "begin", "probe", "half0"}
    [] p = "probe"  -> {"half0", "begin"}
    [] p = "half0"  -> {"half1", "clear"}
    [] p = "half1"  -> {"begin", "clear"}
    [] p = "clear"  -> {"begin"}
    [] p = "begin"  -> {"query", "chunk", "done"}
    [] p = "query"  -> {"chunk"}
    [] p = "chunk"  -> {"chunk", "end", "done", "status"}
    [] p = "status" -> {"chunk", "end", "done"}
    [] p = "end"    -> {"commit", "done"}
    [] p = "commit" -> {"wait", "done", "begin", "probe", "half0"}

-----------------------------------------------------------------------------
(* The shapes of steps.                                                    *)

\* An answer that is received: it is for the question, and nothing before it is left.
LEMMA ReceiveIs ==
  ASSUME Types, Receive
  PROVE  \E n \in DOMAIN toHost :
           /\ toHost[n].c = Wire(at) /\ toHost[n] \in Range(toHost) /\ toHost[n] \in Tells
           /\ Understand(toHost[n])
           /\ toHost' = SubSeq(toHost, n + 1, Len(toHost))
           /\ sent /\ UNCHANGED <<broken, lan, flash, man, ctxDone, pod, past>>
<1>0. toHost \in Seq(Tells) /\ DOMAIN toHost \subseteq Nat
  <2>1. toHost \in Seq(Tells)
    BY DEF Types
  <2> QED BY <2>1
<1>1. Mine \subseteq Nat /\ Mine # {} /\ Mine \subseteq DOMAIN toHost
  BY <1>0 DEF Receive, Mine
<1>2. Min(Mine) \in Mine
  BY <1>1, MinIs
<1>3. /\ Min(Mine) \in DOMAIN toHost /\ toHost[Min(Mine)].c = Wire(at)
      /\ toHost[Min(Mine)] \in Range(toHost) /\ toHost[Min(Mine)] \in Tells
  <2>1. Min(Mine) \in DOMAIN toHost /\ toHost[Min(Mine)].c = Wire(at)
    BY <1>2 DEF Mine
  <2> QED BY <1>0, <2>1, RangeFacts
<1> QED BY <1>3 DEF Receive, Answer

\* What the host goes on with.
LEMMA NextBlobIs ==
  ASSUME Types, NEW left \in SUBSET (1 .. Blobs), NEW got, NEW s, NextBlob(left, got, s)
  PROVE  /\ installed' = got /\ missing' = left /\ sup' = s /\ sent' = FALSE
         /\ off' = 1 /\ try' = 1 /\ sigSent' = FALSE /\ toPod' = toPod
         /\ \/ at' = "done" /\ exit' = "ok" /\ item' = item
            \/ item' \in 1 .. Blobs /\ exit' = exit /\ at' = FirstOf(got, s)
<1>1. left # {} => Min(left) \in 1 .. Blobs
  <2>1. left \subseteq Nat
    BY PodUploadAssumption
  <2> QED BY <2>1, MinIs
<1> QED BY <1>1 DEF NextBlob

\* What an upload begins with.
LEMMA FirstIs == \A got, s :
  /\ FirstOf(got, s) \in {"begin", "probe", "half0"}
  /\ FirstOf(got, s) # "begin" => ~lan /\ man
  /\ FirstOf(got, s) = "half0" => s
BY DEF FirstOf

\* Where the host goes after an answer, or after none.
LEMMA HostGoes ==
  ASSUME Types, Receive \/ TimeOut
  PROVE  /\ at \in Phases \ {"wait"} /\ at' \in Goes(at) /\ sent' = FALSE
         /\ \/ toPod' = toPod
            \/ at' = "done" /\ toPod' = Append(toPod, [c |-> "abort", i |-> item, k |-> 0])
<1>1. CASE TimeOut
  <2>1. at \in Phases \ {"wait"}
    BY <1>1 DEF TimeOut
  <2> USE DEF Phases, Goes, Goto, Keep, Fail, HalfFailed, ChunkAgain, LostCommit
  <2>2. CASE at \in {"probe", "half0", "half1", "clear", "query"}
    BY <1>1, <2>2 DEF TimeOut
  <2>3. CASE at \in {"chunk", "status"}
    BY <1>1, <2>3 DEF TimeOut
  <2>4. CASE at \in {"list", "begin", "end", "commit"}
    BY <1>1, <2>4 DEF TimeOut
  <2> QED BY <2>1, <2>2, <2>3, <2>4
<1>2. CASE Receive
  <2>1. PICK n \in DOMAIN toHost : Understand(toHost[n]) /\ toHost[n] \in Range(toHost)
                                   /\ toHost[n].c = Wire(at)
    BY <1>2, ReceiveIs
  <2> DEFINE a == toHost[n]
  <2>2. CASE at = "list"
    <3>1. a.r \in SUBSET (1 .. Blobs)
      BY <2>1, <2>2 DEF Types, Wire
    <3>2. NextBlob(a.r, installed, sup)
      BY <2>1, <2>2 DEF Understand
    <3> QED BY <2>2, <3>1, <3>2, NextBlobIs, FirstIs DEF Goes, Phases
  <2>3. CASE at = "commit" /\ GoodCommit(a.r) /\ item # 0
    <3>1. NextBlob(missing \ {item}, installed \cup {item}, sup)
      BY <2>1, <2>3 DEF Understand
    <3>2. missing \ {item} \in SUBSET (1 .. Blobs)
      BY DEF Types
    <3> QED BY <2>3, <3>1, <3>2, NextBlobIs, FirstIs, ZenonT(60) DEF Goes, Phases
  <2>4. CASE at = "commit" /\ ~(GoodCommit(a.r) /\ item # 0)
    BY <2>1, <2>4 DEF Understand, Phases, Goes, Goto, Keep, Fail
  <2>5. CASE at \in {"probe", "half0", "half1", "clear"}
    BY <2>1, <2>5 DEF Understand, Phases, Goes, Goto, Keep, HalfFailed
  <2>6. CASE at \in {"begin", "query", "end"}
    BY <2>1, <2>6 DEF Understand, Phases, Goes, Goto, Keep, Fail
  <2>7. CASE at \in {"chunk", "status"}
    BY <2>1, <2>7 DEF Understand, Phases, Goes, Goto, Keep, Fail, ChunkDone, ChunkAgain
  <2>8. at \in {"list", "commit", "probe", "half0", "half1", "clear", "begin", "query", "end",
                "chunk", "status"}
    BY <2>1 DEF Understand
  <2> QED BY <2>2, <2>3, <2>4, <2>5, <2>6, <2>7, <2>8
<1> QED BY <1>1, <1>2

\* What the pod has received of the image.
LEMMA GotIs == Types =>
  /\ Max(stage.got \cup {0}) \in stage.got \cup {0}
  /\ \A x \in stage.got : x <= Max(stage.got \cup {0})
  /\ Max(stage.got \cup {0}) \in Nat
<1> SUFFICES ASSUME Types
             PROVE  /\ Max(stage.got \cup {0}) \in stage.got \cup {0}
                    /\ \A x \in stage.got : x <= Max(stage.got \cup {0})
                    /\ Max(stage.got \cup {0}) \in Nat
  OBVIOUS
<1>1. stage.got \subseteq 1 .. Chunks /\ Chunks \in Nat
  BY PodUploadAssumption DEF Types
<1>2. stage.got \cup {0} \subseteq 0 .. Chunks /\ stage.got \cup {0} # {}
  BY <1>1
<1>3. /\ Max(stage.got \cup {0}) \in stage.got \cup {0}
      /\ \A x \in stage.got \cup {0} : x <= Max(stage.got \cup {0})
  BY <1>1, <1>2, MaxIs
<1> QED BY <1>2, <1>3

\* The halves of a manifest are two at most.
LEMMA HalvesIs == \A n \in 0 .. 2 : Min({n + 1, 2}) = IF n = 2 THEN 2 ELSE n + 1
<1> SUFFICES ASSUME NEW n \in 0 .. 2 PROVE Min({n + 1, 2}) = IF n = 2 THEN 2 ELSE n + 1
  OBVIOUS
<1>1. {n + 1, 2} \subseteq Nat /\ {n + 1, 2} # {}
  OBVIOUS
<1>2. Min({n + 1, 2}) \in {n + 1, 2} /\ \A x \in {n + 1, 2} : Min({n + 1, 2}) <= x
  BY <1>1, MinIs
<1> QED BY <1>2

\* Every answer the pod gives is one of Replies.
LEMMA RepliesAre ==
  /\ \A r \in {"ok", "error", "timeout", "retry", "busy", "result", "unknown", "received"} : r \in Replies
  /\ \A r \in SUBSET (1 .. Blobs) : r \in Replies
BY DEF Replies

\* The pod takes the oldest request, and answers it unless the session is broken or it
\* is an abort.
LEMMA PodTakes ==
  ASSUME Types, Pod
  PROVE  /\ toPod # <<>> /\ toPod' = Tail(toPod) /\ UNCHANGED host
         /\ Head(toPod) \in Asks /\ Head(toPod) \in Range(toPod)
         /\ \/ Head(toPod).c = "abort" /\ toHost' = toHost
            \/ broken /\ toHost' = <<>>
            \/ \E r \in Replies, k \in Nat :
                 /\ toHost' = Append(toHost, [c |-> Head(toPod).c, r |-> r, k |-> k])
                 /\ Head(toPod).c = "list" => r \in SUBSET (1 .. Blobs)
<1> DEFINE m == Head(toPod)
<1>1. toPod # <<>> /\ toPod' = Tail(toPod) /\ UNCHANGED host
  BY DEF Pod, PodExecutes, PodRefuses, PodAsksAgain
<1>2. m \in Asks /\ m \in Range(toPod)
  <2>1. toPod \in Seq(Asks)
    BY DEF Types
  <2> QED BY <1>1, <2>1, RangeFacts
<1>3. CASE PodExecutes
  <2>1. Listed \in Replies /\ Max(stage.got \cup {0}) \in Nat /\ Listed \in SUBSET (1 .. Blobs)
    BY GotIs, RepliesAre DEF Listed
  <2>2. m.c \in Words /\ m.k \in Nat
    BY <1>2 DEF Asks
  <2>3. Obeys(m)
    BY <1>3 DEF PodExecutes
  <2>4. CASE m.c = "abort"
    BY <1>1, <1>2, <2>3, <2>4 DEF Obeys
  <2>5. CASE m.c # "abort"
    <3>1. \E r \in Replies, k \in Nat : Reply(m, r, k) /\ (m.c = "list" => r \in SUBSET (1 .. Blobs))
      <4>1. CASE m.c = "list"
        BY <2>1, <2>3, <4>1 DEF Obeys
      <4>2. CASE m.c = "sig"
        BY <2>3, <4>2, RepliesAre DEF Obeys
      <4>3. CASE m.c = "half"
        BY <2>3, <4>3, RepliesAre DEF Obeys
      <4>4. CASE m.c = "begin"
        BY <2>3, <4>4, RepliesAre DEF Obeys
      <4>5. CASE m.c = "chunk"
        BY <2>2, <2>3, <4>5, RepliesAre DEF Obeys
      <4>6. CASE m.c = "status"
        BY <2>1, <2>3, <4>6, RepliesAre DEF Obeys
      <4>7. CASE m.c = "end"
        BY <2>3, <4>7, RepliesAre DEF Obeys
      <4>8. CASE m.c = "commit"
        BY <2>3, <4>8, RepliesAre DEF Obeys
      <4> QED BY <2>2, <2>5, <4>1, <4>2, <4>3, <4>4, <4>5, <4>6, <4>7, <4>8 DEF Words
    <3>2. PICK r \in Replies, k \in Nat : Reply(m, r, k) /\ (m.c = "list" => r \in SUBSET (1 .. Blobs))
      BY <3>1
    <3>3. CASE broken
      BY <1>1, <1>2, <3>2, <3>3 DEF Reply
    <3>4. CASE ~broken
      <4>1. toHost' = Append(toHost, [c |-> m.c, r |-> r, k |-> k])
        BY <3>2, <3>4 DEF Reply
      <4> QED BY <1>1, <1>2, <3>2, <4>1
    <3> QED BY <3>3, <3>4
  <2> QED BY <2>4, <2>5
<1>4. CASE PodRefuses \/ PodAsksAgain
  <2>1. \E r \in {"error", "timeout", "retry", "busy"} : Reply(m, r, 0)
    BY <1>4 DEF PodRefuses, PodAsksAgain
  <2>2. PICK r \in {"error", "timeout", "retry", "busy"} : Reply(m, r, 0)
    BY <2>1
  <2>3. m.c # "list" /\ r \in Replies
    BY <1>4, RepliesAre DEF PodRefuses, PodAsksAgain
  <2>4. CASE broken
    BY <1>1, <1>2, <2>2, <2>4 DEF Reply
  <2>5. CASE ~broken
    <3>1. toHost' = Append(toHost, [c |-> m.c, r |-> r, k |-> 0])
      BY <2>2, <2>5 DEF Reply
    <3> QED BY <1>1, <1>2, <2>3, <3>1
  <2> QED BY <2>4, <2>5
<1> QED BY <1>3, <1>4 DEF Pod

Either == Asks \cup Tells

\* What is on the wire is in one of its two directions.
LEMMA WiredIs == Types =>
  /\ toPod \in Seq(Asks) /\ toHost \in Seq(Tells)
  /\ toPod \in Seq(Either) /\ toHost \in Seq(Either) /\ Wired \in Seq(Either)
  /\ \A c : Absent(Wired, c) <=> \A m \in Range(toPod) \cup Range(toHost) : m.c # c
  /\ \A c : Only(Wired, c) <=> \A m \in Range(toPod) \cup Range(toHost) : m.c = c
  /\ Wired = <<>> <=> toPod = <<>> /\ toHost = <<>>
  /\ Alone(Wired) => Len(toHost) + Len(toPod) <= 1
<1> SUFFICES ASSUME Types
             PROVE  /\ toPod \in Seq(Asks) /\ toHost \in Seq(Tells)
                    /\ toPod \in Seq(Either) /\ toHost \in Seq(Either) /\ Wired \in Seq(Either)
                    /\ \A c : Absent(Wired, c) <=> \A m \in Range(toPod) \cup Range(toHost) : m.c # c
                    /\ \A c : Only(Wired, c) <=> \A m \in Range(toPod) \cup Range(toHost) : m.c = c
                    /\ Wired = <<>> <=> toPod = <<>> /\ toHost = <<>>
                    /\ Alone(Wired) => Len(toHost) + Len(toPod) <= 1
  OBVIOUS
<1>1. toPod \in Seq(Asks) /\ toHost \in Seq(Tells)
  BY DEF Types
<1>2. toPod \in Seq(Either) /\ toHost \in Seq(Either)
  BY <1>1 DEF Either
<1>3. Wired \in Seq(Either)
  BY <1>2, CatFacts DEF Wired
<1> QED BY <1>1, <1>2, <1>3, CatRange DEF Wired

\* What neither side asks or answers keeps the order of what is on the wire.
LEMMA Thinned ==
  ASSUME Types, Pod \/ PodRestarts \/ Lose
  PROVE  /\ UNCHANGED host
         /\ Wired' \in Seq(Either) /\ toPod' \in Seq(Asks) /\ toHost' \in Seq(Tells)
         /\ Thins(Wired, Wired')
         /\ Range(toPod') \subseteq Range(toPod)
         /\ \A a \in Range(toHost') : a \in Range(toHost) \/ (Pod /\ a.c = Head(toPod).c)
         /\ \A a \in Range(toHost') : a.c = "list" => a.r \in SUBSET (1 .. Blobs)
<1> DEFINE Goal ==
         /\ toPod' \in Seq(Asks) /\ toHost' \in Seq(Tells)
         /\ Thins(Wired, Wired')
         /\ Range(toPod') \subseteq Range(toPod)
         /\ \A a \in Range(toHost') : a \in Range(toHost) \/ (Pod /\ a.c = Head(toPod).c)
         /\ \A a \in Range(toHost') : a.c = "list" => a.r \in SUBSET (1 .. Blobs)
<1>1. /\ toPod \in Seq(Asks) /\ toHost \in Seq(Tells) /\ toPod \in Seq(Either)
      /\ toHost \in Seq(Either) /\ Wired \in Seq(Either)
      /\ \A a \in Range(toHost) : a.c = "list" => a.r \in SUBSET (1 .. Blobs)
  BY WiredIs DEF Types
<1>2. /\ <<>> \in Seq(Either) /\ <<>> \in Seq(Tells) /\ <<>> \in Seq(Asks) /\ Range(<<>>) = {}
      /\ <<>> \o <<>> = <<>>
  BY DEF Range
<1>9. ASSUME toHost' \in Seq(Tells), toPod' \in Seq(Asks),
             Thins(toHost \o toPod, toHost' \o toPod'), Range(toPod') \subseteq Range(toPod),
             \A a \in Range(toHost') : \/ a \in Range(toHost)
                                      \/ /\ Pod /\ a.c = Head(toPod).c
                                         /\ a.c = "list" => a.r \in SUBSET (1 .. Blobs)
      PROVE  Goal
  <2>1. Thins(Wired, Wired')
    BY <1>9 DEF Wired
  <2> QED BY <1>1, <1>9, <2>1
<1> HIDE DEF Goal
<1>3. ASSUME Pod PROVE Goal
  <2>1. /\ toPod # <<>> /\ toPod' = Tail(toPod) /\ Head(toPod) \in Asks
        /\ \/ Head(toPod).c = "abort" /\ toHost' = toHost
           \/ broken /\ toHost' = <<>>
           \/ \E r \in Replies, k \in Nat :
                /\ toHost' = Append(toHost, [c |-> Head(toPod).c, r |-> r, k |-> k])
                /\ Head(toPod).c = "list" => r \in SUBSET (1 .. Blobs)
    BY <1>3, PodTakes
  <2>2. /\ Tail(toPod) \in Seq(Asks) /\ Tail(toPod) \in Seq(Either)
        /\ Range(Tail(toPod)) \subseteq Range(toPod) /\ Thins(toPod, Tail(toPod))
    BY <1>1, <2>1, ThinTail, RangeFacts
  <2>3. ASSUME toHost' = toHost PROVE Goal
    <3>1. Thins(toHost \o toPod, toHost \o Tail(toPod))
      BY <1>1, <2>2, ThinSame, ThinJoin
    <3>2. Thins(toHost \o toPod, toHost' \o toPod')
      BY <2>1, <2>3, <3>1
    <3>3. toHost' \in Seq(Tells) /\ toPod' \in Seq(Asks) /\ Range(toPod') \subseteq Range(toPod)
      BY <1>1, <2>1, <2>2, <2>3
    <3>4. Range(toHost') = Range(toHost)
      BY <2>3
    <3> QED BY <1>9, <3>2, <3>3, <3>4
  <2>4. ASSUME toHost' = <<>> PROVE Goal
    <3>1. Thins(toHost, <<>>)
      BY <1>1, ThinNone
    <3>2. Thins(toHost \o toPod, <<>> \o Tail(toPod))
      BY <1>1, <1>2, <2>2, <3>1, ThinJoin
    <3>3. Thins(toHost \o toPod, toHost' \o toPod')
      BY <2>1, <2>4, <3>2
    <3>4. toHost' \in Seq(Tells) /\ toPod' \in Seq(Asks) /\ Range(toPod') \subseteq Range(toPod)
      BY <1>2, <2>1, <2>2, <2>4
    <3>5. Range(toHost') = {}
      BY <1>2, <2>4
    <3> QED BY <1>9, <3>3, <3>4, <3>5
  <2>5. ASSUME NEW r \in Replies, NEW k \in Nat,
               toHost' = Append(toHost, [c |-> Head(toPod).c, r |-> r, k |-> k]),
               Head(toPod).c = "list" => r \in SUBSET (1 .. Blobs)
        PROVE  Goal
    <3> DEFINE a == [c |-> Head(toPod).c, r |-> r, k |-> k]
    <3>1. a \in Tells /\ a \in Either /\ a.c = Head(toPod).c /\ a.r = r
      BY <2>1 DEF Asks, Tells, Either
    <3> HIDE DEF a
    <3>2. toHost' = Append(toHost, a)
      BY <2>5 DEF a
    <3>3. Thins(toHost \o toPod, Append(toHost, a) \o Tail(toPod))
      BY <1>1, <2>1, <3>1, ThinMove
    <3>4. Append(toHost, a) \in Seq(Tells) /\ Range(Append(toHost, a)) = Range(toHost) \cup {a}
      BY <1>1, <3>1, RangeFacts
    <3>5. Thins(toHost \o toPod, toHost' \o toPod')
      BY <2>1, <3>2, <3>3
    <3>6. toHost' \in Seq(Tells) /\ toPod' \in Seq(Asks) /\ Range(toPod') \subseteq Range(toPod)
      BY <2>1, <2>2, <3>2, <3>4
    <3>7. Range(toHost') = Range(toHost) \cup {a}
      BY <3>2, <3>4
    <3> QED BY <1>3, <1>9, <2>5, <3>1, <3>5, <3>6, <3>7
  <2> QED BY <2>1, <2>3, <2>4, <2>5
<1>4. ASSUME PodRestarts PROVE Goal
  <2>1. toPod' = <<>> /\ toHost' = <<>>
    BY <1>4 DEF PodRestarts
  <2>2. Thins(toHost \o toPod, <<>> \o <<>>)
    BY <1>1, <1>2, ThinNone DEF Wired
  <2>3. Thins(toHost \o toPod, toHost' \o toPod')
    BY <2>1, <2>2
  <2>4. /\ toHost' \in Seq(Tells) /\ toPod' \in Seq(Asks) /\ Range(toPod') \subseteq Range(toPod)
        /\ Range(toHost') = {}
    BY <1>2, <2>1
  <2> QED BY <1>9, <2>3, <2>4
<1>5. ASSUME Lose PROVE Goal
  <2>1. ASSUME NEW j \in DOMAIN toPod, toPod' = RemoveAt(toPod, j), toHost' = toHost PROVE Goal
    <3>1. /\ RemoveAt(toPod, j) \in Seq(Asks) /\ RemoveAt(toPod, j) \in Seq(Either)
          /\ Thins(toPod, RemoveAt(toPod, j)) /\ Range(RemoveAt(toPod, j)) \subseteq Range(toPod)
      BY <1>1, ThinRemove, RangeFacts
    <3>2. Thins(toHost \o toPod, toHost \o RemoveAt(toPod, j))
      BY <1>1, <3>1, ThinSame, ThinJoin
    <3>3. Thins(toHost \o toPod, toHost' \o toPod')
      BY <2>1, <3>2
    <3>4. /\ toHost' \in Seq(Tells) /\ toPod' \in Seq(Asks) /\ Range(toPod') \subseteq Range(toPod)
          /\ Range(toHost') = Range(toHost)
      BY <1>1, <2>1, <3>1
    <3> QED BY <1>9, <3>3, <3>4
  <2>2. ASSUME NEW j \in DOMAIN toHost, toHost' = RemoveAt(toHost, j), toPod' = toPod PROVE Goal
    <3>1. /\ RemoveAt(toHost, j) \in Seq(Tells) /\ RemoveAt(toHost, j) \in Seq(Either)
          /\ Thins(toHost, RemoveAt(toHost, j)) /\ Range(RemoveAt(toHost, j)) \subseteq Range(toHost)
      BY <1>1, ThinRemove, RangeFacts
    <3>2. Thins(toHost \o toPod, RemoveAt(toHost, j) \o toPod)
      BY <1>1, <3>1, ThinSame, ThinJoin
    <3>3. Thins(toHost \o toPod, toHost' \o toPod')
      BY <2>2, <3>2
    <3>4. /\ toHost' \in Seq(Tells) /\ toPod' \in Seq(Asks) /\ Range(toPod') = Range(toPod)
          /\ Range(toHost') \subseteq Range(toHost)
      BY <1>1, <2>2, <3>1
    <3> QED BY <1>9, <3>3, <3>4
  <2> QED BY <1>5, <2>1, <2>2 DEF Lose
<1>6. Goal
  BY <1>3, <1>4, <1>5
<1>7. Wired' \in Seq(Either)
  <2>1. toPod' \in Seq(Either) /\ toHost' \in Seq(Either)
    BY <1>6 DEF Either, Goal
  <2> QED BY <2>1, CatFacts DEF Wired
<1>8. UNCHANGED host
  BY PodTakes DEF PodRestarts, Lose
<1> QED BY <1>6, <1>7, <1>8 DEF Goal

-----------------------------------------------------------------------------
(* Types.                                                                  *)

\* The types in four parts: the host, the pod, what happened, the wire.
HostTypes ==
  /\ {lan, flash, man, sent, sup, sigSent, broken, ctxDone} \subseteq BOOLEAN
  /\ at \in Phases \cup {"done"} /\ exit \in {""} \cup Reports
  /\ item \in Items /\ off \in 1..Chunks /\ try \in 1..Attempts
  /\ missing \subseteq 1..Blobs /\ installed \subseteq Items
PodTypes ==
  /\ sigAware \in BOOLEAN /\ sigs \in 0..2
  /\ slot \in [Items -> {"old", "new"}]
  /\ stage \in [item : Items, got : SUBSET (1..Chunks),
                state : {"idle", "receiving", "verified"}, sigs : 0..2]
PastTypes ==
  /\ {trouble, lostOther, unanswered, resent} \subseteq BOOLEAN
  /\ lost \in 0..MaxLost /\ late \in 0..MaxLate
WireTypes ==
  /\ toPod \in Seq(Asks) /\ toHost \in Seq(Tells)
  /\ \A m \in Range(toPod) : m.c = "chunk" => m.k \in 1..Chunks
  /\ \A a \in Range(toHost) : a.c = "list" => a.r \in SUBSET (1..Blobs)

\* The types, part by part.
LEMMA TypesAre == Types <=> HostTypes /\ PodTypes /\ PastTypes /\ WireTypes
BY DEF Types, HostTypes, PodTypes, PastTypes, WireTypes

\* The same of the state after a step.
LEMMA TypesAre2 == Types' <=> HostTypes' /\ PodTypes' /\ PastTypes' /\ WireTypes'
BY DEF Types, HostTypes, PodTypes, PastTypes, WireTypes

\* One more is within the bound.
LEMMA Counts == \A m \in Nat : \A x \in 0 .. m : x < m => x + 1 \in 0 .. m
OBVIOUS

\* One more is within the bound, counting from one.
LEMMA PlusOne == \A m \in Nat : \A x \in 1 .. m : x < m => x + 1 \in 1 .. m
OBVIOUS

\* The bounds are naturals.
LEMMA Bounds == Chunks \in Nat /\ Chunks > 0 /\ Attempts \in Nat /\ Attempts > 0 /\ Blobs \in Nat
                /\ MaxLost \in Nat /\ MaxLate \in Nat /\ 0 \in Items /\ 1 \in 1 .. Chunks
                /\ 1 \in 1 .. Attempts /\ 1 .. Blobs \subseteq Items /\ Items \subseteq Nat
BY PodUploadAssumption DEF Items

\* An idle staging area is of its type.
LEMMA IdleIs == Idle \in [item : Items, got : SUBSET (1..Chunks),
                          state : {"idle", "receiving", "verified"}, sigs : 0..2]
BY Bounds DEF Idle

\* The pod's part, and the counts.
LEMMA PodTypesStep == Types /\ [UploadNext]_uploadVars => PodTypes' /\ PastTypes'
<1> SUFFICES ASSUME Types, [UploadNext]_uploadVars PROVE PodTypes' /\ PastTypes'
  OBVIOUS
<1>0. PodTypes /\ PastTypes /\ WireTypes /\ HostTypes
  BY TypesAre
<1> USE DEF PodTypes, PastTypes
<1>1. CASE Send \/ PodIsBack \/ PodStaysAway \/ CtxEnds \/ UNCHANGED uploadVars
  BY <1>0, <1>1 DEF Send, PodIsBack, PodStaysAway, CtxEnds, pod, past, uploadVars, HostTypes
<1>2. CASE Receive
  BY <1>0, <1>2 DEF Receive, pod, past
<1>3. CASE TimeOut
  <2>1. late' \in 0 .. MaxLate
    <3>1. CASE sent /\ ~ctxDone /\ ~broken /\ (toPod # <<>>)
      <4>1. late' = late + 1 /\ late < MaxLate
        BY <1>3, <3>1 DEF TimeOut, CanTimeOut
      <4> QED BY <1>0, <4>1, Counts, Bounds
    <3>2. CASE ~(sent /\ ~ctxDone /\ ~broken /\ (toPod # <<>>))
      BY <1>0, <1>3, <3>2 DEF TimeOut
    <3> QED BY <3>1, <3>2
  <2>2. unanswered' \in BOOLEAN
    BY <1>0, <1>3 DEF TimeOut
  <2>3. UNCHANGED <<pod, lost, trouble, lostOther, resent>>
    BY <1>3 DEF TimeOut
  <2> QED BY <1>0, <2>1, <2>2, <2>3 DEF pod
<1>4. CASE PodExecutes
  <2> DEFINE m == Head(toPod)
  <2>1. m \in Asks /\ (m.c = "chunk" => m.k \in 1 .. Chunks)
    BY <1>0, <1>4, PodTakes DEF Pod, WireTypes
  <2>2. Obeys(m) /\ UNCHANGED <<sigAware, past>>
    BY <1>4 DEF PodExecutes
  <2>3. PastTypes'
    BY <1>0, <2>2 DEF past
  <2> USE DEF Obeys
  <2>4. CASE m.c \in {"list", "sig", "status"}
    BY <1>0, <2>2, <2>3, <2>4
  <2>5. CASE m.c = "half"
    <3>1. sigs' \in 0 .. 2
      <4>1. sigs' = CASE m.k = 0 -> 1 [] m.k = 1 -> Min({sigs + 1, 2}) [] OTHER -> 0
        BY <2>2, <2>5
      <4>2. sigs \in 0 .. 2 /\ Min({sigs + 1, 2}) \in 0 .. 2
        BY <1>0, HalvesIs
      <4>3. CASE m.k = 0
        BY <4>1, <4>3
      <4>4. CASE m.k = 1
        BY <4>1, <4>2, <4>4
      <4>5. CASE m.k # 0 /\ m.k # 1
        BY <4>1, <4>5
      <4> QED BY <4>3, <4>4, <4>5
    <3>2. UNCHANGED <<stage, slot>>
      BY <2>2, <2>5
    <3> QED BY <1>0, <2>2, <2>3, <3>1, <3>2
  <2>6. CASE m.c = "begin"
    <3>1. stage' = [item |-> m.i, got |-> {}, state |-> "receiving", sigs |-> sigs]
          /\ sigs' = 0 /\ slot' = slot
      BY <2>2, <2>6
    <3>2. m.i \in Items
      BY <2>1 DEF Asks
    <3> QED BY <1>0, <2>2, <2>3, <3>1, <3>2
  <2>7. CASE m.c = "chunk"
    BY <1>0, <2>1, <2>2, <2>3, <2>7
  <2>8. CASE m.c = "end"
    BY <1>0, <2>2, <2>3, <2>8
  <2>9. CASE m.c = "commit"
    <3>1. stage' = Idle /\ sigs' = sigs /\ slot' = [slot EXCEPT ![stage.item] = "new"]
      BY <2>2, <2>9
    <3> QED BY <1>0, <2>2, <2>3, <3>1, IdleIs
  <2>10. CASE m.c = "abort"
    BY <1>0, <2>2, <2>3, <2>10, IdleIs
  <2> QED BY <2>1, <2>4, <2>5, <2>6, <2>7, <2>8, <2>9, <2>10 DEF Asks, Words
<1>5. CASE PodRefuses
  BY <1>0, <1>5 DEF PodRefuses, pod
<1>6. CASE PodAsksAgain
  <2>1. lost' \in 0 .. MaxLost
    BY <1>0, <1>6, Counts, Bounds DEF PodAsksAgain
  <2>2. trouble' \in BOOLEAN /\ UNCHANGED <<pod, late, lostOther, unanswered, resent>>
    BY <1>0, <1>6 DEF PodAsksAgain
  <2> QED BY <1>0, <2>1, <2>2 DEF pod
<1>7. CASE PodRestarts
  BY <1>0, <1>7, IdleIs DEF PodRestarts
<1>8. CASE Lose
  <2>1. lost' \in 0 .. MaxLost
    BY <1>0, <1>8, Counts, Bounds DEF Lose
  <2>2. lostOther' \in BOOLEAN /\ UNCHANGED <<pod, late, trouble, unanswered, resent>>
    BY <1>0, <1>8 DEF Lose
  <2> QED BY <1>0, <2>1, <2>2 DEF pod
<1> QED BY <1>1, <1>2, <1>3, <1>4, <1>5, <1>6, <1>7, <1>8 DEF UploadNext, Host, Pod

\* The host's part.
LEMMA HostTypesStep == Types /\ [UploadNext]_uploadVars => HostTypes'
<1> SUFFICES ASSUME Types, [UploadNext]_uploadVars PROVE HostTypes'
  OBVIOUS
<1>0. HostTypes
  BY TypesAre
<1>1. CASE Send \/ PodIsBack \/ CtxEnds
  BY <1>0, <1>1 DEF HostTypes, Send, PodIsBack, CtxEnds, Goto, Keep, Phases
<1>2. CASE Pod \/ PodRestarts \/ Lose
  BY <1>0, <1>2, Thinned DEF HostTypes, host
<1>3. CASE UNCHANGED uploadVars
  BY <1>0, <1>3 DEF HostTypes, uploadVars, host
<1>4. CASE PodStaysAway
  BY <1>0, <1>4 DEF HostTypes, PodStaysAway, Fail, Reports
<1>5. CASE Receive \/ TimeOut
  <2>1. sent' = FALSE /\ at \in Phases \ {"wait"} /\ at' \in Phases \cup {"done"}
    <3>1. at \in Phases \ {"wait"} /\ at' \in Goes(at) /\ sent' = FALSE
      BY <1>5, HostGoes
    <3> QED BY <3>1 DEF Goes, Phases
  <2>2. {lan', flash', man', broken', ctxDone'} \subseteq BOOLEAN
    BY <1>0, <1>5 DEF HostTypes, Receive, TimeOut, Unreliable
  <2> DEFINE Rest == /\ sup' \in BOOLEAN /\ sigSent' \in BOOLEAN /\ exit' \in {""} \cup Reports
                     /\ item' \in Items /\ off' \in 1..Chunks /\ try' \in 1..Attempts
                     /\ missing' \subseteq 1..Blobs /\ installed' \subseteq Items
  <2>3. ASSUME Fail(TRUE) \/ Fail(FALSE) \/ Fail(lan) PROVE Rest
    BY <1>0, <2>3 DEF HostTypes, Fail, Reports
  <2>4. ASSUME Keep PROVE Rest
    BY <1>0, <2>4 DEF HostTypes, Keep
  <2>5. ASSUME ChunkDone \/ ChunkAgain PROVE Rest
    <3>1. CASE ChunkDone
      BY <1>0, <3>1, PlusOne, Bounds DEF HostTypes, ChunkDone, Goto
    <3>2. CASE ChunkAgain
      BY <1>0, <2>3, <3>2, PlusOne, Bounds DEF HostTypes, ChunkAgain, Goto
    <3> QED BY <2>5, <3>1, <3>2
  <2>6. ASSUME NEW left \in SUBSET (1 .. Blobs), NEW got \in SUBSET Items, NextBlob(left, got, sup)
        PROVE  Rest
    BY <1>0, <2>6, NextBlobIs, Bounds DEF HostTypes, Reports
  <2>7. ASSUME TimeOut PROVE Rest
    <3>1. CASE at = "probe"
      BY <1>0, <2>7, <3>1 DEF TimeOut, HostTypes
    <3>2. CASE at \in {"half0", "half1", "clear", "query"}
      BY <2>4, <2>7, <3>2 DEF TimeOut, HalfFailed
    <3>3. CASE at \in {"chunk", "status"}
      BY <2>3, <2>4, <2>5, <2>7, <3>3 DEF TimeOut
    <3>4. CASE at \in {"list", "begin", "end", "commit"}
      BY <2>3, <2>4, <2>7, <3>4 DEF TimeOut, LostCommit
    <3> QED BY <2>1, <3>1, <3>2, <3>3, <3>4 DEF Phases
  <2>8. ASSUME Receive PROVE Rest
    <3>1. PICK n \in DOMAIN toHost : Understand(toHost[n]) /\ toHost[n] \in Range(toHost)
                                     /\ toHost[n].c = Wire(at)
      BY <2>8, ReceiveIs
    <3> DEFINE a == toHost[n]
    <3>2. CASE at = "list"
      <4>1. a.r \in SUBSET (1 .. Blobs)
        BY <3>1, <3>2 DEF Types, Wire
      <4>2. NextBlob(a.r, installed, sup)
        BY <3>1, <3>2 DEF Understand
      <4> QED BY <1>0, <2>6, <4>1, <4>2 DEF HostTypes
    <3>3. CASE at = "commit" /\ GoodCommit(a.r) /\ item # 0
      <4>1. NextBlob(missing \ {item}, installed \cup {item}, sup)
        BY <3>1, <3>3 DEF Understand
      <4>2. missing \ {item} \in SUBSET (1 .. Blobs) /\ installed \cup {item} \in SUBSET Items
        BY <1>0 DEF HostTypes
      <4> QED BY <2>6, <4>1, <4>2
    <3>4. CASE at = "commit" /\ GoodCommit(a.r) /\ item = 0
      BY <1>0, <3>1, <3>4, Bounds DEF Understand, HostTypes
    <3>5. CASE at = "commit" /\ ~GoodCommit(a.r)
      BY <2>3, <2>4, <3>1, <3>5 DEF Understand
    <3>6. CASE at \in {"probe", "half0", "half1", "clear"}
      BY <1>0, <2>4, <3>1, <3>6 DEF Understand, HalfFailed, HostTypes
    <3>7. CASE at \in {"begin", "query", "end"}
      BY <2>3, <2>4, <3>1, <3>7 DEF Understand
    <3>8. CASE at \in {"chunk", "status"}
      BY <2>3, <2>5, <3>1, <3>8 DEF Understand
    <3> QED BY <2>1, <3>2, <3>3, <3>4, <3>5, <3>6, <3>7, <3>8 DEF Phases
  <2>9. Rest
    BY <1>5, <2>7, <2>8
  <2> QED BY <2>1, <2>2, <2>9 DEF HostTypes
<1> QED BY <1>1, <1>2, <1>3, <1>4, <1>5 DEF UploadNext, Host

LEMMA TypesStep == Types /\ Control /\ [UploadNext]_uploadVars => Types'
<1> SUFFICES ASSUME Types, Control, [UploadNext]_uploadVars PROVE Types'
  OBVIOUS
<1>0. WireTypes /\ HostTypes
  BY TypesAre
<1>1. ASSUME NEW m \in Asks, m.c = "chunk" => m.k \in 1 .. Chunks, toPod' = Append(toPod, m), toHost' = toHost
      PROVE  WireTypes'
  <2>1. Append(toPod, m) \in Seq(Asks) /\ Range(Append(toPod, m)) = Range(toPod) \cup {m}
    BY <1>0, RangeFacts DEF WireTypes
  <2> QED BY <1>0, <1>1, <2>1 DEF WireTypes
<1>2. [c |-> "abort", i |-> item, k |-> 0] \in Asks
  BY <1>0 DEF Asks, Words, HostTypes
<1>3. WireTypes'
  <2>1. CASE Send
    <3>1. PICK k \in Nat : /\ toPod' = Append(toPod, [c |-> Wire(at), i |-> item, k |-> k])
                           /\ at = "chunk" => k = off
      <4>1. off \in Nat
        <5>1. off \in 1 .. Chunks /\ Chunks \in Nat
          BY <1>0, Bounds DEF HostTypes
        <5> QED BY <5>1
      <4> QED BY <2>1, <4>1 DEF Send
    <3>2. /\ [c |-> Wire(at), i |-> item, k |-> k] \in Asks
          /\ Wire(at) = "chunk" => at = "chunk"
      BY <1>0, <2>1 DEF Asks, Words, Wire, HostTypes, Send, Phases
    <3>3. toHost' = toHost /\ off \in 1 .. Chunks
      BY <1>0, <2>1 DEF Send, HostTypes
    <3> QED BY <1>1, <3>1, <3>2, <3>3
  <2>2. CASE Receive
    <3>1. PICK n \in DOMAIN toHost : toHost' = SubSeq(toHost, n + 1, Len(toHost))
      BY <2>2, ReceiveIs
    <3>2. n \in 0 .. Len(toHost)
      BY <1>0 DEF WireTypes
    <3>3. toHost' \in Seq(Tells) /\ Range(toHost') \subseteq Range(toHost)
      BY <1>0, <3>1, <3>2, ThinCut, RangeFacts DEF WireTypes
    <3>4. CASE toPod' = toPod
      BY <1>0, <3>3, <3>4 DEF WireTypes
    <3>5. CASE toPod' = Append(toPod, [c |-> "abort", i |-> item, k |-> 0])
      <4>1. toPod' \in Seq(Asks) /\ Range(toPod') = Range(toPod) \cup {[c |-> "abort", i |-> item, k |-> 0]}
        BY <1>0, <1>2, <3>5, RangeFacts DEF WireTypes
      <4> QED BY <1>0, <3>3, <4>1 DEF WireTypes
    <3> QED BY <2>2, <3>4, <3>5, HostGoes
  <2>3. CASE TimeOut \/ PodStaysAway
    <3>1. toHost' = toHost
      BY <2>3 DEF TimeOut, PodStaysAway
    <3>2. toPod' = toPod \/ toPod' = Append(toPod, [c |-> "abort", i |-> item, k |-> 0])
      BY <2>3, HostGoes DEF PodStaysAway, Fail
    <3>3. CASE toPod' = toPod
      BY <1>0, <3>1, <3>3 DEF WireTypes
    <3>4. CASE toPod' = Append(toPod, [c |-> "abort", i |-> item, k |-> 0])
      BY <1>1, <1>2, <3>1, <3>4
    <3> QED BY <3>2, <3>3, <3>4
  <2>4. CASE PodIsBack
    <3>1. toPod' = <<>> /\ toHost' = <<>> /\ Range(<<>>) = {}
      BY <2>4 DEF PodIsBack, Range
    <3> QED BY <3>1 DEF WireTypes
  <2>5. CASE CtxEnds \/ UNCHANGED uploadVars
    BY <1>0, <2>5 DEF WireTypes, CtxEnds, uploadVars, wires
  <2>6. CASE Pod \/ PodRestarts \/ Lose
    <3>1. /\ toPod' \in Seq(Asks) /\ toHost' \in Seq(Tells) /\ Range(toPod') \subseteq Range(toPod)
          /\ \A a \in Range(toHost') : a.c = "list" => a.r \in SUBSET (1 .. Blobs)
      BY <2>6, Thinned
    <3> QED BY <1>0, <3>1 DEF WireTypes
  <2> QED BY <2>1, <2>2, <2>3, <2>4, <2>5, <2>6 DEF UploadNext, Host
<1> QED BY <1>3, PodTypesStep, HostTypesStep, TypesAre2

-----------------------------------------------------------------------------
(* Where the host can be.                                                  *)

\* Within a bound, what is not below it is it.
LEMMA LastOne == \A m \in Nat : \A x \in 1 .. m : ~(x < m) => x = m
OBVIOUS

\* What an error leaves of the host's state.
LEMMA FailIs == \A abort : Fail(abort) =>
  /\ at' = "done" /\ sent' = FALSE /\ exit' \in {"kept", "error", "away", "updated"}
  /\ item' = item /\ off' = off /\ try' = try /\ missing' = missing /\ installed' = installed
  /\ sup' = sup /\ sigSent' = sigSent
BY DEF Fail

\* A chunk is sent again, or the attempts are used up.
LEMMA AgainIs == ChunkAgain =>
  \/ /\ try < Attempts /\ try' = try + 1 /\ at' = "chunk" /\ sent' = FALSE
     /\ item' = item /\ off' = off /\ sup' = sup /\ sigSent' = sigSent /\ exit' = exit /\ toPod' = toPod
  \/ try = Attempts /\ Fail(TRUE)
BY DEF ChunkAgain, Goto

\* The next chunk, or the end.
LEMMA DoneIs == ChunkDone =>
  /\ try' = 1 /\ sent' = FALSE
  /\ item' = item /\ sup' = sup /\ sigSent' = sigSent /\ exit' = exit /\ toPod' = toPod
  /\ \/ off < Chunks /\ off' = off + 1 /\ at' = "chunk"
     \/ ~(off < Chunks) /\ off' = off /\ at' = "end"
BY DEF ChunkDone, Goto

\* The next blob.
LEMMA ControlNext ==
  ASSUME Types, Control, NEW left \in SUBSET (1 .. Blobs), NEW got \in SUBSET Items,
         NextBlob(left, got, sup), at # "done", UNCHANGED <<lan, flash, man, broken>>
  PROVE  Control'
<1>0. /\ lan \in BOOLEAN /\ flash \in BOOLEAN /\ man \in BOOLEAN /\ sup \in BOOLEAN
      /\ broken \in BOOLEAN
  BY DEF Types
<1>1. /\ sup' = sup /\ sent' = FALSE /\ off' = 1 /\ try' = 1 /\ sigSent' = FALSE
      /\ \/ at' = "done" /\ exit' = "ok"
         \/ left # {} /\ item' = Min(left) /\ exit' = exit /\ at' = FirstOf(got, sup)
  BY DEF NextBlob
<1>2. CASE at' = "done" /\ exit' = "ok"
  BY <1>0, <1>1, <1>2 DEF Control
<1>3. CASE left # {} /\ item' = Min(left) /\ exit' = exit /\ at' = FirstOf(got, sup)
  <2>1. /\ at' \in {"begin", "probe", "half0"}
        /\ at' # "begin" => ~lan /\ man
        /\ at' = "half0" => sup
    BY <1>3, FirstIs
  <2>2. Min(left) \in left
    <3>1. left \subseteq Nat
      BY PodUploadAssumption
    <3> QED BY <1>3, <3>1, MinIs
  <2>3. item' # 0 /\ exit' = ""
    <3>1. \A x \in 1 .. Blobs : x # 0
      OBVIOUS
    <3>2. item' \in 1 .. Blobs
      BY <1>3, <2>2
    <3> QED BY <1>3, <3>1, <3>2 DEF Control
  <2> QED BY <1>0, <1>1, <2>1, <2>3 DEF Control
<1> QED BY <1>1, <1>2, <1>3

LEMMA ControlStep == Types /\ Control /\ [UploadNext]_uploadVars => Control'
<1> SUFFICES ASSUME Types, Control, [UploadNext]_uploadVars PROVE Control'
  OBVIOUS
<1>0. /\ lan \in BOOLEAN /\ flash \in BOOLEAN /\ man \in BOOLEAN /\ sent \in BOOLEAN
      /\ sup \in BOOLEAN /\ sigSent \in BOOLEAN /\ broken \in BOOLEAN /\ ctxDone \in BOOLEAN
      /\ off \in 1..Chunks /\ Chunks \in Nat /\ installed \in SUBSET Items /\ item \in Items /\ at \in Phases \cup {"done"}
  BY Bounds DEF Types
<1>1. CASE Send \/ CtxEnds
  <2>1. UNCHANGED <<lan, flash, man, at, broken, item, off, try, sup, sigSent, exit>>
    BY <1>1 DEF Send, CtxEnds, Keep
  <2>2. sent' => (at # "wait" /\ at # "done") \/ sent
    BY <1>1 DEF Send, CtxEnds, Phases
  <2>3. ~(at = "done" /\ sent') /\ ~(at = "wait" /\ sent')
    BY <2>2 DEF Control
  <2> QED BY <2>1, <2>3 DEF Control
<1>2. CASE Pod \/ PodRestarts \/ Lose
  <2>1. UNCHANGED <<lan, flash, man, at, sent, broken, item, off, try, sup, sigSent, exit>>
    BY <1>2, Thinned DEF host
  <2> QED BY <2>1 DEF Control
<1>3. CASE UNCHANGED uploadVars
  BY <1>3 DEF Control, uploadVars, host
<1>4. CASE PodIsBack \/ PodStaysAway
  <2>1. CASE PodIsBack
    <3>1. /\ UNCHANGED <<lan, flash, man, item, off, try, sup, sigSent, exit>>
          /\ at = "wait" /\ at' = "list" /\ sent' = FALSE /\ broken' = FALSE
      BY <2>1 DEF PodIsBack, Goto, Keep
    <3> QED BY <1>0, <3>1 DEF Control
  <2>2. CASE PodStaysAway
    <3>1. UNCHANGED <<lan, flash, man, broken>> /\ at = "wait" /\ Fail(FALSE)
      BY <2>2 DEF PodStaysAway
    <3> QED BY <1>0, <3>1, FailIs DEF Control
  <2> QED BY <1>4, <2>1, <2>2
<1>5. CASE TimeOut
  <2>1. /\ UNCHANGED <<lan, flash, man>> /\ broken' = Unreliable /\ sent' = FALSE
        /\ at \in Phases \ {"wait"}
    BY <1>5, HostGoes DEF TimeOut
  <2> USE DEF Control, Unreliable
  <2>2. ASSUME Fail(TRUE) \/ Fail(FALSE) \/ Fail(lan) PROVE Control'
    BY <1>0, <2>1, <2>2, FailIs
  <2>3. ASSUME Keep, Goto("begin") \/ Goto("clear"), at \in {"half0", "half1", "clear"} PROVE Control'
    BY <1>0, <2>1, <2>3 DEF Goto, Keep
  <2>4. ASSUME Keep, Goto("chunk") \/ Goto("status"), at \in {"query", "chunk", "status"} PROVE Control'
    BY <1>0, <2>1, <2>4 DEF Goto, Keep
  <2>5. ASSUME ChunkAgain, at = "status" PROVE Control'
    <3>1. CASE Fail(TRUE)
      BY <2>2, <3>1
    <3>2. CASE ~Fail(TRUE)
      <4>1. /\ at' = "chunk" /\ sent' = FALSE
            /\ UNCHANGED <<item, off, sup, sigSent, exit>>
        BY <2>5, <3>2, AgainIs
      <4> QED BY <1>0, <2>1, <2>5, <4>1
    <3> QED BY <3>1, <3>2
  <2>6. CASE at = "probe"
    <3>1. sup' = FALSE /\ at' = "begin" /\ UNCHANGED <<item, off, try, sigSent, exit>>
      BY <1>5, <2>6 DEF TimeOut, Goto
    <3> QED BY <1>0, <2>1, <2>6, <3>1
  <2>7. CASE at \in {"half0", "half1"}
    BY <1>5, <2>3, <2>7 DEF TimeOut, HalfFailed
  <2>8. CASE at \in {"clear", "query"}
    BY <1>5, <2>3, <2>4, <2>8 DEF TimeOut
  <2>9. CASE at \in {"chunk", "status"}
    BY <1>5, <2>2, <2>4, <2>5, <2>9 DEF TimeOut
  <2>10. CASE at \in {"list", "begin", "end"}
    BY <1>5, <2>2, <2>10 DEF TimeOut
  <2>11. CASE at = "commit"
    <3>1. LostCommit
      BY <1>5, <2>11 DEF TimeOut
    <3> QED BY <1>0, <2>1, <2>2, <2>11, <3>1 DEF LostCommit, Goto, Keep
  <2> QED BY <2>1, <2>6, <2>7, <2>8, <2>9, <2>10, <2>11 DEF Phases
<1>6. CASE Receive
  <2>1. PICK n \in DOMAIN toHost :
          /\ Understand(toHost[n]) /\ toHost[n] \in Range(toHost) /\ toHost[n].c = Wire(at)
          /\ UNCHANGED <<lan, flash, man, broken>>
    BY <1>6, ReceiveIs
  <2> DEFINE a == toHost[n]
  <2>2. sent' = FALSE /\ at \in Phases \ {"wait"}
    BY <1>6, HostGoes
  <2> USE DEF Control
  <2>3. ASSUME Fail(TRUE) \/ Fail(FALSE) \/ Fail(lan) PROVE Control'
    BY <1>0, <2>1, <2>3, FailIs
  <2>4. ASSUME NEW left \in SUBSET (1 .. Blobs), NEW got \in SUBSET Items, NextBlob(left, got, sup)
        PROVE  Control'
    BY <2>1, <2>2, <2>4, ControlNext DEF Phases
  <2>5. ASSUME Keep, Goto("begin") \/ Goto("clear") \/ Goto("half1"), at \in {"half0", "half1", "clear"}
        PROVE  Control'
    BY <1>0, <2>1, <2>5 DEF Goto, Keep
  <2>6. ASSUME ChunkAgain, at \in {"chunk", "status"} PROVE Control'
    <3>1. CASE Fail(TRUE)
      BY <2>3, <3>1
    <3>2. CASE ~Fail(TRUE)
      <4>1. /\ at' = "chunk" /\ sent' = FALSE
            /\ UNCHANGED <<item, off, sup, sigSent, exit>>
        BY <2>6, <3>2, AgainIs
      <4> QED BY <1>0, <2>1, <2>6, <4>1
    <3> QED BY <3>1, <3>2
  <2>7. ASSUME ChunkDone, at \in {"chunk", "status"} PROVE Control'
    <3>1. CASE off < Chunks
      <4>1. /\ at' = "chunk" /\ sent' = FALSE
            /\ UNCHANGED <<item, sup, sigSent, exit>>
        BY <2>7, <3>1, DoneIs
      <4> QED BY <1>0, <2>1, <2>7, <4>1
    <3>2. CASE ~(off < Chunks)
      <4>1. off = Chunks
        BY <1>0, <3>2, LastOne
      <4>2. /\ at' = "end" /\ sent' = FALSE /\ off' = off
            /\ UNCHANGED <<item, sup, sigSent, exit>>
        BY <2>7, <3>2, DoneIs
      <4> QED BY <1>0, <2>1, <2>7, <4>1, <4>2
    <3> QED BY <3>1, <3>2
  <2>8. CASE at = "list"
    <3>1. a.r \in SUBSET (1 .. Blobs) /\ NextBlob(a.r, installed, sup)
      BY <2>1, <2>8 DEF Understand, Types, Wire
    <3> QED BY <1>0, <2>4, <3>1
  <2>9. CASE at = "probe"
    BY <1>0, <2>1, <2>9 DEF Understand, Goto
  <2>10. CASE at = "half0"
    BY <2>1, <2>5, <2>10 DEF Understand, HalfFailed
  <2>11. CASE at = "half1"
    <3>1. CASE HalfFailed
      BY <2>5, <2>11, <3>1 DEF HalfFailed
    <3>2. CASE ~HalfFailed
      <4>1. /\ sigSent' = TRUE /\ at' = "begin" /\ sent' = FALSE
            /\ UNCHANGED <<item, off, try, sup, exit>>
        BY <2>1, <2>11, <3>2 DEF Understand, Goto
      <4> QED BY <1>0, <2>1, <2>11, <4>1
    <3> QED BY <3>1, <3>2
  <2>12. CASE at = "clear"
    BY <2>1, <2>5, <2>12 DEF Understand
  <2>13. CASE at = "begin"
    <3>1. CASE a.r = "ok"
      <4>1. /\ at' = IF man /\ sup THEN "query" ELSE "chunk"
            /\ sent' = FALSE /\ UNCHANGED <<item, off, try, sup, sigSent, exit>>
        BY <2>1, <2>13, <3>1 DEF Understand, Goto, Keep
      <4> QED BY <1>0, <2>1, <2>13, <4>1
    <3>2. CASE a.r # "ok"
      BY <2>1, <2>3, <2>13, <3>2 DEF Understand
    <3> QED BY <3>1, <3>2
  <2>14. CASE at = "query"
    <3>1. /\ at' = "chunk" /\ sent' = FALSE /\ UNCHANGED <<item, off, try, sup, sigSent, exit>>
      BY <2>1, <2>14 DEF Understand, Goto, Keep
    <3> QED BY <1>0, <2>1, <2>14, <3>1
  <2>15. CASE at \in {"chunk", "status"}
    BY <2>1, <2>3, <2>6, <2>7, <2>15 DEF Understand
  <2>16. CASE at = "end"
    <3>1. CASE a.r = "ok"
      <4>1. /\ at' = "commit" /\ sent' = FALSE /\ UNCHANGED <<item, off, try, sup, sigSent, exit>>
        BY <2>1, <2>16, <3>1 DEF Understand, Goto, Keep
      <4> QED BY <1>0, <2>1, <2>16, <4>1
    <3>2. CASE a.r # "ok"
      BY <2>1, <2>3, <2>16, <3>2 DEF Understand
    <3> QED BY <3>1, <3>2
  <2>17. CASE at = "commit"
    <3>1. CASE GoodCommit(a.r) /\ item # 0
      <4>1. missing \ {item} \in SUBSET (1 .. Blobs)
        BY DEF Types
      <4>2. installed \cup {item} \in SUBSET Items
        BY <1>0
      <4> QED BY <1>0, <2>1, <2>4, <2>17, <3>1, <4>1, <4>2 DEF Understand
    <3>2. CASE ~(GoodCommit(a.r) /\ item # 0)
      <4>1. \/ Fail(FALSE)
            \/ /\ at' = "wait" /\ sent' = FALSE /\ UNCHANGED <<item, off, try, sup, sigSent, exit>>
        BY <2>1, <2>17, <3>2 DEF Understand, Goto, Keep
      <4>2. CASE ~Fail(FALSE)
        <5>1. at' = "wait" /\ sent' = FALSE /\ UNCHANGED <<item, off, try, sup, sigSent, exit>>
          BY <4>1, <4>2
        <5> QED BY <1>0, <2>1, <2>17, <5>1
      <4> QED BY <2>3, <4>2
    <3> QED BY <3>1, <3>2
  <2> QED BY <2>2, <2>8, <2>9, <2>10, <2>11, <2>12, <2>13, <2>14, <2>15, <2>16, <2>17 DEF Phases
<1> QED BY <1>1, <1>2, <1>3, <1>4, <1>5, <1>6 DEF UploadNext, Host

-----------------------------------------------------------------------------
(* The shapes of the host's steps, on the wire.                            *)

\* A request is sent.
LEMMA SendIs ==
  ASSUME Types, Send
  PROVE  /\ at \in Phases \ {"wait"} /\ ~sent /\ ~broken /\ ~(lan /\ ctxDone)
         /\ resent' = (resent \/ (at = "chunk" /\ stage.item = item /\ off \in stage.got))
         /\ sent' = TRUE
         /\ \E m \in Asks :
              /\ m.c = Wire(at) /\ m.i = item
              /\ at = "chunk" => m.k = off
              /\ at \in {"half0", "half1", "clear"} =>
                   m.k = CASE at = "half0" -> 0 [] at = "half1" -> 1 [] OTHER -> 2
              /\ toPod' = Append(toPod, m) /\ toHost' = toHost
              /\ Range(toPod') = Range(toPod) \cup {m}
              /\ Absent(Wired, m.c) => Single(Wired', m.c)
              /\ \A c : c # m.c /\ Absent(Wired, c) => Absent(Wired', c)
              /\ \A c : c # m.c /\ Single(Wired, c) => Single(Wired', c)
              /\ \A c : c # m.c /\ Absent(Wired, m.c) => Ordered(Wired', c, m.c)
              /\ Wired = <<>> => Alone(Wired') /\ Only(Wired', m.c)
              /\ Wired' # <<>>
<1>1. /\ at \in Phases \ {"wait"} /\ ~sent /\ ~broken /\ ~(lan /\ ctxDone)
      /\ sent' = TRUE
      /\ resent' = (resent \/ (at = "chunk" /\ stage.item = item /\ off \in stage.got))
  BY DEF Send
<1>2. \E k \in Nat : /\ toPod' = Append(toPod, [c |-> Wire(at), i |-> item, k |-> k])
                     /\ at = "chunk" => k = off
                     /\ at \in {"half0", "half1", "clear"} =>
                          k = CASE at = "half0" -> 0 [] at = "half1" -> 1 [] OTHER -> 2
  <2>1. off \in Nat
    <3>1. off \in 1 .. Chunks /\ Chunks \in Nat
      BY Bounds DEF Types
    <3> QED BY <3>1
  <2> QED BY <2>1 DEF Send
<1>3. PICK k \in Nat : /\ toPod' = Append(toPod, [c |-> Wire(at), i |-> item, k |-> k])
                       /\ at = "chunk" => k = off
                       /\ at \in {"half0", "half1", "clear"} =>
                            k = CASE at = "half0" -> 0 [] at = "half1" -> 1 [] OTHER -> 2
  BY <1>2
<1> DEFINE m == [c |-> Wire(at), i |-> item, k |-> k]
<1>4. m \in Asks /\ m.c = Wire(at) /\ m.i = item /\ m.k = k
  BY <1>1 DEF Types, Asks, Words, Wire, Phases
<1> HIDE DEF m
<1>5. toHost' = toHost /\ toPod' = Append(toPod, m)
  BY <1>3 DEF Send, m
<1>6. toPod \in Seq(Asks) /\ toPod \in Seq(Either) /\ toHost \in Seq(Either) /\ m \in Either
  BY <1>4, WiredIs DEF Either
<1>7. /\ Range(toPod') = Range(toPod) \cup {m} /\ toPod' \in Seq(Either) /\ toPod' # <<>>
  <2>1. Append(toPod, m) # <<>> /\ Append(toPod, m) \in Seq(Either)
    BY <1>6
  <2> QED BY <1>4, <1>5, <1>6, <2>1, RangeFacts
<1>8. /\ \A c : Absent(Wired, c) => Single(toHost \o Append(toPod, m), c)
      /\ \A c : c # m.c /\ Absent(Wired, c) => Absent(toHost \o Append(toPod, m), c)
      /\ \A c : c # m.c /\ Single(Wired, c) => Single(toHost \o Append(toPod, m), c)
      /\ \A c : c # m.c /\ Absent(Wired, m.c) => Ordered(toHost \o Append(toPod, m), c, m.c)
      /\ Wired = <<>> => /\ Alone(toHost \o Append(toPod, m))
                         /\ Only(toHost \o Append(toPod, m), m.c)
  BY <1>6, AddFacts DEF Wired
<1>9. Wired' = toHost \o Append(toPod, m)
  BY <1>5 DEF Wired
<1>10. Wired' # <<>>
  BY <1>5, <1>6, <1>7, <1>9, CatRange
<1> HIDE DEF Wired, Absent, Single, Ordered, Alone, Only
<1>11. /\ Absent(Wired, m.c) => Single(Wired', m.c)
       /\ \A c : c # m.c /\ Absent(Wired, c) => Absent(Wired', c)
       /\ \A c : c # m.c /\ Single(Wired, c) => Single(Wired', c)
       /\ \A c : c # m.c /\ Absent(Wired, m.c) => Ordered(Wired', c, m.c)
       /\ Wired = <<>> => Alone(Wired') /\ Only(Wired', m.c)
  BY <1>8, <1>9
<1> QED BY <1>1, <1>3, <1>4, <1>5, <1>7, <1>10, <1>11

\* An answer is received.
LEMMA CutIs ==
  ASSUME Types, Receive
  PROVE  \E n \in DOMAIN toHost :
           /\ toHost[n] \in Range(toHost) /\ toHost[n].c = Wire(at) /\ Understand(toHost[n])
           /\ sent /\ UNCHANGED <<broken, lan, flash, man, ctxDone, pod, past>>
           /\ Range(toHost') \subseteq Range(toHost)
           /\ Wired # <<>>
           /\ Alone(Wired) => toHost' = <<>> /\ toPod = <<>>
           /\ toPod' = toPod =>
                /\ Thins(Wired, Wired')
                /\ Single(Wired, Wire(at)) => Absent(Wired', Wire(at))
                /\ \A c : Ordered(Wired, c, Wire(at)) => Absent(Wired', c)
                /\ Alone(Wired) => Wired' = <<>>
<1>1. PICK n \in DOMAIN toHost :
           /\ toHost[n].c = Wire(at) /\ toHost[n] \in Range(toHost)
           /\ Understand(toHost[n])
           /\ toHost' = SubSeq(toHost, n + 1, Len(toHost))
           /\ sent /\ UNCHANGED <<broken, lan, flash, man, ctxDone, pod, past>>
  BY ReceiveIs
<1>2. toPod \in Seq(Either) /\ toHost \in Seq(Either) /\ Wired = toHost \o toPod
  BY WiredIs DEF Wired
<1> DEFINE t == SubSeq(toHost, n + 1, Len(toHost))
           v == t \o toPod
<1>3. n \in 0 .. Len(toHost) /\ n \in DOMAIN toHost
  BY <1>2
<1>4. t \in Seq(Either) /\ Range(t) \subseteq Range(toHost)
  BY <1>2, <1>3, RangeFacts, ThinCut
<1>5. /\ Thins(Wired, v)
      /\ Single(Wired, toHost[n].c) => Absent(v, toHost[n].c)
      /\ \A c : Ordered(Wired, c, toHost[n].c) => Absent(v, c)
      /\ Alone(Wired) => v = <<>>
  BY <1>2, <1>3, CutFacts
<1>6. Alone(Wired) => t = <<>> /\ toPod = <<>>
  <2>1. v = <<>> => t = <<>> /\ toPod = <<>>
    BY <1>2, <1>4, CatRange
  <2> QED BY <1>5, <2>1
<1>7. Wired # <<>>
  <2>1. toHost # <<>>
    BY <1>2, <1>3
  <2> QED BY <1>2, <2>1, CatRange
<1>8. toPod' = toPod => Wired' = v
  BY <1>1 DEF Wired
<1> HIDE DEF v, t, Wired, Absent, Single, Ordered, Alone, Thins
<1>9. toHost' = t
  BY <1>1 DEF t
<1>10. toPod' = toPod =>
         /\ Thins(Wired, Wired')
         /\ Single(Wired, Wire(at)) => Absent(Wired', Wire(at))
         /\ \A c : Ordered(Wired, c, Wire(at)) => Absent(Wired', c)
         /\ Alone(Wired) => Wired' = <<>>
  BY <1>1, <1>5, <1>8
<1> QED BY <1>1, <1>4, <1>6, <1>7, <1>9, <1>10

\* Where the host goes without an answer.
Late(p) ==
  CASE p = "probe"  -> {"begin"}
    [] p = "half0"  -> {"clear"}
    [] p = "half1"  -> {"clear"}
    [] p = "clear"  -> {"begin"}
    [] p = "query"  -> {"chunk"}
    [] p = "chunk"  -> {"status"}
    [] p = "status" -> {"chunk"}
    [] p = "commit" -> {"wait"}
    [] OTHER        -> {}

\* An answer does not come in time.
LEMMA LateIs ==
  ASSUME Types, TimeOut
  PROVE  /\ at \in Phases \ {"wait"} /\ sent' = FALSE
         /\ toHost' = toHost
         /\ UNCHANGED <<lan, flash, man, ctxDone, pod, lost, trouble, lostOther, resent>>
         /\ broken' = (broken \/ lan)
         /\ unanswered' = (unanswered \/ at = "status")
         /\ item' = item /\ off' = off /\ missing' = missing /\ installed' = installed /\ sigSent' = sigSent
         /\ at \notin {"status"} => try' = try
         /\ \/ /\ at' \in Late(at) /\ toPod' = toPod /\ exit' = exit
            \/ Fail(TRUE) \/ Fail(FALSE) \/ Fail(lan)
<1>1. /\ at \in Phases \ {"wait"} /\ toHost' = toHost /\ sent' = FALSE
      /\ UNCHANGED <<lan, flash, man, ctxDone, pod, lost, trouble, lostOther, resent>>
      /\ broken' = (broken \/ lan)
      /\ unanswered' = (unanswered \/ at = "status")
  BY HostGoes DEF TimeOut, Unreliable
<1> DEFINE Rest ==
         /\ item' = item /\ off' = off /\ missing' = missing /\ installed' = installed /\ sigSent' = sigSent
         /\ at \notin {"status"} => try' = try
         /\ \/ /\ at' \in Late(at) /\ toPod' = toPod /\ exit' = exit
            \/ Fail(TRUE) \/ Fail(FALSE) \/ Fail(lan)
<1>2. ASSUME Fail(TRUE) \/ Fail(FALSE) \/ Fail(lan) PROVE Rest
  BY <1>2, FailIs
<1>3. ASSUME at = "probe" PROVE Rest
  BY <1>3 DEF TimeOut, Goto, Late
<1>4. ASSUME at \in {"half0", "half1", "clear", "query"} PROVE Rest
  BY <1>4 DEF TimeOut, Goto, Late, HalfFailed, Keep
<1>5. ASSUME at = "chunk" PROVE Rest
  <2>1. CASE lan \/ ctxDone
    BY <1>2, <1>5, <2>1 DEF TimeOut
  <2>2. CASE ~(lan \/ ctxDone)
    BY <1>5, <2>2 DEF TimeOut, Goto, Late, Keep
  <2> QED BY <2>1, <2>2
<1>6. ASSUME at = "status" PROVE Rest
  <2>1. ChunkAgain
    BY <1>6 DEF TimeOut
  <2> QED BY <1>2, <1>6, <2>1 DEF ChunkAgain, Goto, Late
<1>7. ASSUME at = "commit" PROVE Rest
  <2>1. LostCommit
    BY <1>7 DEF TimeOut
  <2> QED BY <1>2, <1>7, <2>1 DEF LostCommit, Goto, Late, Keep
<1>8. ASSUME at \in {"list", "begin", "end"} PROVE Rest
  <2>1. Fail(lan) \/ Fail(FALSE)
    BY <1>8 DEF TimeOut
  <2> QED BY <1>2, <2>1
<1>9. Rest
  BY <1>1, <1>3, <1>4, <1>5, <1>6, <1>7, <1>8 DEF Phases
<1> QED BY <1>1, <1>9

-----------------------------------------------------------------------------
(* Each upload is begun and committed once.                                *)

\* An answer "ok" is on its way; a request is.
Ok(c)    == \E a \in Range(toHost) : a.c = c /\ a.r = "ok"
Asked(c) == \E m \in Range(toPod) : m.c = c

\* begin, commit and abort are sent once: while the host is elsewhere none is on the wire.
Once ==
  /\ at \notin {"begin", "done"} \/ (at = "begin" /\ ~sent) => Absent(Wired, "begin")
  /\ at = "begin" => Single(Wired, "begin")
  /\ at \notin {"commit", "wait", "done"} \/ (at = "commit" /\ ~sent) => Absent(Wired, "commit")
  /\ at = "commit" => Single(Wired, "commit")
  /\ at # "done" => Absent(Wired, "abort")
  /\ at = "begin" => \A m \in Range(toPod) : m.c = "begin" => m.i = item

\* What is not on the wire is there once, and in order.
LEMMA AbsentIs ==
  /\ \A w, c : Absent(w, c) => Single(w, c)
  /\ \A w, c, d : Absent(w, d) => Ordered(w, c, d)
  /\ \A c : Absent(<<>>, c)
  /\ Alone(<<>>) /\ \A c : Only(<<>>, c)
BY DEF Absent, Single, Ordered, Alone, Only

\* The predicates of the wire through a step that adds nothing to it.
LEMMA Kept ==
  ASSUME Types, Types', Thins(Wired, Wired')
  PROVE  /\ \A c : Absent(Wired, c) => Absent(Wired', c)
         /\ \A c : Single(Wired, c) => Single(Wired', c)
         /\ \A c, d : Ordered(Wired, c, d) => Ordered(Wired', c, d)
         /\ Alone(Wired) => Alone(Wired')
         /\ \A c : Only(Wired, c) => Only(Wired', c)
         /\ Wired = <<>> => Wired' = <<>>
<1>1. Wired \in Seq(Either)
  BY WiredIs
<1>2. Wired' \in Seq(Either)
  <2>1. toPod' \in Seq(Asks) /\ toHost' \in Seq(Tells)
    BY DEF Types
  <2>2. toPod' \in Seq(Either) /\ toHost' \in Seq(Either)
    BY <2>1 DEF Either
  <2>3. toHost' \o toPod' \in Seq(Either)
    BY <2>2, CatFacts
  <2> QED BY <2>3 DEF Wired
<1> QED BY <1>1, <1>2, ThinKeeps

\* The same of the state after a step.
LEMMA WiredIs2 == Types' =>
  /\ \A c : Absent(Wired', c) <=> \A m \in Range(toPod') \cup Range(toHost') : m.c # c
  /\ \A c : Only(Wired', c) <=> \A m \in Range(toPod') \cup Range(toHost') : m.c = c
  /\ Wired' = <<>> <=> toPod' = <<>> /\ toHost' = <<>>
<1> SUFFICES ASSUME Types'
             PROVE  /\ \A c : Absent(Wired', c) <=> \A m \in Range(toPod') \cup Range(toHost') : m.c # c
                    /\ \A c : Only(Wired', c) <=> \A m \in Range(toPod') \cup Range(toHost') : m.c = c
                    /\ Wired' = <<>> <=> toPod' = <<>> /\ toHost' = <<>>
  OBVIOUS
<1>1. toPod' \in Seq(Asks) /\ toHost' \in Seq(Tells)
  BY DEF Types
<1>2. toPod' \in Seq(Either) /\ toHost' \in Seq(Either)
  BY <1>1 DEF Either
<1> QED BY <1>2, CatRange DEF Wired

\* The wire is its two directions.
LEMMA WiredSame == UNCHANGED <<toPod, toHost>> => Wired' = Wired
BY DEF Wired

\* The wires are new when the pod is back.
LEMMA BackIs ==
  ASSUME Types, PodIsBack
  PROVE  /\ Wired' = <<>> /\ Range(toPod') = {} /\ Range(toHost') = {}
         /\ at = "wait" /\ at' = "list" /\ sent' = FALSE
         /\ UNCHANGED <<item, off, try, installed, sigSent, exit, lan, flash, man, ctxDone, pod, past>>
<1>1. toPod' = <<>> /\ toHost' = <<>> /\ Range(<<>>) = {} /\ <<>> \o <<>> = <<>>
  BY DEF PodIsBack, Range
<1>2. Wired' = <<>>
  BY <1>1 DEF Wired
<1>3. Range(toPod') = {} /\ Range(toHost') = {}
  BY <1>1
<1> QED BY <1>2, <1>3 DEF PodIsBack, Goto, Keep

LEMMA OnceStep == Types /\ Types' /\ Once /\ [UploadNext]_uploadVars => Once'
<1> SUFFICES ASSUME Types, Types', Once, [UploadNext]_uploadVars PROVE Once'
  OBVIOUS
<1> HIDE DEF Wired
<1>0. sent \in BOOLEAN /\ at \in Phases \cup {"done"}
  BY DEF Types
<1>1. ASSUME UNCHANGED <<at, sent, item>>, Thins(Wired, Wired'), Range(toPod') \subseteq Range(toPod)
      PROVE  Once'
  BY <1>0, <1>1, Kept DEF Once
<1>2. ASSUME Wired' = <<>>, Range(toPod') = {} PROVE Once'
  BY <1>2, AbsentIs DEF Once
<1>3. ASSUME at' = "done" PROVE Once'
  BY <1>3 DEF Once
<1>4. CASE Send
  <2>1. at \in Phases \ {"wait"} /\ ~sent /\ sent' = TRUE /\ at' = at /\ item' = item
    BY <1>4, SendIs DEF Send, Keep
  <2>2. PICK m \in Asks :
              /\ m.c = Wire(at) /\ m.i = item
              /\ Range(toPod') = Range(toPod) \cup {m}
              /\ Absent(Wired, m.c) => Single(Wired', m.c)
              /\ \A c : c # m.c /\ Absent(Wired, c) => Absent(Wired', c)
    BY <1>4, SendIs
  <2>3. /\ at = "begin" => m.c = "begin"
        /\ at = "commit" => m.c = "commit"
        /\ at \notin {"begin", "done"} => m.c # "begin"
        /\ at \notin {"commit", "done"} => m.c # "commit"
        /\ m.c # "abort"
    BY <2>1, <2>2 DEF Wire, Phases
  <2>4. \A c : Absent(Wired, c) => Single(Wired', c)
    BY <2>2, AbsentIs
  <2> QED BY <2>1, <2>2, <2>3, <2>4 DEF Once, Phases
<1>5. CASE Receive
  <2>1. CASE at' = "done"
    BY <1>3, <2>1
  <2>2. CASE at' # "done"
    <3>1. at \in Phases \ {"wait"} /\ at' \in Goes(at) /\ sent' = FALSE /\ toPod' = toPod
      BY <1>5, <2>2, HostGoes
    <3>2. /\ Thins(Wired, Wired')
          /\ Single(Wired, Wire(at)) => Absent(Wired', Wire(at))
      BY <1>5, <3>1, CutIs
    <3>3. \A c : Absent(Wired, c) => Absent(Wired', c)
      BY <3>2, Kept
    <3>4. at = "begin" => Absent(Wired', "begin")
      BY <3>2 DEF Once, Wire
    <3>5. at = "commit" => Absent(Wired', "commit")
      BY <3>2 DEF Once, Wire
    <3>6. Absent(Wired', "begin") /\ Absent(Wired', "abort")
      BY <3>1, <3>3, <3>4 DEF Once, Phases
    <3>7. Absent(Wired', "commit")
      BY <3>1, <3>3, <3>5 DEF Once, Phases
    <3>8. at' = "begin" => \A m \in Range(toPod') : m.c # "begin"
      <4>1. Absent(Wired, "begin") => \A m \in Range(toPod) : m.c # "begin"
        BY WiredIs
      <4>2. at' = "begin" => Absent(Wired, "begin")
        BY <3>1 DEF Goes, Phases, Once
      <4> QED BY <3>1, <4>1, <4>2
    <3> QED BY <3>6, <3>7, <3>8, AbsentIs DEF Once
  <2> QED BY <2>1, <2>2
<1>6. CASE TimeOut
  <2>1. CASE at' = "done"
    BY <1>3, <2>1
  <2>2. CASE at' # "done"
    <3>1. at' \in Late(at) /\ toPod' = toPod /\ toHost' = toHost /\ at \in Phases \ {"wait"}
      BY <1>6, <2>2, LateIs, FailIs
    <3>2. Wired' = Wired
      BY <3>1, WiredSame
    <3>3. at \notin {"begin", "done"} /\ at' # "commit"
      BY <3>1 DEF Late, Phases
    <3>4. at' # "wait" => at \notin {"commit", "wait", "done"}
      BY <3>1 DEF Late, Phases
    <3>5. Absent(Wired', "begin") /\ Absent(Wired', "abort") /\ (at' # "wait" => Absent(Wired', "commit"))
      BY <3>2, <3>3, <3>4 DEF Once
    <3>6. \A m \in Range(toPod') : m.c # "begin"
      <4>1. Absent(Wired, "begin") => \A m \in Range(toPod) : m.c # "begin"
        BY WiredIs
      <4> QED BY <3>1, <3>2, <3>5, <4>1
    <3> QED BY <2>2, <3>3, <3>5, <3>6, AbsentIs DEF Once
  <2> QED BY <2>1, <2>2
<1>7. CASE PodIsBack
  BY <1>2, <1>7, BackIs
<1>8. CASE PodStaysAway
  BY <1>3, <1>8, FailIs DEF PodStaysAway
<1>9. CASE CtxEnds \/ UNCHANGED uploadVars
  <2>1. UNCHANGED <<at, sent, item, toPod, toHost>>
    BY <1>9 DEF CtxEnds, uploadVars, host, wires
  <2>2. Wired' = Wired /\ Range(toPod') = Range(toPod)
    BY <2>1, WiredSame
  <2> QED BY <2>1, <2>2 DEF Once
<1>10. CASE Pod \/ PodRestarts \/ Lose
  <2>1. UNCHANGED host /\ Thins(Wired, Wired') /\ Range(toPod') \subseteq Range(toPod)
    BY <1>10, Thinned
  <2>2. UNCHANGED <<at, sent, item>>
    BY <2>1 DEF host
  <2> QED BY <1>1, <2>1, <2>2
<1> QED BY <1>4, <1>5, <1>6, <1>7, <1>8, <1>9, <1>10 DEF UploadNext, Host

-----------------------------------------------------------------------------
(* What the pod does with a request, and what it answers.                  *)

\* What the pod does with the request m when it answers a: as asked, not, or not yet.
Obeyed(m, a) ==
  /\ UNCHANGED past
  /\ \/ m.c \in {"list", "sig"} /\ UNCHANGED <<stage, sigs, slot>>
     \/ /\ m.c = "half" /\ a.r = "ok" /\ UNCHANGED <<stage, slot>>
        /\ m.k = 0 => sigs' = 1
        /\ m.k = 1 => sigs' = Min({sigs + 1, 2})
        /\ m.k = 2 => sigs' = 0
     \/ /\ m.c = "begin" /\ a.r = "ok" /\ UNCHANGED slot /\ sigs' = 0
        /\ stage' = [item |-> m.i, got |-> {}, state |-> "receiving", sigs |-> sigs]
     \/ /\ m.c = "chunk" /\ a.r = "ok" /\ UNCHANGED <<sigs, slot>> /\ stage.state = "receiving"
        /\ stage' = [stage EXCEPT !.got = @ \cup {m.k}]
     \/ /\ m.c = "status" /\ UNCHANGED <<stage, sigs, slot>>
        /\ a.r = "received" /\ a.k = Max(stage.got \cup {0})
     \/ /\ m.c = "end" /\ a.r = "ok" /\ UNCHANGED <<sigs, slot>> /\ stage.got = 1 .. Chunks
        /\ stage' = [stage EXCEPT !.state = "verified"]
     \/ /\ m.c = "commit" /\ a.r = "ok" /\ UNCHANGED sigs /\ stage.state = "verified"
        /\ stage' = Idle /\ slot' = [slot EXCEPT ![stage.item] = "new"]
     \/ m.c = "abort" /\ stage' = Idle /\ UNCHANGED <<sigs, slot>>

Refused(m, a) ==
  /\ UNCHANGED pod /\ trouble' = TRUE /\ UNCHANGED <<lost, late, lostOther, unanswered, resent>>
  /\ m.c \in {"half", "begin", "chunk", "end", "commit"}
  /\ a.r = "error" \/ (a.r = "timeout" /\ lan /\ m.c = "commit" /\ item = 0)

AskedAgain(m, a) ==
  /\ UNCHANGED pod /\ UNCHANGED <<late, lostOther, unanswered, resent>>
  /\ m.c = "chunk" /\ ~lan
  /\ \/ a.r = "retry" /\ lost' = lost + 1 /\ UNCHANGED trouble
     \/ a.r = "busy" /\ UNCHANGED lost /\ trouble' = TRUE

\* The answer the pod gives, and where it goes.
LEMMA ReplyIs ==
  ASSUME Types, NEW m \in Asks, NEW r \in Replies, NEW n \in Nat, Reply(m, r, n)
  PROVE  \E a \in Tells : /\ a.c = m.c /\ a.r = r /\ a.k = n
                          /\ Range(toHost') \subseteq Range(toHost) \cup {a}
                          /\ ~broken => a \in Range(toHost')
<1> DEFINE a == [c |-> m.c, r |-> r, k |-> n]
<1>1. a \in Tells /\ a.c = m.c /\ a.r = r /\ a.k = n
  BY DEF Tells, Asks
<1>2. toHost \in Seq(Tells) /\ Range(<<>>) = {}
  BY WiredIs DEF Range
<1>3. Range(Append(toHost, a)) = Range(toHost) \cup {a}
  BY <1>1, <1>2, RangeFacts
<1>4. toHost' = IF broken THEN <<>> ELSE Append(toHost, a)
  BY DEF Reply
<1> HIDE DEF a
<1>5. CASE broken
  <2>1. Range(toHost') = {}
    BY <1>2, <1>4, <1>5
  <2> QED BY <1>1, <1>5, <2>1
<1>6. CASE ~broken
  <2>1. Range(toHost') = Range(toHost) \cup {a}
    BY <1>3, <1>4, <1>6
  <2> QED BY <1>1, <2>1
<1> QED BY <1>5, <1>6

\* A step of the pod: the oldest request is taken, and answered in one of three ways.
LEMMA PodDoes ==
  ASSUME Types, Pod
  PROVE  /\ toPod # <<>> /\ toPod' = Tail(toPod) /\ UNCHANGED host /\ UNCHANGED sigAware
         /\ Head(toPod) \in Range(toPod) /\ Head(toPod) \in Asks
         /\ \E a \in Tells :
              /\ a.c = Head(toPod).c
              /\ Range(toHost') \subseteq Range(toHost) \cup {a}
              /\ ~broken /\ a.c # "abort" => a \in Range(toHost')
              /\ a.c = "abort" => toHost' = toHost
              /\ Obeyed(Head(toPod), a) \/ Refused(Head(toPod), a) \/ AskedAgain(Head(toPod), a)
<1> DEFINE m == Head(toPod)
           Right(a) ==
              /\ a.c = m.c
              /\ Range(toHost') \subseteq Range(toHost) \cup {a}
              /\ ~broken /\ a.c # "abort" => a \in Range(toHost')
              /\ a.c = "abort" => toHost' = toHost
              /\ Obeyed(m, a) \/ Refused(m, a) \/ AskedAgain(m, a)
<1>1. toPod # <<>> /\ toPod' = Tail(toPod) /\ UNCHANGED host /\ m \in Asks /\ m \in Range(toPod)
  BY PodTakes
<1>2. UNCHANGED sigAware
  BY DEF Pod, PodExecutes, PodRefuses, PodAsksAgain, pod
<1> HIDE DEF m
<1>3. ASSUME NEW r \in Replies, NEW n \in Nat, Reply(m, r, n), m.c # "abort",
             \A a \in Tells : a.r = r /\ a.k = n => Obeyed(m, a) \/ Refused(m, a) \/ AskedAgain(m, a)
      PROVE  \E a \in Tells : Right(a)
  <2>1. PICK a \in Tells : /\ a.c = m.c /\ a.r = r /\ a.k = n
                           /\ Range(toHost') \subseteq Range(toHost) \cup {a}
                           /\ ~broken => a \in Range(toHost')
    BY <1>1, <1>3, ReplyIs
  <2>2. Right(a)
    BY <1>3, <2>1
  <2> QED BY <2>2
<1>4. m.c \in Words /\ m.k \in Nat
  BY <1>1 DEF Asks
<1> HIDE DEF Right
<1>5. CASE PodExecutes
  <2>1. Obeys(m) /\ UNCHANGED past
    BY <1>5 DEF PodExecutes, m
  <2>2. ASSUME m.c = "list" PROVE \E a \in Tells : Right(a)
    <3>1. Reply(m, Listed, 0) /\ UNCHANGED <<stage, sigs, slot>> /\ Listed \in SUBSET (1 .. Blobs)
      BY <2>1, <2>2 DEF Obeys, Listed
    <3>2. \A a \in Tells : Obeyed(m, a)
      BY <2>1, <2>2, <3>1 DEF Obeyed
    <3>3. Listed \in Replies
      BY <3>1, RepliesAre
    <3> QED BY <1>3, <2>2, <3>1, <3>2, <3>3
  <2>3. ASSUME m.c = "sig" PROVE \E a \in Tells : Right(a)
    <3>1. (Reply(m, "result", 0) \/ Reply(m, "unknown", 0)) /\ UNCHANGED <<stage, sigs, slot>>
      BY <2>1, <2>3 DEF Obeys
    <3>2. \A a \in Tells : Obeyed(m, a)
      BY <2>1, <2>3, <3>1 DEF Obeyed
    <3> QED BY <1>3, <2>3, <3>1, <3>2, RepliesAre
  <2>4. ASSUME m.c = "half" PROVE \E a \in Tells : Right(a)
    <3>1. /\ Reply(m, "ok", 0) /\ UNCHANGED <<stage, slot>>
          /\ m.k = 0 => sigs' = 1
          /\ m.k = 1 => sigs' = Min({sigs + 1, 2})
          /\ m.k = 2 => sigs' = 0
      BY <2>1, <2>4 DEF Obeys
    <3>2. \A a \in Tells : a.r = "ok" => Obeyed(m, a)
      BY <2>1, <2>4, <3>1 DEF Obeyed
    <3> QED BY <1>3, <2>4, <3>1, <3>2, RepliesAre
  <2>5. ASSUME m.c = "begin" PROVE \E a \in Tells : Right(a)
    <3>1. /\ Reply(m, "ok", 0) /\ UNCHANGED slot /\ sigs' = 0
          /\ stage' = [item |-> m.i, got |-> {}, state |-> "receiving", sigs |-> sigs]
      BY <2>1, <2>5 DEF Obeys
    <3>2. \A a \in Tells : a.r = "ok" => Obeyed(m, a)
      BY <2>1, <2>5, <3>1 DEF Obeyed
    <3> QED BY <1>3, <2>5, <3>1, <3>2, RepliesAre
  <2>6. ASSUME m.c = "chunk" PROVE \E a \in Tells : Right(a)
    <3>1. /\ Reply(m, "ok", m.k) /\ UNCHANGED <<sigs, slot>> /\ stage.state = "receiving"
          /\ stage' = [stage EXCEPT !.got = @ \cup {m.k}]
      BY <2>1, <2>6 DEF Obeys
    <3>2. \A a \in Tells : a.r = "ok" => Obeyed(m, a)
      BY <2>1, <2>6, <3>1 DEF Obeyed
    <3> QED BY <1>3, <1>4, <2>6, <3>1, <3>2, RepliesAre
  <2>7. ASSUME m.c = "status" PROVE \E a \in Tells : Right(a)
    <3>1. /\ Reply(m, "received", Max(stage.got \cup {0})) /\ UNCHANGED <<stage, sigs, slot>>
          /\ Max(stage.got \cup {0}) \in Nat
      BY <2>1, <2>7, GotIs DEF Obeys
    <3>2. PICK n \in Nat : n = Max(stage.got \cup {0})
      BY <3>1
    <3>3. Reply(m, "received", n)
      BY <3>1, <3>2
    <3>4. \A a \in Tells : a.r = "received" /\ a.k = n => Obeyed(m, a)
      BY <2>1, <2>7, <3>1, <3>2 DEF Obeyed
    <3> QED BY <1>3, <2>7, <3>3, <3>4, RepliesAre
  <2>8. ASSUME m.c = "end" PROVE \E a \in Tells : Right(a)
    <3>1. /\ Reply(m, "ok", 0) /\ UNCHANGED <<sigs, slot>> /\ stage.got = 1 .. Chunks
          /\ stage' = [stage EXCEPT !.state = "verified"]
      BY <2>1, <2>8 DEF Obeys
    <3>2. \A a \in Tells : a.r = "ok" => Obeyed(m, a)
      BY <2>1, <2>8, <3>1 DEF Obeyed
    <3> QED BY <1>3, <2>8, <3>1, <3>2, RepliesAre
  <2>9. ASSUME m.c = "commit" PROVE \E a \in Tells : Right(a)
    <3>1. /\ Reply(m, "ok", 0) /\ UNCHANGED sigs /\ stage.state = "verified"
          /\ stage' = Idle /\ slot' = [slot EXCEPT ![stage.item] = "new"]
      BY <2>1, <2>9 DEF Obeys
    <3>2. \A a \in Tells : a.r = "ok" => Obeyed(m, a)
      BY <2>1, <2>9, <3>1 DEF Obeyed
    <3> QED BY <1>3, <2>9, <3>1, <3>2, RepliesAre
  <2>10. ASSUME m.c = "abort" PROVE \E a \in Tells : Right(a)
    <3>1. stage' = Idle /\ UNCHANGED <<sigs, slot, toHost>>
      BY <2>1, <2>10 DEF Obeys
    <3> DEFINE a == [c |-> "abort", r |-> "ok", k |-> 0]
    <3>2. a \in Tells /\ a.c = "abort"
      BY RepliesAre DEF Tells, Words
    <3>3. Obeyed(m, a)
      BY <2>1, <2>10, <3>1 DEF Obeyed
    <3>4. Range(toHost') = Range(toHost)
      BY <3>1
    <3>5. Right(a)
      BY <2>10, <3>1, <3>2, <3>3, <3>4 DEF Right
    <3> QED BY <3>2, <3>5
  <2>11. \E a \in Tells : Right(a)
    BY <1>4, <2>2, <2>3, <2>4, <2>5, <2>6, <2>7, <2>8, <2>9, <2>10 DEF Words
  <2> QED BY <1>1, <1>2, <2>11 DEF Right, m
<1>6. CASE PodRefuses
  <2>1. /\ m.c \in {"half", "begin", "chunk", "end", "commit"}
        /\ Reply(m, "error", 0) \/ (lan /\ item = 0 /\ m.c = "commit" /\ Reply(m, "timeout", 0))
        /\ trouble' = TRUE /\ UNCHANGED <<pod, lost, late, lostOther, unanswered, resent>>
    BY <1>6 DEF PodRefuses, m
  <2>2. \A a \in Tells : a.r = "error" => Refused(m, a)
    BY <2>1 DEF Refused
  <2>3. lan /\ item = 0 /\ m.c = "commit" => \A a \in Tells : a.r = "timeout" => Refused(m, a)
    BY <2>1 DEF Refused
  <2>4. \E a \in Tells : Right(a)
    BY <1>3, <2>1, <2>2, <2>3, RepliesAre
  <2> QED BY <1>1, <1>2, <2>4 DEF Right, m
<1>7. CASE PodAsksAgain
  <2>1. /\ m.c = "chunk" /\ ~lan /\ UNCHANGED <<pod, late, lostOther, unanswered, resent>>
        /\ \/ Reply(m, "retry", 0) /\ lost' = lost + 1 /\ UNCHANGED trouble
           \/ Reply(m, "busy", 0) /\ trouble' = TRUE /\ UNCHANGED lost
    BY <1>7 DEF PodAsksAgain, m
  <2>2. lost' = lost + 1 /\ UNCHANGED trouble => \A a \in Tells : a.r = "retry" => AskedAgain(m, a)
    BY <2>1 DEF AskedAgain
  <2>3. trouble' = TRUE /\ UNCHANGED lost => \A a \in Tells : a.r = "busy" => AskedAgain(m, a)
    BY <2>1 DEF AskedAgain
  <2>4. \E a \in Tells : Right(a)
    BY <1>3, <2>1, <2>2, <2>3, RepliesAre
  <2> QED BY <1>1, <1>2, <2>4 DEF Right, m
<1> QED BY <1>5, <1>6, <1>7 DEF Pod

\* The only message of two queues is lost.
LEMMA LoneRemove ==
  ASSUME NEW S, NEW T, NEW s \in Seq(S), NEW u \in Seq(T), NEW j \in DOMAIN s, Len(s) + Len(u) <= 1
  PROVE  RemoveAt(s, j) = <<>> /\ u = <<>>
<1>1. Len(s) = 1 /\ Len(u) = 0 /\ j = 1
  <2>1. Len(s) \in Nat /\ Len(u) \in Nat /\ j \in 1 .. Len(s)
    OBVIOUS
  <2>2. \A k, l \in Nat : \A i \in 1 .. k : k + l <= 1 => k = 1 /\ l = 0 /\ i = 1
    OBVIOUS
  <2> QED BY <2>1, <2>2
<1>2. SubSeq(s, 1, 0) = <<>> /\ SubSeq(s, 2, 1) = <<>> /\ <<>> \o <<>> = <<>>
  OBVIOUS
<1>3. RemoveAt(s, j) = SubSeq(s, 1, j - 1) \o SubSeq(s, j + 1, Len(s))
  BY DEF RemoveAt
<1>4. RemoveAt(s, j) = SubSeq(s, 1, 0) \o SubSeq(s, 2, 1)
  BY <1>1, <1>3
<1>5. u = <<>>
  BY <1>1
<1> QED BY <1>2, <1>4, <1>5

\* A message is lost.
LEMMA LoseIs ==
  ASSUME Types, Lose
  PROVE  /\ UNCHANGED <<host, pod, late, trouble, unanswered, resent>> /\ lost' = lost + 1
         /\ Range(toHost') \subseteq Range(toHost) /\ Range(toPod') \subseteq Range(toPod)
         /\ Alone(Wired) => Wired' = <<>>
         /\ Wired # <<>>
         /\ ~lostOther' => ~lostOther /\ \E m \in Range(toPod) \cup Range(toHost) : m.c = "chunk"
<1>1. /\ toPod \in Seq(Asks) /\ toHost \in Seq(Tells)
      /\ toPod \in Seq(Either) /\ toHost \in Seq(Either) /\ Wired \in Seq(Either)
      /\ Alone(Wired) => Len(toHost) + Len(toPod) <= 1
      /\ Wired = <<>> <=> toPod = <<>> /\ toHost = <<>>
  BY WiredIs
<1>2. UNCHANGED <<host, pod, late, trouble, unanswered, resent>> /\ lost' = lost + 1
  BY DEF Lose
<1> DEFINE Goal ==
         /\ Range(toHost') \subseteq Range(toHost) /\ Range(toPod') \subseteq Range(toPod)
         /\ Alone(Wired) => Wired' = <<>>
         /\ Wired # <<>>
         /\ ~lostOther' => ~lostOther /\ \E m \in Range(toPod) \cup Range(toHost) : m.c = "chunk"
<1>3. ASSUME NEW j \in DOMAIN toPod, toPod' = RemoveAt(toPod, j), toHost' = toHost,
             lostOther' = (lostOther \/ toPod[j].c # "chunk")
      PROVE  Goal
  <2>1. toPod[j] \in Range(toPod) /\ Range(toPod') \subseteq Range(toPod) /\ toPod # <<>>
    BY <1>1, <1>3, RangeFacts
  <2>2. Alone(Wired) => toPod' = <<>> /\ toHost = <<>>
    BY <1>1, <1>3, LoneRemove
  <2>3. <<>> \o <<>> = <<>>
    OBVIOUS
  <2>4. Alone(Wired) => Wired' = <<>>
    BY <1>3, <2>2, <2>3 DEF Wired
  <2> QED BY <1>1, <1>3, <2>1, <2>4
<1>4. ASSUME NEW j \in DOMAIN toHost, toHost' = RemoveAt(toHost, j), toPod' = toPod,
             lostOther' = (lostOther \/ toHost[j].c # "chunk")
      PROVE  Goal
  <2>1. toHost[j] \in Range(toHost) /\ Range(toHost') \subseteq Range(toHost) /\ toHost # <<>>
    BY <1>1, <1>4, RangeFacts
  <2>2. Alone(Wired) => toHost' = <<>> /\ toPod = <<>>
    BY <1>1, <1>4, LoneRemove
  <2>3. <<>> \o <<>> = <<>>
    OBVIOUS
  <2>4. Alone(Wired) => Wired' = <<>>
    BY <1>4, <2>2, <2>3 DEF Wired
  <2> QED BY <1>1, <1>4, <2>1, <2>4
<1>5. Goal
  BY <1>3, <1>4 DEF Lose
<1> QED BY <1>2, <1>5

-----------------------------------------------------------------------------
(* Only the network makes the host wait for the pod to come back.          *)

\* Only the network has the host wait for the pod, and an idle staging area is empty.
Waits ==
  /\ \A a \in Range(toHost) : a.c = "commit" /\ a.r = "timeout" => lan
  /\ at = "wait" => lan
  /\ stage.state = "idle" => stage = Idle

\* An idle staging area holds nothing.
LEMMA IdleNow == Idle.state = "idle" /\ Idle.got = {} /\ Idle.sigs = 0
BY DEF Idle

LEMMA WaitsStep == Types /\ Control /\ Waits /\ [UploadNext]_uploadVars => Waits'
<1> SUFFICES ASSUME Types, Control, Waits, [UploadNext]_uploadVars PROVE Waits'
  OBVIOUS
<1> USE DEF Waits
<1>1. ASSUME UNCHANGED <<at, lan, stage>>, Range(toHost') \subseteq Range(toHost) PROVE Waits'
  BY <1>1
<1>2. CASE Send
  <2>1. UNCHANGED <<at, lan, stage, toHost>>
    BY <1>2 DEF Send, pod
  <2> QED BY <2>1
<1>3. CASE Receive
  <2>1. PICK n \in DOMAIN toHost :
           /\ toHost[n] \in Range(toHost) /\ toHost[n].c = Wire(at) /\ Understand(toHost[n])
           /\ UNCHANGED <<lan, pod>>
           /\ Range(toHost') \subseteq Range(toHost)
    BY <1>3, CutIs
  <2>2. stage' = stage /\ lan' = lan
    BY <2>1 DEF pod
  <2>3. CASE at' # "wait"
    BY <2>1, <2>2, <2>3
  <2>4. CASE at' = "wait"
    <3>1. at = "commit"
      BY <1>3, <2>4, HostGoes DEF Goes, Phases
    <3>2. toHost[n].r = "timeout" \/ item = 0
      <4>1. toHost[n].r # "timeout" /\ item # 0 => at' # "wait"
        <5>1. CASE GoodCommit(toHost[n].r) /\ item # 0
          <6>1. NextBlob(missing \ {item}, installed \cup {item}, sup)
            BY <2>1, <3>1, <5>1 DEF Understand
          <6> QED BY <6>1 DEF NextBlob, FirstOf
        <5>2. CASE ~GoodCommit(toHost[n].r)
          BY <2>1, <3>1, <5>2, FailIs DEF Understand
        <5> QED BY <5>1, <5>2
      <4> QED BY <2>4, <4>1
    <3>3. lan
      BY <2>1, <3>1, <3>2 DEF Control, Wire
    <3> QED BY <2>1, <2>2, <3>3
  <2> QED BY <2>3, <2>4
<1>4. CASE TimeOut
  <2>1. toHost' = toHost /\ stage' = stage /\ lan' = lan
    BY <1>4 DEF TimeOut, pod
  <2>2. at' = "wait" => at = "commit" /\ LostCommit
    BY <1>4, LateIs, FailIs DEF Late, TimeOut, Phases
  <2>3. at = "commit" /\ LostCommit /\ at' = "wait" => item = 0
    BY FailIs DEF LostCommit
  <2>4. at' = "wait" => lan
    BY <2>2, <2>3 DEF Control
  <2> QED BY <2>1, <2>4
<1>5. CASE PodIsBack
  <2>1. Range(toHost') = {} /\ at' = "list" /\ lan' = lan /\ stage' = stage
    BY <1>5, BackIs DEF pod
  <2> QED BY <2>1
<1>6. CASE PodStaysAway
  <2>1. UNCHANGED <<lan, toHost, pod>> /\ Fail(FALSE)
    BY <1>6 DEF PodStaysAway
  <2> QED BY <2>1, FailIs DEF pod
<1>7. CASE CtxEnds \/ UNCHANGED uploadVars
  <2>1. UNCHANGED <<at, lan, stage, toHost>>
    BY <1>7 DEF CtxEnds, uploadVars, host, wires, pod
  <2> QED BY <2>1
<1>8. CASE Pod
  <2>1. UNCHANGED host
    BY <1>8, PodDoes
  <2>2. UNCHANGED <<at, lan>>
    BY <2>1 DEF host
  <2> DEFINE m == Head(toPod)
  <2>3. PICK a \in Tells :
              /\ a.c = m.c
              /\ Range(toHost') \subseteq Range(toHost) \cup {a}
              /\ Obeyed(m, a) \/ Refused(m, a) \/ AskedAgain(m, a)
    BY <1>8, PodDoes
  <2> HIDE DEF m
  <2>4. CASE Obeyed(m, a)
    <3>1. a.c = "commit" => a.r = "ok"
      BY <2>3, <2>4 DEF Obeyed
    <3>2. stage'.state = "idle" => stage' = Idle
      <4>1. stage \in [item : Items, got : SUBSET (1..Chunks),
                state : {"idle", "receiving", "verified"}, sigs : 0..2]
        BY DEF Types
      <4>2. CASE stage' = stage \/ stage' = Idle
        BY <4>2
      <4>3. CASE ~(stage' = stage \/ stage' = Idle)
        <5>1. CASE m.c = "begin"
          BY <2>4, <5>1 DEF Obeyed
        <5>2. CASE m.c = "chunk"
          BY <2>4, <4>1, <5>2 DEF Obeyed
        <5>3. CASE m.c = "end"
          BY <2>4, <4>1, <5>3 DEF Obeyed
        <5>4. CASE m.c \notin {"begin", "chunk", "end"}
          BY <2>4, <4>3, <5>4 DEF Obeyed
        <5> QED BY <5>1, <5>2, <5>3, <5>4
      <4> QED BY <4>2, <4>3
    <3> QED BY <2>2, <2>3, <3>1, <3>2
  <2>5. CASE Refused(m, a)
    <3>1. UNCHANGED stage /\ (a.c = "commit" /\ a.r = "timeout" => lan)
      BY <2>3, <2>5 DEF Refused, pod
    <3> QED BY <2>2, <2>3, <3>1
  <2>6. CASE AskedAgain(m, a)
    <3>1. UNCHANGED stage /\ a.c # "commit"
      BY <2>3, <2>6 DEF AskedAgain, pod
    <3> QED BY <2>2, <2>3, <3>1
  <2> QED BY <2>3, <2>4, <2>5, <2>6
<1>9. CASE PodRestarts
  <2>1. toHost' = <<>> /\ stage' = Idle /\ UNCHANGED host /\ Range(<<>>) = {}
    BY <1>9 DEF PodRestarts, Range
  <2>2. Range(toHost') = {} /\ UNCHANGED <<at, lan>>
    BY <2>1 DEF host
  <2> QED BY <2>1, <2>2
<1>10. CASE Lose
  <2>1. UNCHANGED <<host, pod>>
    BY <1>10 DEF Lose
  <2>2. UNCHANGED <<at, lan, stage>>
    BY <2>1 DEF host, pod
  <2>3. \A a \in Range(toHost') : a \in Range(toHost)
    BY <1>10, LoseIs
  <2> QED BY <1>1, <2>2, <2>3
<1> QED BY <1>2, <1>3, <1>4, <1>5, <1>6, <1>7, <1>8, <1>9, <1>10 DEF UploadNext, Host

-----------------------------------------------------------------------------
(* One thing at a time: on the network, and on a console that answers in    *)
(* time.                                                                   *)

\* No answer came late and nobody pressed Ctrl-C.
Prompt == late = 0 /\ ~ctxDone

\* Without late answers at most one message is on the wire, and it is for the host's
\* question.
OneAtATime ==
  /\ lan \/ Prompt => Alone(Wired)
  /\ (lan /\ ~broken) \/ (~lan /\ Prompt) =>
       \/ at \in {"done", "wait"}
       \/ ~sent /\ Wired = <<>>
       \/ sent /\ Only(Wired, Wire(at))
  /\ Prompt /\ ~trouble /\ ~lan /\ at = "done" => Only(Wired, "abort")

\* What a step cannot take back.
LEMMA Ever ==
  ASSUME Types, [UploadNext]_uploadVars
  PROVE  /\ lan' = lan /\ flash' = flash /\ man' = man
         /\ Prompt' => Prompt
         /\ ~trouble' => ~trouble
         /\ ~lostOther' => ~lostOther
         /\ ~unanswered' => ~unanswered
         /\ lost' = lost \/ lost' = lost + 1
<1>0. late \in Nat /\ lost \in Nat
  <2>1. late \in 0 .. MaxLate /\ lost \in 0 .. MaxLost /\ MaxLate \in Nat /\ MaxLost \in Nat
    BY Bounds DEF Types
  <2> QED BY <2>1
<1> USE DEF Prompt
<1>1. CASE Send \/ Receive \/ PodIsBack \/ PodStaysAway \/ CtxEnds \/ UNCHANGED uploadVars
  <2>1. /\ UNCHANGED <<lan, flash, man, lost, late, trouble, lostOther, unanswered>>
        /\ ctxDone' = ctxDone \/ ctxDone' = TRUE
    BY <1>1 DEF Send, Receive, PodIsBack, PodStaysAway, CtxEnds, uploadVars, host, past
  <2> QED BY <2>1
<1>2. CASE TimeOut
  <2>1. UNCHANGED <<lan, flash, man, ctxDone, lost, trouble, lostOther>>
        /\ unanswered' = (unanswered \/ at = "status")
    BY <1>2, LateIs
  <2>2. late' = late \/ late' = late + 1
    BY <1>2 DEF TimeOut
  <2>3. late' = 0 => late = 0
    BY <1>0, <2>2
  <2> QED BY <2>1, <2>3
<1>3. CASE Pod
  <2>1. UNCHANGED host
    BY <1>3, PodDoes
  <2>2. UNCHANGED <<lan, flash, man, ctxDone>>
    BY <2>1 DEF host
  <2>3. /\ UNCHANGED <<late, lostOther, unanswered>> /\ (trouble' = trouble \/ trouble' = TRUE)
        /\ lost' = lost \/ lost' = lost + 1
    BY <1>3 DEF Pod, PodExecutes, PodRefuses, PodAsksAgain, past
  <2> QED BY <2>2, <2>3
<1>4. CASE PodRestarts
  <2>1. UNCHANGED host /\ UNCHANGED <<lost, late, lostOther, unanswered>> /\ trouble' = TRUE
    BY <1>4 DEF PodRestarts
  <2>2. UNCHANGED <<lan, flash, man, ctxDone>>
    BY <2>1 DEF host
  <2> QED BY <2>1, <2>2
<1>5. CASE Lose
  <2>1. /\ UNCHANGED <<host, pod, late, trouble, unanswered, resent>> /\ lost' = lost + 1
        /\ ~lostOther' => ~lostOther
    BY <1>5, LoseIs
  <2>2. UNCHANGED <<lan, flash, man, ctxDone, late, trouble, unanswered>>
    BY <2>1 DEF host
  <2> QED BY <2>1, <2>2
<1> QED BY <1>1, <1>2, <1>3, <1>4, <1>5 DEF UploadNext, Host

\* A console that answers in time is timed out on only when nothing is under way.
LEMMA NothingComes ==
  ASSUME Types, Control, OneAtATime, TimeOut, ~lan, Prompt'
  PROVE  sent /\ Wired = <<>> /\ Prompt /\ ~broken
<1>1. Prompt /\ ~broken
  <2>1. [UploadNext]_uploadVars
    BY DEF UploadNext, Host
  <2> QED BY <2>1, Ever DEF Control
<1>2. sent
  BY <1>1 DEF TimeOut
<1>3. toPod = <<>>
  <2>1. toPod # <<>> => late' = late + 1
    BY <1>1, <1>2 DEF TimeOut, Prompt
  <2>2. late = 0 /\ late' = 0
    BY <1>1 DEF Prompt
  <2> QED BY <2>1, <2>2
<1>4. at \notin {"wait", "done"}
  BY DEF TimeOut, Phases
<1>5. Only(Wired, Wire(at))
  BY <1>1, <1>2, <1>4 DEF OneAtATime
<1>6. \A a \in Range(toHost) : a.c = Wire(at)
  BY <1>5, WiredIs
<1>7. toHost = <<>>
  <2>1. toHost \in Seq(Tells)
    BY WiredIs
  <2>2. \A j \in DOMAIN toHost : toHost[j].c # Wire(at)
    BY DEF TimeOut, CanTimeOut, Mine
  <2>3. DOMAIN toHost = {}
    BY <1>6, <2>1, <2>2, RangeFacts
  <2> QED BY <2>1, <2>3
<1> QED BY <1>1, <1>2, <1>3, <1>7, WiredIs

\* An abort on an empty wire.
LEMMA AbortIs ==
  ASSUME Types, toHost' = <<>>, toPod = <<>>,
         toPod' = toPod \/ toPod' = Append(toPod, [c |-> "abort", i |-> item, k |-> 0])
  PROVE  Alone(Wired') /\ Only(Wired', "abort")
<1>1. CASE toPod' = toPod
  <2>1. <<>> \o <<>> = <<>>
    OBVIOUS
  <2>2. Wired' = <<>>
    BY <1>1, <2>1 DEF Wired
  <2> QED BY <2>2, AbsentIs
<1>2. CASE toPod' = Append(toPod, [c |-> "abort", i |-> item, k |-> 0])
  <2>1. [c |-> "abort", i |-> item, k |-> 0] \in Asks
    BY DEF Types, Asks, Words
  <2>2. <<>> \in Seq(Asks) /\ <<>> \o <<>> = <<>>
    OBVIOUS
  <2> DEFINE m == [c |-> "abort", i |-> item, k |-> 0]
  <2>3. m.c = "abort" /\ m \in Asks
    BY <2>1
  <2> HIDE DEF m
  <2>4. Alone(<<>> \o Append(<<>>, m)) /\ Only(<<>> \o Append(<<>>, m), "abort")
    <3>1. <<>> \o <<>> = <<>> => Alone(<<>> \o Append(<<>>, m)) /\ Only(<<>> \o Append(<<>>, m), m.c)
      BY <2>2, <2>3, AddFacts
    <3> QED BY <2>2, <2>3, <3>1
  <2>5. Wired' = <<>> \o Append(<<>>, m)
    BY <1>2 DEF Wired, m
  <2> HIDE DEF Alone, Only
  <2> QED BY <2>4, <2>5
<1> QED BY <1>1, <1>2

LEMMA OneStep == Types /\ Types' /\ Control /\ Waits /\ OneAtATime /\ [UploadNext]_uploadVars => OneAtATime'
<1> SUFFICES ASSUME Types, Types', Control, Waits, OneAtATime, [UploadNext]_uploadVars PROVE OneAtATime'
  OBVIOUS
<1> HIDE DEF Wired
<1>0. /\ sent \in BOOLEAN /\ at \in Phases \cup {"done"} /\ lan \in BOOLEAN /\ broken \in BOOLEAN
      /\ trouble \in BOOLEAN /\ trouble' \in BOOLEAN /\ lan' = lan
      /\ Prompt' => Prompt
      /\ ~trouble' => ~trouble
  BY Ever DEF Types
<1>1. ASSUME UNCHANGED <<at, sent, broken>>, Thins(Wired, Wired')
      PROVE  OneAtATime'
  <2>1. /\ Alone(Wired) => Alone(Wired')
        /\ \A c : Only(Wired, c) => Only(Wired', c)
        /\ Wired = <<>> => Wired' = <<>>
    BY <1>1, Kept
  <2> QED BY <1>0, <1>1, <2>1 DEF OneAtATime, Wire
<1>2. CASE Send
  <2>1. /\ at \in Phases \ {"wait"} /\ ~sent /\ sent' = TRUE /\ ~broken
        /\ at' = at /\ broken' = broken
    BY <1>2, SendIs DEF Send
  <2>2. PICK m \in Asks : m.c = Wire(at) /\ (Wired = <<>> => Alone(Wired') /\ Only(Wired', m.c))
    BY <1>2, SendIs
  <2>3. lan \/ Prompt => Wired = <<>>
    BY <2>1 DEF OneAtATime, Phases
  <2>4. at # "done" /\ Wire(at') = Wire(at)
    BY <2>1 DEF Phases
  <2> QED BY <1>0, <2>1, <2>2, <2>3, <2>4 DEF OneAtATime
<1>3. CASE Receive
  <2>1. /\ Alone(Wired) => toHost' = <<>> /\ toPod = <<>>
        /\ toPod' = toPod => (Alone(Wired) => Wired' = <<>>)
        /\ broken' = broken
    BY <1>3, CutIs
  <2>2. /\ sent' = FALSE
        /\ \/ toPod' = toPod
           \/ at' = "done" /\ toPod' = Append(toPod, [c |-> "abort", i |-> item, k |-> 0])
    BY <1>3, HostGoes
  <2>3. Alone(Wired) => Alone(Wired') /\ Only(Wired', "abort")
    BY <2>1, <2>2, AbortIs
  <2>4. at' # "done" => (Alone(Wired) => Wired' = <<>>)
    BY <2>1, <2>2
  <2> QED BY <1>0, <2>1, <2>2, <2>3, <2>4 DEF OneAtATime
<1>4. CASE TimeOut
  <2>1. /\ sent' = FALSE /\ toHost' = toHost /\ broken' = (broken \/ lan)
        /\ \/ toPod' = toPod
           \/ at' = "done" /\ toPod' = Append(toPod, [c |-> "abort", i |-> item, k |-> 0])
    BY <1>4, LateIs, HostGoes
  <2>2. CASE lan
    <3>1. broken' = TRUE
      BY <1>0, <2>1, <2>2
    <3>2. toPod' = toPod
      BY <1>4, <3>1, LateIs DEF Fail
    <3>3. Wired' = Wired
      BY <2>1, <3>2, WiredSame
    <3> QED BY <1>0, <2>2, <3>1, <3>3 DEF OneAtATime
  <2>3. CASE ~lan /\ Prompt'
    <3>1. Wired = <<>>
      BY <1>4, <2>3, NothingComes
    <3>2. toHost' = <<>> /\ toPod = <<>>
      BY <2>1, <3>1, WiredIs
    <3>3. Alone(Wired') /\ Only(Wired', "abort")
      BY <2>1, <3>2, AbortIs
    <3>4. at' # "done" => Wired' = <<>>
      BY <2>1, <3>1, WiredSame
    <3> QED BY <1>0, <2>1, <2>3, <3>3, <3>4 DEF OneAtATime
  <2>4. CASE ~lan /\ ~Prompt'
    BY <1>0, <2>4 DEF OneAtATime
  <2> QED BY <2>2, <2>3, <2>4
<1>5. CASE PodIsBack
  <2>1. Wired' = <<>> /\ at' = "list" /\ sent' = FALSE
    BY <1>5, BackIs
  <2> QED BY <2>1, AbsentIs DEF OneAtATime
<1>6. CASE PodStaysAway
  <2>1. at = "wait" /\ toHost' = toHost /\ at' = "done" /\ toPod' = toPod
    BY <1>6, FailIs DEF PodStaysAway, Fail
  <2>2. lan /\ Wired' = Wired
    BY <2>1, WiredSame DEF Waits
  <2> QED BY <1>0, <2>1, <2>2 DEF OneAtATime
<1>7. CASE CtxEnds \/ UNCHANGED uploadVars
  <2>1. UNCHANGED <<at, sent, broken, toPod, toHost>>
    BY <1>7 DEF CtxEnds, uploadVars, host, wires
  <2>2. Wired' = Wired
    BY <2>1, WiredSame
  <2> QED BY <1>0, <2>1, <2>2 DEF OneAtATime, Wire
<1>8. CASE Pod \/ PodRestarts \/ Lose
  <2>1. UNCHANGED host /\ Thins(Wired, Wired')
    BY <1>8, Thinned
  <2>2. UNCHANGED <<at, sent, broken>>
    BY <2>1 DEF host
  <2> QED BY <1>1, <2>1, <2>2
<1> QED BY <1>2, <1>3, <1>4, <1>5, <1>6, <1>7, <1>8 DEF UploadNext, Host

-----------------------------------------------------------------------------
(* As long as upload-status is answered, a chunk is on the wire once.      *)

\* While every upload-status was answered, so are a chunk and an upload-status.
ChunksOnce == ~unanswered =>
  /\ at \notin {"chunk", "status", "done"} \/ (at = "chunk" /\ ~sent) => Absent(Wired, "chunk")
  /\ at \in {"chunk", "status"} => Single(Wired, "chunk")
  /\ at \notin {"status", "done"} \/ (at = "status" /\ ~sent) => Absent(Wired, "status")
  /\ at = "status" => Single(Wired, "status") /\ Ordered(Wired, "chunk", "status")
  /\ at \in {"chunk", "status"} => \A m \in Range(toPod) : m.c = "chunk" => m.k = off

LEMMA ChunksOnceStep == Types /\ Types' /\ ChunksOnce /\ [UploadNext]_uploadVars => ChunksOnce'
<1> SUFFICES ASSUME Types, Types', ChunksOnce, [UploadNext]_uploadVars, ~unanswered' PROVE ChunksOnce'
  BY DEF ChunksOnce
<1> HIDE DEF Wired
<1>0. sent \in BOOLEAN /\ at \in Phases \cup {"done"} /\ ~unanswered
  BY Ever DEF Types
<1>1. ASSUME UNCHANGED <<at, sent, off>>, Thins(Wired, Wired'), Range(toPod') \subseteq Range(toPod)
      PROVE  ChunksOnce'
  BY <1>0, <1>1, Kept DEF ChunksOnce
<1>2. ASSUME Wired' = <<>>, Range(toPod') = {} PROVE ChunksOnce'
  BY <1>2, AbsentIs DEF ChunksOnce
<1>3. ASSUME at' = "done" PROVE ChunksOnce'
  BY <1>3 DEF ChunksOnce
<1>4. CASE Send
  <2>1. /\ at \in Phases \ {"wait"} /\ ~sent /\ sent' = TRUE /\ at' = at /\ off' = off
    BY <1>4, SendIs DEF Send, Keep
  <2>2. PICK m \in Asks :
              /\ m.c = Wire(at) /\ (at = "chunk" => m.k = off)
              /\ Range(toPod') = Range(toPod) \cup {m}
              /\ Absent(Wired, m.c) => Single(Wired', m.c)
              /\ \A c : c # m.c /\ Absent(Wired, c) => Absent(Wired', c)
              /\ \A c : c # m.c /\ Single(Wired, c) => Single(Wired', c)
              /\ \A c : c # m.c /\ Absent(Wired, m.c) => Ordered(Wired', c, m.c)
    BY <1>4, SendIs
  <2>3. CASE at = "chunk"
    <3>1. m.c = "chunk" /\ m.k = off
      BY <2>2, <2>3 DEF Wire
    <3>2. Absent(Wired, "chunk") /\ Absent(Wired, "status")
      BY <1>0, <2>1, <2>3 DEF ChunksOnce
    <3>3. Single(Wired', "chunk") /\ Absent(Wired', "status")
      BY <2>2, <3>1, <3>2
    <3>4. \A x \in Range(toPod') : x.c = "chunk" => x.k = off
      BY <1>0, <2>2, <2>3, <3>1 DEF ChunksOnce
    <3> QED BY <2>1, <2>3, <3>3, <3>4 DEF ChunksOnce
  <2>4. CASE at = "status"
    <3>1. m.c = "status"
      BY <2>2, <2>4 DEF Wire
    <3>2. Single(Wired, "chunk") /\ Absent(Wired, "status")
      BY <1>0, <2>1, <2>4 DEF ChunksOnce
    <3>3. Single(Wired', "chunk") /\ Single(Wired', "status") /\ Ordered(Wired', "chunk", "status")
      BY <2>2, <3>1, <3>2
    <3>4. \A x \in Range(toPod') : x.c = "chunk" => x.k = off
      BY <1>0, <2>2, <2>4, <3>1 DEF ChunksOnce
    <3> QED BY <2>1, <2>4, <3>3, <3>4 DEF ChunksOnce
  <2>5. CASE at \notin {"chunk", "status"}
    <3>1. m.c # "chunk" /\ m.c # "status" /\ at # "done"
      BY <2>1, <2>2, <2>5 DEF Wire, Phases
    <3>2. Absent(Wired, "chunk") /\ Absent(Wired, "status")
      BY <1>0, <2>1, <2>5, <3>1 DEF ChunksOnce
    <3>3. Absent(Wired', "chunk") /\ Absent(Wired', "status")
      BY <2>2, <3>1, <3>2
    <3> QED BY <2>1, <2>5, <3>3 DEF ChunksOnce
  <2> QED BY <2>3, <2>4, <2>5
<1>5. ASSUME at' # "done", ~sent', Absent(Wired', "chunk"), Absent(Wired', "status") PROVE ChunksOnce'
  <2>1. \A m \in Range(toPod') : m.c # "chunk"
    <3>1. Range(toPod') \subseteq Range(toPod') \cup Range(toHost')
      OBVIOUS
    <3> QED BY <1>5, WiredIs2
  <2> QED BY <1>5, <2>1, AbsentIs DEF ChunksOnce
<1>6. CASE Receive
  <2>1. CASE at' = "done"
    BY <1>3, <2>1
  <2>2. CASE at' # "done"
    <3>1. at \in Phases \ {"wait"} /\ sent' = FALSE /\ toPod' = toPod
      BY <1>6, <2>2, HostGoes
    <3>2. /\ Thins(Wired, Wired')
          /\ Single(Wired, Wire(at)) => Absent(Wired', Wire(at))
          /\ \A c : Ordered(Wired, c, Wire(at)) => Absent(Wired', c)
      BY <1>6, <3>1, CutIs
    <3>3. \A c : Absent(Wired, c) => Absent(Wired', c)
      BY <3>2, Kept
    <3>4. CASE at = "chunk"
      BY <1>0, <1>5, <2>2, <3>1, <3>2, <3>3, <3>4 DEF ChunksOnce, Wire
    <3>5. CASE at = "status"
      BY <1>0, <1>5, <2>2, <3>1, <3>2, <3>3, <3>5 DEF ChunksOnce, Wire
    <3>6. CASE at \notin {"chunk", "status"}
      BY <1>0, <1>5, <2>2, <3>1, <3>3, <3>6 DEF ChunksOnce, Phases
    <3> QED BY <3>4, <3>5, <3>6
  <2> QED BY <2>1, <2>2
<1>7. CASE TimeOut
  <2>1. CASE at' = "done"
    BY <1>3, <2>1
  <2>2. CASE at' # "done"
    <3>1. /\ at' \in Late(at) /\ toPod' = toPod /\ toHost' = toHost /\ at \in Phases \ {"wait"}
          /\ sent' = FALSE /\ off' = off /\ at # "status"
      BY <1>7, <2>2, LateIs, FailIs
    <3>2. Wired' = Wired
      BY <3>1, WiredSame
    <3>3. CASE at = "chunk"
      <4>1. at' = "status"
        BY <3>1, <3>3 DEF Late
      <4>2. Absent(Wired, "status") /\ Single(Wired, "chunk")
        BY <1>0, <3>3 DEF ChunksOnce
      <4>3. \A m \in Range(toPod') : m.c = "chunk" => m.k = off'
        BY <1>0, <3>1, <3>3 DEF ChunksOnce
      <4> QED BY <3>1, <3>2, <4>1, <4>2, <4>3, AbsentIs DEF ChunksOnce
    <3>4. CASE at # "chunk"
      <4>1. Absent(Wired, "chunk") /\ Absent(Wired, "status")
        BY <1>0, <3>1, <3>4 DEF ChunksOnce, Phases
      <4> QED BY <1>5, <2>2, <3>1, <3>2, <4>1
    <3> QED BY <3>3, <3>4
  <2> QED BY <2>1, <2>2
<1>8. CASE PodIsBack
  BY <1>2, <1>8, BackIs
<1>9. CASE PodStaysAway
  BY <1>3, <1>9, FailIs DEF PodStaysAway
<1>10. CASE CtxEnds \/ UNCHANGED uploadVars
  <2>1. UNCHANGED <<at, sent, off, toPod, toHost>>
    BY <1>10 DEF CtxEnds, uploadVars, host, wires
  <2>2. Wired' = Wired /\ Range(toPod') = Range(toPod)
    BY <2>1, WiredSame
  <2> QED BY <1>0, <2>1, <2>2 DEF ChunksOnce
<1>11. CASE Pod \/ PodRestarts \/ Lose
  <2>1. UNCHANGED host /\ Thins(Wired, Wired') /\ Range(toPod') \subseteq Range(toPod)
    BY <1>11, Thinned
  <2>2. UNCHANGED <<at, sent, off>>
    BY <2>1 DEF host
  <2> QED BY <1>1, <2>1, <2>2
<1> QED BY <1>4, <1>6, <1>7, <1>8, <1>9, <1>10, <1>11 DEF UploadNext, Host

-----------------------------------------------------------------------------
(* What is staged is what the host uploads.                                *)

\* The pod's upload, if it has one, is the host's.
Staged ==
  at \in {"query", "chunk", "status", "end", "commit"} \/ (at = "begin" /\ Ok("begin"))
     => stage = Idle \/ stage.item = item

\* The item stays the same during an upload.
LEMMA ItemStays ==
  ASSUME Types, Receive, at \in {"probe", "half0", "half1", "clear", "begin", "query", "chunk", "status", "end"}
  PROVE  item' = item /\ installed' = installed /\ missing' = missing
<1>1. PICK n \in DOMAIN toHost : Understand(toHost[n])
  BY CutIs
<1>2. CASE at \in {"probe", "half0", "half1", "clear"}
  BY <1>1, <1>2 DEF Understand, HalfFailed, Keep
<1>3. CASE at \in {"begin", "query", "end"}
  BY <1>1, <1>3, FailIs DEF Understand, Keep
<1>4. CASE at \in {"chunk", "status"}
  BY <1>1, <1>4, FailIs DEF Understand, ChunkDone, ChunkAgain
<1> QED BY <1>2, <1>3, <1>4

\* A begin that is answered well goes on; one that is not ends the command.
LEMMA BeginIs ==
  ASSUME Types, Receive, at = "begin", at' # "done"
  PROVE  Ok("begin") /\ at' = (IF man /\ sup THEN "query" ELSE "chunk")
         /\ UNCHANGED <<item, off, try, sup, sigSent, exit>>
<1>1. PICK n \in DOMAIN toHost : toHost[n] \in Range(toHost) /\ toHost[n].c = Wire(at) /\ Understand(toHost[n])
  BY CutIs
<1>2. toHost[n].r = "ok"
  BY <1>1, FailIs DEF Understand
<1> QED BY <1>1, <1>2 DEF Understand, Goto, Keep, Ok, Wire

\* The pod's stage, whatever the pod does.
LEMMA StageIs ==
  ASSUME Types, NEW m, NEW a, Obeyed(m, a), m.c # "begin"
  PROVE  \/ stage' = Idle
         \/ /\ stage # Idle \/ stage' = stage
            /\ stage'.item = stage.item /\ stage'.sigs = stage.sigs
            /\ m.c # "chunk" => stage'.got = stage.got
            /\ m.c = "chunk" => stage'.got = stage.got \cup {m.k}
            /\ m.c = "commit" => stage'.state = "idle"
<1>1. /\ stage \in [item : Items, got : SUBSET (1..Chunks),
                    state : {"idle", "receiving", "verified"}, sigs : 0..2]
  BY DEF Types
<1>2. CASE m.c = "chunk"
  <2>1. stage' = [stage EXCEPT !.got = @ \cup {m.k}] /\ stage.state = "receiving"
    BY <1>2 DEF Obeyed
  <2> QED BY <1>1, <1>2, <2>1, IdleNow
<1>3. CASE m.c = "end"
  <2>1. stage' = [stage EXCEPT !.state = "verified"] /\ stage.got = 1 .. Chunks
    BY <1>3 DEF Obeyed
  <2>2. 1 .. Chunks # {}
    BY Bounds
  <2> QED BY <1>1, <1>3, <2>1, <2>2, IdleNow
<1>4. CASE m.c = "commit"
  BY <1>4 DEF Obeyed
<1>5. CASE m.c \notin {"chunk", "end", "commit"}
  <2>1. stage' = stage \/ stage' = Idle
    BY <1>5 DEF Obeyed
  <2> QED BY <1>5, <2>1
<1> QED BY <1>2, <1>3, <1>4, <1>5

LEMMA StagedStep == Types /\ Types' /\ Once /\ Staged /\ [UploadNext]_uploadVars => Staged'
<1> SUFFICES ASSUME Types, Types', Once, Staged, [UploadNext]_uploadVars PROVE Staged'
  OBVIOUS
<1> HIDE DEF Wired
<1>1. ASSUME UNCHANGED <<at, item, stage>>, Range(toHost') \subseteq Range(toHost) PROVE Staged'
  BY <1>1 DEF Staged, Ok
<1>2. Absent(Wired, "begin") => ~Ok("begin")
  BY WiredIs DEF Ok
<1>3. CASE Send
  <2>1. UNCHANGED <<at, item, stage, toHost>>
    BY <1>3 DEF Send, pod, Keep
  <2> QED BY <1>1, <2>1
<1>4. CASE Receive
  <2>1. UNCHANGED pod /\ Range(toHost') \subseteq Range(toHost) /\ at' \in Goes(at) /\ at \in Phases \ {"wait"}
    BY <1>4, CutIs, HostGoes
  <2>2. stage' = stage /\ (Ok("begin")' => Ok("begin"))
    BY <2>1 DEF pod, Ok
  <2>3. CASE at = "begin"
    <3>1. CASE at' = "done"
      BY <3>1 DEF Staged
    <3>2. CASE at' # "done"
      BY <1>4, <2>2, <2>3, <3>2, BeginIs DEF Staged
    <3> QED BY <3>1, <3>2
  <2>4. CASE at \in {"query", "chunk", "status", "end"}
    BY <1>4, <2>2, <2>4, ItemStays DEF Staged
  <2>5. CASE at \notin {"begin", "query", "chunk", "status", "end"}
    <3>1. ~Ok("begin")
      BY <1>2, <2>1, <2>5 DEF Once, Phases
    <3>2. at' \notin {"query", "chunk", "status", "end", "commit"}
      BY <2>1, <2>5 DEF Goes, Phases
    <3> QED BY <2>2, <3>1, <3>2 DEF Staged
  <2> QED BY <2>3, <2>4, <2>5
<1>5. CASE TimeOut
  <2>1. UNCHANGED <<pod, toHost, item>> /\ at \in Phases \ {"wait"}
        /\ (at' \in Late(at) \/ at' = "done")
    BY <1>5, LateIs, FailIs
  <2>2. stage' = stage /\ (Ok("begin")' => Ok("begin"))
    BY <2>1 DEF pod, Ok
  <2>3. CASE at \in {"query", "chunk", "status"}
    BY <2>1, <2>2, <2>3 DEF Staged
  <2>4. CASE at \in {"probe", "half0", "half1", "clear"}
    <3>1. ~Ok("begin") /\ at' \notin {"query", "chunk", "status", "end", "commit"}
      BY <1>2, <2>1, <2>4 DEF Once, Late
    <3> QED BY <2>2, <3>1 DEF Staged
  <2>5. CASE at \notin {"query", "chunk", "status", "probe", "half0", "half1", "clear"}
    <3>1. at' \in {"wait", "done"}
      BY <2>1, <2>5 DEF Late, Phases
    <3> QED BY <3>1 DEF Staged
  <2> QED BY <2>3, <2>4, <2>5
<1>6. CASE PodIsBack
  <2>1. at' = "list"
    BY <1>6, BackIs
  <2> QED BY <2>1 DEF Staged
<1>7. CASE PodStaysAway
  <2>1. at' = "done"
    BY <1>7, FailIs DEF PodStaysAway
  <2> QED BY <2>1 DEF Staged
<1>8. CASE CtxEnds \/ UNCHANGED uploadVars
  <2>1. UNCHANGED <<at, item, stage, toHost>>
    BY <1>8 DEF CtxEnds, uploadVars, host, wires, pod
  <2> QED BY <1>1, <2>1
<1>9. CASE Pod
  <2>1. UNCHANGED host /\ Head(toPod) \in Range(toPod)
    BY <1>9, PodDoes
  <2>2. UNCHANGED <<at, item>>
    BY <2>1 DEF host
  <2> DEFINE m == Head(toPod)
  <2>3. PICK a \in Tells :
              /\ a.c = m.c
              /\ Range(toHost') \subseteq Range(toHost) \cup {a}
              /\ Obeyed(m, a) \/ Refused(m, a) \/ AskedAgain(m, a)
    BY <1>9, PodDoes
  <2>4. m \in Range(toPod)
    BY <2>1
  <2> HIDE DEF m
  <2>5. a.c # "begin" \/ a.r # "ok" => (Ok("begin")' => Ok("begin"))
    BY <2>3 DEF Ok
  <2>6. CASE Obeyed(m, a) /\ m.c = "begin"
    <3>1. at \in {"begin", "done"}
      <4>1. ~Absent(Wired, "begin")
        BY <2>4, <2>6, WiredIs
      <4> QED BY <4>1 DEF Once
    <3>2. CASE at = "begin"
      <4>1. m.i = item
        BY <2>4, <2>6, <3>2 DEF Once
      <4>2. stage' = [item |-> m.i, got |-> {}, state |-> "receiving", sigs |-> sigs]
        BY <2>6 DEF Obeyed
      <4> QED BY <2>2, <4>1, <4>2 DEF Staged
    <3>3. CASE at = "done"
      BY <2>2, <3>3 DEF Staged
    <3> QED BY <3>1, <3>2, <3>3
  <2>7. CASE Obeyed(m, a) /\ m.c # "begin"
    <3>1. Ok("begin")' => Ok("begin")
      BY <2>3, <2>5, <2>7
    <3>2. stage' = Idle \/ ((stage # Idle \/ stage' = stage) /\ stage'.item = stage.item)
      BY <2>7, StageIs
    <3> QED BY <2>2, <3>1, <3>2 DEF Staged
  <2>8. CASE Refused(m, a) \/ AskedAgain(m, a)
    <3>1. UNCHANGED pod /\ a.r # "ok"
      BY <2>8 DEF Refused, AskedAgain
    <3>2. stage' = stage
      BY <3>1 DEF pod
    <3> QED BY <2>2, <2>5, <3>1, <3>2 DEF Staged
  <2> QED BY <2>3, <2>6, <2>7, <2>8
<1>10. CASE PodRestarts
  <2>1. stage' = Idle
    BY <1>10 DEF PodRestarts
  <2> QED BY <2>1 DEF Staged
<1>11. CASE Lose
  <2>1. UNCHANGED <<host, pod>> /\ Range(toHost') \subseteq Range(toHost)
    BY <1>11, LoseIs
  <2>2. UNCHANGED <<at, item, stage>>
    BY <2>1 DEF host, pod
  <2> QED BY <1>1, <2>1, <2>2
<1> QED BY <1>3, <1>4, <1>5, <1>6, <1>7, <1>8, <1>9, <1>10, <1>11 DEF UploadNext, Host

-----------------------------------------------------------------------------
(* What the host says of the pod's slots is so.                            *)

Under == {"begin", "query", "chunk", "status", "end", "commit"}

\* What is in the slots, and what can still come to be.
Committed ==
  /\ at = "commit" /\ Ok("commit") => slot[item] = "new"
  /\ flash /\ item = 0 /\ at \in Under =>
       \/ slot[0] = "old"
       \/ /\ at = "commit" /\ sent /\ ~Asked("commit")
          /\ \A a \in Range(toHost) : a.c = "commit" => a.r = "ok"
  /\ exit = "kept" => at = "done" /\ ~Asked("commit") /\ slot[0] = "old"
  /\ \A i \in installed : slot[i] = "new"

\* The only commit on the wire, executed.
LEMMA CommitIs ==
  ASSUME Types, Once, Pod, Head(toPod).c = "commit", at = "commit"
  PROVE  sent /\ \A x \in Range(toHost) \cup Range(toPod') : x.c # "commit"
<1>1. toPod # <<>> /\ toPod' = Tail(toPod) /\ Head(toPod) \in Range(toPod)
  BY PodDoes
<1>2. ~Absent(Wired, "commit")
  BY <1>1, WiredIs
<1>3. sent
  BY <1>2 DEF Once
<1>4. Single(toHost \o toPod, "commit")
  BY DEF Once, Wired
<1>5. \A x \in Range(toHost) \cup Range(Tail(toPod)) : x.c # "commit"
  BY <1>1, <1>4, WiredIs, HeadFacts
<1> QED BY <1>1, <1>3, <1>5

\* A commit that is answered is asked no more.
LEMMA CommitDone ==
  ASSUME Types, Types', Once, Receive, at = "commit", toPod' = toPod
  PROVE  \A x \in Range(toPod') : x.c # "commit"
<1>1. Single(Wired, Wire(at)) => Absent(Wired', Wire(at))
  BY CutIs
<1>2. Absent(Wired', "commit")
  BY <1>1 DEF Once, Wire
<1> QED BY <1>2, WiredIs2

\* The firmware is kept when its own upload fails before the commit.
LEMMA KeptIs ==
  ASSUME Types, Control, Once, Committed, at # "commit", at \in Phases \ {"wait"},
         Fail(TRUE) \/ Fail(FALSE) \/ Fail(lan), exit' = "kept", slot' = slot
  PROVE  ~Asked("commit")' /\ slot'[0] = "old" /\ at' = "done"
<1>1. flash /\ item = 0 /\ at \notin {"wait", "list"}
  BY DEF Fail
<1>2. at \in Under
  BY <1>1 DEF Control, Under, Phases
<1>3. slot[0] = "old"
  BY <1>1, <1>2 DEF Committed
<1>4. Absent(Wired, "commit")
  BY <1>2 DEF Once, Under
<1>5. \A m \in Range(toPod) : m.c # "commit"
  BY <1>4, WiredIs
<1>6. toPod' = toPod \/ toPod' = Append(toPod, [c |-> "abort", i |-> item, k |-> 0])
  BY DEF Fail
<1>7. [c |-> "abort", i |-> item, k |-> 0] \in Asks /\ toPod \in Seq(Asks)
  BY DEF Types, Asks, Words
<1>8. Range(toPod') \subseteq Range(toPod) \cup {[c |-> "abort", i |-> item, k |-> 0]}
  <2> DEFINE m == [c |-> "abort", i |-> item, k |-> 0]
  <2>1. Range(Append(toPod, m)) = Range(toPod) \cup {m}
    BY <1>7, RangeFacts
  <2>2. CASE toPod' = toPod
    BY <2>2
  <2>3. CASE toPod' = Append(toPod, m)
    <3>1. Range(toPod') = Range(Append(toPod, m))
      BY <2>3
    <3> QED BY <2>1, <3>1
  <2> QED BY <1>6, <2>2, <2>3
<1>9. ~Asked("commit")'
  BY <1>5, <1>8 DEF Asked
<1> QED BY <1>3, <1>9, FailIs

\* An answer is understood.
LEMMA CommittedReceive ==
  ASSUME Types, Types', Control, Once, Committed, Receive
  PROVE  Committed'
<1>1. PICK n \in DOMAIN toHost :
        /\ toHost[n] \in Range(toHost) /\ toHost[n].c = Wire(at) /\ Understand(toHost[n])
        /\ UNCHANGED <<flash, pod>> /\ Range(toHost') \subseteq Range(toHost)
  BY CutIs
<1>2. slot' = slot /\ flash' = flash
  BY <1>1 DEF pod
<1>3. at \in Phases \ {"wait"} /\ at' \in Goes(at) /\ exit = "" /\ sent' = FALSE
  BY HostGoes DEF Control, Phases
<1> DEFINE a == toHost[n]
<1>4. CASE at = "commit"
  <2>1. a.c = "commit" /\ (a.r = "ok" => Ok("commit"))
    BY <1>1, <1>4 DEF Wire, Ok
  <2>2. at' \notin {"query", "chunk", "status", "end", "commit"}
    BY <1>3, <1>4 DEF Goes
  <2>3. CASE GoodCommit(a.r)
    <3>1. slot[item] = "new"
      BY <1>4, <2>1, <2>3 DEF Committed, GoodCommit
    <3>2. CASE item = 0
      <4>1. installed' = {0} /\ at' = "wait" /\ exit' = exit
        BY <1>1, <1>4, <2>3, <3>2 DEF Understand, Goto
      <4> QED BY <1>2, <1>3, <3>1, <3>2, <4>1 DEF Committed, Under
    <3>3. CASE item # 0
      <4>1. NextBlob(missing \ {item}, installed \cup {item}, sup)
        BY <1>1, <1>4, <2>3, <3>3 DEF Understand
      <4>2. missing \ {item} \in SUBSET (1 .. Blobs)
        BY DEF Types
      <4>3. /\ installed' = installed \cup {item} /\ (exit' = "ok" \/ exit' = exit)
            /\ at' = "done" \/ item' \in 1 .. Blobs
        BY <4>1, <4>2, NextBlobIs
      <4>4. at' # "done" => item' # 0
        <5>1. \A x \in 1 .. Blobs : x # 0
          OBVIOUS
        <5> QED BY <4>3, <5>1
      <4> QED BY <1>2, <1>3, <2>2, <3>1, <4>3, <4>4 DEF Committed, Under
    <3> QED BY <3>2, <3>3
  <2>4. CASE ~GoodCommit(a.r) /\ a.r = "timeout"
    <3>1. at' = "wait" /\ installed' = installed /\ exit' = exit
      BY <1>1, <1>4, <2>4 DEF Understand, Goto, Keep
    <3> QED BY <1>2, <1>3, <3>1 DEF Committed, Under
  <2>5. CASE ~GoodCommit(a.r) /\ a.r # "timeout"
    <3>1. Fail(FALSE)
      BY <1>1, <1>4, <2>5 DEF Understand
    <3>2. at' = "done" /\ installed' = installed /\ toPod' = toPod
      BY <3>1, FailIs DEF Fail
    <3>3. exit' = "kept" => slot[0] = "old"
      <4>1. a.r # "ok"
        BY <2>5 DEF GoodCommit
      <4>2. exit' = "kept" => flash /\ item = 0
        BY <3>1 DEF Fail
      <4> QED BY <1>1, <1>4, <2>1, <4>1, <4>2 DEF Committed, Under
    <3>4. ~Asked("commit")'
      BY <1>4, <3>2, CommitDone DEF Asked
    <3> QED BY <1>2, <3>2, <3>3, <3>4 DEF Committed, Under
  <2> QED BY <2>3, <2>4, <2>5
<1>5. CASE at \in {"begin", "query", "chunk", "status", "end"}
  <2>1. item' = item /\ installed' = installed
    BY <1>5, ItemStays
  <2>2. at' \in Under \cup {"done"} /\ at \in Under /\ at # "commit"
    BY <1>3, <1>5 DEF Goes, Under
  <2>3. flash /\ item = 0 => slot[0] = "old"
    BY <2>2 DEF Committed
  <2>4. ~Ok("commit")'
    <3>1. Absent(Wired, "commit")
      BY <1>5 DEF Once
    <3> QED BY <1>1, <3>1, WiredIs DEF Ok
  <2>5. exit' = "kept" => Fail(TRUE) \/ Fail(FALSE) \/ Fail(lan)
    <3>1. CASE at \in {"begin", "query", "end"}
      BY <1>1, <1>3, <3>1 DEF Understand, Keep
    <3>2. CASE at \in {"chunk", "status"}
      BY <1>1, <1>3, <3>2 DEF Understand, ChunkDone, ChunkAgain
    <3> QED BY <1>5, <3>1, <3>2
  <2>6. exit' = "kept" => ~Asked("commit")' /\ slot'[0] = "old" /\ at' = "done"
    BY <1>2, <1>3, <2>2, <2>5, KeptIs
  <2> QED BY <1>2, <2>1, <2>2, <2>3, <2>4, <2>6 DEF Committed, Under
<1>6. CASE at \in {"probe", "half0", "half1", "clear"}
  <2>1. ~flash /\ at' # "commit"
    BY <1>3, <1>6 DEF Control, Goes
  <2>2. installed' = installed /\ exit' = exit
    <3>1. installed' = installed
      BY <1>6, ItemStays
    <3> QED BY <1>1, <1>6, <3>1 DEF Understand, HalfFailed, Keep
  <2> QED BY <1>2, <1>3, <2>1, <2>2 DEF Committed
<1>7. CASE at = "list"
  <2>1. a.r \in SUBSET (1 .. Blobs) /\ NextBlob(a.r, installed, sup)
    BY <1>1, <1>7 DEF Understand, Types, Wire
  <2>2. /\ installed' = installed /\ (exit' = "ok" \/ exit' = exit)
        /\ at' = "done" \/ item' \in 1 .. Blobs
    BY <2>1, NextBlobIs
  <2>3. at' # "done" => item' # 0
    <3>1. \A x \in 1 .. Blobs : x # 0
      OBVIOUS
    <3> QED BY <2>2, <3>1
  <2>4. at' # "commit"
    BY <1>3, <1>7 DEF Goes
  <2> QED BY <1>2, <1>3, <2>2, <2>3, <2>4 DEF Committed, Under
<1> QED BY <1>3, <1>4, <1>5, <1>6, <1>7 DEF Phases

LEMMA CommittedStep == Types /\ Types' /\ Control /\ Once /\ Staged /\ Committed /\ [UploadNext]_uploadVars => Committed'
<1> SUFFICES ASSUME Types, Types', Control, Once, Staged, Committed, [UploadNext]_uploadVars PROVE Committed'
  OBVIOUS
<1> HIDE DEF Wired
<1>1. ASSUME UNCHANGED <<flash, at, sent, item, installed, exit, slot>>,
             Range(toHost') \subseteq Range(toHost), Range(toPod') \subseteq Range(toPod)
      PROVE  Committed'
  BY <1>1 DEF Committed, Ok, Asked, Under
<1>2. CASE Send
  <2>1. UNCHANGED <<flash, at, item, installed, exit, slot, toHost>>
    BY <1>2 DEF Send, pod, Keep
  <2>2. ~sent /\ at # "done"
    BY <1>2, SendIs DEF Phases
  <2> QED BY <2>1, <2>2 DEF Committed, Ok, Under
<1>3. CASE Receive
  BY <1>3, CommittedReceive
<1>4. CASE TimeOut
  <2>1. /\ UNCHANGED <<flash, pod, toHost, item, installed>> /\ at \in Phases \ {"wait"}
        /\ \/ at' \in Late(at) /\ toPod' = toPod /\ exit' = exit
           \/ Fail(TRUE) \/ Fail(FALSE) \/ Fail(lan)
    BY <1>4, LateIs
  <2>2. slot' = slot /\ exit = ""
    BY <2>1 DEF pod, Control, Phases
  <2>3. CASE at' \in Late(at) /\ exit' = exit
    <3>1. CASE at' = "begin"
      <4>1. ~lan
        BY <2>1, <2>3, <3>1 DEF Late, Phases, Control
      <4> QED BY <2>1, <2>2, <2>3, <3>1, <4>1 DEF Committed, Control
    <3>2. CASE at' # "begin"
      <4>1. at' \in Under => at \in Under /\ at # "commit" /\ at' # "commit"
        BY <2>1, <2>3, <3>2 DEF Late, Phases, Under
      <4>2. at' # "commit"
        BY <2>1, <2>3 DEF Late, Phases
      <4> QED BY <2>1, <2>2, <2>3, <4>1, <4>2 DEF Committed
    <3> QED BY <3>1, <3>2
  <2>4. CASE Fail(TRUE) \/ Fail(FALSE) \/ Fail(lan)
    <3>1. at' = "done" /\ exit' \in {"kept", "error", "away", "updated"}
      BY <2>4, FailIs
    <3>2. exit' = "kept" => at # "commit"
      <4>1. exit' = "kept" => item = 0
        BY <2>4 DEF Fail
      <4>2. at = "commit" => LostCommit
        BY <1>4 DEF TimeOut
      <4>3. at = "commit" /\ item = 0 => at' = "wait"
        BY <4>2 DEF LostCommit, Goto
      <4> QED BY <3>1, <4>1, <4>3
    <3>3. exit' = "kept" => ~Asked("commit")' /\ slot'[0] = "old"
      BY <2>1, <2>2, <2>4, <3>2, KeptIs
    <3> QED BY <2>1, <2>2, <3>1, <3>3 DEF Committed, Under
  <2> QED BY <2>1, <2>3, <2>4
<1>5. CASE PodIsBack
  <2>1. /\ at = "wait" /\ at' = "list" /\ UNCHANGED <<exit, installed, pod>>
    BY <1>5, BackIs
  <2> QED BY <2>1 DEF Committed, Under, pod
<1>6. CASE PodStaysAway
  <2>1. at = "wait" /\ Fail(FALSE) /\ UNCHANGED pod
    BY <1>6 DEF PodStaysAway
  <2>2. exit' # "kept" /\ at' = "done" /\ installed' = installed /\ slot' = slot
    BY <2>1, FailIs DEF Fail, pod
  <2> QED BY <2>2 DEF Committed, Under
<1>7. CASE CtxEnds \/ UNCHANGED uploadVars
  <2>1. UNCHANGED <<flash, at, sent, item, installed, exit, slot, toPod, toHost>>
    BY <1>7 DEF CtxEnds, uploadVars, host, wires, pod
  <2> QED BY <1>1, <2>1
<1>8. CASE Pod
  <2>1. /\ UNCHANGED host /\ Head(toPod) \in Range(toPod) /\ Head(toPod) \in Asks
        /\ toPod' = Tail(toPod) /\ toPod # <<>>
    BY <1>8, PodDoes
  <2>2. UNCHANGED <<flash, at, sent, item, installed, exit>>
    BY <2>1 DEF host
  <2>3. Range(toPod') \subseteq Range(toPod)
    BY <2>1, WiredIs, RangeFacts
  <2>4. Asked("commit")' => Asked("commit")
    BY <2>3 DEF Asked
  <2> DEFINE m == Head(toPod)
  <2>5. PICK a \in Tells :
              /\ a.c = m.c
              /\ Range(toHost') \subseteq Range(toHost) \cup {a}
              /\ Obeyed(m, a) \/ Refused(m, a) \/ AskedAgain(m, a)
    BY <1>8, PodDoes
  <2>6. CASE Obeyed(m, a) /\ m.c = "commit"
    <3>1. stage.state = "verified" /\ slot' = [slot EXCEPT ![stage.item] = "new"] /\ a.r = "ok"
      BY <2>6 DEF Obeyed
    <3>2. \A i \in Items : slot'[i] = slot[i] \/ slot'[i] = "new"
      BY <3>1 DEF Types
    <3>3. \A i \in installed' : slot'[i] = "new"
      <4>1. installed \subseteq Items
        BY DEF Types
      <4> QED BY <2>2, <3>2, <4>1 DEF Committed
    <3>4. Asked("commit")
      BY <2>1, <2>6 DEF Asked
    <3>5. CASE at = "commit"
      <4>1. sent /\ \A x \in Range(toHost) \cup Range(toPod') : x.c # "commit"
        BY <1>8, <2>6, <3>5, CommitIs
      <4>2. stage.item = item
        BY <3>1, <3>5, IdleNow DEF Staged
      <4>3. slot'[item] = "new"
        BY <3>1, <4>2 DEF Types
      <4>4. ~Asked("commit")' /\ \A x \in Range(toHost') : x.c = "commit" => x.r = "ok"
        BY <2>5, <3>1, <4>1 DEF Asked
      <4> QED BY <2>2, <3>3, <3>4, <3>5, <4>1, <4>3, <4>4 DEF Committed
    <3>6. CASE at # "commit"
      <4>1. at \in {"wait", "done"}
        BY <2>1, <2>6, <3>6, WiredIs DEF Once
      <4> QED BY <2>2, <3>3, <3>4, <4>1 DEF Committed, Under
    <3> QED BY <3>5, <3>6
  <2>7. CASE Obeyed(m, a) /\ m.c # "commit"
    <3>1. slot' = slot /\ a.c # "commit"
      BY <2>5, <2>7 DEF Obeyed
    <3>2. \A x \in Range(toHost') : x.c = "commit" => x \in Range(toHost)
      BY <2>5, <3>1
    <3> QED BY <2>2, <2>4, <3>1, <3>2 DEF Committed, Ok
  <2>8. CASE Refused(m, a) \/ AskedAgain(m, a)
    <3>1. slot' = slot /\ a.r # "ok" /\ (a.c = "commit" => Asked("commit"))
      BY <2>1, <2>5, <2>8 DEF Refused, AskedAgain, pod, Asked
    <3>2. \A x \in Range(toHost') : x \in Range(toHost) \/ x = a
      BY <2>5
    <3>3. Ok("commit")' => Ok("commit")
      BY <3>1, <3>2 DEF Ok
    <3>4. ~Asked("commit") => \A x \in Range(toHost') : x.c = "commit" => x \in Range(toHost)
      BY <3>1, <3>2
    <3> QED BY <2>2, <2>4, <3>1, <3>3, <3>4 DEF Committed
  <2> QED BY <2>5, <2>6, <2>7, <2>8
<1>9. CASE PodRestarts
  <2>1. UNCHANGED <<host, slot>> /\ toPod' = <<>> /\ toHost' = <<>> /\ Range(<<>>) = {}
    BY <1>9 DEF PodRestarts, Range
  <2>2. UNCHANGED <<flash, at, sent, item, installed, exit, slot>> /\ Range(toPod') = {} /\ Range(toHost') = {}
    BY <2>1 DEF host
  <2> QED BY <1>1, <2>2
<1>10. CASE Lose
  <2>1. UNCHANGED <<host, pod>> /\ Range(toHost') \subseteq Range(toHost) /\ Range(toPod') \subseteq Range(toPod)
    BY <1>10, LoseIs
  <2>2. UNCHANGED <<flash, at, sent, item, installed, exit, slot>>
    BY <2>1 DEF host, pod
  <2> QED BY <1>1, <2>1, <2>2
<1> QED BY <1>2, <1>3, <1>4, <1>5, <1>6, <1>7, <1>8, <1>9, <1>10 DEF UploadNext, Host

-----------------------------------------------------------------------------
(* What the host has gone past, the pod has.                               *)

\* The pod has begun, and the host has sent no chunk.
Beginning == at = "query" \/ (at = "begin" /\ Ok("begin"))

\* An answer x to the chunk or the status tells whether the pod has the chunk.
Right(x) ==
  /\ x.c = "chunk" => (off \in stage.got <=> x.r = "ok")
  /\ x.c = "status" /\ at = "status" => (off \in stage.got <=> x.k >= off)

\* What the pod has of the image, told from where the host is.
Received == ~unanswered =>
  /\ Beginning => stage.got = {}
  /\ at \in {"chunk", "status"} =>
       /\ stage.got \subseteq 1 .. off
       /\ (at = "chunk" /\ ~sent) \/ Asked("chunk") => off \notin stage.got
       /\ \A x \in Range(toHost) : Right(x)
       /\ stage # Idle => 1 .. (off - 1) \subseteq stage.got
  /\ at \in {"end", "commit"} /\ stage # Idle => stage.got = 1 .. Chunks
  /\ ~resent

\* Arithmetic of chunks.
LEMMA NextChunk ==
  \A n \in Nat \ {0} : \A S \in SUBSET (1 .. n) :
    /\ n + 1 \notin S /\ S \subseteq 1 .. (n + 1)
    /\ n \in S /\ 1 .. (n - 1) \subseteq S => 1 .. ((n + 1) - 1) \subseteq S /\ S = 1 .. n
<1> SUFFICES ASSUME NEW n \in Nat \ {0}, NEW S \in SUBSET (1 .. n)
             PROVE  /\ n + 1 \notin S /\ S \subseteq 1 .. (n + 1)
                    /\ n \in S /\ 1 .. (n - 1) \subseteq S => 1 .. ((n + 1) - 1) \subseteq S /\ S = 1 .. n
  OBVIOUS
<1>1. n + 1 \notin S /\ S \subseteq 1 .. (n + 1)
  OBVIOUS
<1>2. ASSUME n \in S, 1 .. (n - 1) \subseteq S PROVE 1 .. n \subseteq S
  <2>1. \A x \in 1 .. n : x = n \/ x \in 1 .. (n - 1)
    OBVIOUS
  <2> QED BY <1>2, <2>1
<1>3. (n + 1) - 1 = n
  OBVIOUS
<1>4. 1 .. n \subseteq S => S = 1 .. n
  OBVIOUS
<1> QED BY <1>1, <1>2, <1>3, <1>4

\* Nothing is asked of a pod before its first chunk.
LEMMA Begun == 1 .. (1 - 1) = {} /\ (\A n \in Nat : {} \subseteq 1 .. n)
OBVIOUS

\* An upload that begins: nothing of it is on the pod or on the wire.
LEMMA Fresh ==
  ASSUME Types', ~unanswered' => ~resent', stage'.got = {}, off' = 1, at' = "chunk", Absent(Wired', "chunk"), Absent(Wired', "status")
  PROVE  Received'
<1>1. \A x \in Range(toPod') \cup Range(toHost') : x.c # "chunk" /\ x.c # "status"
  BY WiredIs2
<1>2. ~Asked("chunk")' /\ \A x \in Range(toHost') : Right(x)'
  BY <1>1 DEF Asked, Right
<1>3. ~Beginning'
  BY DEF Beginning
<1>4. stage'.got \subseteq 1 .. off' /\ off' \notin stage'.got /\ 1 .. (off' - 1) \subseteq stage'.got
  BY Begun
<1> QED BY <1>2, <1>3, <1>4 DEF Received

\* A chunk the pod has: the next one, or the end.
LEMMA ChunkDoneKeeps ==
  ASSUME Types, Types', Received, ChunksOnce, ~unanswered, ~unanswered', ~resent', at \in {"chunk", "status"}, ChunkDone,
         stage' = stage, off \in stage.got, Absent(Wired', "chunk"), Absent(Wired', "status")
  PROVE  Received'
<1>1. \A x \in Range(toPod') \cup Range(toHost') : x.c # "chunk" /\ x.c # "status"
  BY WiredIs2
<1>2. ~Asked("chunk")' /\ \A x \in Range(toHost') : Right(x)'
  BY <1>1 DEF Asked, Right
<1>3. ~Beginning'
  BY DoneIs DEF Beginning
<1>4. off \in Nat \ {0} /\ Chunks \in Nat /\ off \in 1 .. Chunks
  <2>1. off \in 1 .. Chunks /\ Chunks \in Nat
    BY Bounds DEF Types
  <2> QED BY <2>1
<1>5. stage.got \subseteq 1 .. off /\ (stage # Idle => 1 .. (off - 1) \subseteq stage.got)
  BY DEF Received
<1>6. stage # Idle
  BY IdleNow
<1>7. /\ off + 1 \notin stage.got /\ stage.got \subseteq 1 .. (off + 1)
      /\ 1 .. ((off + 1) - 1) \subseteq stage.got /\ stage.got = 1 .. off
  BY <1>4, <1>5, <1>6, NextChunk
<1>8. CASE off < Chunks
  <2>1. off' = off + 1 /\ at' = "chunk"
    BY <1>8, DoneIs
  <2>2. stage'.got \subseteq 1 .. off' /\ off' \notin stage'.got /\ 1 .. (off' - 1) \subseteq stage'.got
    BY <1>7, <2>1
  <2> QED BY <1>2, <1>3, <2>1, <2>2 DEF Received
<1>9. CASE ~(off < Chunks)
  <2>1. off = Chunks
    BY <1>4, <1>9, LastOne
  <2>2. at' = "end" /\ stage'.got = 1 .. Chunks
    BY <1>7, <1>9, <2>1, DoneIs
  <2> QED BY <1>3, <2>2 DEF Received
<1> QED BY <1>8, <1>9

\* A chunk the pod does not have: it is sent again.
LEMMA ChunkAgainKeeps ==
  ASSUME Types, Types', Received, ~unanswered, ~unanswered', ~resent', at \in {"chunk", "status"}, ChunkAgain,
         stage' = stage, off \notin stage.got, Absent(Wired', "chunk"), Absent(Wired', "status")
  PROVE  Received'
<1>1. \A x \in Range(toPod') \cup Range(toHost') : x.c # "chunk" /\ x.c # "status"
  BY WiredIs2
<1>2. ~Asked("chunk")' /\ \A x \in Range(toHost') : Right(x)'
  BY <1>1 DEF Asked, Right
<1>3. CASE at' = "chunk" /\ off' = off
  BY <1>2, <1>3 DEF Received, Beginning
<1>4. CASE at' = "done"
  BY <1>4 DEF Received, Beginning
<1>5. (at' = "chunk" /\ off' = off) \/ at' = "done"
  BY AgainIs, FailIs
<1> QED BY <1>3, <1>4, <1>5

\* An answer is understood.
LEMMA ReceivedReceive ==
  ASSUME Types, Types', Control, Once, ChunksOnce, ChunksOnce', Received, Receive
  PROVE  Received'
<1> SUFFICES ASSUME ~unanswered' PROVE Received'
  BY DEF Received
<1>1. PICK n \in DOMAIN toHost :
        /\ toHost[n] \in Range(toHost) /\ toHost[n].c = Wire(at) /\ Understand(toHost[n])
        /\ UNCHANGED <<pod, past>> /\ Range(toHost') \subseteq Range(toHost)
        /\ toPod' = toPod =>
                /\ Thins(Wired, Wired')
                /\ Single(Wired, Wire(at)) => Absent(Wired', Wire(at))
                /\ \A c : Ordered(Wired, c, Wire(at)) => Absent(Wired', c)
  BY CutIs
<1> HIDE DEF Wired
<1>2. stage' = stage /\ ~unanswered /\ resent' = resent /\ ~resent
  BY <1>1 DEF pod, past, Received
<1>3. /\ at \in Phases \ {"wait"} /\ at' \in Goes(at) /\ sent' = FALSE
      /\ at' # "done" => toPod' = toPod
  BY HostGoes
<1>4. CASE at' = "done"
  BY <1>2, <1>4 DEF Received, Beginning
<1>5. CASE at' # "done"
  <2> DEFINE a == toHost[n]
  <2>1. \A c : Absent(Wired, c) => Absent(Wired', c)
    BY <1>1, <1>3, <1>5, Kept
  <2>2. Absent(Wired', "chunk") /\ Absent(Wired', "status")
    <3>1. CASE at = "chunk"
      BY <1>1, <1>2, <1>3, <1>5, <2>1, <3>1 DEF ChunksOnce, Wire
    <3>2. CASE at = "status"
      BY <1>1, <1>2, <1>3, <1>5, <2>1, <3>2 DEF ChunksOnce, Wire
    <3>3. CASE at \notin {"chunk", "status"}
      BY <1>2, <1>3, <2>1, <3>3 DEF ChunksOnce, Phases
    <3> QED BY <3>1, <3>2, <3>3
  <2>3. CASE at \in {"list", "probe", "half0", "half1", "clear", "commit"}
    <3>1. at' \in {"begin", "probe", "half0", "half1", "clear", "wait"}
      BY <1>3, <1>5, <2>3 DEF Goes
    <3>2. at' = "begin" => Absent(Wired', "begin")
      <4>1. at # "commit" => Absent(Wired, "begin")
        BY <2>3 DEF Once
      <4>2. at = "commit" => Absent(Wired, "begin")
        BY DEF Once
      <4> QED BY <2>1, <4>1, <4>2
    <3>3. ~Beginning'
      <4>1. Absent(Wired', "begin") => \A x \in Range(toPod') \cup Range(toHost') : x.c # "begin"
        BY WiredIs2
      <4> QED BY <3>1, <3>2, <4>1 DEF Beginning, Ok
    <3> QED BY <1>2, <3>1, <3>3 DEF Received
  <2>4. CASE at = "begin"
    <3>1. Ok("begin") /\ at' \in {"query", "chunk"} /\ off' = off
      BY <1>5, <2>4, BeginIs
    <3>2. stage'.got = {} /\ off' = 1
      BY <1>2, <2>4, <3>1 DEF Received, Beginning, Control
    <3>3. CASE at' = "chunk"
      BY <1>2, <2>2, <3>2, <3>3, Fresh
    <3>4. CASE at' = "query"
      BY <1>2, <3>2, <3>4 DEF Received
    <3> QED BY <3>1, <3>3, <3>4
  <2>5. CASE at = "query"
    <3>1. at' = "chunk" /\ off' = off
      BY <1>1, <2>5 DEF Understand, Goto, Keep
    <3>2. stage'.got = {} /\ off' = 1
      BY <1>2, <2>5, <3>1 DEF Received, Beginning, Control
    <3> QED BY <1>2, <2>2, <3>1, <3>2, Fresh
  <2>6. CASE at = "chunk"
    <3>1. off \in stage.got <=> a.r = "ok"
      BY <1>1, <1>2, <2>6 DEF Received, Right, Wire
    <3>2. CASE a.r = "ok"
      <4>1. ChunkDone
        BY <1>1, <2>6, <3>2 DEF Understand
      <4> QED BY <1>2, <2>2, <2>6, <3>1, <3>2, <4>1, ChunkDoneKeeps
    <3>3. CASE a.r # "ok"
      <4>1. ChunkAgain
        BY <1>1, <1>5, <2>6, <3>3, FailIs DEF Understand
      <4> QED BY <1>2, <2>2, <2>6, <3>1, <3>3, <4>1, ChunkAgainKeeps
    <3> QED BY <3>2, <3>3
  <2>7. CASE at = "status"
    <3>1. off \in stage.got <=> a.k >= off
      BY <1>1, <1>2, <2>7 DEF Received, Right, Wire
    <3>2. IF HasAll(a.k) THEN ChunkDone ELSE ChunkAgain
      BY <1>1, <2>7 DEF Understand
    <3>3. CASE HasAll(a.k)
      <4>1. ChunkDone /\ off \in stage.got
        BY <3>1, <3>2, <3>3 DEF HasAll
      <4> QED BY <1>2, <2>2, <2>7, <4>1, ChunkDoneKeeps
    <3>4. CASE ~HasAll(a.k)
      <4>1. ChunkAgain /\ off \notin stage.got
        BY <3>1, <3>2, <3>4 DEF HasAll
      <4> QED BY <1>2, <2>2, <2>7, <4>1, ChunkAgainKeeps
    <3> QED BY <3>3, <3>4
  <2>8. CASE at = "end"
    <3>1. at' = "commit"
      BY <1>3, <1>5, <2>8 DEF Goes
    <3> QED BY <1>2, <2>8, <3>1 DEF Received, Beginning
  <2> QED BY <1>3, <2>3, <2>4, <2>5, <2>6, <2>7, <2>8 DEF Phases
<1> QED BY <1>4, <1>5

\* What the pod does with the stage and the wire, for what the host has gone past.
LEMMA ReceivedPod ==
  ASSUME Types, Types', Once, ChunksOnce, Received, Pod
  PROVE  Received'
<1> SUFFICES ASSUME ~unanswered' PROVE Received'
  BY DEF Received
<1>1. /\ UNCHANGED host /\ Head(toPod) \in Range(toPod) /\ Head(toPod) \in Asks
      /\ toPod' = Tail(toPod) /\ toPod # <<>>
  BY PodDoes
<1>2. UNCHANGED <<at, sent, off>>
  BY <1>1 DEF host
<1>3. \A x \in Range(toPod') : x \in Range(toPod)
  BY <1>1, WiredIs, RangeFacts
<1>4. Asked("chunk")' => Asked("chunk")
  BY <1>3 DEF Asked
<1> DEFINE m == Head(toPod)
<1>5. PICK a \in Tells :
              /\ a.c = m.c
              /\ Range(toHost') \subseteq Range(toHost) \cup {a}
              /\ a.c = "abort" => toHost' = toHost
              /\ Obeyed(m, a) \/ Refused(m, a) \/ AskedAgain(m, a)
  BY PodDoes
<1>6. m \in Range(toPod) /\ m.c \in Words
  BY <1>1 DEF Asks
<1> HIDE DEF m
<1>7. ~unanswered /\ ~resent'
  <2>1. unanswered' = unanswered /\ resent' = resent
    BY <1>5 DEF Obeyed, Refused, AskedAgain, past
  <2> QED BY <2>1 DEF Received
<1>8. \A x \in Range(toHost') : x \in Range(toHost) \/ x = a
  BY <1>5
<1>9. ASSUME stage' = stage, at \in {"chunk", "status"} => Right(a), a.c # "begin" \/ a.r # "ok"
      PROVE  Received'
  <2>1. Beginning' => Beginning
    BY <1>2, <1>8, <1>9 DEF Beginning, Ok
  <2>2. at \in {"chunk", "status"} => \A x \in Range(toHost') : Right(x)'
    BY <1>2, <1>7, <1>8, <1>9 DEF Received, Right
  <2> QED BY <1>2, <1>4, <1>7, <1>9, <2>1, <2>2 DEF Received
<1>10. ASSUME Absent(Wired, m.c) PROVE FALSE
  BY <1>6, <1>10, WiredIs
<1>11. CASE Obeyed(m, a)
  <2>1. CASE m.c \in {"list", "sig", "half"}
    <3>1. stage' = stage
      BY <1>11, <2>1 DEF Obeyed
    <3> QED BY <1>5, <1>9, <2>1, <3>1 DEF Right
  <2>2. CASE m.c = "status"
    <3>1. stage' = stage /\ a.k = Max(stage.got \cup {0})
      BY <1>11, <2>2 DEF Obeyed
    <3>2. at \in {"chunk", "status"} => (off \in stage.got <=> a.k >= off)
      <4>1. SUFFICES ASSUME at \in {"chunk", "status"} PROVE off \in stage.got <=> a.k >= off
        OBVIOUS
      <4>2. /\ a.k \in stage.got \cup {0} /\ a.k \in Nat
            /\ \A x \in stage.got : x <= a.k
        BY <3>1, GotIs
      <4>3. stage.got \subseteq 1 .. off
        BY <1>7, <4>1 DEF Received
      <4>4. off \in Nat \ {0}
        <5>1. off \in 1 .. Chunks /\ Chunks \in Nat
          BY Bounds DEF Types
        <5> QED BY <5>1
      <4>5. off \in stage.got => a.k >= off
        BY <4>2, <4>4
      <4>6. a.k >= off => a.k \in stage.got /\ a.k = off
        BY <4>2, <4>3, <4>4
      <4> QED BY <4>5, <4>6
    <3> QED BY <1>5, <1>9, <2>2, <3>1, <3>2 DEF Right
  <2>3. CASE m.c = "begin"
    <3>1. at \in {"begin", "done"}
      BY <1>10, <2>3 DEF Once
    <3>2. stage'.got = {}
      BY <1>11, <2>3 DEF Obeyed
    <3> QED BY <1>2, <1>7, <3>1, <3>2 DEF Received
  <2>4. CASE m.c = "chunk"
    <3>1. stage' = [stage EXCEPT !.got = @ \cup {m.k}] /\ stage.state = "receiving" /\ a.r = "ok"
      BY <1>11, <2>4 DEF Obeyed
    <3>2. at \in {"chunk", "status", "done"}
      BY <1>7, <1>10, <2>4 DEF ChunksOnce
    <3>3. CASE at = "done"
      BY <1>2, <1>7, <3>3 DEF Received, Beginning
    <3>4. CASE at \in {"chunk", "status"}
      <4>1. m.k = off
        BY <1>6, <1>7, <2>4, <3>4 DEF ChunksOnce
      <4>2. stage'.got = stage.got \cup {off}
        BY <3>1, <4>1 DEF Types
      <4>3. stage # Idle
        BY <3>1, IdleNow
      <4>4. off \in 1 .. off
        <5>1. off \in 1 .. Chunks /\ Chunks \in Nat
          BY Bounds DEF Types
        <5> QED BY <5>1
      <4>5. sent \/ at # "chunk"
        BY <1>7, <1>10, <2>4 DEF ChunksOnce
      <4>6. \A x \in Range(toHost) \cup Range(toPod') : x.c # "chunk"
        <5>1. Single(toHost \o toPod, "chunk")
          BY <1>7, <3>4 DEF ChunksOnce, Wired
        <5> QED BY <1>1, <2>4, <5>1, WiredIs, HeadFacts DEF m
      <4>7. at = "status" => \A x \in Range(toHost) : x.c # "status"
        <5>1. SUFFICES ASSUME at = "status" PROVE \A x \in Range(toHost) : x.c # "status"
          OBVIOUS
        <5>2. Ordered(toHost \o toPod, Head(toPod).c, "status")
          <6>1. Head(toPod).c = "chunk"
            BY <2>4 DEF m
          <6>2. Ordered(toHost \o toPod, "chunk", "status")
            BY <1>7, <5>1 DEF ChunksOnce, Wired
          <6> HIDE DEF Ordered
          <6> QED BY <6>1, <6>2
        <5> HIDE DEF Ordered
        <5> QED BY <1>1, <5>2, WiredIs, HeadFirst
      <4>8. ~Asked("chunk")'
        BY <4>6 DEF Asked
      <4>9. \A x \in Range(toHost') : Right(x)'
        BY <1>2, <1>5, <1>8, <2>4, <3>1, <4>2, <4>6, <4>7 DEF Right
      <4> QED BY <1>2, <1>7, <3>4, <4>2, <4>3, <4>4, <4>5, <4>8, <4>9 DEF Received, Beginning
    <3> QED BY <3>2, <3>3, <3>4
  <2>5. CASE m.c = "end"
    <3>1. stage'.got = stage.got /\ stage # Idle
      <4>1. stage' = [stage EXCEPT !.state = "verified"] /\ stage.got = 1 .. Chunks
        BY <1>11, <2>5 DEF Obeyed
      <4>2. 1 .. Chunks # {}
        BY Bounds
      <4> QED BY <4>1, <4>2, IdleNow DEF Types
    <3>3. Beginning' => Beginning
      BY <1>2, <1>5, <1>8, <2>5 DEF Beginning, Ok
    <3>4. at \in {"chunk", "status"} => \A x \in Range(toHost') : Right(x)'
      BY <1>2, <1>5, <1>7, <1>8, <2>5, <3>1 DEF Received, Right
    <3> QED BY <1>2, <1>4, <1>7, <3>1, <3>3, <3>4 DEF Received
  <2>6. CASE m.c \in {"commit", "abort"}
    <3>1. at \notin {"chunk", "status"}
      BY <1>10, <2>6 DEF Once
    <3>2. stage' = Idle /\ stage'.got = {}
      BY <1>11, <2>6, IdleNow DEF Obeyed
    <3> QED BY <1>2, <1>7, <3>1, <3>2 DEF Received
  <2> QED BY <1>6, <2>1, <2>2, <2>3, <2>4, <2>5, <2>6 DEF Words
<1>12. CASE Refused(m, a) \/ AskedAgain(m, a)
  <2>1. stage' = stage /\ a.r # "ok" /\ a.c # "status"
    BY <1>5, <1>12 DEF Refused, AskedAgain, pod
  <2>2. at \in {"chunk", "status"} /\ m.c = "chunk" => off \notin stage.got
    BY <1>6, <1>7 DEF Received, Asked
  <2> QED BY <1>5, <1>9, <2>1, <2>2 DEF Right
<1> QED BY <1>5, <1>11, <1>12

LEMMA ReceivedStep == Types /\ Types' /\ Control /\ Once /\ ChunksOnce /\ ChunksOnce' /\ Received
                      /\ [UploadNext]_uploadVars => Received'
<1> SUFFICES ASSUME Types, Types', Control, Once, ChunksOnce, ChunksOnce', Received, [UploadNext]_uploadVars,
                    ~unanswered'
             PROVE  Received'
  BY DEF Received
<1> HIDE DEF Wired
<1>0. ~unanswered /\ ~resent
  BY Ever DEF Received
<1>1. ASSUME UNCHANGED <<at, sent, off, stage, resent>>,
             Range(toHost') \subseteq Range(toHost), Range(toPod') \subseteq Range(toPod)
      PROVE  Received'
  <2>1. (Asked("chunk")' => Asked("chunk")) /\ (Ok("begin")' => Ok("begin"))
    BY <1>1 DEF Asked, Ok
  <2>2. Beginning' => Beginning
    BY <1>1, <2>1 DEF Beginning
  <2>3. \A x \in Range(toHost') : x \in Range(toHost) /\ (Right(x) => Right(x)')
    BY <1>1 DEF Right
  <2> QED BY <1>0, <1>1, <2>1, <2>2, <2>3 DEF Received
<1>2. CASE Send
  <2>1. UNCHANGED <<at, off, stage, toHost>> /\ ~sent
    BY <1>2, SendIs DEF Send, pod, Keep
  <2>2. resent' = (resent \/ (at = "chunk" /\ stage.item = item /\ off \in stage.got))
    BY <1>2, SendIs
  <2>3. at = "chunk" => off \notin stage.got
    BY <1>0, <2>1 DEF Received
  <2>4. ~resent'
    BY <1>0, <2>2, <2>3
  <2>5. PICK m \in Asks : m.c = Wire(at) /\ Range(toPod') = Range(toPod) \cup {m}
    BY <1>2, SendIs
  <2>6. Asked("chunk")' => Asked("chunk") \/ at # "status"
    BY <2>5 DEF Asked, Wire
  <2>7. Beginning' = Beginning /\ \A x \in Range(toHost') : Right(x)' = Right(x)
    BY <2>1 DEF Beginning, Ok, Right
  <2>8. Range(toHost') = Range(toHost)
    BY <2>1
  <2>9. at \in {"chunk", "status"} => \A x \in Range(toHost') : Right(x)'
    BY <1>0, <2>1 DEF Received, Right
  <2> QED BY <1>0, <2>1, <2>3, <2>4, <2>6, <2>7, <2>8, <2>9 DEF Received
<1>3. CASE Receive
  BY <1>3, ReceivedReceive
<1>4. CASE TimeOut
  <2>1. /\ UNCHANGED <<toHost, pod, resent, off>> /\ at \in Phases \ {"wait"} /\ sent' = FALSE
        /\ \/ at' \in Late(at) /\ toPod' = toPod
           \/ at' = "done"
        /\ at # "status"
    <3>1. unanswered' = (unanswered \/ at = "status")
      BY <1>4, LateIs
    <3> QED BY <1>4, <3>1, LateIs, FailIs
  <2>2. stage' = stage
    BY <2>1 DEF pod
  <2>3. CASE at' = "done"
    BY <1>0, <2>1, <2>3 DEF Received, Beginning
  <2>4. CASE at' \in Late(at) /\ toPod' = toPod
    <3>1. Wired' = Wired
      BY <2>1, <2>4, WiredSame
    <3>2. CASE at \in {"probe", "half0", "half1", "clear"}
      <4>1. Absent(Wired, "begin")
        BY <3>2 DEF Once
      <4>2. ~Ok("begin")'
        BY <2>1, <4>1, WiredIs DEF Ok
      <4>3. at' \in {"begin", "clear"}
        BY <2>4, <3>2 DEF Late
      <4> QED BY <1>0, <2>1, <4>2, <4>3 DEF Received, Beginning
    <3>3. CASE at = "query"
      <4>1. at' = "chunk" /\ stage'.got = {} /\ off' = 1
        BY <1>0, <2>1, <2>2, <2>4, <3>3 DEF Received, Beginning, Control, Late
      <4>2. Absent(Wired', "chunk") /\ Absent(Wired', "status")
        BY <1>0, <3>1, <3>3 DEF ChunksOnce
      <4> QED BY <1>0, <2>1, <4>1, <4>2, Fresh
    <3>4. CASE at = "chunk"
      <4>1. at' = "status"
        BY <2>4, <3>4 DEF Late
      <4>2. \A x \in Range(toHost) : x.c # "status"
        <5>1. Absent(Wired, "status")
          BY <1>0, <3>4 DEF ChunksOnce
        <5> QED BY <5>1, WiredIs
      <4>3. \A x \in Range(toHost) : Right(x)
        BY <1>0, <3>4 DEF Received
      <4>4. \A x \in Range(toHost') : Right(x)'
        BY <2>1, <2>2, <4>2, <4>3 DEF Right
      <4>5. Asked("chunk")' => Asked("chunk")
        BY <2>4 DEF Asked
      <4> QED BY <1>0, <2>1, <2>2, <3>4, <4>1, <4>4, <4>5 DEF Received, Beginning
    <3>5. CASE at = "commit"
      <4>1. at' = "wait"
        BY <2>4, <3>5 DEF Late
      <4> QED BY <1>0, <2>1, <4>1 DEF Received, Beginning
    <3> QED BY <2>1, <2>4, <3>2, <3>3, <3>4, <3>5 DEF Late, Phases
  <2> QED BY <2>1, <2>3, <2>4
<1>5. CASE PodIsBack
  <2>1. at' = "list" /\ UNCHANGED past
    BY <1>5, BackIs
  <2> QED BY <1>0, <2>1 DEF Received, Beginning, past
<1>6. CASE PodStaysAway
  <2>1. at' = "done" /\ UNCHANGED past
    BY <1>6, FailIs DEF PodStaysAway
  <2> QED BY <1>0, <2>1 DEF Received, Beginning, past
<1>7. CASE CtxEnds \/ UNCHANGED uploadVars
  <2>1. UNCHANGED <<at, sent, off, stage, resent, toPod, toHost>>
    BY <1>7 DEF CtxEnds, uploadVars, host, wires, pod, past
  <2> QED BY <1>1, <2>1
<1>8. CASE Pod
  BY <1>8, ReceivedPod
<1>9. CASE PodRestarts
  <2>1. UNCHANGED <<host, resent>> /\ toPod' = <<>> /\ toHost' = <<>> /\ Range(<<>>) = {} /\ stage' = Idle
    BY <1>9 DEF PodRestarts, Range
  <2>2. Range(toPod') = {} /\ Range(toHost') = {} /\ stage'.got = {}
    BY <2>1, IdleNow
  <2>3. UNCHANGED <<at, sent, off>>
    BY <2>1 DEF host
  <2> QED BY <1>0, <2>1, <2>2, <2>3 DEF Received, Asked
<1>10. CASE Lose
  <2>1. UNCHANGED <<host, pod, resent>> /\ Range(toHost') \subseteq Range(toHost) /\ Range(toPod') \subseteq Range(toPod)
    BY <1>10, LoseIs
  <2>2. UNCHANGED <<at, sent, off, stage>>
    BY <2>1 DEF host, pod
  <2> QED BY <1>1, <2>1, <2>2
<1> QED BY <1>2, <1>3, <1>4, <1>5, <1>6, <1>7, <1>8, <1>9, <1>10 DEF UploadNext, Host

-----------------------------------------------------------------------------
(* On a console that answers in time, what is lost is counted.             *)

Smooth == ~lan /\ ~trouble /\ Prompt

\* Every answer is a good one or counts as lost, so attempts do not outnumber losses.
Counted == Smooth /\ ~lostOther =>
  /\ \A x \in Range(toHost) :
       /\ x.c \in {"begin", "end", "commit"} => x.r = "ok"
       /\ x.c = "chunk" => x.r \in {"ok", "retry"}
       /\ x.c = "chunk" /\ x.r = "retry" /\ at = "chunk" => lost >= try
  /\ sent /\ at # "chunk" => Wired # <<>>
  /\ at = "chunk" => lost + 1 >= try
  /\ at = "chunk" /\ sent /\ Wired = <<>> => lost >= try
  /\ at = "status" => lost >= try
  /\ exit = "error" => lost >= Attempts

\* Sums the counts of lost messages and attempts come down to.
LEMMA Counting ==
  /\ \A l, t \in Nat : l >= t => l + 1 >= t + 1
  /\ \A l, t \in Nat : l >= t => l + 1 >= t
  /\ \A l \in Nat : l + 1 >= 1
OBVIOUS

\* A chunk sent again is one more message lost.
LEMMA AgainCounts ==
  ASSUME Types, ChunkAgain, lost >= try, lost' = lost
  PROVE  /\ at' = "chunk" => lost' + 1 >= try'
         /\ at' \in {"chunk", "done"}
         /\ exit' = exit \/ lost' >= Attempts
<1>1. lost \in Nat /\ try \in Nat
  <2>1. lost \in 0 .. MaxLost /\ try \in 1 .. Attempts /\ MaxLost \in Nat /\ Attempts \in Nat
    BY Bounds DEF Types
  <2> QED BY <2>1
<1>2. CASE Fail(TRUE)
  <2>1. CASE try = Attempts
    BY <1>2, <2>1, FailIs
  <2>2. CASE try # Attempts
    BY <1>2, <2>2, AgainIs, FailIs
  <2> QED BY <2>1, <2>2
<1>3. CASE ~Fail(TRUE)
  <2>1. try' = try + 1 /\ at' = "chunk" /\ exit' = exit
    BY <1>3, AgainIs
  <2>2. lost + 1 >= try + 1
    BY <1>1, Counting
  <2> QED BY <2>1, <2>2
<1> QED BY <1>2, <1>3

\* An answer is understood.
LEMMA CountedReceive ==
  ASSUME Types, Types', Control, OneAtATime, Counted, Receive, Smooth, ~lostOther
  PROVE  Counted'
<1>1. PICK n \in DOMAIN toHost :
        /\ toHost[n] \in Range(toHost) /\ toHost[n].c = Wire(at) /\ Understand(toHost[n])
        /\ UNCHANGED past
        /\ Alone(Wired) => toHost' = <<>> /\ toPod = <<>>
  BY CutIs
<1> HIDE DEF Wired
<1> DEFINE a == toHost[n]
<1>2. Alone(Wired)
  BY DEF OneAtATime, Smooth
<1>3. toHost' = <<>> /\ Range(toHost') = {}
  <2>1. Range(<<>>) = {}
    BY DEF Range
  <2> QED BY <1>1, <1>2, <2>1
<1>4. at \in Phases \ {"wait"} /\ at' \in Goes(at) /\ sent' = FALSE /\ exit = "" /\ ~flash
  BY HostGoes DEF Control, Phases, Smooth
<1>5. lost' = lost /\ lost \in Nat
  <2>1. lost \in 0 .. MaxLost /\ MaxLost \in Nat
    BY Bounds DEF Types
  <2> QED BY <1>1, <2>1 DEF past
<1>6. ASSUME at' = "chunk" => lost' + 1 >= try', at' # "status", exit' = "error" => lost' >= Attempts
      PROVE  Counted'
  BY <1>3, <1>4, <1>6 DEF Counted
<1>7. ASSUME at' \notin {"chunk", "status"}, exit' # "error" PROVE Counted'
  BY <1>6, <1>7
<1>8. CASE at = "list"
  <2>1. a.r \in SUBSET (1 .. Blobs) /\ NextBlob(a.r, installed, sup)
    BY <1>1, <1>8 DEF Understand, Types, Wire
  <2>2. exit' = "ok" \/ exit' = exit
    BY <2>1, NextBlobIs
  <2>3. at' \notin {"chunk", "status"}
    BY <1>4, <1>8 DEF Goes
  <2> QED BY <1>4, <1>7, <2>2, <2>3
<1>9. CASE at \in {"probe", "half0", "half1", "clear"}
  <2>1. exit' = exit
    BY <1>1, <1>9 DEF Understand, HalfFailed, Keep
  <2>2. at' \notin {"chunk", "status"}
    BY <1>4, <1>9 DEF Goes
  <2> QED BY <1>4, <1>7, <2>1, <2>2
<1>10. CASE at = "begin"
  <2>1. a.r = "ok"
    BY <1>1, <1>10 DEF Counted, Wire
  <2>2. exit' = exit /\ try' = try /\ at' \in {"query", "chunk"}
    BY <1>1, <1>10, <2>1 DEF Understand, Goto, Keep
  <2>3. try = 1
    BY <1>10 DEF Control
  <2> QED BY <1>4, <1>5, <1>6, <2>2, <2>3, Counting
<1>11. CASE at = "query"
  <2>1. exit' = exit /\ try' = try /\ at' = "chunk"
    BY <1>1, <1>11 DEF Understand, Goto, Keep
  <2>2. try = 1
    BY <1>11 DEF Control
  <2> QED BY <1>4, <1>5, <1>6, <2>1, <2>2, Counting
<1>12. ASSUME ChunkDone PROVE Counted'
  <2>1. try' = 1 /\ exit' = exit /\ at' # "status"
    BY <1>12, DoneIs
  <2> QED BY <1>4, <1>5, <1>6, <2>1, Counting
<1>13. ASSUME ChunkAgain, lost >= try PROVE Counted'
  <2>1. /\ at' = "chunk" => lost' + 1 >= try'
        /\ at' \in {"chunk", "done"}
        /\ exit' = exit \/ lost' >= Attempts
    BY <1>5, <1>13, AgainCounts
  <2> QED BY <1>4, <1>6, <2>1
<1>14. CASE at = "chunk"
  <2>1. a.r \in {"ok", "retry"} /\ (a.r = "retry" => lost >= try)
    BY <1>1, <1>14 DEF Counted, Wire
  <2>2. CASE a.r = "ok"
    BY <1>1, <1>12, <1>14, <2>2 DEF Understand
  <2>3. CASE a.r = "retry"
    BY <1>1, <1>13, <1>14, <2>1, <2>3 DEF Understand
  <2> QED BY <2>1, <2>2, <2>3
<1>15. CASE at = "status"
  <2>1. lost >= try
    BY <1>15 DEF Counted
  <2> QED BY <1>1, <1>12, <1>13, <1>15, <2>1 DEF Understand
<1>16. CASE at = "end"
  <2>1. a.r = "ok"
    BY <1>1, <1>16 DEF Counted, Wire
  <2>2. exit' = exit /\ at' = "commit"
    BY <1>1, <1>16, <2>1 DEF Understand, Goto, Keep
  <2> QED BY <1>4, <1>7, <2>2
<1>17. CASE at = "commit"
  <2>1. a.r = "ok"
    BY <1>1, <1>17 DEF Counted, Wire
  <2>2. item # 0
    BY <1>4, <1>17 DEF Control
  <2>3. NextBlob(missing \ {item}, installed \cup {item}, sup)
    BY <1>1, <1>17, <2>1, <2>2 DEF Understand, GoodCommit
  <2>4. missing \ {item} \in SUBSET (1 .. Blobs)
    BY DEF Types
  <2>5. exit' = "ok" \/ exit' = exit
    BY <2>3, <2>4, NextBlobIs
  <2>6. at' \notin {"chunk", "status"}
    BY <1>4, <1>17 DEF Goes
  <2> QED BY <1>4, <1>7, <2>5, <2>6
<1> QED BY <1>4, <1>8, <1>9, <1>10, <1>11, <1>14, <1>15, <1>16, <1>17 DEF Phases

LEMMA CountedStep == Types /\ Types' /\ Control /\ Waits /\ OneAtATime /\ Counted
                     /\ [UploadNext]_uploadVars => Counted'
<1> SUFFICES ASSUME Types, Types', Control, Waits, OneAtATime, Counted, [UploadNext]_uploadVars,
                    Smooth', ~lostOther'
             PROVE  Counted'
  BY DEF Counted
<1> HIDE DEF Wired
<1>0. Smooth /\ ~lostOther /\ ~lan /\ Prompt /\ ~trouble /\ Prompt' /\ ~trouble'
  BY Ever DEF Smooth
<1>1. lost \in Nat /\ try \in Nat /\ Attempts \in Nat /\ ~broken /\ ~flash
  <2>1. lost \in 0 .. MaxLost /\ try \in 1 .. Attempts /\ MaxLost \in Nat /\ Attempts \in Nat
    BY Bounds DEF Types
  <2>2. ~broken /\ ~flash
    BY <1>0 DEF Control
  <2>3. lost \in Nat /\ try \in Nat /\ Attempts \in Nat
    BY <2>1
  <2> QED BY <2>2, <2>3
<1>2. lost' = lost \/ lost' = lost + 1
  BY Ever
<1>3. lost' \in Nat /\ (\A k \in Nat : lost >= k => lost' >= k) /\ (\A k \in Nat : lost + 1 >= k => lost' + 1 >= k)
  BY <1>1, <1>2
<1>4. CASE Send
  <2>1. UNCHANGED <<at, try, exit, toHost, lost>>
    BY <1>4 DEF Send, Keep
  <2>2. Wired' # <<>>
    BY <1>4, SendIs
  <2>3. Range(toHost') = Range(toHost)
    BY <2>1
  <2> QED BY <1>0, <2>1, <2>2, <2>3 DEF Counted
<1>5. CASE Receive
  BY <1>0, <1>5, CountedReceive
<1>6. CASE TimeOut
  <2>1. sent /\ Wired = <<>>
    BY <1>0, <1>6, NothingComes
  <2>2. at = "chunk" /\ lost >= try
    BY <1>0, <2>1 DEF Counted
  <2>3. ~ctxDone
    BY <1>0 DEF Prompt
  <2>4. Goto("status") /\ Keep /\ UNCHANGED toPod
    BY <1>0, <1>6, <2>2, <2>3 DEF TimeOut
  <2>5. at' = "status" /\ sent' = FALSE /\ exit' = exit /\ try' = try
    BY <2>4 DEF Goto, Keep
  <2>6. toHost' = toHost /\ Range(toHost') = Range(toHost) /\ lost' = lost
    BY <1>6 DEF TimeOut
  <2> QED BY <1>0, <2>2, <2>5, <2>6 DEF Counted
<1>7. CASE PodIsBack \/ PodStaysAway
  <2>1. at = "wait"
    BY <1>7 DEF PodIsBack, PodStaysAway
  <2> QED BY <1>0, <2>1 DEF Waits
<1>8. CASE CtxEnds \/ UNCHANGED uploadVars
  <2>1. UNCHANGED <<at, sent, try, exit, toPod, toHost, lost>>
    BY <1>8 DEF CtxEnds, uploadVars, host, wires, past
  <2>2. Wired' = Wired /\ Range(toHost') = Range(toHost)
    BY <2>1, WiredSame
  <2> QED BY <1>0, <2>1, <2>2 DEF Counted
<1>9. CASE Pod
  <2>1. UNCHANGED host /\ Head(toPod) \in Range(toPod) /\ Head(toPod) \in Asks
    BY <1>9, PodDoes
  <2>2. UNCHANGED <<at, sent, try, exit>>
    BY <2>1 DEF host
  <2> DEFINE m == Head(toPod)
  <2>3. PICK a \in Tells :
              /\ a.c = m.c
              /\ Range(toHost') \subseteq Range(toHost) \cup {a}
              /\ ~broken /\ a.c # "abort" => a \in Range(toHost')
              /\ Obeyed(m, a) \/ Refused(m, a) \/ AskedAgain(m, a)
    BY <1>9, PodDoes
  <2>4. m \in Range(toPod)
    BY <2>1
  <2> HIDE DEF m
  <2>5. a.c = "abort" => at = "done"
    <3>1. a.c = "abort" => ~(sent /\ Only(Wired, Wire(at))) /\ Wired # <<>>
      <4>1. ~Absent(Wired, a.c)
        BY <2>3, <2>4, WiredIs
      <4>2. Wired # <<>>
        BY <4>1, AbsentIs
      <4>3. sent => at \in Phases
        BY DEF Types, Control
      <4>4. sent => Wire(at) # "abort"
        BY <4>3 DEF Wire, Phases
      <4>5. Only(Wired, Wire(at)) => a.c = Wire(at)
        BY <2>3, <2>4, WiredIs
      <4> QED BY <4>2, <4>4, <4>5
    <3> QED BY <1>0, <3>1 DEF OneAtATime, Waits
  <2>6. at # "done" => Wired' # <<>>
    <3>1. at # "done" => a \in Range(toHost')
      BY <1>1, <2>3, <2>5
    <3>2. toHost' = <<>> => Range(toHost') = {}
      BY DEF Range
    <3> QED BY <3>1, <3>2, WiredIs2
  <2>7. sent => at # "done"
    BY DEF Control
  <2>8. /\ a.c \in {"begin", "end", "commit"} => a.r = "ok"
        /\ a.c = "chunk" => a.r \in {"ok", "retry"}
        /\ a.c = "chunk" /\ a.r = "retry" => lost' = lost + 1
    BY <1>0, <2>3 DEF Obeyed, Refused, AskedAgain
  <2>9. a.c = "chunk" /\ a.r = "retry" /\ at = "chunk" => lost' >= try
    BY <1>0, <2>8 DEF Counted
  <2>10. \A x \in Range(toHost') :
           /\ x.c \in {"begin", "end", "commit"} => x.r = "ok"
           /\ x.c = "chunk" => x.r \in {"ok", "retry"}
           /\ x.c = "chunk" /\ x.r = "retry" /\ at = "chunk" => lost' >= try
    <3>1. SUFFICES ASSUME NEW x \in Range(toHost')
                   PROVE  /\ x.c \in {"begin", "end", "commit"} => x.r = "ok"
                          /\ x.c = "chunk" => x.r \in {"ok", "retry"}
                          /\ x.c = "chunk" /\ x.r = "retry" /\ at = "chunk" => lost' >= try
      OBVIOUS
    <3>2. CASE x = a
      BY <2>8, <2>9, <3>2
    <3>3. CASE x \in Range(toHost)
      BY <1>0, <1>1, <1>3, <3>3 DEF Counted
    <3> QED BY <2>3, <3>1, <3>2, <3>3
  <2>11. /\ at = "chunk" => lost' + 1 >= try
         /\ at = "status" => lost' >= try
         /\ exit = "error" => lost' >= Attempts
    BY <1>0, <1>1, <1>3 DEF Counted
  <2> QED BY <2>2, <2>6, <2>7, <2>10, <2>11 DEF Counted
<1>10. CASE PodRestarts
  BY <1>0, <1>10 DEF PodRestarts
<1>11. CASE Lose
  <2>1. /\ UNCHANGED <<host, pod, late, trouble, unanswered, resent>> /\ lost' = lost + 1
        /\ Range(toHost') \subseteq Range(toHost)
        /\ \E m \in Range(toPod) \cup Range(toHost) : m.c = "chunk"
    BY <1>0, <1>11, LoseIs
  <2>2. UNCHANGED <<at, sent, try, exit>>
    BY <2>1 DEF host
  <2>3. sent => at = "chunk"
    <3>1. PICK m \in Range(toPod) \cup Range(toHost) : m.c = "chunk"
      BY <2>1
    <3>2. Only(Wired, Wire(at)) => Wire(at) = "chunk"
      BY <3>1, WiredIs
    <3>3. Wired # <<>>
      BY <1>11, LoseIs
    <3>4. sent => Wire(at) = "chunk" /\ at \in Phases
      BY <1>0, <3>2, <3>3 DEF OneAtATime, Control, Types
    <3> QED BY <3>4 DEF Wire, Phases
  <2>4. /\ at = "chunk" => lost' >= try
        /\ at = "chunk" => lost' + 1 >= try
        /\ at = "status" => lost' >= try
        /\ exit = "error" => lost' >= Attempts
    BY <1>0, <1>1, <1>3, <2>1 DEF Counted
  <2>5. \A x \in Range(toHost') :
           /\ x.c \in {"begin", "end", "commit"} => x.r = "ok"
           /\ x.c = "chunk" => x.r \in {"ok", "retry"}
    BY <1>0, <2>1 DEF Counted
  <2> QED BY <2>2, <2>3, <2>4, <2>5 DEF Counted
<1> QED BY <1>4, <1>5, <1>6, <1>7, <1>8, <1>9, <1>10, <1>11 DEF UploadNext, Host

-----------------------------------------------------------------------------
(* Halves of a manifest: over the network there are none.                  *)

Bare == lan => sigs = 0 /\ stage.sigs = 0 /\ ~Asked("half")

LEMMA BareStep == Types /\ Types' /\ Control /\ Bare /\ [UploadNext]_uploadVars => Bare'
<1> SUFFICES ASSUME Types, Types', Control, Bare, [UploadNext]_uploadVars, lan'
             PROVE  Bare'
  BY DEF Bare
<1> HIDE DEF Wired
<1>1. lan /\ sigs = 0 /\ stage.sigs = 0 /\ \A m \in Range(toPod) : m.c # "half"
  BY Ever DEF Bare, Asked
<1>2. ASSUME sigs' = 0, stage'.sigs = 0, \A m \in Range(toPod') : m.c # "half" PROVE Bare'
  BY <1>2 DEF Bare, Asked
<1>3. CASE Send
  <2>1. at \in Phases \ {"wait"}
    BY <1>3, SendIs
  <2>2. Wire(at) # "half"
    BY <1>1, <2>1 DEF Control, Wire, Phases
  <2>3. PICK m \in Asks : m.c = Wire(at) /\ Range(toPod') = Range(toPod) \cup {m}
    BY <1>3, SendIs
  <2>4. UNCHANGED <<sigs, stage>>
    BY <1>3 DEF Send, pod
  <2> QED BY <1>1, <1>2, <2>2, <2>3, <2>4
<1>4. CASE Receive \/ TimeOut
  <2>1. UNCHANGED <<sigs, stage>>
    BY <1>4 DEF Receive, TimeOut, pod
  <2> DEFINE r == [c |-> "abort", i |-> item, k |-> 0]
  <2>2. toPod' = toPod \/ toPod' = Append(toPod, r)
    BY <1>4, HostGoes
  <2>3. r \in Asks /\ r.c # "half" /\ toPod \in Seq(Asks)
    BY DEF Types, Asks, Words
  <2> HIDE DEF r
  <2>4. Range(toPod') \subseteq Range(toPod) \cup {r}
    BY <2>2, <2>3, RangeFacts
  <2> QED BY <1>1, <1>2, <2>1, <2>3, <2>4
<1>5. CASE PodIsBack
  <2>1. Range(toPod') = {} /\ UNCHANGED pod
    BY <1>5, BackIs
  <2> QED BY <1>1, <1>2, <2>1 DEF pod
<1>6. CASE PodStaysAway
  <2>1. toPod' = toPod /\ UNCHANGED pod
    BY <1>6 DEF PodStaysAway, Fail
  <2> QED BY <1>1, <1>2, <2>1 DEF pod
<1>7. CASE CtxEnds \/ UNCHANGED uploadVars
  <2>1. toPod' = toPod /\ UNCHANGED pod
    BY <1>7 DEF CtxEnds, uploadVars, wires
  <2> QED BY <1>1, <1>2, <2>1 DEF pod
<1>8. CASE Pod
  <2> DEFINE m == Head(toPod)
  <2>1. m \in Range(toPod) /\ m \in Asks
    BY <1>8, PodDoes
  <2>2. PICK a \in Tells : Obeyed(m, a) \/ Refused(m, a) \/ AskedAgain(m, a)
    BY <1>8, PodDoes
  <2>3. m.c # "half"
    BY <1>1, <2>1
  <2>4. Range(toPod') \subseteq Range(toPod)
    BY <1>8, Thinned
  <2> HIDE DEF m
  <2>5. CASE Refused(m, a) \/ AskedAgain(m, a)
    <3>1. UNCHANGED pod
      BY <2>5 DEF Refused, AskedAgain
    <3> QED BY <1>1, <1>2, <2>4, <3>1 DEF pod
  <2>6. CASE Obeyed(m, a) /\ m.c = "begin"
    <3>1. sigs' = 0 /\ stage'.sigs = sigs
      BY <2>6 DEF Obeyed
    <3> QED BY <1>1, <1>2, <2>4, <3>1
  <2>7. CASE Obeyed(m, a) /\ m.c # "begin"
    <3>1. sigs' = sigs
      BY <2>3, <2>7 DEF Obeyed
    <3>2. stage' = Idle \/ stage'.sigs = stage.sigs
      BY <2>7, StageIs
    <3> QED BY <1>1, <1>2, <2>4, <3>1, <3>2, IdleNow
  <2> QED BY <2>2, <2>5, <2>6, <2>7
<1>9. CASE PodRestarts
  <2>1. sigs' = 0 /\ stage' = Idle
    BY <1>9 DEF PodRestarts
  <2>2. Range(toPod') \subseteq Range(toPod)
    BY <1>9, Thinned
  <2> QED BY <1>1, <1>2, <2>1, <2>2, IdleNow
<1>10. CASE Lose
  <2>1. UNCHANGED pod /\ Range(toPod') \subseteq Range(toPod)
    BY <1>10, LoseIs
  <2> QED BY <1>1, <1>2, <2>1 DEF pod
<1> QED BY <1>3, <1>4, <1>5, <1>6, <1>7, <1>8, <1>9, <1>10 DEF UploadNext, Host

-----------------------------------------------------------------------------
(* Halves of a manifest, on a console that answers in time.                *)

\* The manifest the pod would check with: whole if reported sent, and half only after two
\* losses.
Sound(n) == (sigSent => n = 2) /\ (lost <= 1 => n # 1)

\* The request, or its answer, was lost.
Silent == sent /\ Wired = <<>>

\* The halves the pod holds, told from where the host is and what was lost.
Halves == Smooth =>
  /\ \A m \in Range(toPod) : m.c = "half" =>
       m.k = CASE at = "half0" -> 0 [] at = "half1" -> 1 [] OTHER -> 2
  /\ \A x \in Range(toHost) : x.c = "half" => x.r = "ok"
  /\ at \in {"list", "probe"} => sigs = 0
  /\ at = "half0" => sigs = (IF Ok("half") THEN 1 ELSE 0) \/ Silent
  /\ at = "half1" => sigs = (IF Ok("half") THEN 2 ELSE 1) \/ Silent
  /\ at \in {"half0", "half1"} /\ Silent => lost >= 1
  /\ at = "clear" => lost >= 1
  /\ at = "clear" /\ sent => sigs = 0 \/ Asked("half") \/ lost >= 2
  /\ at \in {"half0", "half1", "clear"} => ~sigSent
  /\ at = "begin" => Sound(sigs) \/ Ok("begin") \/ Silent
  /\ at = "begin" /\ Ok("begin") => sigs = 0
  /\ at \in {"query", "chunk", "status", "end", "commit"} => sigs = 0
  /\ at \in {"list", "probe", "half0", "half1", "clear"} => stage.state = "idle"
  /\ at = "begin" /\ ~sent => stage.state = "idle"
  /\ at = "commit" /\ Ok("commit") => stage.state = "idle"
  /\ stage.state # "idle" => Sound(stage.sigs)

\* What the host has after a line it read, or waited for in vain: nothing is on the wire.
LEMMA QuietHalves ==
  ASSUME ~sent', Range(toHost') = {}, \A m \in Range(toPod') : m.c # "half",
         at' \in {"list", "probe", "half0"} => sigs' = 0 /\ ~sigSent',
         at' = "half1" => sigs' = 1 /\ ~sigSent',
         at' = "clear" => lost' >= 1 /\ ~sigSent',
         at' = "begin" => Sound(sigs)',
         at' \in {"query", "chunk", "status", "end", "commit"} => sigs' = 0,
         at' \in {"list", "probe", "half0", "half1", "clear", "begin"} => stage'.state = "idle",
         stage'.state # "idle" => Sound(stage.sigs)'
  PROVE  Halves'
<1>1. ~Ok("half")' /\ ~Ok("begin")' /\ ~Ok("commit")' /\ ~Silent'
  BY DEF Ok, Silent
<1>2. /\ at' = "half0" => sigs' = (IF Ok("half")' THEN 1 ELSE 0)
      /\ at' = "half1" => sigs' = (IF Ok("half")' THEN 2 ELSE 1)
  BY <1>1
<1> HIDE DEF Ok, Silent, Sound
<1> QED BY <1>1, <1>2 DEF Halves

\* Losing more, or having sent no manifest, leaves sound what was.
LEMMA StillSound ==
  ASSUME Types, lost' = lost \/ lost' = lost + 1, sigSent' => sigSent, NEW n, Sound(n)
  PROVE  /\ sigSent' => n = 2
         /\ lost' <= 1 => n # 1
<1>1. lost \in Nat
  <2>1. lost \in 0 .. MaxLost /\ MaxLost \in Nat
    BY Bounds DEF Types
  <2> QED BY <2>1
<1>2. lost' <= 1 => lost <= 1
  BY <1>1
<1> QED BY <1>2 DEF Sound

\* An answer is understood.
LEMMA HalvesReceive ==
  ASSUME Types, Types', Control, OneAtATime, Halves, Receive, Smooth
  PROVE  Halves'
<1>1. PICK n \in DOMAIN toHost :
        /\ toHost[n] \in Range(toHost) /\ toHost[n].c = Wire(at) /\ Understand(toHost[n])
        /\ sent /\ UNCHANGED <<past, pod, lan>>
        /\ Range(toHost') \subseteq Range(toHost)
        /\ Wired # <<>>
        /\ Alone(Wired) => toHost' = <<>> /\ toPod = <<>>
  BY CutIs
<1> HIDE DEF Wired
<1> DEFINE a == toHost[n]
<1>2. Alone(Wired)
  BY DEF OneAtATime, Smooth
<1>3. Range(toHost') = {} /\ toPod = <<>> /\ Range(toPod) = {} /\ ~Silent
  <2>1. Range(<<>>) = {}
    BY DEF Range
  <2> QED BY <1>1, <1>2, <2>1 DEF Silent
<1>4. at \in Phases \ {"wait"} /\ at' \in Goes(at) /\ sent' = FALSE
  BY HostGoes
<1>5. \A m \in Range(toPod') : m.c # "half"
  <2> DEFINE r == [c |-> "abort", i |-> item, k |-> 0]
  <2>1. toPod' = toPod \/ toPod' = Append(toPod, r)
    BY HostGoes
  <2>2. r \in Asks /\ r.c # "half" /\ toPod \in Seq(Asks)
    BY DEF Types, Asks, Words
  <2> HIDE DEF r
  <2>3. Range(toPod') \subseteq Range(toPod) \cup {r}
    BY <2>1, <2>2, RangeFacts
  <2> QED BY <1>3, <2>2, <2>3
<1>6. lost' = lost /\ sigs' = sigs /\ stage' = stage
  BY <1>1 DEF past, pod
<1>7. ~Asked("half") /\ (a.r = "ok" => Ok(Wire(at)))
  BY <1>1, <1>3 DEF Asked, Ok
<1>8. ASSUME at' \in {"list", "probe", "half0"} => sigs = 0 /\ ~sigSent',
             at' = "half1" => sigs = 1 /\ ~sigSent',
             at' = "clear" => lost >= 1 /\ ~sigSent',
             at' = "begin" => Sound(sigs)',
             at' \in {"query", "chunk", "status", "end", "commit"} => sigs = 0,
             at' \in {"list", "probe", "half0", "half1", "clear", "begin"} => stage.state = "idle",
             stage.state # "idle" => Sound(stage.sigs)'
      PROVE  Halves'
  BY <1>3, <1>4, <1>5, <1>6, <1>8, QuietHalves
<1>9. ASSUME sigSent' => sigSent PROVE stage.state # "idle" => Sound(stage.sigs)'
  <2>1. SUFFICES ASSUME stage.state # "idle" PROVE Sound(stage.sigs)'
    OBVIOUS
  <2>2. Sound(stage.sigs)
    BY <2>1 DEF Halves
  <2>3. (sigSent' => stage.sigs = 2) /\ (lost' <= 1 => stage.sigs # 1)
    BY <1>6, <1>9, <2>2, StillSound
  <2> QED BY <1>6, <2>3 DEF Sound
<1>10. CASE at \in {"list", "commit"}
  <2>0. at = "list" => sigs = 0 /\ stage.state = "idle"
    BY <1>10 DEF Halves
  <2>1. at = "commit" => sigs = 0 /\ (a.r = "ok" => stage.state = "idle")
    BY <1>7 DEF Halves, Wire
  <2>2. CASE at' = "done" /\ sigSent' = sigSent
    BY <1>8, <1>9, <2>2
  <2>3. CASE at' = "wait" /\ sigSent' = sigSent
    BY <1>8, <1>9, <2>3
  <2>4. ASSUME NEW left \in SUBSET (1 .. Blobs), NEW got, NextBlob(left, got, sup),
               sigs = 0, stage.state = "idle"
        PROVE  Halves'
    <3>1. sigSent' = FALSE /\ at' \in {"done", "begin", "probe", "half0"}
      BY <2>4, NextBlobIs, FirstIs
    <3>2. Sound(sigs)'
      BY <1>6, <2>4, <3>1 DEF Sound
    <3> QED BY <1>8, <2>4, <3>1, <3>2
  <2>5. CASE at = "list"
    <3>1. a.r \in SUBSET (1 .. Blobs) /\ NextBlob(a.r, installed, sup)
      BY <1>1, <2>5 DEF Understand, Types, Wire
    <3> QED BY <2>0, <2>4, <2>5, <3>1
  <2>6. CASE at = "commit"
    <3>1. missing \ {item} \in SUBSET (1 .. Blobs)
      BY DEF Types
    <3>2. CASE GoodCommit(a.r) /\ item # 0
      <4>1. NextBlob(missing \ {item}, installed \cup {item}, sup)
        BY <1>1, <2>6, <3>2 DEF Understand
      <4> QED BY <2>1, <2>4, <2>6, <3>1, <3>2, <4>1 DEF GoodCommit
    <3>3. CASE ~(GoodCommit(a.r) /\ item # 0)
      <4>1. at' \in {"wait", "done"} /\ sigSent' = sigSent
        BY <1>1, <2>6, <3>3 DEF Understand, Goto, Keep, Fail
      <4> QED BY <2>2, <2>3, <4>1
    <3> QED BY <3>2, <3>3
  <2> QED BY <1>10, <2>5, <2>6
<1>11. CASE at = "probe"
  <2>1. at' \in {"half0", "begin"} /\ sigSent' = sigSent
    BY <1>1, <1>11 DEF Understand, Goto
  <2>2. sigs = 0 /\ ~sigSent /\ stage.state = "idle"
    BY <1>11 DEF Halves, Control
  <2>3. Sound(sigs)'
    BY <1>6, <2>1, <2>2 DEF Sound
  <2> QED BY <1>8, <1>9, <2>1, <2>2, <2>3
<1>12. CASE at \in {"half0", "half1"}
  <2>1. a.r = "ok"
    BY <1>1, <1>12 DEF Halves, Wire
  <2>2. Ok("half") /\ ~sigSent /\ stage.state = "idle"
    BY <1>7, <1>12, <2>1 DEF Wire, Halves
  <2>3. CASE at = "half0"
    <3>1. at' = "half1" /\ sigSent' = sigSent
      BY <1>1, <2>1, <2>3 DEF Understand, Goto, Keep
    <3>2. sigs = 1
      BY <1>3, <2>2, <2>3 DEF Halves
    <3> QED BY <1>8, <1>9, <2>2, <3>1, <3>2
  <2>4. CASE at = "half1"
    <3>1. at' = "begin"
      BY <1>1, <2>1, <2>4 DEF Understand, Goto
    <3>2. sigs = 2
      BY <1>3, <2>2, <2>4 DEF Halves
    <3>3. Sound(sigs)'
      BY <1>6, <3>2 DEF Sound
    <3> QED BY <1>8, <2>2, <3>1, <3>3
  <2> QED BY <1>12, <2>3, <2>4
<1>13. CASE at = "clear"
  <2>1. at' = "begin" /\ sigSent' = sigSent
    BY <1>1, <1>13 DEF Understand, Goto, Keep
  <2>2. ~sigSent /\ stage.state = "idle" /\ (sigs = 0 \/ lost >= 2)
    BY <1>1, <1>7, <1>13 DEF Halves
  <2>3. lost \in Nat
    <3>1. lost \in 0 .. MaxLost /\ MaxLost \in Nat
      BY Bounds DEF Types
    <3> QED BY <3>1
  <2>4. lost' <= 1 => sigs' # 1
    BY <1>6, <2>2, <2>3
  <2>5. Sound(sigs)'
    BY <2>1, <2>2, <2>4 DEF Sound
  <2> QED BY <1>8, <1>9, <2>1, <2>2, <2>5
<1>14. CASE at = "begin"
  <2>1. at' \in {"done", "query", "chunk"} /\ sigSent' = sigSent
    BY <1>1, <1>14 DEF Understand, Goto, Keep, Fail
  <2>2. at' # "done" => sigs = 0
    <3>1. at' # "done" => Ok("begin")
      BY <1>14, BeginIs
    <3> QED BY <1>14, <3>1 DEF Halves
  <2> QED BY <1>8, <1>9, <2>1, <2>2
<1>15. CASE at \in {"query", "chunk", "status", "end"}
  <2>1. sigs = 0
    BY <1>15 DEF Halves
  <2>2. sigSent' = sigSent
    BY <1>1, <1>15 DEF Understand, Keep, ChunkDone, ChunkAgain, Fail
  <2>3. at' \in {"chunk", "end", "done", "status", "commit"}
    BY <1>4, <1>15 DEF Goes
  <2> QED BY <1>8, <1>9, <2>1, <2>2, <2>3
<1> QED BY <1>4, <1>10, <1>11, <1>12, <1>13, <1>14, <1>15 DEF Phases

\* The pod's step, when at most one message is on the wire.
LEMMA CalmPod ==
  ASSUME Types, Types', Control, Waits, OneAtATime, Smooth, Pod
  PROVE  /\ UNCHANGED host /\ Range(toHost) = {} /\ Range(toPod') = {} /\ ~Silent
         /\ \E m \in Range(toPod), a \in Tells :
              /\ a.c = m.c
              /\ Range(toHost') \subseteq {a}
              /\ a.c # "abort" => a \in Range(toHost')
              /\ at = "done" => m.c = "abort"
              /\ at # "done" => sent /\ m.c = Wire(at) /\ at \in Phases \ {"wait"}
              /\ Obeyed(m, a) \/ Refused(m, a) \/ AskedAgain(m, a)
<1>1. /\ toPod # <<>> /\ toPod' = Tail(toPod) /\ UNCHANGED host
      /\ Head(toPod) \in Range(toPod)
  BY PodDoes
<1>2. PICK a \in Tells :
        /\ a.c = Head(toPod).c
        /\ Range(toHost') \subseteq Range(toHost) \cup {a}
        /\ ~broken /\ a.c # "abort" => a \in Range(toHost')
        /\ Obeyed(Head(toPod), a) \/ Refused(Head(toPod), a) \/ AskedAgain(Head(toPod), a)
  BY PodDoes
<1>3. toHost = <<>> /\ Tail(toPod) = <<>> /\ Wired # <<>>
  <2>1. toPod \in Seq(Either) /\ toHost \in Seq(Either)
    BY WiredIs
  <2>2. Alone(toHost \o toPod)
    BY DEF OneAtATime, Smooth, Wired
  <2>3. toHost = <<>> /\ Tail(toPod) = <<>>
    BY <1>1, <2>1, <2>2, HeadFacts
  <2> QED BY <1>1, <2>3, WiredIs
<1> HIDE DEF Wired
<1>4. Range(toHost) = {} /\ Range(toPod') = {} /\ ~Silent
  <2>1. Range(<<>>) = {}
    BY DEF Range
  <2> QED BY <1>1, <1>3, <2>1 DEF Silent
<1>5. ~broken /\ at # "wait"
  BY DEF Control, Waits, Smooth
<1>6. /\ at = "done" => Only(Wired, "abort")
      /\ at # "done" => sent /\ Only(Wired, Wire(at))
  BY <1>3, <1>5 DEF OneAtATime, Smooth
<1>7. \A c : Only(Wired, c) => Head(toPod).c = c
  BY <1>1, WiredIs
<1>8. at # "done" => at \in Phases \ {"wait"}
  BY <1>5 DEF Types
<1> QED BY <1>1, <1>2, <1>4, <1>5, <1>6, <1>7, <1>8

\* The pod answers.
LEMMA HalvesPod ==
  ASSUME Types, Types', Control, Waits, OneAtATime, Halves, Pod, Smooth, Smooth'
  PROVE  Halves'
<1>1. UNCHANGED host /\ Range(toHost) = {} /\ Range(toPod') = {} /\ ~Silent
  BY CalmPod
<1>2. PICK m \in Range(toPod), a \in Tells :
        /\ a.c = m.c
        /\ Range(toHost') \subseteq {a}
        /\ a.c # "abort" => a \in Range(toHost')
        /\ at = "done" => m.c = "abort"
        /\ at # "done" => sent /\ m.c = Wire(at) /\ at \in Phases \ {"wait"}
        /\ Obeyed(m, a) \/ Refused(m, a) \/ AskedAgain(m, a)
  BY CalmPod
<1> HIDE DEF Wired
<1>3. ~Refused(m, a)
  BY DEF Refused, Smooth
<1>4. at' = at /\ sent' = sent /\ sigSent' = sigSent
  BY <1>1 DEF host
<1>5. ~Ok("half") /\ ~Ok("begin") /\ ~Ok("commit")
  BY <1>1 DEF Ok
<1>6. at # "done" => ~Silent' /\ a \in Range(toHost')
  <2>1. at # "done" => a.c # "abort"
    BY <1>2 DEF Wire, Phases
  <2>2. toHost' = <<>> => Range(toHost') = {}
    BY DEF Range
  <2> QED BY <1>2, <2>1, <2>2, WiredIs2 DEF Silent
<1>7. lost' = lost \/ lost' = lost + 1
  BY <1>2, <1>3 DEF Obeyed, AskedAgain, past
<1>8. \A k : Sound(k) => (sigSent' => k = 2) /\ (lost' <= 1 => k # 1)
  BY <1>4, <1>7, StillSound
<1>9. lost \in Nat
  <2>1. lost \in 0 .. MaxLost /\ MaxLost \in Nat
    BY Bounds DEF Types
  <2> QED BY <2>1
<1>10. lost >= 1 => lost' >= 1
  BY <1>7, <1>9
<1>11. (\A x \in Range(toHost') : x.c = "half" => x.r = "ok")
  BY <1>2, <1>3 DEF Obeyed, AskedAgain
<1>12. CASE at = "done" \/ at \in {"list", "probe"}
  <2>1. m.c \in {"abort", "list", "sig"}
    BY <1>2, <1>12 DEF Wire
  <2>2. sigs' = sigs /\ (stage' = stage \/ stage' = Idle)
    BY <1>2, <1>3, <2>1 DEF Obeyed, AskedAgain
  <2>3. stage'.state # "idle" => Sound(stage.sigs)'
    <3>1. stage'.state # "idle" => Sound(stage.sigs) /\ stage' = stage
      BY <2>2, IdleNow DEF Halves
    <3> QED BY <1>8, <3>1 DEF Sound
  <2>4. at' \in {"list", "probe"} => sigs' = 0 /\ stage'.state = "idle"
    BY <1>4, <2>2, IdleNow DEF Halves
  <2> QED BY <1>1, <1>4, <1>11, <1>12, <2>3, <2>4 DEF Halves
<1>13. CASE at \in {"half0", "half1", "clear"}
  <2>1. m.c = "half" /\ a.c = "half"
    BY <1>2, <1>13 DEF Wire
  <2>2. Obeyed(m, a) /\ m.k = CASE at = "half0" -> 0 [] at = "half1" -> 1 [] OTHER -> 2
    BY <1>2, <1>3, <2>1 DEF Halves, AskedAgain
  <2>3. a.r = "ok" /\ UNCHANGED stage
    BY <2>1, <2>2 DEF Obeyed
  <2>4. Ok("half")'
    BY <1>6, <1>13, <2>1, <2>3 DEF Ok
  <2>5. /\ at = "half0" => sigs' = 1
        /\ at = "half1" => sigs' = Min({sigs + 1, 2})
        /\ at = "clear" => sigs' = 0
    BY <2>1, <2>2 DEF Obeyed
  <2>6. at = "half1" => sigs' = 2
    <3>1. at = "half1" => sigs = 1
      BY <1>1, <1>5 DEF Halves
    <3>2. Min({1 + 1, 2}) = 2
      BY HalvesIs
    <3> QED BY <2>5, <3>1, <3>2
  <2>7. stage.state = "idle" /\ ~sigSent /\ (at = "clear" => lost >= 1)
    BY <1>13 DEF Halves
  <2> QED BY <1>1, <1>4, <1>6, <1>10, <1>11, <1>13, <2>3, <2>4, <2>5, <2>6, <2>7 DEF Halves
<1>14. CASE at = "begin"
  <2>1. m.c = "begin" /\ a.c = "begin"
    BY <1>2, <1>14 DEF Wire
  <2>2. Obeyed(m, a)
    BY <1>2, <1>3, <2>1 DEF AskedAgain
  <2>3. a.r = "ok" /\ sigs' = 0 /\ stage'.sigs = sigs
    BY <2>1, <2>2 DEF Obeyed
  <2>4. Ok("begin")' /\ sent
    BY <1>2, <1>6, <1>14, <2>1, <2>3 DEF Ok
  <2>5. Sound(sigs)
    BY <1>1, <1>5, <1>14 DEF Halves
  <2>6. Sound(stage.sigs)'
    BY <1>8, <2>3, <2>5 DEF Sound
  <2> QED BY <1>1, <1>4, <1>11, <1>14, <2>3, <2>4, <2>6 DEF Halves
<1>15. CASE at \in {"query", "chunk", "status", "end", "commit"}
  <2>1. m.c \in {"sig", "chunk", "status", "end", "commit"} /\ (at = "commit" => m.c = "commit")
    BY <1>2, <1>15 DEF Wire
  <2>2. sigs = 0
    BY <1>15 DEF Halves
  <2>3. sigs' = 0 /\ (stage' = Idle \/ ((stage # Idle \/ stage' = stage) /\ stage'.sigs = stage.sigs))
    <3>1. CASE AskedAgain(m, a)
      BY <2>2, <3>1 DEF AskedAgain, pod
    <3>2. CASE Obeyed(m, a)
      <4>1. sigs' = sigs
        BY <2>1, <3>2 DEF Obeyed
      <4>2. m.c # "begin"
        BY <2>1
      <4>3. stage' = Idle \/ ((stage # Idle \/ stage' = stage) /\ stage'.sigs = stage.sigs)
        BY <3>2, <4>2, StageIs
      <4> QED BY <2>2, <4>1, <4>3
    <3> QED BY <1>2, <1>3, <3>1, <3>2
  <2>4. stage'.state # "idle" => Sound(stage.sigs)'
    <3>1. stage'.state # "idle" => stage # Idle /\ stage'.sigs = stage.sigs
      BY <2>3, IdleNow
    <3>2. stage # Idle => Sound(stage.sigs)
      BY DEF Halves, Waits
    <3> QED BY <1>8, <3>1, <3>2 DEF Sound
  <2>5. at = "commit" => stage' = Idle
    BY <1>2, <1>3, <2>1 DEF Obeyed, AskedAgain
  <2> QED BY <1>1, <1>4, <1>11, <1>15, <2>3, <2>4, <2>5, IdleNow DEF Halves
<1> QED BY <1>2, <1>12, <1>13, <1>14, <1>15 DEF Phases

LEMMA HalvesStep == Types /\ Types' /\ Control /\ Control' /\ Waits /\ OneAtATime /\ Halves
                    /\ [UploadNext]_uploadVars => Halves'
<1> SUFFICES ASSUME Types, Types', Control, Control', Waits, OneAtATime, Halves,
                    [UploadNext]_uploadVars, Smooth'
             PROVE  Halves'
  BY DEF Halves
<1> HIDE DEF Wired
<1>0. Smooth /\ ~lan /\ Prompt /\ ~trouble /\ Prompt' /\ ~trouble'
  BY Ever DEF Smooth
<1>1. lost \in Nat /\ ~broken /\ ~flash
  <2>1. lost \in 0 .. MaxLost /\ MaxLost \in Nat
    BY Bounds DEF Types
  <2>2. ~broken /\ ~flash
    BY <1>0 DEF Control
  <2>3. lost \in Nat
    BY <2>1
  <2> QED BY <2>2, <2>3
<1>2. lost' = lost \/ lost' = lost + 1
  BY Ever
<1>3. ASSUME NEW n, sigSent' => sigSent, Sound(n) PROVE (sigSent' => n = 2) /\ (lost' <= 1 => n # 1)
  BY <1>2, <1>3, StillSound
<1>4. CASE Send
  <2>1. UNCHANGED <<at, sigSent, toHost, lost, stage, sigs>> /\ sent' = TRUE
    BY <1>4 DEF Send, Keep, pod
  <2>2. PICK m \in Asks :
           /\ m.c = Wire(at)
           /\ at \in {"half0", "half1", "clear"} =>
                m.k = CASE at = "half0" -> 0 [] at = "half1" -> 1 [] OTHER -> 2
           /\ Range(toPod') = Range(toPod) \cup {m}
           /\ Wired' # <<>>
    BY <1>4, SendIs
  <2>3. ~sent /\ at \in Phases \ {"wait"}
    BY <1>4, SendIs
  <2>4. ~Silent /\ ~Silent' /\ Range(toHost') = Range(toHost)
    BY <2>1, <2>2, <2>3 DEF Silent
  <2>5. Wire(at) = "half" <=> at \in {"half0", "half1", "clear"}
    BY <2>3 DEF Wire, Phases
  <2>6. (Ok("half")' <=> Ok("half")) /\ (Ok("begin")' <=> Ok("begin")) /\ (Ok("commit")' <=> Ok("commit"))
    BY <2>4 DEF Ok
  <2>7. \A k : Sound(k) => (sigSent' => k = 2) /\ (lost' <= 1 => k # 1)
    BY <1>3, <2>1
  <2>8. at = "clear" => Asked("half")'
    BY <2>2, <2>5 DEF Asked
  <2>9. \A x \in Range(toPod') : x.c = "half" =>
          x.k = CASE at = "half0" -> 0 [] at = "half1" -> 1 [] OTHER -> 2
    BY <1>0, <2>2, <2>5 DEF Halves
  <2>10. /\ stage.state # "idle" => Sound(stage.sigs)'
         /\ Sound(sigs) => Sound(sigs)'
    <3>1. stage.state # "idle" => Sound(stage.sigs)
      BY <1>0 DEF Halves
    <3> QED BY <2>1, <2>7, <3>1 DEF Sound
  <2> HIDE DEF Ok, Silent, Asked, Sound
  <2>11. /\ \A x \in Range(toHost') : x.c = "half" => x.r = "ok"
         /\ at \in {"list", "probe"} => sigs' = 0
         /\ at = "half0" => sigs' = (IF Ok("half")' THEN 1 ELSE 0)
         /\ at = "half1" => sigs' = (IF Ok("half")' THEN 2 ELSE 1)
    BY <1>0, <2>1, <2>4, <2>6 DEF Halves
  <2>12. /\ at = "clear" => lost' >= 1
         /\ at \in {"half0", "half1", "clear"} => ~sigSent'
         /\ at = "begin" => Sound(sigs)' \/ Ok("begin")'
         /\ at = "begin" /\ Ok("begin")' => sigs' = 0
         /\ at \in {"query", "chunk", "status", "end", "commit"} => sigs' = 0
    BY <1>0, <2>1, <2>4, <2>6, <2>10 DEF Halves
  <2>13. /\ at \in {"list", "probe", "half0", "half1", "clear"} => stage'.state = "idle"
         /\ at = "commit" /\ Ok("commit")' => stage'.state = "idle"
         /\ stage'.state # "idle" => Sound(stage.sigs)'
    BY <1>0, <2>1, <2>6, <2>10 DEF Halves
  <2> QED BY <2>1, <2>4, <2>8, <2>9, <2>11, <2>12, <2>13 DEF Halves
<1>5. CASE Receive
  BY <1>0, <1>5, HalvesReceive
<1>6. CASE TimeOut
  <2>1. sent /\ Wired = <<>>
    BY <1>0, <1>6, NothingComes
  <2>2. /\ at \in Phases \ {"wait"} /\ sent' = FALSE /\ toHost' = toHost
        /\ UNCHANGED <<pod, lost>> /\ sigSent' = sigSent
    BY <1>6, LateIs
  <2>3. at' \in Late(at) \cup {"done"}
    BY <1>6, LateIs, FailIs
  <2>4. Silent /\ Range(toHost) = {} /\ Range(toPod) = {}
    <3>1. toHost = <<>> /\ toPod = <<>> /\ Range(<<>>) = {}
      BY <2>1, WiredIs DEF Range
    <3> QED BY <2>1, <3>1 DEF Silent
  <2>5. \A m \in Range(toPod') : m.c # "half"
    <3> DEFINE r == [c |-> "abort", i |-> item, k |-> 0]
    <3>1. toPod' = toPod \/ toPod' = Append(toPod, r)
      BY <1>6, HostGoes
    <3>2. r \in Asks /\ r.c # "half" /\ toPod \in Seq(Asks)
      BY DEF Types, Asks, Words
    <3> HIDE DEF r
    <3>3. Range(toPod') \subseteq Range(toPod) \cup {r}
      BY <3>1, <3>2, RangeFacts
    <3> QED BY <2>4, <3>2, <3>3
  <2>6. lost' = lost /\ sigs' = sigs /\ stage' = stage
    BY <2>2 DEF pod
  <2>7. stage.state # "idle" => Sound(stage.sigs)'
    <3>1. stage.state # "idle" => Sound(stage.sigs)
      BY <1>0 DEF Halves
    <3> QED BY <2>2, <2>6, <3>1 DEF Sound
  <2>8. ~Asked("half")
    BY <2>4 DEF Asked
  <2>9. CASE at = "probe"
    <3>1. sigs = 0 /\ ~sigSent /\ stage.state = "idle"
      BY <1>0, <2>9 DEF Halves, Control
    <3>2. at' \in {"begin", "done"}
      BY <2>3, <2>9 DEF Late
    <3>3. Sound(sigs)'
      BY <2>2, <2>6, <3>1 DEF Sound
    <3> QED BY <2>2, <2>4, <2>5, <2>6, <2>7, <3>1, <3>2, <3>3, QuietHalves
  <2>10. CASE at \in {"half0", "half1"}
    <3>1. lost >= 1 /\ ~sigSent /\ stage.state = "idle"
      BY <1>0, <2>4, <2>10 DEF Halves
    <3>2. at' \in {"clear", "done"}
      BY <2>3, <2>10 DEF Late
    <3> QED BY <2>2, <2>4, <2>5, <2>6, <2>7, <3>1, <3>2, QuietHalves
  <2>11. CASE at = "clear"
    <3>1. ~sigSent /\ stage.state = "idle" /\ (sigs = 0 \/ lost >= 2)
      BY <1>0, <2>1, <2>8, <2>11 DEF Halves
    <3>2. at' \in {"begin", "done"}
      BY <2>3, <2>11 DEF Late
    <3>3. lost' <= 1 => sigs' # 1
      BY <1>1, <2>6, <3>1
    <3>4. Sound(sigs)'
      BY <2>2, <3>1, <3>3 DEF Sound
    <3> QED BY <2>2, <2>4, <2>5, <2>6, <2>7, <3>1, <3>2, <3>4, QuietHalves
  <2>12. CASE at \in {"query", "chunk", "status", "commit"}
    <3>1. sigs = 0
      BY <1>0, <2>12 DEF Halves
    <3>2. at' \in {"chunk", "status", "wait", "done"}
      BY <2>3, <2>12 DEF Late
    <3> QED BY <2>2, <2>4, <2>5, <2>6, <2>7, <3>1, <3>2, QuietHalves
  <2>13. CASE at \in {"list", "begin", "end"}
    <3>1. at' = "done"
      BY <2>3, <2>13 DEF Late
    <3> QED BY <2>2, <2>4, <2>5, <2>6, <2>7, <3>1, QuietHalves
  <2> QED BY <2>2, <2>9, <2>10, <2>11, <2>12, <2>13 DEF Phases
<1>7. CASE PodIsBack \/ PodStaysAway
  <2>1. at = "wait"
    BY <1>7 DEF PodIsBack, PodStaysAway
  <2> QED BY <1>0, <2>1 DEF Waits
<1>8. CASE CtxEnds \/ UNCHANGED uploadVars
  <2>1. UNCHANGED <<at, sent, sigSent, toPod, toHost, lost, stage, sigs>>
    BY <1>8 DEF CtxEnds, uploadVars, host, wires, past, pod
  <2>2. Wired' = Wired /\ Range(toHost') = Range(toHost) /\ Range(toPod') = Range(toPod)
    BY <2>1, WiredSame
  <2>3. /\ (Ok("half")' <=> Ok("half")) /\ (Ok("begin")' <=> Ok("begin")) /\ (Ok("commit")' <=> Ok("commit"))
        /\ (Silent' <=> Silent) /\ (Asked("half")' <=> Asked("half"))
    BY <2>1, <2>2 DEF Ok, Silent, Asked
  <2>4. (Sound(sigs)' <=> Sound(sigs)) /\ (Sound(stage.sigs)' <=> Sound(stage.sigs))
    BY <2>1 DEF Sound
  <2> HIDE DEF Ok, Silent, Asked, Sound
  <2> QED BY <1>0, <2>1, <2>2, <2>3, <2>4 DEF Halves
<1>9. CASE Pod
  BY <1>0, <1>9, HalvesPod DEF Smooth
<1>10. CASE PodRestarts
  BY <1>0, <1>10 DEF PodRestarts
<1>11. CASE Lose
  <2>1. UNCHANGED <<host, pod>> /\ lost' = lost + 1
    BY <1>11, LoseIs
  <2>2. Wired' = <<>> /\ Wired # <<>>
    BY <1>0, <1>11, LoseIs DEF OneAtATime
  <2>3. UNCHANGED <<at, sent, sigSent, stage, sigs>>
    BY <2>1 DEF host, pod
  <2>4. toHost' = <<>> /\ toPod' = <<>> /\ Range(toHost') = {} /\ Range(toPod') = {}
    <3>1. Range(<<>>) = {}
      BY DEF Range
    <3> QED BY <2>2, <3>1, WiredIs2
  <2>5. ~Silent /\ (sent => Silent') /\ ~Ok("half")' /\ ~Ok("begin")' /\ ~Ok("commit")'
    BY <2>2, <2>3, <2>4 DEF Silent, Ok
  <2>6. at \in {"done", "wait"} \/ sent
    BY <1>0, <2>2 DEF OneAtATime
  <2>7. /\ lost' >= 1 /\ (lost >= 1 => lost' >= 2)
    BY <1>1, <2>1
  <2>8. stage.state # "idle" => Sound(stage.sigs)'
    <3>1. stage.state # "idle" => Sound(stage.sigs)
      BY <1>0 DEF Halves
    <3>2. \A k : Sound(k) => (sigSent' => k = 2) /\ (lost' <= 1 => k # 1)
      BY <1>3, <2>3
    <3> QED BY <2>3, <3>1, <3>2 DEF Sound
  <2>9. /\ at = "clear" => lost >= 1
        /\ at \in {"list", "probe"} => sigs = 0
        /\ at \in {"half0", "half1", "clear"} => ~sigSent
        /\ at \in {"query", "chunk", "status", "end", "commit"} => sigs = 0
        /\ at \in {"list", "probe", "half0", "half1", "clear"} => stage.state = "idle"
    BY <1>0 DEF Halves
  <2> HIDE DEF Ok, Silent, Asked, Sound
  <2> QED BY <2>3, <2>4, <2>5, <2>6, <2>7, <2>8, <2>9 DEF Halves
<1> QED BY <1>4, <1>5, <1>6, <1>7, <1>8, <1>9, <1>10, <1>11 DEF UploadNext, Host

-----------------------------------------------------------------------------
(* As long as nothing goes wrong, what flash-self calls written is.        *)

\* A network session on which nothing went wrong is good: what was asked is on its way,
\* and no commit was refused.
OnTheWay == lan /\ NothingWentWrong =>
  /\ ~broken
  /\ sent => Wired # <<>>
  /\ \A a \in Range(toHost) : a.c = "commit" => a.r = "ok"

\* flash-self has gone past the commit.
Past == flash /\ (at \in {"wait", "list"} \/ item # 0 \/ exit \in {"ok", "away", "updated"})

InPlace == Past /\ NothingWentWrong => slot[0] = "new"

\* What went wrong stays so.
LEMMA FineBefore ==
  ASSUME Types, Types', [UploadNext]_uploadVars, NothingWentWrong'
  PROVE  NothingWentWrong /\ lan' = lan /\ flash' = flash
<1>1. lost \in Nat /\ (lost' = lost \/ lost' = lost + 1) /\ lost' = 0
  <2>1. lost \in 0 .. MaxLost /\ MaxLost \in Nat
    BY Bounds DEF Types
  <2> QED BY <2>1, Ever DEF NothingWentWrong
<1>2. lost = 0
  BY <1>1
<1>3. Prompt /\ ~trouble /\ lan' = lan /\ flash' = flash
  BY Ever DEF NothingWentWrong, Prompt
<1> QED BY <1>2, <1>3 DEF NothingWentWrong, Prompt

\* On the network, a request is timed out on only after something went wrong.
LEMMA NoTimeOut ==
  ASSUME Types, Types', OneAtATime, OnTheWay, TimeOut, lan
  PROVE  ~NothingWentWrong'
<1> SUFFICES ASSUME NothingWentWrong' PROVE FALSE
  OBVIOUS
<1> HIDE DEF Wired
<1>1. NothingWentWrong
  <2>1. [UploadNext]_uploadVars
    BY DEF UploadNext, Host
  <2> QED BY <2>1, FineBefore
<1>2. ~broken /\ ~ctxDone /\ at \notin {"wait", "done"}
  BY <1>1 DEF OnTheWay, NothingWentWrong, TimeOut, Phases
<1>3. sent /\ Wired # <<>>
  BY <1>1, <1>2 DEF TimeOut, OnTheWay
<1>4. toPod = <<>>
  <2>1. toPod # <<>> => late' = late + 1
    BY <1>2, <1>3 DEF TimeOut
  <2>2. late = 0 /\ late' = 0
    BY <1>1 DEF NothingWentWrong
  <2> QED BY <2>1, <2>2
<1>5. Only(Wired, Wire(at))
  BY <1>2, <1>3 DEF OneAtATime
<1>6. \A a \in Range(toHost) : a.c = Wire(at)
  BY <1>5, WiredIs
<1>7. toHost = <<>>
  <2>1. toHost \in Seq(Tells)
    BY WiredIs
  <2>2. \A j \in DOMAIN toHost : toHost[j].c # Wire(at)
    BY DEF TimeOut, CanTimeOut, Mine
  <2>3. DOMAIN toHost = {}
    BY <1>6, <2>1, <2>2, RangeFacts
  <2> QED BY <2>1, <2>3
<1> QED BY <1>3, <1>4, <1>7, WiredIs

LEMMA OnTheWayStep ==
  Types /\ Types' /\ Control /\ Once /\ OneAtATime /\ OnTheWay /\ [UploadNext]_uploadVars => OnTheWay'
<1> SUFFICES ASSUME Types, Types', Control, Once, OneAtATime, OnTheWay, [UploadNext]_uploadVars,
                    lan', NothingWentWrong'
             PROVE  /\ ~broken' /\ (sent' => Wired' # <<>>)
                    /\ \A a \in Range(toHost') : a.c = "commit" => a.r = "ok"
  BY DEF OnTheWay
<1> HIDE DEF Wired
<1>0. lan /\ NothingWentWrong
  BY FineBefore
<1>1. /\ ~broken /\ (sent => Wired # <<>>)
      /\ \A a \in Range(toHost) : a.c = "commit" => a.r = "ok"
  BY <1>0 DEF OnTheWay
<1>2. CASE Send
  <2>1. UNCHANGED <<broken, toHost>> /\ toPod' # <<>>
    <3>1. \E m : toPod' = Append(toPod, m)
      BY <1>2 DEF Send
    <3>2. toPod \in Seq(Asks)
      BY DEF Types
    <3>3. \A m : Len(Append(toPod, m)) = Len(toPod) + 1 /\ Len(toPod) \in Nat
      BY <3>2
    <3>4. \A m : Append(toPod, m) # <<>>
      BY <3>3
    <3> QED BY <1>2, <3>1, <3>4 DEF Send
  <2>2. Wired' # <<>>
    <3>1. Wired' = <<>> <=> toPod' = <<>> /\ toHost' = <<>>
      BY WiredIs2
    <3> QED BY <2>1, <3>1
  <2> QED BY <1>1, <2>1, <2>2
<1>3. CASE Receive
  <2>1. sent' = FALSE
    BY <1>3, HostGoes
  <2>2. broken' = broken /\ Range(toHost') \subseteq Range(toHost)
    BY <1>3, CutIs
  <2> QED BY <1>1, <2>1, <2>2
<1>4. CASE TimeOut
  BY <1>0, <1>4, NoTimeOut
<1>5. CASE PodIsBack
  <2>1. broken' = FALSE /\ sent' = FALSE /\ Range(toHost') = {}
    BY <1>5, BackIs DEF PodIsBack
  <2> QED BY <2>1
<1>6. CASE PodStaysAway
  <2>1. sent' = FALSE /\ broken' = broken /\ toHost' = toHost
    BY <1>6, FailIs DEF PodStaysAway
  <2> QED BY <1>1, <2>1
<1>7. CASE CtxEnds \/ UNCHANGED uploadVars
  <2>1. UNCHANGED <<broken, sent, toPod, toHost>>
    BY <1>7 DEF CtxEnds, uploadVars, host, wires
  <2>2. Wired' = Wired
    BY <2>1, WiredSame
  <2> QED BY <1>1, <2>1, <2>2
<1>8. CASE Pod
  <2>1. UNCHANGED host /\ Head(toPod) \in Range(toPod)
    BY <1>8, PodDoes
  <2>2. UNCHANGED <<at, sent, broken>>
    BY <2>1 DEF host
  <2>3. sent => Wired' # <<>>
    <3>1. ASSUME sent PROVE Head(toPod).c # "abort"
      <4>1. at # "done"
        BY <3>1 DEF Control
      <4>2. Absent(Wired, "abort")
        BY <4>1 DEF Once
      <4> QED BY <2>1, <4>2, WiredIs
    <3>2. ASSUME sent PROVE toHost' # <<>>
      <4>1. PICK r \in Replies, k \in Nat :
              toHost' = Append(toHost, [c |-> Head(toPod).c, r |-> r, k |-> k])
        BY <1>1, <1>8, <3>1, <3>2, PodTakes
      <4>2. toHost \in Seq(Tells)
        BY DEF Types
      <4>3. \A m : Len(Append(toHost, m)) = Len(toHost) + 1 /\ Len(toHost) \in Nat
        BY <4>2
      <4>4. \A m : Append(toHost, m) # <<>>
        BY <4>3
      <4> QED BY <4>1, <4>4
    <3>3. Wired' = <<>> <=> toPod' = <<>> /\ toHost' = <<>>
      BY WiredIs2
    <3> QED BY <3>2, <3>3
  <2>4. \A a \in Range(toHost') : a.c = "commit" => a.r = "ok"
    <3>1. PICK a \in Tells :
              /\ a.c = Head(toPod).c
              /\ Range(toHost') \subseteq Range(toHost) \cup {a}
              /\ Obeyed(Head(toPod), a) \/ Refused(Head(toPod), a) \/ AskedAgain(Head(toPod), a)
      BY <1>8, PodDoes
    <3>2. a.c = "commit" => a.r = "ok"
      BY <3>1 DEF Obeyed, Refused, AskedAgain, NothingWentWrong
    <3> QED BY <1>1, <3>1, <3>2
  <2> QED BY <1>1, <2>2, <2>3, <2>4
<1>9. CASE PodRestarts
  BY <1>9 DEF PodRestarts, NothingWentWrong
<1>10. CASE Lose
  <2>1. lost' = lost + 1 /\ lost = 0
    BY <1>0, <1>10 DEF Lose, NothingWentWrong
  <2>2. lost' # 0
    BY ONLY <2>1
  <2> QED BY <2>2 DEF NothingWentWrong
<1> QED BY <1>2, <1>3, <1>4, <1>5, <1>6, <1>7, <1>8, <1>9, <1>10 DEF UploadNext, Host

\* An answer is understood.
LEMMA InPlaceReceive ==
  ASSUME Types, Types', Control, Committed, OnTheWay, InPlace, Receive, NothingWentWrong, Past'
  PROVE  slot'[0] = "new"
<1>1. PICK n \in DOMAIN toHost :
        /\ toHost[n] \in Range(toHost) /\ toHost[n].c = Wire(at) /\ Understand(toHost[n])
        /\ UNCHANGED <<flash, pod>>
  BY CutIs
<1>2. slot' = slot /\ flash' = flash /\ flash /\ lan
  BY <1>1 DEF pod, Past, Control
<1>3. at \in Phases \ {"wait"} /\ at' \in Goes(at) /\ exit = ""
  BY HostGoes DEF Control, Phases
<1> DEFINE a == toHost[n]
<1>4. CASE Past
  BY <1>2, <1>4 DEF InPlace
<1>5. CASE ~Past /\ at = "commit"
  <2>1. item = 0 /\ a.c = "commit" /\ a.r = "ok"
    BY <1>1, <1>2, <1>5 DEF Past, OnTheWay, Wire
  <2>2. slot[item] = "new"
    BY <1>1, <1>5, <2>1 DEF Committed, Ok
  <2> QED BY <1>2, <2>1, <2>2
<1>6. CASE ~Past /\ at # "commit"
  <2>1. item = 0 /\ at \in {"begin", "query", "chunk", "status", "end"}
    BY <1>2, <1>3, <1>6 DEF Past, Phases, Control
  <2>2. item' = item
    BY <2>1, ItemStays
  <2>3. at' \notin {"wait", "list"}
    BY <1>3, <2>1 DEF Goes
  <2>4. exit' \in {"", "kept"}
    <3>1. ASSUME Fail(TRUE) \/ Fail(FALSE) \/ Fail(lan) PROVE exit' = "kept"
      BY <1>2, <2>1, <3>1 DEF Fail
    <3>2. CASE at \in {"begin", "query", "end"}
      BY <1>1, <1>3, <3>1, <3>2 DEF Understand, Keep
    <3>3. CASE at \in {"chunk", "status"}
      BY <1>1, <1>3, <3>1, <3>3 DEF Understand, ChunkDone, ChunkAgain
    <3> QED BY <2>1, <3>2, <3>3
  <2>5. ~Past'
    BY <2>1, <2>2, <2>3, <2>4 DEF Past
  <2> QED BY <2>5
<1> QED BY <1>4, <1>5, <1>6

LEMMA InPlaceStep ==
  Types /\ Types' /\ Control /\ OneAtATime /\ Committed /\ OnTheWay /\ InPlace /\ [UploadNext]_uploadVars
    => InPlace'
<1> SUFFICES ASSUME Types, Types', Control, OneAtATime, Committed, OnTheWay, InPlace,
                    [UploadNext]_uploadVars, NothingWentWrong', Past'
             PROVE  slot'[0] = "new"
  BY DEF InPlace
<1>0. NothingWentWrong /\ lan' = lan /\ flash' = flash /\ (flash => lan) /\ flash /\ lan
  BY FineBefore DEF Control, Past
<1>1. ASSUME UNCHANGED <<at, item, exit>>, slot'[0] = slot[0] \/ slot'[0] = "new" PROVE slot'[0] = "new"
  BY <1>0, <1>1 DEF InPlace, Past
<1>2. CASE Send
  BY <1>1, <1>2 DEF Send, Keep, pod
<1>3. CASE Receive
  BY <1>0, <1>3, InPlaceReceive
<1>4. CASE TimeOut
  BY <1>0, <1>4, NoTimeOut
<1>5. CASE PodIsBack
  <2>1. at = "wait" /\ slot' = slot
    BY <1>5 DEF PodIsBack, pod
  <2> QED BY <1>0, <2>1 DEF InPlace, Past
<1>6. CASE PodStaysAway
  <2>1. at = "wait" /\ slot' = slot
    BY <1>6 DEF PodStaysAway, pod
  <2> QED BY <1>0, <2>1 DEF InPlace, Past
<1>7. CASE CtxEnds \/ UNCHANGED uploadVars
  BY <1>1, <1>7 DEF CtxEnds, uploadVars, host, pod
<1>8. CASE Pod
  <2>1. UNCHANGED <<at, item, exit>>
    BY <1>8, PodDoes DEF host
  <2>2. PICK a \in Tells : Obeyed(Head(toPod), a) \/ Refused(Head(toPod), a) \/ AskedAgain(Head(toPod), a)
    BY <1>8, PodDoes
  <2>3. slot' = slot \/ slot' = [slot EXCEPT ![stage.item] = "new"]
    BY <2>2 DEF Obeyed, Refused, AskedAgain, pod
  <2>4. slot \in [Items -> {"old", "new"}] /\ 0 \in Items
    BY Bounds DEF Types, Items
  <2> QED BY <1>1, <2>1, <2>3, <2>4
<1>9. CASE PodRestarts \/ Lose
  BY <1>1, <1>9 DEF PodRestarts, Lose, host, pod
<1> QED BY <1>2, <1>3, <1>4, <1>5, <1>6, <1>7, <1>8, <1>9 DEF UploadNext, Host

-----------------------------------------------------------------------------
(* Every reachable state.                                                  *)

\* The inductive invariant.
UploadInv ==
  /\ Types /\ Control /\ Once /\ Waits /\ OneAtATime
  /\ ChunksOnce /\ Staged /\ Committed /\ Received /\ Counted /\ Bare /\ Halves
  /\ OnTheWay /\ InPlace

LEMMA UploadInitHolds == UploadInit => UploadInv
<1> SUFFICES ASSUME UploadInit PROVE UploadInv
  OBVIOUS
<1>1. Wired = <<>> /\ Range(toPod) = {} /\ Range(toHost) = {}
  <2>1. toPod = <<>> /\ toHost = <<>>
    BY DEF UploadInit
  <2>2. Range(<<>>) = {} /\ <<>> \o <<>> = <<>>
    BY DEF Range
  <2> QED BY <2>1, <2>2 DEF Wired
<1>2. /\ at = (IF flash THEN "begin" ELSE "list") /\ at \in {"begin", "list"}
      /\ ~sent /\ item = 0 /\ off = 1 /\ try = 1 /\ missing = {} /\ installed = {}
      /\ ~sup /\ ~sigSent /\ ~broken /\ ~ctxDone /\ exit = ""
      /\ lan \in BOOLEAN /\ flash \in BOOLEAN /\ man \in BOOLEAN /\ sigAware \in BOOLEAN
      /\ (flash => lan)
      /\ stage = Idle /\ sigs = 0 /\ lost = 0 /\ late = 0
      /\ ~trouble /\ ~lostOther /\ ~unanswered /\ ~resent
  BY DEF UploadInit
<1>3. slot \in [Items -> {"old", "new"}] /\ slot[0] = "old"
  BY DEF UploadInit
<1>4. \A c : Absent(Wired, c) /\ Single(Wired, c) /\ Only(Wired, c) /\ Alone(Wired)
  BY <1>1, AbsentIs
<1>5. Types
  <2>1. HostTypes
    <3>1. {lan, flash, man, sent, sup, sigSent, broken, ctxDone} \subseteq BOOLEAN
      BY DEF UploadInit
    <3> QED BY <1>2, <3>1, Bounds DEF HostTypes, Phases
  <2>2. PodTypes
    <3>1. 0 \in 0..2
      OBVIOUS
    <3>2. sigs = 0 /\ stage = Idle /\ sigAware \in BOOLEAN
      BY <1>2
    <3> QED BY <1>3, <3>1, <3>2, IdleIs DEF PodTypes
  <2>3. PastTypes
    <3>1. {trouble, lostOther, unanswered, resent} \subseteq BOOLEAN
      BY DEF UploadInit
    <3>2. lost = 0 /\ late = 0
      BY <1>2
    <3>3. \A n \in Nat : 0 \in 0 .. n
      OBVIOUS
    <3>4. lost \in 0 .. MaxLost /\ late \in 0 .. MaxLate
      BY <3>2, <3>3, Bounds
    <3> QED BY <3>1, <3>4 DEF PastTypes
  <2>4. WireTypes
    <3>1. toPod = <<>> /\ toHost = <<>>
      BY DEF UploadInit
    <3>2. toPod \in Seq(Asks) /\ toHost \in Seq(Tells)
      BY <3>1
    <3> QED BY <1>1, <3>2 DEF WireTypes
  <2> QED BY <2>1, <2>2, <2>3, <2>4, TypesAre
<1> HIDE DEF Wired
<1>6. Control
  BY <1>2 DEF Control
<1>7. Once
  BY <1>1, <1>2, <1>4 DEF Once
<1>8. Waits
  BY <1>1, <1>2 DEF Waits
<1>9. OneAtATime
  BY <1>1, <1>2, <1>4 DEF OneAtATime
<1>10. ChunksOnce
  BY <1>2, <1>4 DEF ChunksOnce
<1>11. Staged
  BY <1>2 DEF Staged
<1>12. ~Ok("begin") /\ ~Ok("commit") /\ ~Ok("half") /\ ~Asked("half")
  BY <1>1 DEF Ok, Asked
<1>13. Committed
  BY <1>2, <1>3, <1>12 DEF Committed
<1>14. Received
  BY <1>2, <1>12 DEF Received, Beginning
<1>15. Counted
  BY <1>1, <1>2 DEF Counted
<1>16. Bare
  BY <1>2, <1>12, IdleNow DEF Bare
<1>17. Halves
  <2>1. at = "begin" => lan
    BY <1>2
  <2> QED BY <1>1, <1>2, <1>12, <2>1, IdleNow DEF Halves, Smooth
<1>18. OnTheWay
  BY <1>1 DEF OnTheWay, UploadInit
<1>19. InPlace
  BY DEF InPlace, Past, UploadInit
<1> QED BY <1>5, <1>6, <1>7, <1>8, <1>9, <1>10, <1>11, <1>13, <1>14, <1>15, <1>16, <1>17, <1>18, <1>19 DEF UploadInv

LEMMA UploadStep == UploadInv /\ [UploadNext]_uploadVars => UploadInv'
<1> SUFFICES ASSUME UploadInv, [UploadNext]_uploadVars PROVE UploadInv'
  OBVIOUS
<1>0. /\ Types /\ Control /\ Once /\ Waits /\ OneAtATime
      /\ ChunksOnce /\ Staged /\ Committed /\ Received /\ Counted /\ Bare /\ Halves
      /\ OnTheWay /\ InPlace
  BY DEF UploadInv
<1>1. Types' /\ Control'
  BY <1>0, TypesStep, ControlStep
<1>2. Once' /\ Waits' /\ OneAtATime'
  BY <1>0, <1>1, OnceStep, WaitsStep, OneStep
<1>3. ChunksOnce' /\ Staged' /\ Committed'
  BY <1>0, <1>1, ChunksOnceStep, StagedStep, CommittedStep
<1>4. Received'
  BY <1>0, <1>1, <1>3, ReceivedStep
<1>5. Counted' /\ Bare' /\ Halves'
  BY <1>0, <1>1, CountedStep, BareStep, HalvesStep
<1>6. OnTheWay' /\ InPlace'
  BY <1>0, <1>1, OnTheWayStep, InPlaceStep
<1> QED BY <1>1, <1>2, <1>3, <1>4, <1>5, <1>6 DEF UploadInv

LEMMA UploadInvariance == UploadSpec => []UploadInv
<1> QED BY UploadInitHolds, UploadStep, PTL DEF UploadSpec

\* Types hold in every reachable state; on the network at most one request or answer is
\* ever in flight.
THEOREM UploadTypeCorrect == UploadSpec => []UploadTypeOK
<1>1. UploadInv => UploadTypeOK
  <2> SUFFICES ASSUME UploadInv PROVE UploadTypeOK
    OBVIOUS
  <2>1. Types /\ OneAtATime
    BY DEF UploadInv
  <2>2. lan => Len(toPod) + Len(toHost) <= 1
    <3>1. lan => Len(toHost) + Len(toPod) <= 1
      BY <2>1, WiredIs DEF OneAtATime
    <3>2. Len(toHost) \in Nat /\ Len(toPod) \in Nat
      <4>1. toPod \in Seq(Asks) /\ toHost \in Seq(Tells)
        BY <2>1, WiredIs
      <4> QED BY <4>1
    <3> QED BY <3>1, <3>2
  <2>3. stage.item \in Items /\ stage.got \subseteq 1..Chunks
        /\ stage.state \in {"idle", "receiving", "verified"}
    BY <2>1 DEF Types
  <2>4. /\ {lan, flash, man, sent, sup, sigSent, broken, ctxDone, sigAware} \subseteq BOOLEAN
        /\ {trouble, lostOther, unanswered, resent} \subseteq BOOLEAN
        /\ at \in Phases \cup {"done"} /\ exit \in {""} \cup Reports
        /\ item \in Items /\ off \in 1..Chunks /\ try \in 1..Attempts
        /\ missing \subseteq 1..Blobs /\ installed \subseteq Items
        /\ sigs \in 0..2 /\ lost \in 0..MaxLost /\ late \in 0..MaxLate
        /\ slot \in [Items -> {"old", "new"}]
    BY <2>1 DEF Types
  <2> QED BY <2>2, <2>3, <2>4 DEF UploadTypeOK
<1> QED BY <1>1, UploadInvariance, PTL

\* A blob reported installed is in its slot, and after "nothing was written: the pod keeps
\* its firmware" the old firmware is there and stays; and where flash-self ends with the new
\* firmware written, it is, unless something went wrong (uploadFirmwareLAN, installBlobsList),
\* for any number of blobs, chunks, attempts, lost messages and late answers.
THEOREM OutcomesAreTrue == UploadSpec => []OutcomeIsTrue
<1>1. UploadInv => OutcomeIsTrue
  <2>1. UploadInv => (SaysWritten /\ NothingWentWrong => slot[0] = "new")
    BY DEF UploadInv, InPlace, Past, SaysWritten
  <2> QED BY <2>1 DEF UploadInv, Committed, OutcomeIsTrue
<1> QED BY <1>1, UploadInvariance, PTL

\* The host goes past a chunk only if the pod has it, as long as every upload-status was
\* answered: awaitReply never takes a late answer to one chunk for another's.
THEOREM NeverAhead == UploadSpec => []NeverAheadOfThePod
<1>1. UploadInv => NeverAheadOfThePod
  <2> SUFFICES ASSUME UploadInv, ~unanswered, at \in Uploading, stage.state # "idle"
               PROVE  (IF at \in {"end", "commit"} THEN 1..Chunks ELSE 1..(off - 1)) \subseteq stage.got
    BY DEF NeverAheadOfThePod
  <2>1. stage # Idle
    BY IdleNow
  <2> QED BY <2>1 DEF UploadInv, Received, Uploading
<1> QED BY <1>1, UploadInvariance, PTL

\* A chunk that did land is not sent twice without an unanswered upload-status, and lost or
\* corrupted chunks and replies, fewer than uploadChunkAttempts, do not fail a console
\* upload (uploadChunk).
THEOREM ChunksGet == UploadSpec => []ChunksGetThrough
<1>1. UploadInv => ChunksGetThrough
  <2> SUFFICES ASSUME UploadInv PROVE ChunksGetThrough
    OBVIOUS
  <2>1. resent => unanswered
    BY DEF UploadInv, Received
  <2>2. late = 0 \/ late > 0
    <3>1. late \in 0 .. MaxLate /\ MaxLate \in Nat
      BY Bounds DEF UploadInv, Types
    <3> QED BY <3>1
  <2>3. Smooth /\ ~lostOther /\ exit = "error" => lost >= Attempts
    BY DEF UploadInv, Counted
  <2>4. Smooth \/ lan \/ trouble \/ ctxDone \/ late > 0
    BY <2>2 DEF Smooth, Prompt
  <2> QED BY <2>1, <2>3, <2>4 DEF ChunksGetThrough
<1> QED BY <1>1, UploadInvariance, PTL

\* The pod checks an upload with the whole manifest when the host reports it sent, and with
\* half of one only when two messages were lost (sendUploadSig).
THEOREM ManifestIsAsReported == UploadSpec => []ManifestAsReported
<1>1. UploadInv => ManifestAsReported
  <2> SUFFICES ASSUME UploadInv, stage.state # "idle", ~trouble, ~ctxDone, late = 0
               PROVE  (sigSent => stage.sigs = 2) /\ (lost <= 1 => stage.sigs # 1)
    BY DEF ManifestAsReported
  <2>1. CASE lan
    <3>1. ~sigSent /\ stage.sigs = 0
      BY <2>1 DEF UploadInv, Control, Bare
    <3> QED BY <3>1
  <2>2. CASE ~lan
    <3>1. Sound(stage.sigs)
      BY <2>2 DEF UploadInv, Halves, Smooth, Prompt
    <3> QED BY <3>1 DEF Sound
  <2> QED BY <2>1, <2>2
<1> QED BY <1>1, UploadInvariance, PTL
=============================================================================

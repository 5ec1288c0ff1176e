------------------------------ MODULE Discovery ------------------------------
(***************************************************************************)
(* Which pod a command reaches: discover and its report, discover --save   *)
(* and set-connection, which write the saved default, and the commands     *)
(* that resolve a connection to a pod's network API or console.  Commands  *)
(* run one after the other, while pods are plugged in and out and join and *)
(* leave the LAN, at any port and any address that is free: a device path *)
(* or an address may become another pod's.  The ports, mDNS, and what a    *)
(* pod answers are external.                                               *)
(*                                                                         *)
(* A target is a record [k, at]: "usb"; "usb:" (by name), "name" and "link" *)
(* (its USB network, whose address is made from its unique ID) of a pod;   *)
(* "lan" and "wifi", the two LAN addresses a pod has at a time, which a    *)
(* lease stands for; and "port", a device path.  What discover reads of a  *)
(* pod's key and device id is the pod itself, or None.                     *)
(***************************************************************************)
EXTENDS Naturals, FiniteSets

CONSTANTS
  Pods,
  Paths, Addrs, \* device paths, and leases on the LAN
  Replies,      \* bound: what consoles tell of themselves, of AnyReply
  None,         \* nothing, "" in the code
  MaxCommands,  \* bound: commands run
  MaxMoves,     \* bound: pods plugged, unplugged, joining or leaving
  ScanMoves     \* bound: of these, the number up to which they do so within a discover

Places == Paths \cup Addrs

\* What of a pod's console may be missing: all of it, the cloud's line, the key
\* (identity failed), the MAC from a reply, from one of the two replies of a pod that is
\* there under two names, or all that old firmware does not tell.
AnyReply == {"none", "full", "no cloud", "no key", "no mac", "no mac once", "old"}

ASSUME DiscoveryAssumption ==
  /\ IsFiniteSet(Pods) /\ None \notin Pods \cup Places /\ Paths \cap Addrs = {}
  /\ {MaxCommands, MaxMoves} \subseteq Nat /\ ScanMoves \in 0 .. MaxMoves
  /\ Replies \subseteq AnyReply

VARIABLES
  port, links,       \* the pods' paths on this computer; those whose USB network is up
  lease, had,        \* the pods' LAN addresses; the pods each place has been of
  reg, account,      \* registered pods; those on this account, None if not signed in
  moves,
  conn, meant,       \* the saved default, and the pod its command named or found
  ran, cmd, arg, pc, \* the commands run; the command, its --connection, where it is
  usbPods, netPods,  \* what discover found
  heard,             \* the name's lookup: not asked yet, or where the pod was heard
  spec, addr,        \* the connection as resolved, and the address to dial
  kept,              \* the configuration as loaded, or the LAN address a console told
  reached, used,     \* the pod a command talked to, and the places it was found by
  result             \* how it ended

world == <<port, links, lease, had, moves>>
claim == <<reg, account>>
found == <<usbPods, netPods>>
way   == <<heard, spec, addr>>
fact  == <<reached, used>>
vars  == <<world, claim, conn, meant, ran, cmd, arg, pc, found, way, kept, fact, result>>

Target(k, a) == [k |-> k, at |-> a]
NoTarget == Target("none", None)
NotAsked == Target("not asked", None)
Usb      == Target("usb", None)
PodOrNone == Pods \cup {None}
Targets  == {NoTarget, Usb} \cup [k : {"usb:", "name", "link"}, at : Pods]
            \cup [k : {"lan", "wifi"}, at : Addrs] \cup [k : {"port"}, at : Paths]
OnLan(a) == a.k \in {"lan", "wifi"}

\* Where every pod is, at most one at a place.
Spots(S) == {f \in [Pods -> S \cup {None}] :
               \A p, q \in Pods : f[p] = f[q] /\ f[p] # None => p = q}
Plugged  == {p \in Pods : port[p] # None}
InUse(f) == {f[p] : p \in Pods}

\* The LAN address a pod has, if any.
Lan(p) == IF lease[p] = None THEN NoTarget ELSE Target("lan", lease[p])

\* The pod whose API answers at an address now.
At(a)      == {p \in Pods : \/ OnLan(a) /\ lease[p] = a.at
                            \/ a.k = "link" /\ p = a.at /\ p \in links}
Answers(a) == At(a) # {}

Init ==
  /\ port \in Spots(Paths) /\ links \in SUBSET Plugged /\ lease \in Spots(Addrs)
  /\ had = [x \in Places |-> {p \in Pods : x \in {port[p], lease[p]}}] /\ moves = 0
  /\ reg = {} /\ account = None
  /\ conn = NoTarget /\ meant = None /\ ran = 0
  /\ cmd = "none" /\ arg = NoTarget /\ pc = "idle"
  /\ usbPods = {} /\ netPods = {} /\ heard = NotAsked /\ spec = NoTarget
  /\ addr = NoTarget /\ kept = NoTarget /\ reached = None /\ used = {}
  /\ result = "none"

-----------------------------------------------------------------------------
(* The world.                                                              *)

Takes(p, x) == had' = [had EXCEPT ![x] = @ \cup {p}]

Plug(p) == \E x \in Paths \ InUse(port) :
  /\ port[p] = None /\ port' = [port EXCEPT ![p] = x] /\ Takes(p, x)
  /\ UNCHANGED <<links, lease>>
Unplug(p) == /\ port[p] # None /\ port' = [port EXCEPT ![p] = None] /\ links' = links \ {p}
             /\ UNCHANGED <<lease, had>>
LinkChanges(p) == /\ port[p] # None
                  /\ links' = (IF p \in links THEN links \ {p} ELSE links \cup {p})
                  /\ UNCHANGED <<port, lease, had>>
JoinLan(p) == \E x \in Addrs \ InUse(lease) :
  /\ lease[p] = None /\ lease' = [lease EXCEPT ![p] = x] /\ Takes(p, x)
  /\ UNCHANGED <<port, links>>
LeaveLan(p) == /\ lease[p] # None /\ lease' = [lease EXCEPT ![p] = None]
               /\ UNCHANGED <<port, links, had>>

Move == \E p \in Pods :
  /\ moves < (IF cmd = "discover" /\ pc # "idle" THEN ScanMoves ELSE MaxMoves)
  /\ moves' = moves + 1
  /\ Plug(p) \/ Unplug(p) \/ LinkChanges(p) \/ JoinLan(p) \/ LeaveLan(p)
  /\ UNCHANGED <<claim, conn, meant, ran, cmd, arg, pc, found, way, kept, fact, result>>

\* A command: "net" needs the pod's network API, "con" its console.  Registrations
\* are as they are while it runs; only discover looks at them, and (a bound) it is run
\* before a default is saved, which it does not read.
Start == \E c \in {"discover", "set", "net", "con"}, t \in Targets :
  /\ pc = "idle" /\ ran < MaxCommands /\ ran' = ran + 1
  /\ cmd' = c /\ arg' = t
  /\ reached' = None /\ used' = {} /\ result' = "none"
  /\ IF c = "discover"
     THEN /\ t = NoTarget /\ conn = NoTarget
          /\ pc' = "probe" /\ reg' \in SUBSET Pods /\ UNCHANGED account
     ELSE /\ c = "set" => t # NoTarget
          /\ pc' = "resolve" /\ UNCHANGED claim
  /\ UNCHANGED <<world, conn, meant, found, way, kept>>

\* A run's own variables end with it.
Finish(r) == /\ pc' = "idle" /\ result' = r
             /\ reg' = {} /\ account' = None /\ usbPods' = {} /\ netPods' = {}
             /\ heard' = NotAsked /\ spec' = NoTarget /\ addr' = NoTarget
             /\ kept' = NoTarget
Go(p) == pc' = p /\ UNCHANGED <<claim, result>>
Held  == <<world, conn, meant, ran, cmd, arg>>   \* what no step of a command changes

-----------------------------------------------------------------------------
(* discover.                                                               *)

\* The identities in the replies of a pod's ports.
Ident(r) == CASE r = "none" -> {}
              [] r \in {"no mac", "old"} -> {"dev"}
              [] r = "no mac once" -> {"mac", "dev"}
              [] OTHER -> {"mac"}

\* ProbeSerial: an entry for each podIdentity, the MAC or else the port's base name, of
\* the consoles that can be opened and answer; the LAN address status shows may be the
\* other one.
ProbeSerial == \E told \in [Plugged -> Replies], k \in {"lan", "wifi"} :
  /\ pc = "probe" /\ Go("browse")
  /\ usbPods' = UNION {{[pod |-> p, path |-> port[p], ident |-> i,
                         ip |-> IF lease[p] = None THEN NoTarget ELSE Target(k, lease[p]),
                         known |-> told[p] \notin {"no cloud", "old"},
                         id  |-> IF told[p] \notin {"no cloud", "old"} /\ p \in reg THEN p ELSE None,
                         key |-> IF told[p] \notin {"no key", "old"} THEN p ELSE None] :
                        i \in Ident(told[p])} : p \in Plugged}
  /\ UNCHANGED <<Held, netPods, way, kept, fact>>

\* discoverPods: the pods heard, on their USB link and at the LAN address they have or
\* had, and the address to use: the USB link's first.
DiscoverPods == \E L \in SUBSET links, H \in [Pods -> Addrs \cup {None}] :
  /\ \A p \in Pods : H[p] # None => p \in had[H[p]]
  /\ pc = "browse" /\ Go("check")
  /\ netPods' =
       {[pod |-> p, key |-> p,
         addr |-> IF p \in L THEN Target("link", p) ELSE Target("lan", H[p]),
         lanAddr |-> IF H[p] # None THEN Target("lan", H[p]) ELSE NoTarget,
         known |-> FALSE, id |-> None, sameAs |-> {}] : p \in {p \in Pods : p \in L \/ H[p] # None}}
  /\ UNCHANGED <<Held, usbPods, way, kept, fact>>

Addressed(s) == s.ip # NoTarget

\* Bug: two ids that are both missing match.
MatchesMissing(n, s) == \/ Addressed(s) /\ s.ip = n.addr
                        \/ s.id = n.id \/ s.key = n.key

\* A network pod and a USB pod are one: the address, the device id or the key.
Matches(n, s) == \/ Addressed(s) /\ s.ip = n.addr
                 \/ n.id # None /\ s.id = n.id
                 \/ n.key # None /\ s.key = n.key

\* correlate: the console that matches, the first of them.
Device(s) == <<s.path, s.ident>>
Correlated(n) == LET M == {s \in usbPods : Matches(n, s)}
                 IN  IF M = {} THEN {n} ELSE {[n EXCEPT !.sameAs = {Device(s)}] : s \in M}

\* checkPod, on each of them: what answers at its address, if anything, says what it
\* knows of its own registration, or not; then correlate.  The devices on the account
\* are asked for.
Checked(R) == {IF n \in R
               THEN [n EXCEPT !.known = TRUE,
                              !.id = IF At(n.addr) \subseteq reg
                                     THEN CHOOSE p \in At(n.addr) : TRUE ELSE None]
               ELSE n : n \in netPods}
CheckPods ==
  /\ pc = "check" /\ pc' = "report" /\ UNCHANGED <<reg, result>>
  /\ account' \in {None} \cup SUBSET reg
  /\ \E R \in SUBSET {n \in netPods : Answers(n.addr)} :
       \E c \in [Checked(R) -> UNION {Correlated(n) : n \in Checked(R)}] :
         /\ \A n \in Checked(R) : c[n] \in Correlated(n)
         /\ netPods' = {c[n] : n \in Checked(R)}
  /\ UNCHANGED <<Held, usbPods, way, kept, fact>>

\* printVerdict's count.
Unmatched == {n \in netPods : n.sameAs = {}}
Total     == Cardinality(usbPods) + Cardinality(Unmatched)

\* printRegistrationVerdict: what the entries it counts say.
Counted == {[pod |-> s.pod, id |-> s.id] :
              s \in {s \in usbPods : s.known /\ ~\E n \in netPods : Device(s) \in n.sameAs}}
           \cup {[pod |-> n.pod, id |-> n.id] : n \in {n \in netPods : n.known}}
Registered   == {e \in Counted : e.id # None}
Unregistered == {e \in Counted : e.id = None}

\* signedInAccountDevices and whose account a pod is on.
Foreign == IF account = None THEN {} ELSE {e \in Registered : e.id \notin account}
Verdict ==
  CASE Foreign # {} -> "foreign"
    [] Foreign = {} /\ Registered # {} /\ Unregistered = {} ->
         IF account = None THEN "registered" ELSE "mine"
    [] Registered = {} /\ Unregistered # {} -> "unregistered"
    [] Foreign = {} /\ Registered # {} /\ Unregistered # {} -> "some"
    [] OTHER -> "silent"

\* Bug: the address it answered on.
SavedConnectionOnLink(n) == IF n.addr.k = "link" THEN n.addr ELSE n.lanAddr

\* savedConnection: the LAN address, else usb for a pod on its USB link.
SavedConnection(n) == CASE n.lanAddr # NoTarget -> n.lanAddr
                        [] n.lanAddr = NoTarget /\ n.addr.k = "link" -> Usb
                        [] OTHER -> n.addr

SaveTarget ==
  CASE Cardinality(netPods) = 1 -> SavedConnection(CHOOSE n \in netPods : TRUE)
    [] netPods = {} /\ Cardinality(usbPods) = 1 ->
         Target("port", (CHOOSE s \in usbPods : TRUE).path)
    [] OTHER -> NoTarget

\* The report is printed; then discover is done, or with --save loads the
\* configuration.
Report ==
  /\ pc = "report"
  /\ IF usbPods = {} /\ netPods = {} THEN Finish("error")
     ELSE \/ Finish("reported")
          \/ SaveTarget = NoTarget /\ Finish("error")
          \/ /\ SaveTarget # NoTarget /\ Go("save") /\ kept' = SaveTarget
             /\ UNCHANGED <<found, way>>
  /\ UNCHANGED <<Held, fact>>

\* The pod a connection is given for, when it is given by name; the one discover found.
Named(t) == IF t.k \in {"usb:", "name"} THEN t.at ELSE None
FoundPod == (CHOOSE e \in (IF netPods # {} THEN netPods ELSE usbPods) : TRUE).pod

\* Save: the file is replaced.
Save ==
  /\ pc = "save" /\ conn' = kept /\ Finish("saved")
  /\ meant' = (IF cmd = "set" THEN Named(arg) ELSE IF kept = Usb THEN None ELSE FoundPod)
  /\ UNCHANGED <<world, ran, cmd, arg, fact>>

-----------------------------------------------------------------------------
(* A pod's name and a USB connection resolved.                             *)

\* browsePodName, once per run (podNameCache): not heard, or the first interface it
\* answered on.
Lookup(p) ==
  IF heard # NotAsked THEN UNCHANGED heard
  ELSE heard' \in {NoTarget} \cup [k : {"lan", "wifi"}, at : {x \in Addrs : p \in had[x]}]
                  \cup {a \in {Target("link", p)} : p \in links}

\* The flag, else the saved default.
Raw == IF arg # NoTarget THEN arg ELSE conn

\* parseTarget: a name is where the pod was heard, else that pod on USB.
Parse ==
  IF Raw.k = "name"
  THEN Lookup(Raw.at)
       /\ spec' = (IF heard' = NoTarget THEN Target("usb:", Raw.at) ELSE heard')
  ELSE spec' = Raw /\ UNCHANGED heard

\* resolveTarget and networkTarget, or usbDevice: provisioning works before any
\* default exists.
Resolve ==
  /\ pc = "resolve"
  /\ IF cmd = "net" /\ Raw = NoTarget THEN Finish("error")
     ELSE /\ Parse
          /\ CASE cmd = "set" -> Go("target")
               [] cmd = "con" -> Go("console")
               [] cmd = "net" -> Go(IF OnLan(spec') \/ spec'.k = "link" THEN "dial"
                                    ELSE IF spec'.k = "port" THEN "console"
                                    ELSE "local link")
          /\ addr' = spec' /\ UNCHANGED <<found, kept>>
  /\ UNCHANGED <<Held, fact>>

\* runSetConnection: what is saved of a name is its LAN address, else that pod on
\* USB.
SetConnection ==
  /\ pc = "target" /\ Go("save")
  /\ kept' = (IF arg.k # "name" THEN arg
              ELSE IF OnLan(heard) THEN heard ELSE Target("usb:", arg.at))
  /\ UNCHANGED <<Held, found, way, fact>>

\* Bug: one link needs no name.
PickUSBLinkAlone(name, said) ==
  IF Cardinality(links) = 1 THEN links ELSE {p \in said : p = name}

\* pickUSBLink: the one link there is, or the one whose pod says it is the one
\* named.
PickUSBLink(name, said) ==
  IF name = None THEN IF Cardinality(links) = 1 THEN links ELSE {}
                 ELSE {p \in said : p = name}

\* localUSBPod: the link picked answers, else the console is asked.  A pod may fail
\* to say who it is, and a link to be dialled.
LocalUSBPod == \E said \in SUBSET links :
  /\ pc = "local link"
  /\ \/ \E p \in PickUSBLink(Named(spec), said) : addr' = Target("link", p) /\ Go("dial")
     \/ Go("console") /\ UNCHANGED addr
  /\ UNCHANGED <<Held, found, heard, spec, kept, fact>>

\* openBenchpodSerial: the pod behind the device path now, the pod named, or the only
\* pod that answers; a LAN address or a name heard on the LAN is no device and no name
\* of a pod on USB.  DfuUpdate's ProbePort is the probing itself.
Opens(p) ==
  CASE spec.k = "usb:" -> p = spec.at
    [] spec.k = "port" -> port[p] = spec.at
    [] OTHER -> TRUE

\* usbNetAddr: the pod's link if it is on and up, else the LAN address status shows.
NetAddr(p) == IF p \in links THEN Target("link", p) ELSE Lan(p)

\* The places the command went by.
Ways == Places \cap {spec.at, addr.at}

\* A console command has what it wanted.
OpenConsole ==
  /\ pc = "console"
  /\ \/ Finish("error") /\ UNCHANGED fact
     \/ \E p \in {p \in Plugged : Opens(p)} :
          IF cmd = "con" THEN Finish("ok") /\ reached' = p /\ used' = Ways
          ELSE IF NetAddr(p) = NoTarget THEN Finish("error") /\ UNCHANGED fact
          ELSE addr' = NetAddr(p) /\ kept' = Lan(p) /\ Go("dial link")
               /\ UNCHANGED <<found, heard, spec, fact>>
  /\ UNCHANGED Held

\* The link does not answer: the LAN address, if it answers.
UsbNetAddr ==
  /\ pc = "dial link"
  /\ \/ Answers(addr) /\ Go("dial") /\ UNCHANGED <<found, way, kept>>
     \/ /\ addr.k = "link" /\ kept # NoTarget /\ addr' = kept
        /\ Go("dial link") /\ UNCHANGED <<found, heard, spec, kept>>
     \/ Finish("error")
  /\ UNCHANGED <<Held, fact>>

\* The command's own connection.
Dial ==
  /\ pc = "dial"
  /\ \/ reached' \in At(addr) /\ used' = Ways /\ Finish("ok")
     \/ Finish("error") /\ UNCHANGED fact
  /\ UNCHANGED Held

Next == \/ Move \/ Start \/ ProbeSerial \/ DiscoverPods \/ CheckPods \/ Report \/ Save
        \/ Resolve \/ SetConnection \/ LocalUSBPod \/ OpenConsole \/ UsbNetAddr \/ Dial
        \/ pc = "idle" /\ ran = MaxCommands /\ UNCHANGED vars

Spec == Init /\ [][Next]_vars

-----------------------------------------------------------------------------
(* Properties.                                                             *)

Sites ==
  /\ port \in Spots(Paths) /\ lease \in Spots(Addrs) /\ links \subseteq Plugged
  /\ had \in [Places -> SUBSET Pods]
  /\ \A p \in Pods : \A x \in {port[p], lease[p]} \ {None} : p \in had[x]
  /\ moves \in 0 .. MaxMoves /\ ran \in 0 .. MaxCommands

Command ==
  /\ conn \in Targets /\ meant \in PodOrNone
  /\ cmd \in {"none", "discover", "set", "net", "con"} /\ arg \in Targets
  /\ pc \in {"idle", "probe", "browse", "check", "report", "save", "resolve", "target",
             "local link", "console", "dial link", "dial"}
  /\ result \in {"none", "error", "reported", "saved", "ok"}

Route ==
  /\ spec \in Targets /\ addr \in Targets /\ kept \in Targets
  /\ heard \in Targets \cup {NotAsked} /\ reached \in PodOrNone /\ used \subseteq Places

TypeOK == Sites /\ Command /\ Route

\* An address or a path has become another pod's.
HandedOver(x, p, q) == x \in Places /\ p # q /\ {p, q} \subseteq had[x]

\* discover's verdict is about the pods that are there.  Two pods are never read as
\* one, although what they report of themselves may be missing, unless the one answers
\* at an address that was the other's.  When no address heard has changed hands: one
\* pod found both ways is counted once if its console gave its key and its MAC; and it
\* is called foreign, yours or unregistered only if it is.
VerdictIsTrue == pc = "report" =>
  LET pods == {e.pod : e \in usbPods \cup netPods}
  IN  /\ \A n \in netPods, s \in usbPods :
           Device(s) \in n.sameAs /\ s.pod # n.pod => HandedOver(n.addr.at, n.pod, s.pod)
      /\ (\A n \in netPods, q \in Pods : ~HandedOver(n.addr.at, n.pod, q)) =>
           /\ (\A s \in usbPods : s.key # None /\ s.ident = "mac") => Total = Cardinality(pods)
           /\ Verdict = "foreign" => (pods \cap reg) \ account # {}
           /\ Verdict = "mine" => {e.pod : e \in Counted} \subseteq account
           /\ Verdict = "unregistered" => pods \ reg # {}

\* The pod a command is for, when its flag names one or the default was saved for one.
Asked == IF arg # NoTarget THEN Named(arg) ELSE meant

\* A command given a pod by name, on its flag or through the default that was saved
\* for it by name or by discover, talks to that pod or to none, whichever way it takes
\* and at whatever port the pod is by then.  It talks to another one only if a path or
\* an address of that pod's that it went by has been another one's too.  So does a
\* console command given usb:<name> or a device.
NameReachesIt ==
  (result = "ok" /\ Asked \notin {None, reached} /\ (cmd = "net" \/ Raw.k \in {"usb:", "port"}))
    => \E x \in used, q \in Pods : HandedOver(x, Asked, q)

\* savedConnection: "The saved default has to keep working when the pod moves (set up
\* at a desk over USB, then cabled into a lab network)".  The address of a USB link,
\* which only this computer reaches, is the default only when it was given as such.
NoLinkSaved == conn.k = "link" => meant = None

\* The same without the exception: it does not hold, a default is a path or an address
\* and the code compares no name with what answers there.
DefaultIsThePod == (result = "ok" /\ cmd = "net" /\ arg = NoTarget) => meant \in {None, reached}

\* saveTarget: "--save never guesses between two pods".
SaveNeverGuesses ==
  (pc = "save" /\ cmd = "discover")
    => Cardinality({e.pod : e \in usbPods \cup netPods}) = 1
=============================================================================

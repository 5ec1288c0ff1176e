-------------------------- MODULE Discovery_proofs --------------------------
(***************************************************************************)
(* Proofs about Discovery, for any pods, places, number of commands and    *)
(* any moves of the pods while they run: that a command given a pod by     *)
(* name, or through a default saved for it, talks to another one only if a *)
(* place it went by has been another's, that a default discover saved is   *)
(* no USB link, and that discover's verdict is true of the pods it found.  *)
(***************************************************************************)
EXTENDS Discovery, FiniteSetTheorems, TLAPS

Devices == Paths \X {"mac", "dev"}

\* A USB pod.
UsbPod == [pod : Pods, path : Paths, ident : {"mac", "dev"}, ip : Targets,
           known : BOOLEAN, id : PodOrNone, key : PodOrNone]

\* A network pod: its address is its USB network's or on the LAN.
NetPod == {n \in [pod : Pods, key : PodOrNone, addr : Targets, lanAddr : Targets,
                  known : BOOLEAN, id : PodOrNone, sameAs : SUBSET Devices] :
             n.addr.k \in {"link", "lan"} /\ n.lanAddr.k \in {"lan", "none"}}

\* Which commands get where, and with what kind of target.
Stage ==
  /\ pc # "idle" => result = "none"
  /\ pc \in {"idle", "resolve"} => heard = NotAsked
  /\ pc \in {"probe", "browse", "check", "report"} => cmd = "discover"
  /\ pc = "resolve" => cmd \in {"set", "net", "con"} /\ (cmd = "set" => arg # NoTarget)
  /\ pc = "target" => cmd = "set" /\ arg # NoTarget
  /\ pc = "local link" => cmd = "net" /\ spec.k \in {"usb", "usb:"}
  /\ pc = "console" => cmd = "con" \/ (cmd = "net" /\ spec.k \in {"usb", "usb:", "port"})
  /\ pc \in {"dial link", "dial"} => cmd = "net"
  /\ pc = "save" => cmd \in {"discover", "set"}

\* A target stands for a pod: it names it, is its USB network's, or is a place that has
\* been its.
Of(a, p) ==
  \/ a.k \in {"usb:", "name", "link"} /\ a.at = p
  \/ a.k \in {"lan", "wifi", "port"} /\ a.at \in Places /\ p \in had[a.at]

\* A pod that what was asked for leads to: the one asked for, or one that has had the
\* device path that was to be its.
Led(q) == q = Asked \/ (spec.k = "port" /\ HandedOver(spec.at, Asked, q))

\* The saved default stands for the pod it was saved for, and is no USB link then.
Default == meant # None => Of(conn, meant) /\ conn.k # "link"

\* So do the way from a name to the address dialled, and the default to be saved.
SamePod ==
  /\ Default /\ conn.k # "name"
  /\ heard.k \in {"lan", "wifi", "link"} => Raw.k = "name" /\ Of(heard, Raw.at)
  /\ pc \in {"local link", "console", "dial link", "dial"} =>
       /\ Asked # None => Of(spec, Asked)
       /\ Raw.k \in {"usb:", "port"} => spec = Raw
  /\ pc \in {"dial link", "dial"} /\ Asked # None =>
       \E q \in Pods : /\ Led(q) /\ Of(addr, q)
                       /\ pc = "dial link" /\ kept # NoTarget => Of(kept, q)
  /\ pc = "save" /\ cmd = "set" =>
       IF arg.k = "name" THEN Of(kept, arg.at) /\ kept.k \notin {"name", "link"} ELSE kept = arg
  /\ pc = "save" /\ cmd = "discover" =>
       /\ kept.k \notin {"link", "name"}
       /\ kept # Usb => FoundPod \in Pods /\ Of(kept, FoundPod)

\* What discover reads of a pod on its console, and on the network, where another pod
\* may answer for itself by now.
UsbEntry(s) ==
  /\ s \in UsbPod /\ s.pod \in had[s.path] /\ s.key \in {s.pod, None}
  /\ s.ip # NoTarget => OnLan(s.ip) /\ s.pod \in had[s.ip.at]
  /\ s.id = IF s.known /\ s.pod \in reg THEN s.pod ELSE None
NetEntry(n) ==
  /\ n \in NetPod /\ n.key = n.pod /\ Of(n.addr, n.pod)
  /\ n.lanAddr # NoTarget => Of(n.lanAddr, n.pod)
  /\ IF n.known
     THEN \E q \in Pods : /\ q = n.pod \/ HandedOver(n.addr.at, n.pod, q)
                          /\ n.id = IF q \in reg THEN q ELSE None
     ELSE n.id = None

\* A network pod that correlate has been over.
Matched(n) ==
  \/ n.sameAs = {} /\ \A s \in usbPods : ~Matches(n, s)
  \/ \E s \in usbPods : Matches(n, s) /\ n.sameAs = {Device(s)}

\* A console is listed once, and a pod once for each identity and once on the network;
\* what an entry says is true, and before the report every network pod has been matched
\* with the USB pods.
Reads ==
  /\ pc \in {"probe", "browse", "check", "report"} => reg \subseteq Pods
  /\ pc \in {"browse", "check", "report"} =>
       /\ \A s \in usbPods : UsbEntry(s)
       /\ \A s, t \in usbPods : Device(s) = Device(t) => s = t
       /\ \A s, t \in usbPods : s.pod = t.pod /\ s.ident = t.ident => s = t
  /\ pc \in {"check", "report"} =>
       /\ \A n \in netPods : NetEntry(n)
       /\ \A n, m \in netPods : n.pod = m.pod => n = m
  /\ pc = "check" => \A n \in netPods : ~n.known /\ n.sameAs = {}
  /\ pc = "report" => /\ account \in {None} \cup SUBSET reg
                      /\ \A n \in netPods : Matched(n)

IInv == TypeOK /\ Stage /\ SamePod /\ Reads /\ NameReachesIt

-----------------------------------------------------------------------------
(* Targets, and the one that discover --save writes.                       *)

\* The targets that are of no pod and no place.
LEMMA Bare ==
  /\ NoTarget \in Targets /\ NoTarget.k = "none"
  /\ Usb \in Targets /\ Usb.k = "usb"
  /\ NotAsked.k = "not asked"
BY DEF Targets, NoTarget, Usb, NotAsked, Target

\* Those that are of one.
LEMMA Made ==
  /\ \A k, x : Target(k, x).k = k /\ Target(k, x).at = x
  /\ \A k \in {"usb:", "name", "link"}, p \in Pods : Target(k, p) \in Targets
  /\ \A k \in {"lan", "wifi"}, x \in Addrs : Target(k, x) \in Targets
  /\ \A x \in Paths : Target("port", x) \in Targets
BY DEF Targets, Target

\* There are no others.
LEMMA Parts == \A t \in Targets :
  \/ t = NoTarget \/ t = Usb
  \/ t.k \in {"usb:", "name", "link"} /\ t.at \in Pods /\ t = Target(t.k, t.at)
  \/ t.k \in {"lan", "wifi"} /\ t.at \in Addrs
  \/ t.k = "port" /\ t.at \in Paths
BY DEF Targets, Target

\* The flag or the saved default is a target; the pod it names, if any, is a pod.
LEMMA RawFacts == Command => Raw \in Targets /\ Asked \in PodOrNone
<1> SUFFICES ASSUME Command PROVE Raw \in Targets /\ Asked \in PodOrNone
  OBVIOUS
<1>1. Raw \in Targets
  BY DEF Command, Raw
<1>2. \A t \in Targets : Named(t) \in PodOrNone
  BY Parts, Bare DEF Named, PodOrNone
<1> QED BY <1>1, <1>2 DEF Command, Asked, PodOrNone

\* The places only remember more pods, so what stood for a pod still does.
LEMMA HadGrows == Sites /\ [Next]_vars =>
  /\ \A x \in Places : had[x] \subseteq had'[x]
  /\ \A a, p : Of(a, p) => Of(a, p)'
  /\ \A x, p, q : HandedOver(x, p, q) => HandedOver(x, p, q)'
<1> SUFFICES ASSUME Sites, [Next]_vars
             PROVE  /\ \A x \in Places : had[x] \subseteq had'[x]
                    /\ \A a, p : Of(a, p) => Of(a, p)'
                    /\ \A x, p, q : HandedOver(x, p, q) => HandedOver(x, p, q)'
  OBVIOUS
<1>1. \A x \in Places : had[x] \subseteq had'[x]
  <2>1. CASE Move
    BY <2>1 DEF Move, Plug, Unplug, LinkChanges, JoinLan, LeaveLan, Takes, Sites
  <2>2. CASE had' = had
    BY <2>2
  <2> USE DEF vars, world, Held
  <2>3. CASE Start \/ ProbeSerial \/ DiscoverPods \/ CheckPods \/ Report \/ Save
    BY <2>2, <2>3 DEF Start, ProbeSerial, DiscoverPods, CheckPods, Report, Save
  <2>4. CASE Resolve \/ SetConnection \/ LocalUSBPod \/ OpenConsole \/ UsbNetAddr \/ Dial
    BY <2>2, <2>4 DEF Resolve, SetConnection, LocalUSBPod, OpenConsole, UsbNetAddr, Dial
  <2> QED BY <2>1, <2>2, <2>3, <2>4 DEF Next
<1> QED BY <1>1 DEF Of, HandedOver

\* What a name is parsed to stands for the pod it names.
LEMMA ParseFacts ==
  Sites /\ Command /\ Route /\ Stage /\ SamePod /\ pc = "resolve" /\ Parse =>
    /\ spec' \in Targets /\ heard' \in Targets \cup {NotAsked}
    /\ spec'.k # "name"
    /\ spec'.k = "none" => Raw = NoTarget
    /\ heard'.k \in {"lan", "wifi", "link"} => Raw.k = "name" /\ Of(heard', Raw.at)
    /\ Raw.k = "name" => Of(spec', Raw.at)
    /\ Raw.k # "name" => spec' = Raw
    /\ Asked # None => Of(spec', Asked)
<1> SUFFICES ASSUME Sites, Command, Route, Stage, SamePod, pc = "resolve", Parse
             PROVE  /\ spec' \in Targets /\ heard' \in Targets \cup {NotAsked}
                    /\ spec'.k # "name"
                    /\ spec'.k = "none" => Raw = NoTarget
                    /\ heard'.k \in {"lan", "wifi", "link"} => Raw.k = "name" /\ Of(heard', Raw.at)
                    /\ Raw.k = "name" => Of(spec', Raw.at)
                    /\ Raw.k # "name" => spec' = Raw
                    /\ Asked # None => Of(spec', Asked)
  OBVIOUS
<1>1. Raw \in Targets /\ heard = NotAsked
  BY RawFacts DEF Stage
<1>2. Asked # None => \/ Raw.k = "name" /\ Raw.at = Asked
                      \/ Raw.k # "name" /\ Of(Raw, Asked)
  BY Bare DEF Asked, Raw, Named, SamePod, Default, Of
<1>3. CASE Raw.k = "name"
  <2> DEFINE q == Raw.at
  <2>1. q \in Pods /\ Target("usb:", q) \in Targets /\ Target("link", q) \in Targets
    BY <1>1, <1>3, Parts, Bare, Made
  <2>2. heard' \in {NoTarget} \cup [k : {"lan", "wifi"}, at : {x \in Addrs : q \in had[x]}]
                  \cup {a \in {Target("link", q)} : q \in links}
    BY <1>1, <1>3 DEF Parse, Lookup
  <2>3. spec' = IF heard' = NoTarget THEN Target("usb:", q) ELSE heard'
    BY <1>3 DEF Parse
  <2> DEFINE Kept(s) == s \in Targets /\ s.k \notin {"name", "none"} /\ Of(s, q)
  <2>4. Kept(Target("usb:", q))
    BY <2>1, Made DEF Of
  <2>5. CASE heard' = NoTarget
    BY <1>2, <1>3, <2>3, <2>4, <2>5, Bare
  <2>6. CASE heard' \in [k : {"lan", "wifi"}, at : {x \in Addrs : q \in had[x]}]
    <3>1. Kept(heard')
      BY <2>6 DEF Targets, Of, Places
    <3> QED BY <1>2, <1>3, <2>3, <2>6, <3>1, Bare
  <2>7. CASE heard' = Target("link", q)
    <3>1. Kept(heard')
      BY <2>1, <2>7, Made DEF Of
    <3> QED BY <1>2, <1>3, <2>3, <2>7, <3>1, Bare
  <2> QED BY <2>2, <2>5, <2>6, <2>7
<1>4. CASE Raw.k # "name"
  BY <1>1, <1>2, <1>4, Parts, Bare DEF Parse
<1> QED BY <1>3, <1>4

\* usbNetAddr's addresses are of the pod whose console was opened.
LEMMA NetAddrFacts == Sites => \A p \in Pods :
  /\ NetAddr(p) \in Targets /\ Lan(p) \in Targets
  /\ NetAddr(p) # NoTarget => Of(NetAddr(p), p)
  /\ Lan(p) # NoTarget => Of(Lan(p), p)
<1> SUFFICES ASSUME Sites, NEW p \in Pods
             PROVE  /\ NetAddr(p) \in Targets /\ Lan(p) \in Targets
                    /\ NetAddr(p) # NoTarget => Of(NetAddr(p), p)
                    /\ Lan(p) # NoTarget => Of(Lan(p), p)
  OBVIOUS
<1>1. Lan(p) \in Targets /\ (Lan(p) # NoTarget => Of(Lan(p), p))
  <2>1. CASE lease[p] = None
    BY <2>1, Bare DEF Lan
  <2>2. CASE lease[p] # None
    <3>1. lease[p] \in Addrs /\ p \in had[lease[p]]
      BY <2>2 DEF Sites, Spots
    <3> QED BY <2>2, <3>1, Made DEF Lan, Of, Places
  <2> QED BY <2>1, <2>2
<1>2. CASE p \in links
  BY <1>1, <1>2, Made DEF NetAddr, Of
<1>3. CASE p \notin links
  BY <1>1, <1>3 DEF NetAddr
<1> QED BY <1>1, <1>2, <1>3

\* The pod that answers at an address of one's is that one, or has its LAN address now.
LEMMA AtFacts ==
  ASSUME Sites, NEW a, NEW p, Of(a, p), NEW q \in At(a)
  PROVE  q = p \/ (a.at \in Addrs /\ HandedOver(a.at, p, q))
<1>1. CASE a.k = "link"
  BY <1>1 DEF At, Of, OnLan
<1>2. CASE OnLan(a)
  <2>1. q \in Pods /\ lease[q] = a.at /\ a.at \in Places /\ p \in had[a.at]
    BY <1>2 DEF At, Of, OnLan
  <2>2. a.at # None /\ q \in had[a.at] /\ a.at \in Addrs
    BY <2>1, DiscoveryAssumption DEF Sites, Spots
  <2> QED BY <2>1, <2>2 DEF HandedOver
<1> QED BY <1>1, <1>2 DEF At

\* saveTarget saves an address of one network pod, or the console of the one USB pod,
\* and that is the pod discover found.
LEMMA SaveTargetFacts == Reads /\ pc = "report" =>
  /\ SaveTarget \in Targets /\ SaveTarget.k \notin {"link", "name"}
  /\ SaveTarget \notin {NoTarget, Usb} => FoundPod \in Pods /\ Of(SaveTarget, FoundPod)
<1> SUFFICES ASSUME Reads, pc = "report"
             PROVE  /\ SaveTarget \in Targets /\ SaveTarget.k \notin {"link", "name"}
                    /\ SaveTarget \notin {NoTarget, Usb} =>
                         FoundPod \in Pods /\ Of(SaveTarget, FoundPod)
  OBVIOUS
<1>1. CASE Cardinality(netPods) = 1
  <2>1. netPods # {}
    BY <1>1, FS_EmptySet
  <2> DEFINE n == CHOOSE n \in netPods : TRUE
  <2>2. n \in netPods
    BY <2>1
  <2>3. SaveTarget = SavedConnection(n) /\ FoundPod = n.pod
    BY <1>1, <2>1 DEF SaveTarget, FoundPod
  <2> HIDE DEF n
  <2>4. NetEntry(n)
    BY <2>2 DEF Reads
  <2>5. /\ n.pod \in Pods /\ n.addr \in Targets /\ n.lanAddr \in Targets
        /\ n.addr.k \in {"link", "lan"} /\ n.lanAddr.k \in {"lan", "none"}
        /\ Of(n.addr, n.pod) /\ (n.lanAddr # NoTarget => Of(n.lanAddr, n.pod))
    BY <2>4 DEF NetEntry, NetPod
  <2> QED BY <2>3, <2>5, Bare DEF SavedConnection
<1>2. CASE netPods = {} /\ Cardinality(usbPods) = 1
  <2>1. usbPods # {}
    BY <1>2, FS_EmptySet
  <2> DEFINE s == CHOOSE s \in usbPods : TRUE
  <2>2. s \in usbPods
    BY <2>1
  <2>3. Cardinality(netPods) # 1
    BY <1>2, FS_EmptySet
  <2>4. SaveTarget = Target("port", s.path) /\ FoundPod = s.pod
    BY <1>2, <2>3 DEF SaveTarget, FoundPod
  <2> HIDE DEF s
  <2>5. UsbEntry(s)
    BY <2>2 DEF Reads
  <2>6. s.path \in Paths /\ s.pod \in Pods /\ s.pod \in had[s.path]
    BY <2>5 DEF UsbEntry, UsbPod
  <2> QED BY <2>4, <2>6, Made DEF Of, Places
<1>3. CASE Cardinality(netPods) # 1 /\ ~(netPods = {} /\ Cardinality(usbPods) = 1)
  <2>1. SaveTarget = NoTarget
    BY <1>3 DEF SaveTarget
  <2> QED BY <2>1, Bare
<1> QED BY <1>1, <1>2, <1>3

\* What two entries say of themselves matches if they are of one pod whose console gave
\* the key; entries of two pods only match if the one's address has been the other's.
LEMMA MatchFacts ==
  ASSUME NEW n, NetEntry(n), NEW s, UsbEntry(s)
  PROVE  /\ Matches(n, s) => s.pod = n.pod \/ HandedOver(n.addr.at, n.pod, s.pod)
         /\ s.key # None /\ s.pod = n.pod => Matches(n, s)
<1>1. n.pod \in Pods /\ n.pod # None /\ s.pod \in Pods /\ s.pod # None
  BY DiscoveryAssumption DEF NetEntry, NetPod, UsbEntry, UsbPod
<1>2. ASSUME s.ip # NoTarget, s.ip = n.addr
      PROVE  s.pod = n.pod \/ HandedOver(n.addr.at, n.pod, s.pod)
  <2>1. OnLan(n.addr) /\ s.pod \in had[n.addr.at]
    BY <1>2 DEF UsbEntry
  <2>2. n.addr.at \in Places /\ n.pod \in had[n.addr.at]
    BY <2>1 DEF NetEntry, Of, OnLan
  <2> QED BY <2>1, <2>2 DEF HandedOver
<1>3. ASSUME n.id # None, s.id = n.id
      PROVE  s.pod = n.pod \/ HandedOver(n.addr.at, n.pod, s.pod)
  <2>1. s.id = s.pod
    BY <1>3 DEF UsbEntry
  <2>2. PICK q \in Pods : /\ q = n.pod \/ HandedOver(n.addr.at, n.pod, q)
                          /\ n.id = IF q \in reg THEN q ELSE None
    BY <1>3 DEF NetEntry
  <2> QED BY <1>3, <2>1, <2>2
<1>4. n.key # None /\ s.key = n.key => s.pod = n.pod
  BY <1>1 DEF NetEntry, UsbEntry
<1>5. s.key # None /\ s.pod = n.pod => n.key # None /\ s.key = n.key
  BY <1>1 DEF NetEntry, UsbEntry
<1> QED BY <1>2, <1>3, <1>4, <1>5 DEF Matches, Addressed

\* correlate changes nothing of an entry but which USB pod it is.
LEMMA CorrelateFacts ==
  ASSUME \A s \in usbPods : s \in UsbPod, NEW m, m \in NetPod, m.sameAs = {}, NEW n \in Correlated(m)
  PROVE  /\ n \in NetPod /\ Matched(n) /\ n.pod = m.pod
         /\ NetEntry(m) => NetEntry(n)
<1>1. CASE n = m /\ \A s \in usbPods : ~Matches(m, s)
  BY <1>1 DEF Matched
<1>2. ASSUME NEW s \in usbPods, Matches(m, s), n = [m EXCEPT !.sameAs = {Device(s)}]
      PROVE  /\ n \in NetPod /\ Matched(n) /\ n.pod = m.pod
             /\ NetEntry(m) => NetEntry(n)
  <2>1. Device(s) \in Devices
    BY DEF UsbPod, Device, Devices
  <2>2. /\ n \in NetPod /\ n.sameAs = {Device(s)} /\ n.pod = m.pod /\ n.key = m.key
        /\ n.addr = m.addr /\ n.lanAddr = m.lanAddr /\ n.id = m.id /\ n.known = m.known
    BY <1>2, <2>1, ZenonT(60) DEF NetPod
  <2>3. Matches(n, s)
    BY <1>2, <2>2 DEF Matches
  <2>4. NetEntry(m) => NetEntry(n)
    BY <2>2 DEF NetEntry
  <2> QED BY <2>2, <2>3, <2>4 DEF Matched
<1>3. Correlated(m) = LET M == {s \in usbPods : Matches(m, s)}
                      IN  IF M = {} THEN {m} ELSE {[m EXCEPT !.sameAs = {Device(s)}] : s \in M}
  BY DEF Correlated
<1> QED BY <1>1, <1>2, <1>3

\* checkPod's answer is of the pod that has the address now.
LEMMA CheckedFacts ==
  ASSUME Sites, NEW n, NetEntry(n), ~n.known, NEW m,
         m = n \/ (/\ Answers(n.addr)
                   /\ m = [n EXCEPT !.known = TRUE,
                                    !.id = IF At(n.addr) \subseteq reg
                                           THEN CHOOSE p \in At(n.addr) : TRUE ELSE None])
  PROVE  NetEntry(m) /\ m.pod = n.pod /\ m.sameAs = n.sameAs
<1>1. CASE m = n
  BY <1>1
<1>2. CASE m # n
  <2>1. Of(n.addr, n.pod) /\ n.pod \in Pods /\ n \in NetPod
    BY DEF NetEntry, NetPod
  <2> DEFINE q == CHOOSE p \in At(n.addr) : TRUE
  <2>2. q \in At(n.addr) /\ q \in Pods /\ (q = n.pod \/ HandedOver(n.addr.at, n.pod, q))
    <3>1. q \in At(n.addr)
      BY <1>2 DEF Answers
    <3> QED BY <2>1, <3>1, AtFacts DEF At
  <2>3. \A p \in At(n.addr) : p = q
    <3>1. CASE OnLan(n.addr)
      <4>1. n.addr.at \in Places
        BY <2>1, <3>1 DEF Of, OnLan
      <4>2. n.addr.at # None
        BY <4>1, DiscoveryAssumption
      <4> QED BY <2>2, <3>1, <4>2 DEF At, Sites, Spots, OnLan
    <3>2. CASE ~OnLan(n.addr)
      BY <2>2, <3>2 DEF At
    <3> QED BY <3>1, <3>2
  <2>4. At(n.addr) \subseteq reg <=> q \in reg
    BY <2>2, <2>3
  <2>5. m = [n EXCEPT !.known = TRUE, !.id = IF q \in reg THEN q ELSE None]
    BY <1>2, <2>4
  <2> HIDE DEF q
  <2>6. (IF q \in reg THEN q ELSE None) \in PodOrNone
    BY <2>2 DEF PodOrNone
  <2>7. /\ m \in NetPod /\ m.pod = n.pod /\ m.sameAs = n.sameAs /\ m.known /\ m.key = n.key
        /\ m.addr = n.addr /\ m.lanAddr = n.lanAddr /\ m.id = IF q \in reg THEN q ELSE None
    BY <2>1, <2>5, <2>6, ZenonT(60) DEF NetPod
  <2> QED BY <2>2, <2>7 DEF NetEntry
<1> QED BY <1>1, <1>2

\* A set of entries, one for each pod, has as many members as there are pods in it.
LEMMA OnePerPod ==
  ASSUME NEW S, \A s \in S : s.pod \in Pods, \A s, t \in S : s.pod = t.pod => s = t
  PROVE  /\ IsFiniteSet({s.pod : s \in S})
         /\ Cardinality(S) = Cardinality({s.pod : s \in S})
<1> DEFINE T == {s.pod : s \in S}
           f == [s \in S |-> s.pod]
<1>1. IsFiniteSet(T)
  BY FS_Subset, DiscoveryAssumption
<1>2. f \in Injection(S, T)
  BY DEF Injection, IsInjective
<1>3. f \in Bijection(S, T)
  BY <1>2 DEF Bijection, Surjection
<1>4. IsFiniteSet(S)
  BY <1>1, <1>2, FS_Injection
<1>5. Cardinality(S) = Cardinality(T)
  BY <1>3, <1>4, FS_Bijection DEF ExistsBijection
<1> QED BY <1>1, <1>5

-----------------------------------------------------------------------------
(* The invariant is inductive.                                             *)

\* The pods stay at places of their own, and the places remember them.
LEMMA SitesStep == Sites /\ [Next]_vars => Sites'
<1> SUFFICES ASSUME Sites, [Next]_vars PROVE Sites'
  OBVIOUS
<1> USE DiscoveryAssumption DEF vars, world, Held
<1>1. CASE Move
  <2>1. PICK p \in Pods : Plug(p) \/ Unplug(p) \/ LinkChanges(p) \/ JoinLan(p) \/ LeaveLan(p)
    BY <1>1 DEF Move
  <2>2. moves' \in 0 .. MaxMoves /\ ran' \in 0 .. MaxCommands
    BY <1>1 DEF Move, Sites
  <2> USE DEF Sites, Spots, Plugged
  <2>3. CASE Plug(p)
    <3>1. PICK x \in Paths \ InUse(port) : /\ port[p] = None /\ port' = [port EXCEPT ![p] = x]
                                           /\ Takes(p, x) /\ UNCHANGED <<links, lease>>
      BY <2>3 DEF Plug
    <3>2. had' \in [Places -> SUBSET Pods]
      BY <3>1 DEF Takes, Places
    <3>3. port' \in Spots(Paths)
      BY <3>1 DEF InUse
    <3>4. links' \subseteq Plugged'
      BY <3>1 DEF Places
    <3>5. \A q \in Pods : \A y \in {port'[q], lease'[q]} \ {None} : q \in had'[y]
      BY <3>1 DEF Takes, Places
    <3> QED BY <2>2, <3>1, <3>2, <3>3, <3>4, <3>5
  <2>4. CASE Unplug(p)
    <3>1. /\ port' = [port EXCEPT ![p] = None] /\ links' = links \ {p}
          /\ UNCHANGED <<lease, had>>
      BY <2>4 DEF Unplug
    <3>2. port' \in Spots(Paths) /\ links' \subseteq Plugged'
      BY <3>1
    <3> QED BY <2>2, <3>1, <3>2
  <2>5. CASE LinkChanges(p)
    BY <2>2, <2>5 DEF LinkChanges
  <2>6. CASE JoinLan(p)
    <3>1. PICK x \in Addrs \ InUse(lease) : /\ lease[p] = None /\ lease' = [lease EXCEPT ![p] = x]
                                            /\ Takes(p, x) /\ UNCHANGED <<port, links>>
      BY <2>6 DEF JoinLan
    <3>2. had' \in [Places -> SUBSET Pods]
      BY <3>1 DEF Takes, Places
    <3>3. lease' \in Spots(Addrs)
      BY <3>1 DEF InUse
    <3>4. \A q \in Pods : \A y \in {port'[q], lease'[q]} \ {None} : q \in had'[y]
      BY <3>1 DEF Takes, Places
    <3> QED BY <2>2, <3>1, <3>2, <3>3, <3>4
  <2>7. CASE LeaveLan(p)
    <3>1. lease' = [lease EXCEPT ![p] = None] /\ UNCHANGED <<port, links, had>>
      BY <2>7 DEF LeaveLan
    <3>2. lease' \in Spots(Addrs)
      BY <3>1
    <3> QED BY <2>2, <3>1, <3>2
  <2> QED BY <2>1, <2>3, <2>4, <2>5, <2>6, <2>7
<1>2. CASE Start
  BY <1>2 DEF Start, Sites, Spots, Plugged
<1>3. CASE UNCHANGED <<world, ran>>
  BY <1>3 DEF Sites, Spots, Plugged
<1>4. CASE ProbeSerial \/ DiscoverPods \/ CheckPods \/ Report \/ Save
  BY <1>3, <1>4 DEF ProbeSerial, DiscoverPods, CheckPods, Report, Save
<1>5. CASE Resolve \/ SetConnection \/ LocalUSBPod \/ OpenConsole \/ UsbNetAddr \/ Dial
  BY <1>3, <1>5 DEF Resolve, SetConnection, LocalUSBPod, OpenConsole, UsbNetAddr, Dial
<1> QED BY <1>1, <1>2, <1>3, <1>4, <1>5 DEF Next

\* The command in hand, the saved default and the outcome keep their types.
LEMMA CommandStep ==
  Sites /\ Command /\ Route /\ Stage /\ SamePod /\ [Next]_vars => Command'
<1> SUFFICES ASSUME Sites, Command, Route, Stage, SamePod, [Next]_vars PROVE Command'
  OBVIOUS
<1> USE DiscoveryAssumption, Bare DEF Command, vars, world, claim, found, way, fact, Held
<1>1. CASE Move
  BY <1>1, ZenonT(60) DEF Move
<1>2. CASE Start
  BY <1>2, ZenonT(60) DEF Start
<1>3. CASE ProbeSerial
  BY <1>3, ZenonT(60) DEF ProbeSerial, Go
<1>4. CASE DiscoverPods
  BY <1>4, ZenonT(60) DEF DiscoverPods, Go
<1>5. CASE CheckPods
  BY <1>5, ZenonT(60) DEF CheckPods
<1>6. CASE Report
  BY <1>6 DEF Report, Finish, Go
<1>7. CASE Save
  <2>1. conn' = kept /\ UNCHANGED <<cmd, arg>> /\ pc' = "idle" /\ result' = "saved"
    BY <1>7 DEF Save, Finish
  <2>2. meant' \in PodOrNone
    <3>1. \A t \in Targets : Named(t) \in PodOrNone
      BY Parts, Bare DEF Named, PodOrNone
    <3>2. cmd = "set" \/ kept = Usb \/ FoundPod \in Pods
      BY <1>7 DEF Save, SamePod, Stage
    <3> QED BY <1>7, <3>1, <3>2 DEF Save, PodOrNone
  <2> QED BY <2>1, <2>2 DEF Route
<1>8. CASE Resolve
  BY <1>8 DEF Resolve, Finish, Go, Stage
<1>9. CASE SetConnection
  BY <1>9 DEF SetConnection, Go
<1>10. CASE LocalUSBPod
  BY <1>10 DEF LocalUSBPod, Go
<1>11. CASE OpenConsole
  BY <1>11 DEF OpenConsole, Finish, Go
<1>12. CASE UsbNetAddr
  BY <1>12 DEF UsbNetAddr, Finish, Go
<1>13. CASE Dial
  BY <1>13 DEF Dial, Finish
<1>14. CASE UNCHANGED vars
  BY <1>14
<1> QED BY <1>1, <1>2, <1>3, <1>4, <1>5, <1>6, <1>7, <1>8, <1>9, <1>10, <1>11, <1>12,
  <1>13, <1>14 DEF Next

\* So does the way a command takes.
LEMMA RouteStep ==
  Sites /\ Command /\ Route /\ Stage /\ SamePod /\ Reads /\ [Next]_vars => Route'
<1> SUFFICES ASSUME Sites, Command, Route, Stage, SamePod, Reads, [Next]_vars
             PROVE  Route'
  OBVIOUS
<1> USE DiscoveryAssumption, Bare DEF Route, vars, world, claim, found, way, fact, Held
<1>0. Ways \subseteq Places /\ {} \subseteq Places /\ None \in PodOrNone /\ Pods \subseteq PodOrNone
  BY DEF Ways, PodOrNone
<1>1. CASE Move
  BY <1>1, ZenonT(60) DEF Move
<1>2. CASE Start
  BY <1>0, <1>2, ZenonT(60) DEF Start
<1>3. CASE ProbeSerial
  BY <1>3, ZenonT(60) DEF ProbeSerial
<1>4. CASE DiscoverPods
  BY <1>4, ZenonT(60) DEF DiscoverPods
<1>5. CASE CheckPods
  BY <1>5, ZenonT(60) DEF CheckPods
<1>6. CASE Report
  BY <1>6, SaveTargetFacts DEF Report, Finish, Go
<1>7. CASE Save
  BY <1>7 DEF Save, Finish
<1>8. CASE Resolve
  <2>1. CASE cmd = "net" /\ Raw = NoTarget
    BY <1>8, <2>1 DEF Resolve, Finish
  <2>2. CASE ~(cmd = "net" /\ Raw = NoTarget)
    <3>1. pc = "resolve" /\ Parse /\ addr' = spec' /\ UNCHANGED <<kept, fact>>
      BY <1>8, <2>2 DEF Resolve
    <3>2. spec' \in Targets /\ heard' \in Targets \cup {NotAsked}
      BY <3>1, ParseFacts
    <3> QED BY <3>1, <3>2
  <2> QED BY <2>1, <2>2
<1>9. CASE SetConnection
  <2>1. OnLan(heard) => heard \in Targets
    BY DEF OnLan
  <2>2. arg \in Targets /\ (arg.k = "name" => Target("usb:", arg.at) \in Targets)
    BY Parts, Made DEF Command
  <2> QED BY <1>9, <2>1, <2>2 DEF SetConnection
<1>10. CASE LocalUSBPod
  <2>1. \A p \in Pods : Target("link", p) \in Targets
    BY Made
  <2>2. \A said \in SUBSET links : PickUSBLink(Named(spec), said) \subseteq Pods
    BY DEF PickUSBLink, Sites, Plugged
  <2>3. addr' \in Targets
    BY <1>10, <2>1, <2>2 DEF LocalUSBPod
  <2> QED BY <1>10, <2>3 DEF LocalUSBPod
<1>11. CASE OpenConsole
  <2>1. CASE Finish("error") /\ UNCHANGED fact
    BY <2>1 DEF Finish
  <2>2. ASSUME NEW p \in Pods, addr' = NetAddr(p), kept' = Lan(p),
               UNCHANGED <<found, heard, spec, fact>>
        PROVE  Route'
    BY <2>2, NetAddrFacts
  <2>3. CASE Finish("ok") /\ reached' \in Pods /\ used' = Ways
    BY <1>0, <2>3 DEF Finish
  <2> QED BY <1>11, <2>1, <2>2, <2>3 DEF OpenConsole, Plugged
<1>12. CASE UsbNetAddr
  BY <1>12 DEF UsbNetAddr, Finish, Go
<1>13. CASE Dial
  <2>1. reached' \in PodOrNone /\ used' \subseteq Places
    BY <1>0, <1>13 DEF Dial, At
  <2>2. \/ Finish("ok") \/ Finish("error")
    BY <1>13 DEF Dial
  <2> QED BY <2>1, <2>2 DEF Finish
<1>14. CASE UNCHANGED vars
  BY <1>14
<1> QED BY <1>1, <1>2, <1>3, <1>4, <1>5, <1>6, <1>7, <1>8, <1>9, <1>10, <1>11, <1>12,
  <1>13, <1>14 DEF Next

\* Each step is taken by the commands that have it, with a target it can use.
LEMMA StageStep ==
  Sites /\ Command /\ Route /\ Stage /\ SamePod /\ [Next]_vars => Stage'
<1> SUFFICES ASSUME Sites, Command, Route, Stage, SamePod, [Next]_vars PROVE Stage'
  OBVIOUS
<1> USE Bare DEF Stage, vars, world, claim, found, way, fact, Held
<1>1. CASE Move
  BY <1>1, ZenonT(60) DEF Move
<1>2. CASE Start
  BY <1>2, ZenonT(60) DEF Start
<1>3. CASE ProbeSerial
  BY <1>3, ZenonT(60) DEF ProbeSerial, Go
<1>4. CASE DiscoverPods
  BY <1>4, ZenonT(60) DEF DiscoverPods, Go
<1>5. CASE CheckPods
  BY <1>5, ZenonT(60) DEF CheckPods
<1>6. CASE Report
  BY <1>6 DEF Report, Finish, Go
<1>7. CASE Save
  BY <1>7 DEF Save, Finish
<1>8. CASE Resolve
  <2>1. CASE cmd = "net" /\ Raw = NoTarget
    BY <1>8, <2>1 DEF Resolve, Finish
  <2>2. CASE ~(cmd = "net" /\ Raw = NoTarget)
    <3>1. pc = "resolve" /\ Parse /\ UNCHANGED <<cmd, arg>>
      BY <1>8, <2>2 DEF Resolve
    <3>2. /\ spec'.k # "name" /\ (spec'.k = "none" => Raw = NoTarget) /\ spec' \in Targets
      BY <3>1, ParseFacts
    <3>3. CASE cmd = "set"
      BY <1>8, <2>2, <3>1, <3>3 DEF Resolve, Go
    <3>4. CASE cmd = "con"
      BY <1>8, <2>2, <3>1, <3>4 DEF Resolve, Go
    <3>5. CASE cmd = "net"
      <4>1. spec'.k \in {"usb", "usb:", "lan", "wifi", "link", "port"}
        BY <2>2, <3>2, <3>5, Parts
      <4>2. /\ result' = result
            /\ pc' = IF OnLan(spec') \/ spec'.k = "link" THEN "dial"
                     ELSE IF spec'.k = "port" THEN "console" ELSE "local link"
        BY <1>8, <2>2, <3>1, <3>5 DEF Resolve, Go
      <4> QED BY <3>1, <3>5, <4>1, <4>2 DEF OnLan
    <3> QED BY <3>1, <3>3, <3>4, <3>5
  <2> QED BY <2>1, <2>2
<1>9. CASE SetConnection
  BY <1>9 DEF SetConnection, Go
<1>10. CASE LocalUSBPod
  BY <1>10 DEF LocalUSBPod, Go
<1>11. CASE OpenConsole
  BY <1>11, ZenonT(60) DEF OpenConsole, Finish, Go
<1>12. CASE UsbNetAddr
  BY <1>12 DEF UsbNetAddr, Finish, Go
<1>13. CASE Dial
  BY <1>13 DEF Dial, Finish
<1>14. CASE UNCHANGED vars
  BY <1>14
<1> QED BY <1>1, <1>2, <1>3, <1>4, <1>5, <1>6, <1>7, <1>8, <1>9, <1>10, <1>11, <1>12,
  <1>13, <1>14 DEF Next

\* The pod is kept from the name to the address and to the saved default.
LEMMA SamePodStep ==
  Sites /\ Command /\ Route /\ Stage /\ SamePod /\ Reads /\ [Next]_vars => SamePod'
<1> SUFFICES ASSUME Sites, Command, Route, Stage, SamePod, Reads, [Next]_vars PROVE SamePod'
  OBVIOUS
<1> USE DiscoveryAssumption, Bare DEF vars, world, claim, found, way, fact, Held
<1>a. (conn' = conn /\ meant' = meant /\ had' = had) => Default' /\ conn'.k # "name"
  BY DEF SamePod, Default, Of
<1>b. ASSUME UNCHANGED <<conn, meant, had>>, pc' \notin {"local link", "console", "dial link", "dial", "save"},
             heard' = NotAsked \/ (heard' = heard /\ UNCHANGED arg)
      PROVE  SamePod'
  BY <1>a, <1>b, ZenonT(60) DEF SamePod, Of, Raw
<1>1. CASE Move \/ UNCHANGED vars
  <2>1. UNCHANGED <<claim, conn, meant, ran, cmd, arg, pc, found, way, kept, fact, result>>
    BY <1>1 DEF Move
  <2>2. /\ \A a, p : Of(a, p) => Of(a, p)'
        /\ \A x \in Places : had[x] \subseteq had'[x]
    BY HadGrows
  <2>3. Raw' = Raw /\ Asked' = Asked /\ FoundPod' = FoundPod
    BY <2>1 DEF Raw, Asked, FoundPod
  <2>4. /\ Default' /\ conn'.k # "name"
        /\ heard'.k \in {"lan", "wifi", "link"} => Raw'.k = "name" /\ Of(heard, Raw.at)'
    BY <2>1, <2>2, <2>3 DEF SamePod, Default, Of
  <2>5. pc' \in {"local link", "console", "dial link", "dial"} =>
          /\ Asked' # None => Of(spec, Asked)'
          /\ Raw'.k \in {"usb:", "port"} => spec' = Raw'
    BY <2>1, <2>2, <2>3 DEF SamePod, Of
  <2>6. ASSUME pc' \in {"dial link", "dial"}, Asked' # None
        PROVE  \E q \in Pods : /\ Led(q)' /\ Of(addr, q)'
                               /\ pc' = "dial link" /\ kept' # NoTarget => Of(kept, q)'
    <3>1. PICK q \in Pods : /\ Led(q) /\ Of(addr, q)
                            /\ pc = "dial link" /\ kept # NoTarget => Of(kept, q)
      BY <2>1, <2>3, <2>6 DEF SamePod
    <3>2. Led(q)'
      <4>1. CASE q = Asked
        BY <2>3, <4>1 DEF Led
      <4>2. CASE spec.k = "port" /\ HandedOver(spec.at, Asked, q)
        <5>1. HandedOver(spec.at, Asked, q)'
          BY <2>1, <2>2, <2>3, <4>2 DEF HandedOver
        <5> QED BY <2>1, <4>2, <5>1 DEF Led
      <4> QED BY <3>1, <4>1, <4>2 DEF Led
    <3> QED BY <2>1, <2>2, <3>1, <3>2 DEF Of
  <2>7. /\ pc' = "save" /\ cmd' = "set" =>
             IF arg'.k = "name" THEN Of(kept, arg.at)' /\ kept'.k \notin {"name", "link"}
             ELSE kept' = arg'
        /\ pc' = "save" /\ cmd' = "discover" =>
             /\ kept'.k \notin {"link", "name"}
             /\ kept' # Usb => FoundPod' \in Pods /\ Of(kept, FoundPod)'
    BY <2>1, <2>2, <2>3 DEF SamePod, Of
  <2> QED BY <2>4, <2>5, <2>6, <2>7 DEF SamePod
<1>2. CASE Start
  <2>1. UNCHANGED <<conn, meant, had, heard>> /\ pc = "idle" /\ pc' \in {"probe", "resolve"}
    BY <1>2 DEF Start
  <2>2. heard' = NotAsked /\ pc' \notin {"local link", "console", "dial link", "dial", "save"}
    BY <2>1 DEF Stage
  <2> QED BY ONLY <1>b, <2>1, <2>2
<1>3. CASE ProbeSerial
  BY <1>3, <1>b DEF ProbeSerial, Go
<1>4. CASE DiscoverPods
  BY <1>4, <1>b DEF DiscoverPods, Go
<1>5. CASE CheckPods
  BY <1>5, <1>b DEF CheckPods
<1>6. CASE Report
  <2>1. CASE pc' = "idle" /\ heard' = NotAsked
    BY <1>6, <1>b, <2>1 DEF Report
  <2>2. CASE /\ SaveTarget # NoTarget /\ pc' = "save" /\ kept' = SaveTarget
             /\ UNCHANGED <<found, way>>
    <3>1. /\ kept'.k \notin {"link", "name"}
          /\ kept' # Usb => FoundPod' \in Pods /\ Of(kept', FoundPod)
      BY <1>6, <2>2, SaveTargetFacts DEF Report, FoundPod
    <3>2. UNCHANGED <<had, cmd, arg, conn, meant, heard>> /\ cmd = "discover" /\ FoundPod' = FoundPod
      BY <1>6, <2>2 DEF Report, Stage, FoundPod
    <3>3. heard'.k \in {"lan", "wifi", "link"} => Raw'.k = "name" /\ Of(heard, Raw.at)'
      BY <3>2 DEF SamePod, Raw, Of
    <3>4. pc' = "save" /\ cmd' = "discover" =>
             /\ kept'.k \notin {"link", "name"}
             /\ kept' # Usb => FoundPod' \in Pods /\ Of(kept, FoundPod)'
      BY <3>1, <3>2 DEF Of
    <3> QED BY <1>a, <2>2, <3>2, <3>3, <3>4 DEF SamePod
  <2> QED BY <1>6, <2>1, <2>2 DEF Report, Finish, Go
<1>7. CASE Save
  <2>1. conn' = kept /\ had' = had /\ pc' = "idle" /\ heard' = NotAsked
    BY <1>7 DEF Save, Finish
  <2>2. CASE cmd = "set"
    BY <1>7, <2>1, <2>2 DEF Save, SamePod, Default, Named, Of, Command
  <2>3. CASE cmd = "discover"
    BY <1>7, <2>1, <2>3 DEF Save, SamePod, Default, Of
  <2> QED BY <1>7, <2>2, <2>3 DEF Save, Stage
<1>8. CASE Resolve
  <2>1. CASE cmd = "net" /\ Raw = NoTarget
    BY <1>8, <1>b, <2>1 DEF Resolve, Finish
  <2>2. CASE ~(cmd = "net" /\ Raw = NoTarget)
    <3>1. /\ pc = "resolve" /\ Parse /\ addr' = spec'
          /\ UNCHANGED <<had, cmd, arg, conn, meant, kept>>
      BY <1>8, <2>2 DEF Resolve
    <3>2. /\ heard'.k \in {"lan", "wifi", "link"} => Raw.k = "name" /\ Of(heard', Raw.at)
          /\ Raw.k # "name" => spec' = Raw
          /\ Asked # None => Of(spec', Asked)
      BY <3>1, ParseFacts
    <3>3. Raw' = Raw /\ Asked' = Asked
      BY <3>1 DEF Raw, Asked
    <3>4. /\ heard'.k \in {"lan", "wifi", "link"} => Raw'.k = "name" /\ Of(heard, Raw.at)'
          /\ Asked' # None => Of(spec, Asked)' /\ Of(addr, Asked)' /\ Led(Asked)'
          /\ Raw'.k \in {"usb:", "port"} => spec' = Raw'
      BY <3>1, <3>2, <3>3 DEF Of, Led
    <3>5. pc' \in {"target", "console", "dial", "local link"}
      BY <1>8, <2>2 DEF Resolve, Go, Stage
    <3>6. Asked' # None => Asked' \in Pods
      BY <3>3, RawFacts DEF PodOrNone
    <3> QED BY <1>a, <3>1, <3>3, <3>4, <3>5, <3>6, ZenonT(60) DEF SamePod
  <2> QED BY <2>1, <2>2
<1>9. CASE SetConnection
  <2>1. /\ pc = "target" /\ pc' = "save" /\ cmd = "set" /\ arg # NoTarget
        /\ UNCHANGED <<had, cmd, arg, conn, meant, heard>>
        /\ kept' = IF arg.k # "name" THEN arg
                   ELSE IF OnLan(heard) THEN heard ELSE Target("usb:", arg.at)
    BY <1>9 DEF SetConnection, Go, Stage
  <2>2. Raw = arg
    BY <2>1 DEF Raw
  <2>3. IF arg.k = "name" THEN Of(kept', arg.at) /\ kept'.k \notin {"name", "link"} ELSE kept' = arg
    <3>1. CASE arg.k # "name"
      BY <2>1, <3>1
    <3>2. CASE arg.k = "name" /\ OnLan(heard)
      BY <2>1, <2>2, <3>2 DEF SamePod, OnLan
    <3>3. CASE arg.k = "name" /\ ~OnLan(heard)
      BY <2>1, <3>3 DEF Of, Target
    <3> QED BY <3>1, <3>2, <3>3
  <2>4. heard'.k \in {"lan", "wifi", "link"} => Raw'.k = "name" /\ Of(heard, Raw.at)'
    BY <2>1 DEF SamePod, Raw, Of
  <2>5. IF arg'.k = "name" THEN Of(kept, arg.at)' /\ kept'.k \notin {"name", "link"} ELSE kept' = arg'
    BY <2>1, <2>3 DEF Of
  <2> QED BY <1>a, <2>1, <2>4, <2>5 DEF SamePod
<1>10. CASE LocalUSBPod
  <2>1. /\ pc = "local link" /\ spec.k \in {"usb", "usb:"}
        /\ UNCHANGED <<had, cmd, arg, conn, meant, heard, spec, kept>>
    BY <1>10 DEF LocalUSBPod, Stage
  <2>2. Raw' = Raw /\ Asked' = Asked /\ (\A p : Led(p)' <=> Led(p))
    BY <2>1 DEF Raw, Asked, Led, HandedOver
  <2>3. /\ heard'.k \in {"lan", "wifi", "link"} => Raw'.k = "name" /\ Of(heard, Raw.at)'
        /\ Asked' # None => Of(spec, Asked)'
        /\ Raw'.k \in {"usb:", "port"} => spec' = Raw'
    BY <2>1, <2>2 DEF SamePod, Of
  <2>4. CASE pc' = "console"
    BY <1>a, <2>1, <2>3, <2>4 DEF SamePod
  <2>5. ASSUME NEW said \in SUBSET links, NEW p \in PickUSBLink(Named(spec), said),
               addr' = Target("link", p), pc' = "dial"
        PROVE  SamePod'
    <3>1. Asked # None => p = Asked /\ p \in Pods
      <4> SUFFICES ASSUME Asked # None PROVE p = Asked /\ p \in Pods
        OBVIOUS
      <4>1. Named(spec) = Asked
        BY <2>1 DEF SamePod, Of, Named
      <4>2. p = Asked /\ p \in links
        BY <2>5, <4>1 DEF PickUSBLink
      <4> QED BY <4>2 DEF Sites, Plugged
    <3>2. Asked' # None => p \in Pods /\ Led(p)' /\ Of(addr, p)'
      BY <2>2, <2>5, <3>1, Made DEF Led, Of
    <3> QED BY <1>a, <2>1, <2>3, <2>5, <3>2 DEF SamePod
  <2> QED BY <1>10, <2>4, <2>5 DEF LocalUSBPod, Go
<1>11. CASE OpenConsole
  <2>1. CASE pc' = "idle" /\ heard' = NotAsked
    BY <1>11, <1>b, <2>1 DEF OpenConsole
  <2>2. ASSUME NEW p \in Plugged, cmd = "net", Opens(p), NetAddr(p) # NoTarget,
               addr' = NetAddr(p), kept' = Lan(p), pc' = "dial link", UNCHANGED <<heard, spec>>
        PROVE  SamePod'
    <3>1. /\ pc = "console" /\ UNCHANGED <<had, cmd, arg, conn, meant>>
          /\ spec.k \in {"usb", "usb:", "port"} /\ p \in Pods /\ port[p] # None
      BY <1>11, <2>2 DEF OpenConsole, Stage, Plugged
    <3>2. Raw' = Raw /\ Asked' = Asked /\ (\A q : Led(q)' <=> Led(q))
      BY <2>2, <3>1 DEF Raw, Asked, Led, HandedOver
    <3>3. /\ heard'.k \in {"lan", "wifi", "link"} => Raw'.k = "name" /\ Of(heard, Raw.at)'
          /\ Asked' # None => Of(spec, Asked)'
          /\ Raw'.k \in {"usb:", "port"} => spec' = Raw'
      BY <2>2, <3>1, <3>2 DEF SamePod, Of
    <3>4. Asked # None => Led(p)
      <4> SUFFICES ASSUME Asked # None PROVE Led(p)
        OBVIOUS
      <4>1. Of(spec, Asked)
        BY <3>1 DEF SamePod
      <4>2. CASE spec.k = "port"
        <5>1. port[p] = spec.at /\ spec.at \in Places /\ Asked \in had[spec.at]
          BY <2>2, <4>1, <4>2 DEF Opens, Of
        <5>2. p \in had[spec.at]
          BY <3>1, <5>1 DEF Sites
        <5> QED BY <4>2, <5>1, <5>2 DEF Led, HandedOver
      <4>3. CASE spec.k # "port"
        BY <2>2, <3>1, <4>1, <4>3 DEF Opens, Of, Led
      <4> QED BY <4>2, <4>3
    <3>5. Of(NetAddr(p), p) /\ (Lan(p) # NoTarget => Of(Lan(p), p))
      BY <2>2, <3>1, NetAddrFacts
    <3>6. Of(addr, p)' /\ (kept' # NoTarget => Of(kept, p)')
      BY <2>2, <3>1, <3>5 DEF Of
    <3>7. Asked' # None => Led(p)'
      BY <3>2, <3>4
    <3>8. Asked' # None => \E q \in Pods : /\ Led(q)' /\ Of(addr, q)'
                                           /\ kept' # NoTarget => Of(kept, q)'
      BY <3>1, <3>6, <3>7
    <3> QED BY <1>a, <2>2, <3>1, <3>3, <3>8, ZenonT(60) DEF SamePod
  <2>3. CASE \E p \in Plugged : /\ Opens(p) /\ cmd # "con" /\ NetAddr(p) # NoTarget
                                /\ addr' = NetAddr(p) /\ kept' = Lan(p) /\ Go("dial link")
                                /\ UNCHANGED <<found, heard, spec, fact>>
    <3>1. cmd = "net"
      BY <1>11, <2>3 DEF OpenConsole, Stage
    <3> QED BY <2>2, <2>3, <3>1 DEF Go
  <2> QED BY <1>11, <2>1, <2>3 DEF OpenConsole, Finish
<1>12. CASE UsbNetAddr
  <2>1. CASE pc' = "idle" /\ heard' = NotAsked
    BY <1>12, <1>b, <2>1 DEF UsbNetAddr
  <2>2. CASE /\ pc' \in {"dial", "dial link"} /\ UNCHANGED <<heard, spec, kept>>
             /\ addr' = addr \/ (kept # NoTarget /\ addr' = kept)
    <3>1. pc = "dial link" /\ UNCHANGED <<had, cmd, arg, conn, meant>>
      BY <1>12 DEF UsbNetAddr
    <3>2. Raw' = Raw /\ Asked' = Asked /\ (\A q : Led(q)' <=> Led(q))
      BY <2>2, <3>1 DEF Raw, Asked, Led, HandedOver
    <3>3. /\ heard'.k \in {"lan", "wifi", "link"} => Raw'.k = "name" /\ Of(heard, Raw.at)'
          /\ Asked' # None => Of(spec, Asked)'
          /\ Raw'.k \in {"usb:", "port"} => spec' = Raw'
      BY <2>2, <3>1, <3>2 DEF SamePod, Of
    <3>4. ASSUME Asked' # None
          PROVE  \E q \in Pods : /\ Led(q)' /\ Of(addr, q)'
                                 /\ kept' # NoTarget => Of(kept, q)'
      <4>1. PICK q \in Pods : /\ Led(q) /\ Of(addr, q) /\ (kept # NoTarget => Of(kept, q))
        BY <3>1, <3>2, <3>4 DEF SamePod
      <4>2. Of(addr', q)
        BY <2>2, <4>1
      <4>3. Of(addr, q)' /\ (kept' # NoTarget => Of(kept, q)')
        BY <2>2, <3>1, <4>1, <4>2 DEF Of
      <4> QED BY <3>2, <4>1, <4>3
    <3> QED BY <1>a, <2>2, <3>1, <3>3, <3>4, ZenonT(60) DEF SamePod
  <2> QED BY <1>12, <2>1, <2>2 DEF UsbNetAddr, Finish, Go
<1>13. CASE Dial
  BY <1>13, <1>b DEF Dial, Finish
<1> QED BY <1>1, <1>2, <1>3, <1>4, <1>5, <1>6, <1>7, <1>8, <1>9, <1>10, <1>11, <1>12,
  <1>13 DEF Next

\* A command that ends well has talked to the pod asked for, or to one that has had a
\* place it went by.
LEMMA NameStep ==
  Sites /\ Command /\ Route /\ Stage /\ SamePod /\ NameReachesIt /\ [Next]_vars => NameReachesIt'
<1> SUFFICES ASSUME Sites, Command, Route, Stage, SamePod, NameReachesIt, [Next]_vars
             PROVE  NameReachesIt'
  OBVIOUS
<1> USE Bare DEF vars, world, claim, found, way, fact, Held
<1>a. result' # "ok" => NameReachesIt'
  BY DEF NameReachesIt
<1>1. CASE Move \/ UNCHANGED vars
  <2>1. UNCHANGED <<conn, meant, cmd, arg, fact, result>>
    BY <1>1 DEF Move
  <2>2. Raw' = Raw /\ Asked' = Asked
    BY <2>1 DEF Raw, Asked
  <2>3. \A x \in Places : had[x] \subseteq had'[x]
    BY HadGrows
  <2>4. ASSUME NEW x \in used, NEW q \in Pods, HandedOver(x, Asked, q)
        PROVE  HandedOver(x, Asked, q)'
    BY <2>2, <2>3, <2>4 DEF HandedOver
  <2> QED BY <2>1, <2>2, <2>4 DEF NameReachesIt
<1>2. CASE Start
  BY <1>2, <1>a DEF Start
<1>3. CASE ProbeSerial \/ DiscoverPods
  BY <1>3, <1>a DEF ProbeSerial, DiscoverPods, Go, Stage
<1>4. CASE CheckPods \/ Report \/ Save
  BY <1>4, <1>a DEF CheckPods, Report, Save, Finish, Go, Stage
<1>5. CASE Resolve
  BY <1>5, <1>a DEF Resolve, Finish, Go, Stage
<1>6. CASE SetConnection \/ LocalUSBPod \/ UsbNetAddr
  BY <1>6, <1>a DEF SetConnection, LocalUSBPod, UsbNetAddr, Finish, Go, Stage
<1>7. CASE OpenConsole
  <2>1. CASE result' # "ok"
    BY <1>a, <2>1
  <2>2. CASE result' = "ok"
    <3>1. /\ pc = "console" /\ UNCHANGED <<had, conn, meant, cmd, arg>> /\ used' = Ways
          /\ reached' \in Plugged /\ Opens(reached') /\ cmd = "con"
      BY <1>7, <2>2 DEF OpenConsole, Finish, Go, Stage
    <3>2. Raw' = Raw /\ Asked' = Asked
      BY <3>1 DEF Raw, Asked
    <3>3. ASSUME Asked \notin {None, reached'}, Raw.k \in {"usb:", "port"}
          PROVE  \E x \in used', q \in Pods : HandedOver(x, Asked, q)
      <4>1. Of(spec, Asked) /\ spec.k \in {"usb:", "port"}
        BY <3>1, <3>3 DEF SamePod
      <4>2. spec.k = "port" /\ port[reached'] = spec.at /\ reached' \in Pods /\ port[reached'] # None
        BY <3>1, <3>3, <4>1 DEF Opens, Of, Plugged
      <4>3. spec.at \in Places /\ {Asked, reached'} \subseteq had[spec.at]
        BY <4>1, <4>2 DEF Of, Sites
      <4>4. spec.at \in used' /\ HandedOver(spec.at, Asked, reached')
        BY <3>1, <3>3, <4>3 DEF Ways, HandedOver
      <4> QED BY <4>2, <4>4
    <3> QED BY <3>1, <3>2, <3>3 DEF NameReachesIt, HandedOver
  <2> QED BY <2>1, <2>2
<1>8. CASE Dial
  <2>1. CASE result' # "ok"
    BY <1>a, <2>1
  <2>2. CASE result' = "ok"
    <3>1. /\ pc = "dial" /\ UNCHANGED <<had, conn, meant, cmd, arg>> /\ used' = Ways
          /\ reached' \in At(addr)
      BY <1>8, <2>2 DEF Dial, Finish
    <3>2. Raw' = Raw /\ Asked' = Asked
      BY <3>1 DEF Raw, Asked
    <3>3. ASSUME Asked \notin {None, reached'}
          PROVE  \E x \in used', q \in Pods : HandedOver(x, Asked, q)
      <4>1. PICK q \in Pods : Led(q) /\ Of(addr, q)
        BY <3>1, <3>3 DEF SamePod
      <4>2. reached' \in Pods
        BY <3>1 DEF At
      <4>3. CASE q = Asked
        <5>1. addr.at \in Addrs /\ HandedOver(addr.at, Asked, reached')
          BY <3>1, <3>3, <4>1, <4>3, AtFacts
        <5>2. addr.at \in used'
          BY <3>1, <5>1 DEF Ways, Places
        <5> QED BY <4>2, <5>1, <5>2
      <4>4. CASE spec.k = "port" /\ HandedOver(spec.at, Asked, q)
        <5>1. spec.at \in used'
          BY <3>1, <4>4 DEF Ways, HandedOver
        <5> QED BY <4>4, <5>1
      <4> QED BY <4>1, <4>3, <4>4 DEF Led
    <3> QED BY <3>1, <3>2, <3>3 DEF NameReachesIt, HandedOver
  <2> QED BY <2>1, <2>2
<1> QED BY <1>1, <1>2, <1>3, <1>4, <1>5, <1>6, <1>7, <1>8 DEF Next

\* ProbeSerial makes one entry for each identity of a pod's console, discoverPods one for
\* each pod they hear of; checkPod and correlate fill them in; no other step changes them
\* while discover runs.
LEMMA ReadsStep ==
  Sites /\ Command /\ Route /\ Stage /\ Reads /\ [Next]_vars => Reads'
<1> SUFFICES ASSUME Sites, Command, Route, Stage, Reads, [Next]_vars
             PROVE Reads'
  OBVIOUS
<1> USE DEF vars, world, claim, found, way, fact, Held
<1>1. CASE Move \/ UNCHANGED vars
  <2>1. UNCHANGED <<claim, pc, found>>
    BY <1>1 DEF Move
  <2>2. /\ \A x \in Places : had[x] \subseteq had'[x]
        /\ \A a, p : Of(a, p) => Of(a, p)'
        /\ \A x, p, q : HandedOver(x, p, q) => HandedOver(x, p, q)'
    BY HadGrows
  <2>3. ASSUME NEW s, UsbEntry(s) PROVE UsbEntry(s)'
    <3>1. s.path \in Places /\ (s.ip # NoTarget => s.ip.at \in Places)
      <4>1. s.path \in Paths /\ s.ip \in Targets /\ (s.ip # NoTarget => s.ip.k \in {"lan", "wifi"})
        BY <2>3 DEF UsbEntry, UsbPod, OnLan
      <4> QED BY <4>1, Parts, Bare DEF Places
    <3> QED BY <2>1, <2>2, <2>3, <3>1 DEF UsbEntry
  <2>4. ASSUME NEW n, NetEntry(n) PROVE NetEntry(n)'
    <3>1. Of(n.addr, n.pod)' /\ (n.lanAddr # NoTarget => Of(n.lanAddr, n.pod)')
      BY <2>2, <2>4 DEF NetEntry
    <3>2. n.known => \E q \in Pods : /\ q = n.pod \/ HandedOver(n.addr.at, n.pod, q)'
                                     /\ n.id = IF q \in reg' THEN q ELSE None
      BY <2>1, <2>2, <2>4 DEF NetEntry
    <3> QED BY <2>4, <3>1, <3>2 DEF NetEntry
  <2>5. \A n : Matched(n) => Matched(n)'
    BY <2>1 DEF Matched, Matches, Addressed
  <2> QED BY <2>1, <2>3, <2>4, <2>5 DEF Reads
<1>2. CASE Start
  BY <1>2 DEF Start, Reads
<1>3. CASE ProbeSerial
  <2>1. PICK told \in [Plugged -> Replies], k \in {"lan", "wifi"} : ProbeSerial!(told, k)
    BY <1>3 DEF ProbeSerial
  <2> DEFINE E(p, i) == [pod |-> p, path |-> port[p], ident |-> i,
                 ip |-> IF lease[p] = None THEN NoTarget ELSE Target(k, lease[p]),
                 known |-> told[p] \notin {"no cloud", "old"},
                 id  |-> IF told[p] \notin {"no cloud", "old"} /\ p \in reg THEN p ELSE None,
                 key |-> IF told[p] \notin {"no key", "old"} THEN p ELSE None]
  <2>2. /\ pc = "probe" /\ pc' = "browse" /\ reg' = reg /\ had' = had
        /\ usbPods' = UNION {{E(p, i) : i \in Ident(told[p])} : p \in Plugged}
        /\ reg \subseteq Pods
    BY <2>1 DEF Go, Reads
  <2>3. ASSUME NEW p \in Plugged, NEW i \in {"mac", "dev"}
        PROVE  UsbEntry(E(p, i)) /\ E(p, i).pod = p /\ E(p, i).path = port[p] /\ E(p, i).ident = i
    <3>1. /\ p \in Pods /\ port[p] \in Paths /\ p \in had[port[p]]
          /\ lease[p] # None => lease[p] \in Addrs /\ p \in had[lease[p]]
      BY DEF Plugged, Sites, Spots
    <3> DEFINE ip == IF lease[p] = None THEN NoTarget ELSE Target(k, lease[p])
               known == told[p] \notin {"no cloud", "old"}
               id == IF told[p] \notin {"no cloud", "old"} /\ p \in reg THEN p ELSE None
               key == IF told[p] \notin {"no key", "old"} THEN p ELSE None
    <3>2. /\ ip \in Targets /\ (ip # NoTarget => OnLan(ip) /\ p \in had[ip.at])
          /\ known \in BOOLEAN /\ key \in {p, None} /\ id \in PodOrNone /\ key \in PodOrNone
          /\ id = IF known /\ p \in reg THEN p ELSE None
      <4>1. ip \in Targets /\ (ip # NoTarget => OnLan(ip) /\ p \in had[ip.at])
        BY <3>1, Made, Bare DEF OnLan
      <4>2. known \in BOOLEAN
        BY Zenon
      <4>3. key \in {p, None} /\ id \in PodOrNone /\ key \in PodOrNone
        BY <3>1 DEF PodOrNone
      <4> QED BY <4>1, <4>2, <4>3
    <3>3. E(p, i) = [pod |-> p, path |-> port[p], ident |-> i, ip |-> ip, known |-> known,
                     id |-> id, key |-> key]
      BY Zenon
    <3> HIDE DEF E, ip, known, id, key
    <3>4. /\ E(p, i).pod = p /\ E(p, i).path = port[p] /\ E(p, i).ident = i /\ E(p, i).ip = ip
          /\ E(p, i).known = known /\ E(p, i).id = id /\ E(p, i).key = key
      BY <3>3
    <3>5. E(p, i) \in UsbPod
      BY <3>1, <3>2, <3>3 DEF UsbPod
    <3> QED BY <3>1, <3>2, <3>4, <3>5 DEF UsbEntry
  <2> HIDE DEF E
  <2>4. \A r : Ident(r) \subseteq {"mac", "dev"}
    BY DEF Ident
  <2>5. \A s \in usbPods' : \E p \in Plugged, i \in {"mac", "dev"} : s = E(p, i)
    BY <2>2, <2>4
  <2>6. \A s \in usbPods' : UsbEntry(s)'
    <3> SUFFICES ASSUME NEW s \in usbPods' PROVE UsbEntry(s)'
      OBVIOUS
    <3>1. UsbEntry(s)
      BY <2>3, <2>5
    <3> QED BY <2>2, <3>1 DEF UsbEntry
  <2>7. ASSUME NEW s \in usbPods', NEW t \in usbPods', s.ident = t.ident,
               s.pod = t.pod \/ s.path = t.path
        PROVE  s = t
    <3>1. PICK p \in Plugged, i \in {"mac", "dev"} : s = E(p, i)
      BY <2>5
    <3>2. PICK q \in Plugged, j \in {"mac", "dev"} : t = E(q, j)
      BY <2>5
    <3>3. i = j /\ (p = q \/ port[p] = port[q])
      BY <2>3, <2>7, <3>1, <3>2
    <3>4. p = q
      BY <3>3 DEF Plugged, Sites, Spots
    <3> QED BY <3>1, <3>2, <3>3, <3>4
  <2>8. \A s, t \in usbPods' : Device(s) = Device(t) => s = t
    BY <2>7 DEF Device
  <2> QED BY <2>2, <2>6, <2>7, <2>8 DEF Reads
<1>4. CASE DiscoverPods
  <2>1. PICK L \in SUBSET links, H \in [Pods -> Addrs \cup {None}] : DiscoverPods!(L, H)
    BY <1>4 DEF DiscoverPods
  <2> DEFINE E(p) == [pod |-> p, key |-> p,
         addr |-> IF p \in L THEN Target("link", p) ELSE Target("lan", H[p]),
         lanAddr |-> IF H[p] # None THEN Target("lan", H[p]) ELSE NoTarget,
         known |-> FALSE, id |-> None, sameAs |-> {}]
             S == {p \in Pods : p \in L \/ H[p] # None}
  <2>2. /\ pc = "browse" /\ pc' = "check" /\ reg' = reg /\ usbPods' = usbPods /\ had' = had
        /\ netPods' = {E(p) : p \in S} /\ (\A p \in Pods : H[p] # None => p \in had[H[p]])
    BY <2>1 DEF Go
  <2>3. ASSUME NEW p \in S PROVE NetEntry(E(p)) /\ E(p).pod = p /\ ~E(p).known /\ E(p).sameAs = {}
    <3> DEFINE a == IF p \in L THEN Target("link", p) ELSE Target("lan", H[p])
               b == IF H[p] # None THEN Target("lan", H[p]) ELSE NoTarget
    <3>1. H[p] # None => H[p] \in Addrs /\ H[p] \in Places /\ p \in had[H[p]]
      BY <2>2 DEF Places
    <3>2. a \in Targets /\ a.k \in {"link", "lan"} /\ Of(a, p)
      BY <3>1, Made DEF Of
    <3>3. b \in Targets /\ b.k \in {"lan", "none"} /\ (b # NoTarget => Of(b, p))
      BY <3>1, Made, Bare DEF Of
    <3>4. E(p) = [pod |-> p, key |-> p, addr |-> a, lanAddr |-> b,
                  known |-> FALSE, id |-> None, sameAs |-> {}]
      BY Zenon
    <3> HIDE DEF E, a, b
    <3>5. /\ E(p).pod = p /\ E(p).key = p /\ E(p).addr = a /\ E(p).lanAddr = b
          /\ ~E(p).known /\ E(p).id = None /\ E(p).sameAs = {}
      BY <3>4
    <3>6. E(p) \in NetPod
      BY <3>2, <3>3, <3>4, <3>5 DEF NetPod, PodOrNone
    <3> QED BY <3>2, <3>3, <3>5, <3>6 DEF NetEntry
  <2> HIDE DEF E, S
  <2>4. \A n \in netPods' : NetEntry(n) /\ ~n.known /\ n.sameAs = {}
    BY <2>2, <2>3
  <2>5. \A n, m \in netPods' : n.pod = m.pod => n = m
    BY <2>2, <2>3
  <2>6. \A n \in netPods' : NetEntry(n)'
    BY <2>2, <2>4 DEF NetEntry, Of, HandedOver
  <2>7. \A s \in usbPods' : UsbEntry(s)'
    BY <2>2 DEF Reads, UsbEntry
  <2> QED BY <2>2, <2>4, <2>5, <2>6, <2>7 DEF Reads
<1>5. CASE CheckPods
  <2>1. /\ pc = "check" /\ pc' = "report" /\ UNCHANGED <<reg, had, usbPods>>
        /\ account' \in {None} \cup SUBSET reg
    BY <1>5 DEF CheckPods
  <2>2. PICK R \in SUBSET {n \in netPods : Answers(n.addr)} :
          \E c \in [Checked(R) -> UNION {Correlated(n) : n \in Checked(R)}] :
            /\ \A n \in Checked(R) : c[n] \in Correlated(n)
            /\ netPods' = {c[n] : n \in Checked(R)}
    BY <1>5 DEF CheckPods
  <2>3. PICK c : /\ \A n \in Checked(R) : c[n] \in Correlated(n)
                 /\ netPods' = {c[n] : n \in Checked(R)}
    BY <2>2
  <2>4. /\ reg \subseteq Pods
        /\ \A s \in usbPods : UsbEntry(s) /\ s \in UsbPod
        /\ \A n \in netPods : NetEntry(n) /\ ~n.known /\ n.sameAs = {}
        /\ \A n, m \in netPods : n.pod = m.pod => n = m
    BY <2>1 DEF Reads, UsbEntry
  <2> DEFINE Said(n) == IF n \in R
                        THEN [n EXCEPT !.known = TRUE,
                                       !.id = IF At(n.addr) \subseteq reg
                                              THEN CHOOSE p \in At(n.addr) : TRUE ELSE None]
                        ELSE n
  <2>5. Checked(R) = {Said(n) : n \in netPods}
    BY Zenon DEF Checked
  <2>6. \A n \in netPods : NetEntry(Said(n)) /\ Said(n).pod = n.pod /\ Said(n).sameAs = {}
    <3> SUFFICES ASSUME NEW n \in netPods
                 PROVE  NetEntry(Said(n)) /\ Said(n).pod = n.pod /\ Said(n).sameAs = {}
      OBVIOUS
    <3>1. NetEntry(n) /\ ~n.known /\ n.sameAs = {}
      BY <2>4
    <3> DEFINE m == Said(n)
    <3>2. m = n \/ (/\ Answers(n.addr)
                    /\ m = [n EXCEPT !.known = TRUE,
                                     !.id = IF At(n.addr) \subseteq reg
                                            THEN CHOOSE p \in At(n.addr) : TRUE ELSE None])
      BY <2>2
    <3> HIDE DEF m
    <3>3. NetEntry(m) /\ m.pod = n.pod /\ m.sameAs = n.sameAs
      BY <3>1, <3>2, CheckedFacts
    <3> QED BY <3>1, <3>3 DEF m
  <2> HIDE DEF Said
  <2>7. ASSUME NEW n \in netPods
        PROVE  NetEntry(c[Said(n)]) /\ Matched(c[Said(n)]) /\ c[Said(n)].pod = n.pod
    <3>1. /\ NetEntry(Said(n)) /\ Said(n) \in NetPod /\ Said(n).sameAs = {} /\ Said(n).pod = n.pod
          /\ c[Said(n)] \in Correlated(Said(n)) /\ \A s \in usbPods : s \in UsbPod
      BY <2>3, <2>4, <2>5, <2>6 DEF NetEntry
    <3> QED BY <3>1, CorrelateFacts
  <2>8. netPods' = {c[Said(n)] : n \in netPods}
    BY <2>3, <2>5
  <2>9. \A n \in netPods' : NetEntry(n) /\ Matched(n)
    BY <2>7, <2>8
  <2>10. \A n, m \in netPods' : n.pod = m.pod => n = m
    BY <2>4, <2>7, <2>8
  <2>11. \A n \in netPods' : NetEntry(n)' /\ Matched(n)'
    BY <2>1, <2>9 DEF NetEntry, Of, HandedOver, Matched, Matches, Addressed
  <2>12. \A s \in usbPods' : UsbEntry(s)'
    BY <2>1, <2>4 DEF UsbEntry
  <2> QED BY <2>1, <2>4, <2>10, <2>11, <2>12 DEF Reads
<1>6. CASE Report
  BY <1>6 DEF Report, Finish, Go, Reads
<1>7. CASE Save
  BY <1>7 DEF Save, Finish, Reads
<1>8. CASE Resolve
  <2>1. pc' \notin {"probe", "browse", "check", "report"}
    <3>1. CASE cmd = "net" /\ Raw = NoTarget
      BY <1>8, <3>1 DEF Resolve, Finish
    <3>2. CASE ~(cmd = "net" /\ Raw = NoTarget) /\ cmd = "set"
      BY <1>8, <3>2 DEF Resolve, Go
    <3>3. CASE ~(cmd = "net" /\ Raw = NoTarget) /\ cmd = "con"
      BY <1>8, <3>3 DEF Resolve, Go
    <3>4. CASE ~(cmd = "net" /\ Raw = NoTarget) /\ cmd = "net"
      BY <1>8, <3>4 DEF Resolve, Go
    <3> QED BY <1>8, <3>1, <3>2, <3>3, <3>4 DEF Resolve, Stage
  <2> QED BY <2>1 DEF Reads
<1>9. CASE SetConnection
  BY <1>9 DEF SetConnection, Go, Reads
<1>10. CASE LocalUSBPod
  BY <1>10 DEF LocalUSBPod, Go, Reads
<1>11. CASE OpenConsole
  BY <1>11 DEF OpenConsole, Finish, Go, Reads
<1>12. CASE UsbNetAddr
  BY <1>12 DEF UsbNetAddr, Finish, Go, Reads
<1>13. CASE Dial
  BY <1>13 DEF Dial, Finish, Reads
<1> QED BY <1>1, <1>2, <1>3, <1>4, <1>5, <1>6, <1>7, <1>8, <1>9, <1>10, <1>11, <1>12,
  <1>13 DEF Next

\* Before the first command all of it holds.
LEMMA InitHolds == Init => IInv
<1> SUFFICES ASSUME Init PROVE IInv
  OBVIOUS
<1>0. moves \in 0 .. MaxMoves /\ ran \in 0 .. MaxCommands
  BY DiscoveryAssumption DEF Init
<1>1. Sites
  <2>1. port \in Spots(Paths) /\ lease \in Spots(Addrs) /\ links \subseteq Plugged
    BY DEF Init
  <2>2. had = [x \in Places |-> {p \in Pods : x \in {port[p], lease[p]}}]
    BY DEF Init
  <2>3. \A p \in Pods : \A x \in {port[p], lease[p]} \ {None} : x \in Places
    BY <2>1 DEF Spots, Places
  <2> QED BY <1>0, <2>1, <2>2, <2>3 DEF Sites
<1> USE Bare DEF Init
<1>2. Command /\ Route
  BY DEF Command, Route, PodOrNone
<1>3. Stage
  BY DEF Stage
<1>4. SamePod
  BY DEF SamePod, Default, Raw
<1>5. NameReachesIt
  BY DEF NameReachesIt
<1>6. Reads
  BY DEF Reads
<1> QED BY <1>1, <1>2, <1>3, <1>4, <1>5, <1>6 DEF IInv, TypeOK

\* Every reachable state satisfies it.
THEOREM Invariance == Spec => []IInv
<1>1. IInv /\ [Next]_vars => IInv'
  BY SitesStep, CommandStep, RouteStep, StageStep, SamePodStep, NameStep, ReadsStep
  DEF IInv, TypeOK
<1> QED BY InitHolds, <1>1, PTL DEF Spec

\* A command given a pod by name, or through a default saved for it, talks to another one
\* only if a path or an address of that pod's that it went by has been another one's.
THEOREM NameReaches == Spec => []NameReachesIt
<1>1. IInv => NameReachesIt
  BY DEF IInv
<1> QED BY Invariance, <1>1, PTL

\* A default saved by name or by discover is no USB link's address: what discover saves
\* of a pod it found on its link is "usb" or the address it has on the LAN.
THEOREM DefaultsMove == Spec => []NoLinkSaved
<1>1. IInv => NoLinkSaved
  BY DEF IInv, SamePod, Default, NoLinkSaved
<1> QED BY Invariance, <1>1, PTL

\* printVerdict counts a pod found both ways once, if its console gave its key and its MAC
\* and no address it was heard at has been another's.
LEMMA TotalCounts ==
  ASSUME pc = "report", Reads, \A s \in usbPods : s.key # None /\ s.ident = "mac",
         \A n \in netPods, q \in Pods : ~HandedOver(n.addr.at, n.pod, q)
  PROVE  Total = Cardinality({e.pod : e \in usbPods \cup netPods})
<1> DEFINE U == {s.pod : s \in usbPods}
           N == {n.pod : n \in Unmatched}
<1>1. /\ \A s \in usbPods : UsbEntry(s) /\ s.pod \in Pods
      /\ \A n \in netPods : NetEntry(n) /\ n.pod \in Pods /\ Matched(n)
  BY DEF Reads, UsbEntry, UsbPod, NetEntry, NetPod
<1>2. IsFiniteSet(U) /\ Cardinality(usbPods) = Cardinality(U)
  BY <1>1, OnePerPod DEF Reads
<1>3. IsFiniteSet(N) /\ Cardinality(Unmatched) = Cardinality(N)
  BY <1>1, OnePerPod DEF Reads, Unmatched
<1>4. \A n \in netPods, s \in usbPods : Matches(n, s) <=> s.pod = n.pod
  <2> SUFFICES ASSUME NEW n \in netPods, NEW s \in usbPods
               PROVE  Matches(n, s) <=> s.pod = n.pod
    OBVIOUS
  <2>1. NetEntry(n) /\ UsbEntry(s) /\ s.key # None /\ ~HandedOver(n.addr.at, n.pod, s.pod)
    BY <1>1
  <2> QED BY <2>1, MatchFacts
<1>5. \A n \in netPods : n.sameAs = {} <=> n.pod \notin U
  <2> SUFFICES ASSUME NEW n \in netPods PROVE n.sameAs = {} <=> n.pod \notin U
    OBVIOUS
  <2>1. \/ n.sameAs = {} /\ \A s \in usbPods : ~Matches(n, s)
        \/ \E s \in usbPods : Matches(n, s) /\ n.sameAs = {Device(s)}
    BY <1>1 DEF Matched
  <2> QED BY <1>4, <2>1
<1>6. U \cap N = {} /\ U \cup N = {e.pod : e \in usbPods \cup netPods}
  BY <1>5 DEF Unmatched
<1> HIDE DEF U, N
<1>7. /\ Cardinality(U \cup N) = Cardinality(U) + Cardinality(N) - Cardinality(U \cap N)
      /\ Cardinality(U) \in Nat /\ Cardinality(N) \in Nat
  BY <1>2, <1>3, FS_Union, FS_CardinalityType
<1>8. Cardinality(U \cap N) = 0
  BY <1>6, FS_EmptySet
<1>9. Cardinality(usbPods) + Cardinality(Unmatched) = Cardinality(U \cup N)
  BY <1>2, <1>3, <1>7, <1>8
<1> QED BY <1>6, <1>9 DEF Total

\* An entry the verdict counts gives its pod's id if and only if that is registered.
LEMMA CountedFacts ==
  ASSUME pc = "report", Reads,
         \A n \in netPods, q \in Pods : ~HandedOver(n.addr.at, n.pod, q)
  PROVE  \A e \in Counted :
           /\ e.pod \in {x.pod : x \in usbPods \cup netPods} /\ e.pod \in Pods
           /\ e.id = IF e.pod \in reg THEN e.pod ELSE None
<1> SUFFICES ASSUME NEW e \in Counted
             PROVE  /\ e.pod \in {x.pod : x \in usbPods \cup netPods} /\ e.pod \in Pods
                    /\ e.id = IF e.pod \in reg THEN e.pod ELSE None
  OBVIOUS
<1>1. PICK x \in usbPods \cup netPods : e = [pod |-> x.pod, id |-> x.id] /\ x.known
  BY DEF Counted
<1>2. e.pod = x.pod /\ e.id = x.id
  BY <1>1
<1>3. x.pod \in Pods /\ x.id = IF x.pod \in reg THEN x.pod ELSE None
  <2>1. CASE x \in usbPods
    BY <1>1, <2>1 DEF Reads, UsbEntry, UsbPod
  <2>2. CASE x \in netPods
    BY <1>1, <2>2 DEF Reads, NetEntry, NetPod
  <2> QED BY <2>1, <2>2
<1> QED BY <1>2, <1>3

\* discover's verdict is true of the pods that were found: two are read as one only if the
\* one answers at an address that was the other's; if none does, a pod found both ways is
\* counted once, and what is said of accounts is so.
THEOREM VerdictHolds == Spec => []VerdictIsTrue
<1>1. IInv => VerdictIsTrue
  <2> SUFFICES ASSUME IInv, pc = "report" PROVE VerdictIsTrue
    BY DEF VerdictIsTrue
  <2> DEFINE pods == {e.pod : e \in usbPods \cup netPods}
             Kept == \A n \in netPods, q \in Pods : ~HandedOver(n.addr.at, n.pod, q)
  <2>1. /\ Reads /\ account \in {None} \cup SUBSET reg /\ reg \subseteq Pods
        /\ None \notin Pods
    BY DiscoveryAssumption DEF IInv, Reads
  <2>2. ASSUME NEW n \in netPods, NEW s \in usbPods, Device(s) \in n.sameAs, s.pod # n.pod
        PROVE  HandedOver(n.addr.at, n.pod, s.pod)
    <3>1. PICK t \in usbPods : Matches(n, t) /\ n.sameAs = {Device(t)}
      BY <2>1, <2>2 DEF Reads, Matched
    <3>2. s = t /\ NetEntry(n) /\ UsbEntry(s)
      BY <2>1, <2>2, <3>1 DEF Reads
    <3> QED BY <2>2, <3>1, <3>2, MatchFacts
  <2>3. Kept /\ (\A s \in usbPods : s.key # None /\ s.ident = "mac") => Total = Cardinality(pods)
    BY <2>1, TotalCounts
  <2>4. Kept => \A e \in Counted : /\ e.pod \in pods /\ e.pod \in Pods
                                   /\ e.id = IF e.pod \in reg THEN e.pod ELSE None
    BY <2>1, CountedFacts
  <2> HIDE DEF pods, Kept
  <2>5. Kept /\ Verdict = "foreign" => (pods \cap reg) \ account # {}
    <3> SUFFICES ASSUME Kept, Verdict = "foreign" PROVE (pods \cap reg) \ account # {}
      OBVIOUS
    <3>1. Foreign # {}
      BY DEF Verdict
    <3>2. PICK e \in Registered : account # None /\ e.id \notin account
      BY <3>1 DEF Foreign
    <3>3. e.pod \in pods /\ e.pod \in reg /\ e.pod \notin account
      BY <2>4, <3>2 DEF Registered
    <3> QED BY <3>3
  <2>6. Kept /\ Verdict = "mine" => {e.pod : e \in Counted} \subseteq account
    <3> SUFFICES ASSUME Kept, Verdict = "mine", NEW e \in Counted PROVE e.pod \in account
      OBVIOUS
    <3>1. Foreign = {} /\ Unregistered = {} /\ account # None
      BY DEF Verdict
    <3>2. e \in Registered /\ e.id = e.pod
      BY <2>4, <3>1 DEF Unregistered, Registered
    <3> QED BY <3>1, <3>2 DEF Foreign
  <2>7. Kept /\ Verdict = "unregistered" => pods \ reg # {}
    <3> SUFFICES ASSUME Kept, Verdict = "unregistered" PROVE pods \ reg # {}
      OBVIOUS
    <3>1. PICK e \in Counted : e.id = None
      BY DEF Verdict, Unregistered
    <3>2. e.pod \in pods /\ e.pod \notin reg
      BY <2>1, <2>4, <3>1
    <3> QED BY <3>2
  <2> QED BY <2>2, <2>3, <2>5, <2>6, <2>7 DEF VerdictIsTrue, pods, Kept
<1> QED BY Invariance, <1>1, PTL
=============================================================================

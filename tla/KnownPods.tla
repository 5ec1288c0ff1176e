------------------------------ MODULE KnownPods ------------------------------
(***************************************************************************)
(* The TLS side of the LAN API: how a Client picks TLS or plaintext, the   *)
(* pins in known_pods.json, and the `lan-tls` commands that change them.   *)
(*                                                                         *)
(* Each process runs one command on one pod: a plain command, a change of  *)
(* the pod's certificate (regenerate, set-cert), trust or forget.  A plain *)
(* command may connect several times.  All processes share the two files:  *)
(* the pins and the saved TLS sessions.  An operation on the pins reads    *)
(* the whole file and replaces it by a rename; pinMu orders the goroutines *)
(* of one process only, and no command has two that use the pins.  A read  *)
(* or a write may fail, and a process that is killed takes no more steps.  *)
(* Addresses on the USB link (plaintext, no pins) and --tls-ca (no pins)   *)
(* have no state here.                                                     *)
(***************************************************************************)
EXTENDS Naturals

CONSTANTS
  Threads,              \* the processes
  Pods, Certs, NoCert,
  MaxDials              \* how often a plain command connects

ASSUME KnownPodsAssumption ==
  /\ NoCert \notin Certs
  /\ MaxDials \in {1, 2, 3}

VARIABLES
  op, pod, mode,   \* each process's command, its pod and --tls
  pc,              \* where it is
  seen,            \* the certificate it was shown, or was told the pod now has
  snap,            \* its copy of the pins, to be written back
  via,             \* how its connection goes
  noTLS,           \* it has been refused on 8443
  dials,           \* the connections it has begun
  exit,            \* what it has returned
  pins,            \* known_pods.json
  session,         \* tls_sessions.json: the certificate of each pod's saved session
  cert,            \* each pod's certificate
  elsewhere,       \* one has been changed elsewhere; bounds ChangedElsewhere
  \* History, which no action reads.
  hadPin,          \* the pod has been pinned since the dial began
  blind,           \* a look-up of this dial could not read the file
  stands, after,   \* whose pin nobody has written over; of those, who a copy was read after
  doubt,           \* a pod's certificate is not what this computer was last told it is
  moved            \* the pod's certificate or pin was changed by another while the command ran

setup   == <<op, pod, mode>>
conn    == <<seen, via, noTLS, dials>>
thread  == <<pc, conn, snap, exit>>
files   == <<pins, session>>
world   == <<cert, elsewhere>>
dialled == <<hadPin, blind>>
kept    == <<stands, after>>
alarm   == <<doubt, moved>>
vars    == <<setup, thread, files, world, dialled, kept, alarm>>

Ops   == {"command", "change", "trust", "forget"}
Modes == {"auto", "on", "off"}
Exits == {"-", "ok", "warned", "error", "mismatch"}
MaybeCert == Certs \cup {NoCert}
Pins  == [Pods -> MaybeCert]
NoPins == [p \in Pods |-> NoCert]
Pcs   == {"start", "plan", "look", "probe", "dial", "plain", "handshake", "check", "ticket",
          "send", "set", "delete", "save", "done"}

Commands == op \in [Threads -> Ops] /\ pod \in [Threads -> Pods] /\ mode \in [Threads -> Modes]

Progress ==
  /\ pc \in [Threads -> Pcs] /\ exit \in [Threads -> Exits]
  /\ seen \in [Threads -> MaybeCert] /\ snap \in [Threads -> Pins]
  /\ via \in [Threads -> {"-", "tls", "plain"}]
  /\ noTLS \in [Threads -> BOOLEAN] /\ dials \in [Threads -> 0 .. MaxDials]

Shared ==
  /\ pins \in Pins /\ session \in Pins /\ cert \in [Pods -> Certs]
  /\ elsewhere \in BOOLEAN

Histories ==
  /\ hadPin \in [Threads -> BOOLEAN] /\ blind \in [Threads -> BOOLEAN]
  /\ stands \in SUBSET Threads /\ after \in [Threads -> SUBSET Threads]
  /\ doubt \in [Pods -> BOOLEAN] /\ moved \in [Threads -> BOOLEAN]

TypeOK == Commands /\ Progress /\ Shared /\ Histories

Init ==
  /\ op \in [Threads -> Ops] /\ pod \in [Threads -> Pods] /\ mode \in [Threads -> Modes]
  /\ \A t \in Threads : op[t] \in {"trust", "forget"} => mode[t] = "on"  \* it plays no part
  /\ pc = [t \in Threads |-> "start"] /\ exit = [t \in Threads |-> "-"]
  /\ seen = [t \in Threads |-> NoCert] /\ snap = [t \in Threads |-> NoPins]
  /\ via = [t \in Threads |-> "-"]
  /\ noTLS = [t \in Threads |-> FALSE] /\ dials = [t \in Threads |-> 0]
  /\ cert \in [Pods -> Certs] /\ elsewhere = FALSE
  /\ pins \in Pins /\ session \in Pins
  /\ \A p \in Pods : pins[p] \in {NoCert, cert[p]} /\ session[p] \in {NoCert, pins[p]}
  /\ hadPin = [t \in Threads |-> FALSE] /\ blind = [t \in Threads |-> FALSE]
  /\ stands = {} /\ after = [t \in Threads |-> {}]
  /\ doubt = [p \in Pods |-> FALSE] /\ moved = [t \in Threads |-> FALSE]

Goto(t, l)   == pc' = [pc EXCEPT ![t] = l]
Return(t, r) == Goto(t, "done") /\ exit' = [exit EXCEPT ![t] = r]
Pinned(t)    == pins[pod[t]] # NoCert
Running(t)   == pc[t] \notin {"start", "done"}

\* The pods of P have another certificate, pin or saved session from now on: everyone on
\* them but t may meet both the old and the new.
Moves(t, P) == moved' = [u \in Threads |-> moved[u] \/ (u # t /\ Running(u) /\ pod[u] \in P)]

-----------------------------------------------------------------------------
(* Client.dial.                                                            *)

\* A connection begins: the look-ups are still to come.
Begin(t) ==
  /\ dials' = [dials EXCEPT ![t] = @ + 1]
  /\ hadPin' = [hadPin EXCEPT ![t] = Pinned(t)]
  /\ blind' = [blind EXCEPT ![t] = FALSE]

Start(t) ==
  /\ pc[t] = "start"
  /\ Goto(t, CASE op[t] = "forget" -> "delete" [] op[t] = "trust" -> "dial" [] OTHER -> "plan")
  /\ Begin(t)
  /\ UNCHANGED <<setup, seen, via, noTLS, snap, exit, files, world, kept, alarm>>

\* GetPin: a file that cannot be read has no pin.
GetPin(t, found) ==
  \/ found = Pinned(t) /\ UNCHANGED blind
  \/ found = FALSE /\ blind' = [blind EXCEPT ![t] = TRUE]

\* Mutant: a pod that once refused 8443 is not looked up again.
PlanKnown(t) ==
  /\ pc[t] = "plan"
  /\ Goto(t, CASE mode[t] = "off" \/ (mode[t] = "auto" /\ noTLS[t]) -> "plain"
               [] mode[t] = "on" -> "dial" [] OTHER -> "look")
  /\ UNCHANGED <<setup, conn, snap, exit, files, world, dialled, kept, alarm>>

\* planDial, and the first look-up: a pod known to have no TLS, unless it has been
\* pinned since.
Plan(t) ==
  /\ pc[t] = "plan"
  /\ \/ mode[t] = "off" /\ Goto(t, "plain") /\ UNCHANGED blind
     \/ mode[t] = "on" /\ Goto(t, "dial") /\ UNCHANGED blind
     \/ mode[t] = "auto" /\ ~noTLS[t] /\ Goto(t, "look") /\ UNCHANGED blind
     \/ /\ mode[t] = "auto" /\ noTLS[t]
        /\ \E found \in BOOLEAN : GetPin(t, found) /\ Goto(t, IF found THEN "look" ELSE "plain")
  /\ UNCHANGED <<setup, conn, snap, exit, files, world, hadPin, kept, alarm>>

\* The second look-up: only a pod without a pin may fall back to plaintext.
Look(t) ==
  /\ pc[t] = "look"
  /\ \E found \in BOOLEAN : GetPin(t, found) /\ Goto(t, IF found THEN "dial" ELSE "probe")
  /\ UNCHANGED <<setup, conn, snap, exit, files, world, hadPin, kept, alarm>>

\* One quick attempt at 8443; any failure falls back to plaintext, and a refusal
\* is remembered.
Probe(t) ==
  /\ pc[t] = "probe"
  /\ \/ Goto(t, "handshake") /\ UNCHANGED noTLS
     \/ /\ Goto(t, "plain")
        /\ \E refused \in BOOLEAN : noTLS' = [noTLS EXCEPT ![t] = @ \/ refused]
  /\ UNCHANGED <<setup, seen, via, dials, snap, exit, files, world, dialled, kept, alarm>>

\* 8443 or nothing.
Dial(t) ==
  /\ pc[t] = "dial"
  /\ \/ Goto(t, "handshake") /\ UNCHANGED exit
     \/ Return(t, "error")
  /\ UNCHANGED <<setup, conn, snap, files, world, dialled, kept, alarm>>

DialPlain(t) ==
  /\ pc[t] = "plain"
  /\ \/ Goto(t, "send") /\ via' = [via EXCEPT ![t] = "plain"] /\ UNCHANGED exit
     \/ Return(t, "error") /\ UNCHANGED via
  /\ UNCHANGED <<setup, seen, noTLS, dials, snap, files, world, dialled, kept, alarm>>

\* The session offered: the process's own last one, else the file's.
Offered(t) == IF seen[t] # NoCert THEN seen[t] ELSE session[pod[t]]

\* A failed handshake throws the session it offered away.
DropSession(t) ==
  \E c \in {session[pod[t]], NoCert} : session' = [session EXCEPT ![pod[t]] = c]

\* A full handshake shows the pod's certificate, a resumed one that of the session.
Handshake(t) ==
  /\ pc[t] = "handshake"
  /\ \/ /\ \E c \in {cert[pod[t]], Offered(t)} \ {NoCert} : seen' = [seen EXCEPT ![t] = c]
        /\ Goto(t, IF op[t] = "trust" THEN "ticket" ELSE "check")
        /\ stands' = stands \ {t} /\ after' = [u \in Threads |-> after[u] \ {t}]
        /\ UNCHANGED <<exit, session>>
     \/ Return(t, "error") /\ DropSession(t) /\ UNCHANGED <<seen, kept>>
  /\ UNCHANGED <<setup, via, noTLS, dials, snap, pins, world, dialled, alarm>>

\* The handshake is over and the pod's ticket is saved, if it can be.
Ticket(t) ==
  LET p == pod[t] IN
  /\ pc[t] = "ticket"
  /\ \/ /\ session' = [session EXCEPT ![p] = seen[t]]
        /\ doubt' = [doubt EXCEPT ![p] = @ \/ seen[t] # cert[p]]
        /\ Moves(t, {q \in {p} : seen[t] # cert[p]})
     \/ UNCHANGED <<session, alarm>>
  /\ IF op[t] = "trust" THEN Goto(t, "set") /\ UNCHANGED via
                        ELSE Goto(t, "send") /\ via' = [via EXCEPT ![t] = "tls"]
  /\ UNCHANGED <<setup, seen, noTLS, dials, snap, exit, pins, world, dialled, kept>>

-----------------------------------------------------------------------------
(* The pins.                                                               *)

\* loadPins, to write p's pin c back.
Load(t, c) ==
  /\ snap' = [snap EXCEPT ![t] = [pins EXCEPT ![pod[t]] = c]]
  /\ after' = [after EXCEPT ![t] = stands]
  /\ Goto(t, "save")
  /\ UNCHANGED <<exit, stands>>

\* loadPins fails.
LoadFails(t) ==
  /\ Return(t, IF op[t] = "change" /\ via[t] = "tls" THEN "warned" ELSE "error")
  /\ UNCHANGED <<snap, kept>>

\* forgetSessions.
ForgetSessions == session' = NoPins

\* t's operation on the pin of its pod is done.
Settle(t, S) ==
  /\ stands' = S \cup {t}
  /\ after' = [u \in Threads |-> after[u] \ {t}]

\* checkPin: no pin yet records this certificate; a pin must match.
CheckPin(t) ==
  LET p == pod[t] IN
  /\ pc[t] = "check"
  /\ \/ pins[p] = NoCert /\ Load(t, seen[t]) /\ UNCHANGED session
     \/ /\ pins[p] = seen[t]
        /\ Goto(t, "ticket") /\ Settle(t, stands)
        /\ UNCHANGED <<exit, snap, session>>
     \/ /\ pins[p] \notin {NoCert, seen[t]}
        /\ Return(t, "mismatch") /\ DropSession(t)
        /\ UNCHANGED <<snap, kept>>
     \/ LoadFails(t) /\ DropSession(t)
  /\ UNCHANGED <<setup, conn, pins, world, dialled, alarm>>

\* Mutant: the saved sessions stay.
SetPinOnly(t) ==
  /\ pc[t] = "set"
  /\ Load(t, seen[t]) \/ LoadFails(t)
  /\ UNCHANGED <<setup, conn, files, world, dialled, alarm>>

\* SetPinFingerprint; before it, trust may be asked for another certificate than the
\* pod's, which is an error as well.
SetPin(t) ==
  /\ pc[t] = "set"
  /\ \/ Load(t, seen[t]) /\ ForgetSessions
     \/ LoadFails(t) /\ UNCHANGED session
  /\ UNCHANGED <<setup, conn, pins, world, dialled, alarm>>

\* DeletePin: nothing to write without a pin.
DeletePin(t) ==
  /\ pc[t] = "delete"
  /\ \/ Pinned(t) /\ Load(t, NoCert) /\ ForgetSessions
     \/ /\ ~Pinned(t)
        /\ Return(t, "ok") /\ Settle(t, stands)
        /\ UNCHANGED <<snap, session>>
     \/ LoadFails(t) /\ UNCHANGED session
  /\ UNCHANGED <<setup, conn, pins, world, dialled, alarm>>

\* Which operation the process is in, and the pin it is for.
Kind(t)  == CASE op[t] = "forget" -> "delete"
              [] op[t] = "trust" \/ (op[t] = "change" /\ via[t] = "tls") -> "set"
              [] OTHER -> "check"
Value(t) == IF op[t] = "forget" THEN NoCert ELSE seen[t]

\* Mutant: only the pin of this pod is in the new file.
WrittenAlone(t) == [NoPins EXCEPT ![pod[t]] = snap[t][pod[t]]]

\* What was read is what is written back, with one pin changed.
Written(t) == snap[t]

\* The file is to name a certificate that p no longer has.
Stale(p) == pins'[p] \notin {NoCert, cert[p]}

\* savePins: a temporary file renamed over the old one.
Saved(t) ==
  /\ pins' = Written(t)
  /\ Settle(t, {u \in stands : u \in after[t] /\ pod[u] # pod[t]})
  /\ Moves(t, {pod[t]} \cup {p \in Pods : pins'[p] # pins[p]})
  /\ doubt' = [p \in Pods |->
                 IF p = pod[t] /\ Kind(t) # "check" THEN Stale(p) \/ (doubt[p] /\ moved[t])
                 ELSE doubt[p] \/ (Stale(p) /\ pins'[p] # pins[p])]
  /\ IF Kind(t) = "check" THEN Goto(t, "ticket") /\ UNCHANGED exit ELSE Return(t, "ok")
  /\ UNCHANGED session

\* The pin of a change that was made is only warned about.
SaveFails(t) ==
  /\ Return(t, IF op[t] = "change" /\ Kind(t) = "set" THEN "warned" ELSE "error")
  /\ IF Kind(t) = "check" THEN DropSession(t) ELSE UNCHANGED session
  /\ UNCHANGED <<pins, kept, alarm>>

Save(t) ==
  /\ pc[t] = "save"
  /\ Saved(t) \/ SaveFails(t)
  /\ snap' = [snap EXCEPT ![t] = NoPins]
  /\ hadPin' = [u \in Threads |-> hadPin[u] /\ pins'[pod[u]] # NoCert]
  /\ UNCHANGED <<setup, conn, world, blind>>

-----------------------------------------------------------------------------
(* The commands.                                                           *)

\* Whatever the pod answers, nothing here depends on it.
Send(t) ==
  /\ pc[t] = "send" /\ op[t] = "command"
  /\ Return(t, "ok")
  /\ UNCHANGED <<setup, conn, snap, files, world, dialled, kept, alarm>>

\* The command's next connection.
Again(t) ==
  /\ pc[t] = "send" /\ op[t] = "command" /\ dials[t] < MaxDials
  /\ Goto(t, "plan") /\ Begin(t)
  /\ via' = [via EXCEPT ![t] = "-"]
  /\ UNCHANGED <<setup, seen, noTLS, snap, exit, files, world, kept, alarm>>

\* Pod p gets certificate c.
Changes(t, p, c) ==
  /\ cert' = [cert EXCEPT ![p] = c]
  /\ doubt' = [doubt EXCEPT ![p] = TRUE]
  /\ Moves(t, {p})

\* The reply to a change names the new certificate, which is to be pinned.
Changed(t, c) ==
  /\ seen' = [seen EXCEPT ![t] = c]
  /\ Goto(t, "set") /\ UNCHANGED exit
  /\ Changes(t, pod[t], c)

\* lan-tls regenerate and set-cert: the pod refuses over plaintext.  A lost reply is an
\* error, and one without a fingerprint ("certificate none") leaves the pin as it was,
\* whether the pod has a new certificate or not.
Change(t) ==
  /\ pc[t] = "send" /\ op[t] = "change"
  /\ \/ Return(t, "error") /\ UNCHANGED <<seen, cert, alarm, kept>>
     \/ /\ via[t] = "tls"
        /\ \/ /\ \E c \in Certs \ {cert[pod[t]]} : Changed(t, c)
              /\ stands' = stands \ {t} /\ after' = [u \in Threads |-> after[u] \ {t}]
           \/ /\ \E r \in {"error", "warned"} : Return(t, r)
              /\ \/ UNCHANGED <<cert, alarm>>
                 \/ \E c \in Certs \ {cert[pod[t]]} : Changes(t, pod[t], c)
              /\ UNCHANGED <<seen, kept>>
  /\ UNCHANGED <<setup, via, noTLS, dials, snap, files, elsewhere, dialled>>

-----------------------------------------------------------------------------
(* The rest of the world.                                                  *)

\* Another computer, the web app or the console gives the pod another certificate.
ChangedElsewhere(p) ==
  /\ ~elsewhere /\ elsewhere' = TRUE
  /\ \E c \in Certs \ {cert[p]} :
       /\ cert' = [cert EXCEPT ![p] = c]
       /\ doubt' = [doubt EXCEPT ![p] = TRUE]
       /\ moved' = [u \in Threads |-> moved[u] \/ (Running(u) /\ pod[u] = p)]
  /\ UNCHANGED <<setup, thread, files, dialled, kept>>

-----------------------------------------------------------------------------
Step(t) ==
  \/ Start(t) \/ Plan(t) \/ Look(t) \/ Probe(t) \/ Dial(t) \/ DialPlain(t)
  \/ Handshake(t) \/ Ticket(t) \/ CheckPin(t) \/ SetPin(t) \/ DeletePin(t) \/ Save(t)
  \/ Send(t) \/ Again(t) \/ Change(t)

Next == (\E t \in Threads : Step(t)) \/ (\E p \in Pods : ChangedElsewhere(p))

Spec == Init /\ [][Next]_vars

-----------------------------------------------------------------------------
(* Properties.                                                             *)

\* "With a pin, a pod that stops answering TLS is an error, never a silent downgrade"
\* (tls.go:10): a pod that has been pinned since the dial began is not dialled in
\* plaintext, unless that was asked for or a look-up could not read the file.
PinnedNeverPlain ==
  \A t \in Threads :
    mode[t] = "auto" /\ hadPin[t] /\ ~blind[t] => pc[t] # "plain" /\ via[t] # "plain"

\* The same without the exception, as tls.go says it: an unreadable file refutes it.
NeverDowngraded ==
  \A t \in Threads : mode[t] = "auto" /\ hadPin[t] => pc[t] # "plain" /\ via[t] # "plain"

\* A command that reports its pin operation done ("Trusted <certificate>", "Forgot the
\* pin", a connection's check, the pin of the certificate just installed) leaves that
\* pin in the file, for as long as no other command for this pod, and none that had
\* read the file before, writes it.  However many processes there are.
PinAsReported == \A t \in stands : pins[pod[t]] = Value(t)

\* The same if commands for other pods could do no harm: two processes refute it.
PinsAddUp ==
  \A t \in Threads :
    /\ pc[t] = "done" /\ exit[t] = "ok" /\ Kind(t) # "check"
    /\ \A u \in Threads \ {t} : pod[u] # pod[t]
    => pins[pod[t]] = Value(t)

\* An alarm ("presented TLS certificate .., but .. is pinned for it") has a cause: the
\* pod's certificate has changed, or its pin was lost to a concurrent write, and no
\* command has since reported to have pinned the pod's certificate or to have dropped
\* the pin; or one of them was changing while the command ran.
AlarmHasACause ==
  [][\A t \in Threads :
       exit'[t] = "mismatch" /\ exit[t] # "mismatch" => doubt[pod[t]] \/ moved[t]]_vars
=============================================================================

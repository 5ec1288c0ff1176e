-------------------------- MODULE KnownPods_proofs --------------------------
(***************************************************************************)
(* Proofs about KnownPods, for any processes, pods, certificates and       *)
(* numbers of connections: type correctness, that a pinned pod is not      *)
(* dialled in plaintext, that a pin stays as reported until a command that *)
(* may write over it does, and that an alarm has a cause.                  *)
(***************************************************************************)
EXTENDS KnownPods, TLAPS

\* Which command is where, and what its connection and its certificate are there.
ControlAt(t) ==
  /\ pc[t] \in {"plan", "look", "probe", "plain", "check", "send"} =>
       op[t] \in {"command", "change"}
  /\ pc[t] \in {"dial", "handshake", "ticket"} => op[t] # "forget"
  /\ pc[t] = "set" => op[t] = "trust" \/ (op[t] = "change" /\ via[t] = "tls")
  /\ pc[t] = "delete" => op[t] = "forget"
  /\ pc[t] = "start" => seen[t] = NoCert /\ dials[t] = 0
  /\ pc[t] \notin {"send", "set", "save", "done"} => via[t] = "-"
  /\ pc[t] = "save" => via[t] # "plain" /\ (op[t] = "change" \/ via[t] = "-")
  /\ pc[t] = "set" => via[t] # "plain" /\ (op[t] = "change" \/ via[t] = "-")
  /\ pc[t] \in {"check", "ticket", "set"} => seen[t] # NoCert
  /\ pc[t] = "save" /\ op[t] # "forget" => seen[t] # NoCert
  /\ exit[t] # "-" => pc[t] = "done"

Control == \A t \in Threads : ControlAt(t)

\* A process that may fall back to plaintext found no pin, or could not look.
FallbackAt(t) ==
  /\ hadPin[t] => pins[pod[t]] # NoCert
  /\ pc[t] = "probe" /\ hadPin[t] => blind[t]

Fallback == \A t \in Threads : FallbackAt(t)

\* PinnedNeverPlain, of one process.
PlainAt(t) ==
  mode[t] = "auto" /\ hadPin[t] /\ ~blind[t] => pc[t] # "plain" /\ via[t] # "plain"

\* A copy has the pins that stood when it was read and still do, and its own.
CopyAt(t) ==
  pc[t] = "save" =>
    /\ snap[t][pod[t]] = Value(t)
    /\ \A u \in after[t] \cap stands : pod[u] # pod[t] => snap[t][pod[u]] = Value(u)

Copies == \A t \in Threads : CopyAt(t)

\* Where there is no doubt, both files know no other certificate than the pod's.
SureAt(p) == ~doubt[p] => {pins[p], session[p]} \subseteq {NoCert, cert[p]}

Sure == \A p \in Pods : SureAt(p)

\* A command whose pod and pin nobody touched: what it was shown, and what it forgot.
ShownAt(t) ==
  Running(t) /\ ~moved[t] =>
    /\ ~doubt[pod[t]] => seen[t] \in {NoCert, cert[pod[t]]}
    /\ pc[t] = "save" /\ Kind(t) # "check" => session[pod[t]] \in {NoCert, cert[pod[t]]}

Shown == \A t \in Threads : ShownAt(t)

IInv ==
  TypeOK /\ Control /\ Fallback /\ PinnedNeverPlain /\ PinAsReported /\ Copies /\ Sure /\ Shown

\* No step of a process or of the pods leaves the types.
LEMMA TypesStep == TypeOK /\ Control /\ [Next]_vars => TypeOK'
<1> SUFFICES ASSUME TypeOK, Control, [Next]_vars PROVE TypeOK'
  OBVIOUS
<1> USE KnownPodsAssumption DEF setup, conn, thread, files, world, dialled, kept, alarm
<1>1. ASSUME NEW t \in Threads, Start(t) PROVE TypeOK'
  <2>1. UNCHANGED <<setup, exit, seen, snap, via, noTLS, pins, session, cert,
                    elsewhere, stands, after, doubt, moved>>
    BY <1>1, SMTT(60) DEF Start, Goto, Begin, Pinned
  <2>2. (pc \in [Threads -> Pcs])'
    BY <1>1, SMTT(60) DEF Start, Goto, Begin, Pinned, TypeOK, Progress, Pcs
  <2>3. (dials \in [Threads -> 0 .. MaxDials])'
    BY <1>1, SMTT(60) DEF Start, Goto, Begin, Pinned, TypeOK, Progress, Control, ControlAt
  <2>4. (hadPin \in [Threads -> BOOLEAN])'
    BY <1>1, SMTT(60) DEF Start, Goto, Begin, Pinned, TypeOK, Histories
  <2>5. (blind \in [Threads -> BOOLEAN])'
    BY <1>1, SMTT(60) DEF Start, Goto, Begin, Pinned, TypeOK, Histories
  <2> QED BY <2>1, <2>2, <2>3, <2>4, <2>5 DEF TypeOK, Commands, Progress, Shared, Histories
<1>2. ASSUME NEW t \in Threads, Plan(t) PROVE TypeOK'
  <2>1. UNCHANGED <<setup, exit, seen, snap, via, noTLS, dials, pins, session,
                    cert, elsewhere, hadPin, stands, after, doubt, moved>>
    BY <1>2, SMTT(60) DEF Plan, Goto, GetPin, Pinned
  <2>2. (pc \in [Threads -> Pcs])'
    BY <1>2, SMTT(60) DEF Plan, Goto, GetPin, Pinned, TypeOK, Progress, Pcs
  <2>3. (blind \in [Threads -> BOOLEAN])'
    BY <1>2, ZenonT(60) DEF Plan, Goto, GetPin, Pinned, TypeOK, Histories
  <2> QED BY <2>1, <2>2, <2>3 DEF TypeOK, Commands, Progress, Shared, Histories
<1>3. ASSUME NEW t \in Threads, Look(t) PROVE TypeOK'
  <2>1. UNCHANGED <<setup, exit, seen, snap, via, noTLS, dials, pins, session,
                    cert, elsewhere, hadPin, stands, after, doubt, moved>>
    BY <1>3, SMTT(60) DEF Look, Goto, GetPin, Pinned
  <2>2. (pc \in [Threads -> Pcs])'
    BY <1>3, SMTT(60) DEF Look, Goto, GetPin, Pinned, TypeOK, Progress, Pcs
  <2>3. (blind \in [Threads -> BOOLEAN])'
    BY <1>3, ZenonT(60) DEF Look, Goto, GetPin, Pinned, TypeOK, Histories
  <2> QED BY <2>1, <2>2, <2>3 DEF TypeOK, Commands, Progress, Shared, Histories
<1>4. ASSUME NEW t \in Threads, Probe(t) PROVE TypeOK'
  <2>1. UNCHANGED <<setup, exit, seen, snap, via, dials, pins, session, cert,
                    elsewhere, hadPin, blind, stands, after, doubt, moved>>
    BY <1>4, SMTT(60) DEF Probe, Goto
  <2>2. (pc \in [Threads -> Pcs])'
    BY <1>4, SMTT(60) DEF Probe, Goto, TypeOK, Progress, Pcs
  <2>3. (noTLS \in [Threads -> BOOLEAN])'
    BY <1>4, SMTT(60) DEF Probe, Goto, TypeOK, Progress
  <2> QED BY <2>1, <2>2, <2>3 DEF TypeOK, Commands, Progress, Shared, Histories
<1>5. ASSUME NEW t \in Threads, Dial(t) PROVE TypeOK'
  <2>1. UNCHANGED <<setup, seen, snap, via, noTLS, dials, pins, session, cert,
                    elsewhere, hadPin, blind, stands, after, doubt, moved>>
    BY <1>5, SMTT(60) DEF Dial, Goto, Return
  <2>2. (pc \in [Threads -> Pcs])'
    BY <1>5, SMTT(60) DEF Dial, Goto, Return, TypeOK, Progress, Pcs
  <2>3. (exit \in [Threads -> Exits])'
    BY <1>5, SMTT(60) DEF Dial, Goto, Return, TypeOK, Progress, Exits
  <2> QED BY <2>1, <2>2, <2>3 DEF TypeOK, Commands, Progress, Shared, Histories
<1>6. ASSUME NEW t \in Threads, DialPlain(t) PROVE TypeOK'
  <2>1. UNCHANGED <<setup, seen, snap, noTLS, dials, pins, session, cert, elsewhere,
                    hadPin, blind, stands, after, doubt, moved>>
    BY <1>6, SMTT(60) DEF DialPlain, Goto, Return
  <2>2. (pc \in [Threads -> Pcs])'
    BY <1>6, SMTT(60) DEF DialPlain, Goto, Return, TypeOK, Progress, Pcs
  <2>3. (exit \in [Threads -> Exits])'
    BY <1>6, SMTT(60) DEF DialPlain, Goto, Return, TypeOK, Progress, Exits
  <2>4. (via \in [Threads -> {"-", "tls", "plain"}])'
    BY <1>6, SMTT(60) DEF DialPlain, Goto, Return, TypeOK, Progress
  <2> QED BY <2>1, <2>2, <2>3, <2>4 DEF TypeOK, Commands, Progress, Shared, Histories
<1>7. ASSUME NEW t \in Threads, Handshake(t) PROVE TypeOK'
  <2>1. UNCHANGED <<setup, snap, via, noTLS, dials, pins, cert, elsewhere, hadPin,
                    blind, doubt, moved>>
    BY <1>7, SMTT(60) DEF Handshake, Goto, Return, DropSession, Offered
  <2>2. (pc \in [Threads -> Pcs])'
    BY <1>7, SMTT(60) DEF Handshake, Goto, Return, DropSession, Offered, TypeOK, Progress,
      Pcs
  <2>3. (exit \in [Threads -> Exits])'
    BY <1>7, SMTT(60) DEF Handshake, Goto, Return, DropSession, Offered, TypeOK, Progress,
      Exits
  <2>4. (seen \in [Threads -> MaybeCert])'
    BY <1>7, SMTT(60) DEF Handshake, Goto, Return, DropSession, Offered, TypeOK, Progress,
      Shared, Commands, MaybeCert, Pins
  <2>5. (session \in Pins)'
    BY <1>7, SMTT(60) DEF Handshake, Goto, Return, DropSession, Offered, TypeOK, Shared,
      Progress, Commands, Pins, MaybeCert, NoPins
  <2>6. (stands \in SUBSET Threads)'
    BY <1>7, SMTT(60) DEF Handshake, Goto, Return, DropSession, Offered, TypeOK, Histories
  <2>7. (after \in [Threads -> SUBSET Threads])'
    BY <1>7, SMTT(60) DEF Handshake, Goto, Return, DropSession, Offered, TypeOK, Histories
  <2> QED BY <2>1, <2>2, <2>3, <2>4, <2>5, <2>6, <2>7 DEF TypeOK, Commands, Progress,
    Shared, Histories
<1>8. ASSUME NEW t \in Threads, Ticket(t) PROVE TypeOK'
  <2>1. UNCHANGED <<setup, exit, seen, snap, noTLS, dials, pins, cert, elsewhere,
                    hadPin, blind, stands, after>>
    BY <1>8, SMTT(60) DEF Ticket, Goto, Moves, Running
  <2>2. (pc \in [Threads -> Pcs])'
    BY <1>8, SMTT(60) DEF Ticket, Goto, Moves, Running, TypeOK, Progress, Pcs
  <2>3. (via \in [Threads -> {"-", "tls", "plain"}])'
    BY <1>8, SMTT(60) DEF Ticket, Goto, Moves, Running, TypeOK, Progress
  <2>4. (session \in Pins)'
    BY <1>8, SMTT(60) DEF Ticket, Goto, Moves, Running, TypeOK, Shared, Progress, Commands,
      Pins, MaybeCert, NoPins
  <2>5. (doubt \in [Pods -> BOOLEAN])'
    BY <1>8, ZenonT(60) DEF Ticket, Goto, Moves, Running, TypeOK, Histories, Commands
  <2>6. (moved \in [Threads -> BOOLEAN])'
    BY <1>8, ZenonT(60) DEF Ticket, Goto, Moves, Running, TypeOK, Histories
  <2> QED BY <2>1, <2>2, <2>3, <2>4, <2>5, <2>6 DEF TypeOK, Commands, Progress, Shared,
    Histories
<1>9. ASSUME NEW t \in Threads, CheckPin(t) PROVE TypeOK'
  <2>1. UNCHANGED <<setup, seen, via, noTLS, dials, pins, cert, elsewhere, hadPin,
                    blind, doubt, moved>>
    BY <1>9, SMTT(60) DEF CheckPin, Goto, Return, Load, LoadFails, Settle, DropSession
  <2>2. (pc \in [Threads -> Pcs])'
    BY <1>9, SMTT(60) DEF CheckPin, Goto, Return, Load, LoadFails, Settle, DropSession,
      TypeOK, Progress, Pcs
  <2>3. (exit \in [Threads -> Exits])'
    BY <1>9, SMTT(60) DEF CheckPin, Goto, Return, Load, LoadFails, Settle, DropSession,
      TypeOK, Progress, Exits
  <2>4. (snap \in [Threads -> Pins])'
    BY <1>9, SMTT(60) DEF CheckPin, Goto, Return, Load, LoadFails, Settle, DropSession,
      TypeOK, Progress, Shared, Commands, Pins, MaybeCert, NoPins
  <2>5. (session \in Pins)'
    BY <1>9, SMTT(60) DEF CheckPin, Goto, Return, Load, LoadFails, Settle, DropSession,
      TypeOK, Shared, Progress, Commands, Pins, MaybeCert, NoPins
  <2>6. (stands \in SUBSET Threads)'
    BY <1>9, SMTT(60) DEF CheckPin, Goto, Return, Load, LoadFails, Settle, DropSession,
      TypeOK, Histories
  <2>7. (after \in [Threads -> SUBSET Threads])'
    BY <1>9, SMTT(60) DEF CheckPin, Goto, Return, Load, LoadFails, Settle, DropSession,
      TypeOK, Histories
  <2> QED BY <2>1, <2>2, <2>3, <2>4, <2>5, <2>6, <2>7 DEF TypeOK, Commands, Progress,
    Shared, Histories
<1>10. ASSUME NEW t \in Threads, SetPin(t) PROVE TypeOK'
  <2>1. UNCHANGED <<setup, seen, via, noTLS, dials, pins, cert, elsewhere, hadPin,
                    blind, doubt, moved>>
    BY <1>10, SMTT(60) DEF SetPin, Goto, Return, Load, LoadFails, ForgetSessions
  <2>2. (pc \in [Threads -> Pcs])'
    BY <1>10, SMTT(60) DEF SetPin, Goto, Return, Load, LoadFails, ForgetSessions, TypeOK,
      Progress, Pcs
  <2>3. (exit \in [Threads -> Exits])'
    BY <1>10, SMTT(60) DEF SetPin, Goto, Return, Load, LoadFails, ForgetSessions, TypeOK,
      Progress, Exits
  <2>4. (snap \in [Threads -> Pins])'
    <3>1. snap' = snap \/ snap' = [snap EXCEPT ![t] = [pins EXCEPT ![pod[t]] = seen[t]]]
      BY <1>10 DEF SetPin, Load, LoadFails
    <3>2. [pins EXCEPT ![pod[t]] = seen[t]] \in Pins
      BY DEF TypeOK, Progress, Shared, Commands, Pins
    <3> QED BY <3>1, <3>2 DEF TypeOK, Progress
  <2>5. (session \in Pins)'
    BY <1>10, SMTT(60) DEF SetPin, Goto, Return, Load, LoadFails, ForgetSessions, TypeOK,
      Shared, Progress, Commands, Pins, MaybeCert, NoPins
  <2>6. (stands \in SUBSET Threads)'
    BY <1>10, SMTT(60) DEF SetPin, Goto, Return, Load, LoadFails, ForgetSessions, TypeOK,
      Histories
  <2>7. (after \in [Threads -> SUBSET Threads])'
    BY <1>10, SMTT(60) DEF SetPin, Goto, Return, Load, LoadFails, ForgetSessions, TypeOK,
      Histories
  <2> QED BY <2>1, <2>2, <2>3, <2>4, <2>5, <2>6, <2>7 DEF TypeOK, Commands, Progress,
    Shared, Histories
<1>11. ASSUME NEW t \in Threads, DeletePin(t) PROVE TypeOK'
  <2>1. UNCHANGED <<setup, seen, via, noTLS, dials, pins, cert, elsewhere, hadPin,
                    blind, doubt, moved>>
    BY <1>11, SMTT(60) DEF DeletePin, Goto, Return, Load, LoadFails, ForgetSessions, Settle,
      Pinned
  <2>2. (pc \in [Threads -> Pcs])'
    BY <1>11, SMTT(60) DEF DeletePin, Goto, Return, Load, LoadFails, ForgetSessions, Settle,
      Pinned, TypeOK, Progress, Pcs
  <2>3. (exit \in [Threads -> Exits])'
    BY <1>11, SMTT(60) DEF DeletePin, Goto, Return, Load, LoadFails, ForgetSessions, Settle,
      Pinned, TypeOK, Progress, Exits
  <2>4. (snap \in [Threads -> Pins])'
    BY <1>11, SMTT(60) DEF DeletePin, Goto, Return, Load, LoadFails, ForgetSessions, Settle,
      Pinned, TypeOK, Progress, Shared, Commands, Pins, MaybeCert, NoPins
  <2>5. (session \in Pins)'
    BY <1>11, SMTT(60) DEF DeletePin, Goto, Return, Load, LoadFails, ForgetSessions, Settle,
      Pinned, TypeOK, Shared, Progress, Commands, Pins, MaybeCert, NoPins
  <2>6. (stands \in SUBSET Threads)'
    BY <1>11, SMTT(60) DEF DeletePin, Goto, Return, Load, LoadFails, ForgetSessions, Settle,
      Pinned, TypeOK, Histories
  <2>7. (after \in [Threads -> SUBSET Threads])'
    BY <1>11, SMTT(60) DEF DeletePin, Goto, Return, Load, LoadFails, ForgetSessions, Settle,
      Pinned, TypeOK, Histories
  <2> QED BY <2>1, <2>2, <2>3, <2>4, <2>5, <2>6, <2>7 DEF TypeOK, Commands, Progress,
    Shared, Histories
<1>12. ASSUME NEW t \in Threads, Save(t) PROVE TypeOK'
  <2>1. UNCHANGED <<setup, seen, via, noTLS, dials, cert, elsewhere, blind>>
    BY <1>12, SMTT(60) DEF Save, Goto, Return, Saved, SaveFails, Settle, DropSession, Moves,
      Running, Stale, Written, Kind
  <2>2. (pc \in [Threads -> Pcs])'
    BY <1>12, SMTT(60) DEF Save, Goto, Return, Saved, SaveFails, Settle, DropSession, Moves,
      Running, Stale, Written, Kind, TypeOK, Progress, Pcs
  <2>3. (exit \in [Threads -> Exits])'
    BY <1>12, SMTT(60) DEF Save, Goto, Return, Saved, SaveFails, Settle, DropSession, Moves,
      Running, Stale, Written, Kind, TypeOK, Progress, Exits
  <2>4. (snap \in [Threads -> Pins])'
    BY <1>12, SMTT(60) DEF Save, Goto, Return, Saved, SaveFails, Settle, DropSession, Moves,
      Running, Stale, Written, Kind, TypeOK, Progress, Shared, Commands, Pins, MaybeCert,
      NoPins
  <2>5. (pins \in Pins)'
    BY <1>12, SMTT(60) DEF Save, Goto, Return, Saved, SaveFails, Settle, DropSession, Moves,
      Running, Stale, Written, Kind, TypeOK, Shared, Progress, Pins
  <2>6. (session \in Pins)'
    BY <1>12, SMTT(60) DEF Save, Goto, Return, Saved, SaveFails, Settle, DropSession, Moves,
      Running, Stale, Written, Kind, TypeOK, Shared, Progress, Commands, Pins, MaybeCert,
      NoPins
  <2>7. (hadPin \in [Threads -> BOOLEAN])'
    BY <1>12, SMTT(60) DEF Save, Goto, Return, Saved, SaveFails, Settle, DropSession, Moves,
      Running, Stale, Written, Kind, TypeOK, Histories
  <2>8. (stands \in SUBSET Threads)'
    BY <1>12, SMTT(60) DEF Save, Goto, Return, Saved, SaveFails, Settle, DropSession, Moves,
      Running, Stale, Written, Kind, TypeOK, Histories
  <2>9. (after \in [Threads -> SUBSET Threads])'
    BY <1>12, SMTT(60) DEF Save, Goto, Return, Saved, SaveFails, Settle, DropSession, Moves,
      Running, Stale, Written, Kind, TypeOK, Histories
  <2>10. (doubt \in [Pods -> BOOLEAN])'
    BY <1>12, ZenonT(60) DEF Save, Goto, Return, Saved, SaveFails, Settle, DropSession,
      Moves, Running, Stale, Written, Kind, TypeOK, Histories, Commands
  <2>11. (moved \in [Threads -> BOOLEAN])'
    BY <1>12, ZenonT(60) DEF Save, Goto, Return, Saved, SaveFails, Settle, DropSession,
      Moves, Running, Stale, Written, Kind, TypeOK, Histories
  <2> QED BY <2>1, <2>2, <2>3, <2>4, <2>5, <2>6, <2>7, <2>8, <2>9, <2>10, <2>11 DEF TypeOK,
    Commands, Progress, Shared, Histories
<1>13. ASSUME NEW t \in Threads, Send(t) PROVE TypeOK'
  <2>1. UNCHANGED <<setup, seen, snap, via, noTLS, dials, pins, session, cert,
                    elsewhere, hadPin, blind, stands, after, doubt, moved>>
    BY <1>13, SMTT(60) DEF Send, Goto, Return
  <2>2. (pc \in [Threads -> Pcs])'
    BY <1>13, SMTT(60) DEF Send, Goto, Return, TypeOK, Progress, Pcs
  <2>3. (exit \in [Threads -> Exits])'
    BY <1>13, SMTT(60) DEF Send, Goto, Return, TypeOK, Progress, Exits
  <2> QED BY <2>1, <2>2, <2>3 DEF TypeOK, Commands, Progress, Shared, Histories
<1>14. ASSUME NEW t \in Threads, Again(t) PROVE TypeOK'
  <2>1. UNCHANGED <<setup, exit, seen, snap, noTLS, pins, session, cert, elsewhere,
                    stands, after, doubt, moved>>
    BY <1>14, SMTT(60) DEF Again, Goto, Begin, Pinned
  <2>2. (pc \in [Threads -> Pcs])'
    BY <1>14, SMTT(60) DEF Again, Goto, Begin, Pinned, TypeOK, Progress, Pcs
  <2>3. (via \in [Threads -> {"-", "tls", "plain"}])'
    BY <1>14, SMTT(60) DEF Again, Goto, Begin, Pinned, TypeOK, Progress
  <2>4. (dials \in [Threads -> 0 .. MaxDials])'
    BY <1>14, SMTT(60) DEF Again, Goto, Begin, Pinned, TypeOK, Progress, Control, ControlAt
  <2>5. (hadPin \in [Threads -> BOOLEAN])'
    BY <1>14, SMTT(60) DEF Again, Goto, Begin, Pinned, TypeOK, Histories
  <2>6. (blind \in [Threads -> BOOLEAN])'
    BY <1>14, SMTT(60) DEF Again, Goto, Begin, Pinned, TypeOK, Histories
  <2> QED BY <2>1, <2>2, <2>3, <2>4, <2>5, <2>6 DEF TypeOK, Commands, Progress, Shared,
    Histories
<1>15. ASSUME NEW t \in Threads, Change(t) PROVE TypeOK'
  <2>1. UNCHANGED <<setup, snap, via, noTLS, dials, pins, session, elsewhere, hadPin,
                    blind>>
    BY <1>15, SMTT(60) DEF Change, Goto, Return, Changed, Changes, Moves, Running
  <2>2. (pc \in [Threads -> Pcs])'
    BY <1>15, SMTT(60) DEF Change, Goto, Return, Changed, Changes, Moves, Running, TypeOK,
      Progress, Pcs
  <2>3. (exit \in [Threads -> Exits])'
    BY <1>15, SMTT(60) DEF Change, Goto, Return, Changed, Changes, Moves, Running, TypeOK,
      Progress, Exits
  <2>4. (seen \in [Threads -> MaybeCert])'
    BY <1>15, SMTT(60) DEF Change, Goto, Return, Changed, Changes, Moves, Running, TypeOK,
      Progress, Shared, Commands, MaybeCert, Pins
  <2>5. (cert \in [Pods -> Certs])'
    BY <1>15, SMTT(60) DEF Change, Goto, Return, Changed, Changes, Moves, Running, TypeOK,
      Shared, Commands
  <2>6. (stands \in SUBSET Threads)'
    BY <1>15, SMTT(60) DEF Change, Goto, Return, Changed, Changes, Moves, Running, TypeOK,
      Histories
  <2>7. (after \in [Threads -> SUBSET Threads])'
    BY <1>15, SMTT(60) DEF Change, Goto, Return, Changed, Changes, Moves, Running, TypeOK,
      Histories
  <2>8. (doubt \in [Pods -> BOOLEAN])'
    BY <1>15, ZenonT(60) DEF Change, Goto, Return, Changed, Changes, Moves, Running, TypeOK,
      Histories, Commands
  <2>9. (moved \in [Threads -> BOOLEAN])'
    BY <1>15, ZenonT(60) DEF Change, Goto, Return, Changed, Changes, Moves, Running, TypeOK,
      Histories
  <2> QED BY <2>1, <2>2, <2>3, <2>4, <2>5, <2>6, <2>7, <2>8, <2>9 DEF TypeOK, Commands,
    Progress, Shared, Histories
<1>16. ASSUME NEW p \in Pods, ChangedElsewhere(p) PROVE TypeOK'
  <2>1. UNCHANGED <<setup, pc, exit, seen, snap, via, noTLS, dials, pins,
                    session, hadPin, blind, stands, after>>
    BY <1>16, SMTT(60) DEF ChangedElsewhere, Running
  <2>2. (cert \in [Pods -> Certs])'
    BY <1>16, SMTT(60) DEF ChangedElsewhere, Running, TypeOK, Shared, Commands
  <2>3. (elsewhere \in BOOLEAN)'
    BY <1>16, SMTT(60) DEF ChangedElsewhere, Running, TypeOK, Shared
  <2>4. (doubt \in [Pods -> BOOLEAN])'
    BY <1>16, ZenonT(60) DEF ChangedElsewhere, Running, TypeOK, Histories, Commands
  <2>5. (moved \in [Threads -> BOOLEAN])'
    BY <1>16, ZenonT(60) DEF ChangedElsewhere, Running, TypeOK, Histories
  <2> QED BY <2>1, <2>2, <2>3, <2>4, <2>5 DEF TypeOK, Commands, Progress, Shared, Histories
<1>17. ASSUME UNCHANGED vars PROVE TypeOK'
  BY <1>17 DEF vars, TypeOK, Commands, Progress, Shared, Histories
<1> QED BY <1>1, <1>2, <1>3, <1>4, <1>5, <1>6, <1>7, <1>8, <1>9, <1>10, <1>11, <1>12, <1>13,
  <1>14, <1>15, <1>16, <1>17 DEF Next, Step

\* Each command stays on its way.
LEMMA ControlStep == TypeOK /\ Control /\ [Next]_vars => Control'
<1> SUFFICES ASSUME TypeOK /\ Control, [Next]_vars,
                    NEW u \in Threads
             PROVE  ControlAt(u)'
  BY DEF Control
<1> USE KnownPodsAssumption DEF setup, conn, thread, files, world, dialled, kept, alarm
<1>1. ASSUME NEW t \in Threads, Start(t) PROVE ControlAt(u)'
  BY <1>1, SMTT(60) DEF Start, Goto, Begin, Pinned, ControlAt, Control, TypeOK, Commands,
    Progress, Shared, MaybeCert, Pcs, Ops, Exits, Kind
<1>2. ASSUME NEW t \in Threads, Plan(t) PROVE ControlAt(u)'
  BY <1>2, SMTT(60) DEF Plan, Goto, GetPin, Pinned, ControlAt, Control, TypeOK, Commands,
    Progress, Shared, MaybeCert, Pcs, Ops, Exits, Kind
<1>3. ASSUME NEW t \in Threads, Look(t) PROVE ControlAt(u)'
  BY <1>3, SMTT(60) DEF Look, Goto, GetPin, Pinned, ControlAt, Control, TypeOK, Commands,
    Progress, Shared, MaybeCert, Pcs, Ops, Exits, Kind
<1>4. ASSUME NEW t \in Threads, Probe(t) PROVE ControlAt(u)'
  BY <1>4, SMTT(60) DEF Probe, Goto, ControlAt, Control, TypeOK, Commands, Progress, Shared,
    MaybeCert, Pcs, Ops, Exits, Kind
<1>5. ASSUME NEW t \in Threads, Dial(t) PROVE ControlAt(u)'
  BY <1>5, SMTT(60) DEF Dial, Goto, Return, ControlAt, Control, TypeOK, Commands, Progress,
    Shared, MaybeCert, Pcs, Ops, Exits, Kind
<1>6. ASSUME NEW t \in Threads, DialPlain(t) PROVE ControlAt(u)'
  BY <1>6, SMTT(60) DEF DialPlain, Goto, Return, ControlAt, Control, TypeOK, Commands,
    Progress, Shared, MaybeCert, Pcs, Ops, Exits, Kind
<1>7. ASSUME NEW t \in Threads, Handshake(t) PROVE ControlAt(u)'
  BY <1>7, SMTT(60) DEF Handshake, Goto, Return, DropSession, Offered, ControlAt, Control,
    TypeOK, Commands, Progress, Shared, MaybeCert, Pcs, Ops, Exits, Kind
<1>8. ASSUME NEW t \in Threads, Ticket(t) PROVE ControlAt(u)'
  BY <1>8, SMTT(60) DEF Ticket, Goto, Moves, Running, ControlAt, Control, TypeOK, Commands,
    Progress, Shared, MaybeCert, Pcs, Ops, Exits, Kind
<1>9. ASSUME NEW t \in Threads, CheckPin(t) PROVE ControlAt(u)'
  BY <1>9, SMTT(60) DEF CheckPin, Goto, Return, Load, LoadFails, Settle, DropSession,
    ControlAt, Control, TypeOK, Commands, Progress, Shared, MaybeCert, Pcs, Ops, Exits, Kind
<1>10. ASSUME NEW t \in Threads, SetPin(t) PROVE ControlAt(u)'
  BY <1>10, SMTT(60) DEF SetPin, Goto, Return, Load, LoadFails, ForgetSessions, ControlAt,
    Control, TypeOK, Commands, Progress, Shared, MaybeCert, Pcs, Ops, Exits, Kind
<1>11. ASSUME NEW t \in Threads, DeletePin(t) PROVE ControlAt(u)'
  BY <1>11, SMTT(60) DEF DeletePin, Goto, Return, Load, LoadFails, ForgetSessions, Settle,
    Pinned, ControlAt, Control, TypeOK, Commands, Progress, Shared, MaybeCert, Pcs, Ops,
    Exits, Kind
<1>12. ASSUME NEW t \in Threads, Save(t) PROVE ControlAt(u)'
  BY <1>12, SMTT(60) DEF Save, Goto, Return, Saved, SaveFails, Settle, DropSession, Moves,
    Running, Stale, Written, Kind, ControlAt, Control, TypeOK, Commands, Progress, Shared,
    MaybeCert, Pcs, Ops, Exits, Kind
<1>13. ASSUME NEW t \in Threads, Send(t) PROVE ControlAt(u)'
  BY <1>13, SMTT(60) DEF Send, Goto, Return, ControlAt, Control, TypeOK, Commands, Progress,
    Shared, MaybeCert, Pcs, Ops, Exits, Kind
<1>14. ASSUME NEW t \in Threads, Again(t) PROVE ControlAt(u)'
  BY <1>14, SMTT(60) DEF Again, Goto, Begin, Pinned, ControlAt, Control, TypeOK, Commands,
    Progress, Shared, MaybeCert, Pcs, Ops, Exits, Kind
<1>15. ASSUME NEW t \in Threads, Change(t) PROVE ControlAt(u)'
  BY <1>15, SMTT(60) DEF Change, Goto, Return, Changed, Changes, Moves, Running, ControlAt,
    Control, TypeOK, Commands, Progress, Shared, MaybeCert, Pcs, Ops, Exits, Kind
<1>16. ASSUME NEW p \in Pods, ChangedElsewhere(p) PROVE ControlAt(u)'
  BY <1>16, SMTT(60) DEF ChangedElsewhere, Running, ControlAt, Control, TypeOK, Commands,
    Progress, Shared, MaybeCert, Pcs, Ops, Exits, Kind
<1>17. ASSUME UNCHANGED vars PROVE ControlAt(u)'
  BY <1>17, SMTT(60) DEF vars, ControlAt, Control, TypeOK, Commands, Progress, Shared,
    MaybeCert, Pcs, Ops, Exits, Kind
<1> QED BY <1>1, <1>2, <1>3, <1>4, <1>5, <1>6, <1>7, <1>8, <1>9, <1>10, <1>11, <1>12, <1>13,
  <1>14, <1>15, <1>16, <1>17 DEF Next, Step

\* Only a dial that finds no pin, or cannot look, probes for plaintext.
LEMMA FallbackStep == TypeOK /\ Control /\ Fallback /\ [Next]_vars => Fallback'
<1> SUFFICES ASSUME TypeOK /\ Control /\ Fallback, [Next]_vars,
                    NEW u \in Threads
             PROVE  FallbackAt(u)'
  BY DEF Fallback
<1> USE KnownPodsAssumption DEF setup, conn, thread, files, world, dialled, kept, alarm
<1>1. ASSUME NEW t \in Threads, Start(t) PROVE FallbackAt(u)'
  BY <1>1, SMTT(60) DEF Start, Goto, Begin, Pinned, Fallback, FallbackAt, TypeOK, Commands,
    Progress, Shared, Histories
<1>2. ASSUME NEW t \in Threads, Plan(t) PROVE FallbackAt(u)'
  BY <1>2, SMTT(60) DEF Plan, Goto, GetPin, Pinned, Fallback, FallbackAt, TypeOK, Commands,
    Progress, Shared, Histories
<1>3. ASSUME NEW t \in Threads, Look(t) PROVE FallbackAt(u)'
  BY <1>3, SMTT(60) DEF Look, Goto, GetPin, Pinned, Fallback, FallbackAt, TypeOK, Commands,
    Progress, Shared, Histories
<1>4. ASSUME NEW t \in Threads, Probe(t) PROVE FallbackAt(u)'
  BY <1>4, SMTT(60) DEF Probe, Goto, Fallback, FallbackAt, TypeOK, Commands, Progress,
    Shared, Histories
<1>5. ASSUME NEW t \in Threads, Dial(t) PROVE FallbackAt(u)'
  BY <1>5, SMTT(60) DEF Dial, Goto, Return, Fallback, FallbackAt, TypeOK, Commands,
    Progress, Shared, Histories
<1>6. ASSUME NEW t \in Threads, DialPlain(t) PROVE FallbackAt(u)'
  BY <1>6, SMTT(60) DEF DialPlain, Goto, Return, Fallback, FallbackAt, TypeOK, Commands,
    Progress, Shared, Histories
<1>7. ASSUME NEW t \in Threads, Handshake(t) PROVE FallbackAt(u)'
  BY <1>7, SMTT(60) DEF Handshake, Goto, Return, DropSession, Offered, Fallback, FallbackAt,
    TypeOK, Commands, Progress, Shared, Histories
<1>8. ASSUME NEW t \in Threads, Ticket(t) PROVE FallbackAt(u)'
  BY <1>8, SMTT(60) DEF Ticket, Goto, Moves, Running, Fallback, FallbackAt, TypeOK,
    Commands, Progress, Shared, Histories
<1>9. ASSUME NEW t \in Threads, CheckPin(t) PROVE FallbackAt(u)'
  BY <1>9, SMTT(60) DEF CheckPin, Goto, Return, Load, LoadFails, Settle, DropSession,
    Fallback, FallbackAt, TypeOK, Commands, Progress, Shared, Histories
<1>10. ASSUME NEW t \in Threads, SetPin(t) PROVE FallbackAt(u)'
  BY <1>10, SMTT(60) DEF SetPin, Goto, Return, Load, LoadFails, ForgetSessions, Fallback,
    FallbackAt, TypeOK, Commands, Progress, Shared, Histories
<1>11. ASSUME NEW t \in Threads, DeletePin(t) PROVE FallbackAt(u)'
  BY <1>11, SMTT(60) DEF DeletePin, Goto, Return, Load, LoadFails, ForgetSessions, Settle,
    Pinned, Fallback, FallbackAt, TypeOK, Commands, Progress, Shared, Histories
<1>12. ASSUME NEW t \in Threads, Save(t) PROVE FallbackAt(u)'
  <2>1. hadPin'[u] <=> hadPin[u] /\ pins'[pod[u]] # NoCert
    BY <1>12, ZenonT(60) DEF Save
  <2>2. blind' = blind /\ pod' = pod /\ (pc'[u] = "probe" => pc[u] = "probe")
    BY <1>12, SMTT(60) DEF Save, Saved, SaveFails, Goto, Return, TypeOK, Progress
  <2> QED BY <2>1, <2>2 DEF Fallback, FallbackAt
<1>13. ASSUME NEW t \in Threads, Send(t) PROVE FallbackAt(u)'
  BY <1>13, SMTT(60) DEF Send, Goto, Return, Fallback, FallbackAt, TypeOK, Commands,
    Progress, Shared, Histories
<1>14. ASSUME NEW t \in Threads, Again(t) PROVE FallbackAt(u)'
  BY <1>14, SMTT(60) DEF Again, Goto, Begin, Pinned, Fallback, FallbackAt, TypeOK, Commands,
    Progress, Shared, Histories
<1>15. ASSUME NEW t \in Threads, Change(t) PROVE FallbackAt(u)'
  BY <1>15, SMTT(60) DEF Change, Goto, Return, Changed, Changes, Moves, Running, Fallback,
    FallbackAt, TypeOK, Commands, Progress, Shared, Histories
<1>16. ASSUME NEW p \in Pods, ChangedElsewhere(p) PROVE FallbackAt(u)'
  BY <1>16, SMTT(60) DEF ChangedElsewhere, Running, Fallback, FallbackAt, TypeOK, Commands,
    Progress, Shared, Histories
<1>17. ASSUME UNCHANGED vars PROVE FallbackAt(u)'
  BY <1>17, SMTT(60) DEF vars, Fallback, FallbackAt, TypeOK, Commands, Progress, Shared,
    Histories
<1> QED BY <1>1, <1>2, <1>3, <1>4, <1>5, <1>6, <1>7, <1>8, <1>9, <1>10, <1>11, <1>12, <1>13,
  <1>14, <1>15, <1>16, <1>17 DEF Next, Step

\* So a pinned pod is not dialled in plaintext.
LEMMA PlainStep ==
  TypeOK /\ Control /\ Fallback /\ PinnedNeverPlain /\ [Next]_vars => PinnedNeverPlain'
<1> SUFFICES ASSUME TypeOK /\ Control /\ Fallback /\ PinnedNeverPlain, [Next]_vars,
                    NEW u \in Threads
             PROVE  PlainAt(u)'
  BY DEF PinnedNeverPlain, PlainAt
<1> USE KnownPodsAssumption DEF setup, conn, thread, files, world, dialled, kept, alarm
<1>1. ASSUME NEW t \in Threads, Start(t) PROVE PlainAt(u)'
  BY <1>1, SMTT(60) DEF Start, Goto, Begin, Pinned, PinnedNeverPlain, PlainAt, Fallback,
    FallbackAt, Control, ControlAt, TypeOK, Commands, Progress, Shared, Histories
<1>2. ASSUME NEW t \in Threads, Plan(t) PROVE PlainAt(u)'
  BY <1>2, SMTT(60) DEF Plan, Goto, GetPin, Pinned, PinnedNeverPlain, PlainAt, Fallback,
    FallbackAt, Control, ControlAt, TypeOK, Commands, Progress, Shared, Histories
<1>3. ASSUME NEW t \in Threads, Look(t) PROVE PlainAt(u)'
  BY <1>3, SMTT(60) DEF Look, Goto, GetPin, Pinned, PinnedNeverPlain, PlainAt, Fallback,
    FallbackAt, Control, ControlAt, TypeOK, Commands, Progress, Shared, Histories
<1>4. ASSUME NEW t \in Threads, Probe(t) PROVE PlainAt(u)'
  BY <1>4, SMTT(60) DEF Probe, Goto, PinnedNeverPlain, PlainAt, Fallback, FallbackAt,
    Control, ControlAt, TypeOK, Commands, Progress, Shared, Histories
<1>5. ASSUME NEW t \in Threads, Dial(t) PROVE PlainAt(u)'
  BY <1>5, SMTT(60) DEF Dial, Goto, Return, PinnedNeverPlain, PlainAt, Fallback, FallbackAt,
    Control, ControlAt, TypeOK, Commands, Progress, Shared, Histories
<1>6. ASSUME NEW t \in Threads, DialPlain(t) PROVE PlainAt(u)'
  BY <1>6, SMTT(60) DEF DialPlain, Goto, Return, PinnedNeverPlain, PlainAt, Fallback,
    FallbackAt, Control, ControlAt, TypeOK, Commands, Progress, Shared, Histories
<1>7. ASSUME NEW t \in Threads, Handshake(t) PROVE PlainAt(u)'
  BY <1>7, SMTT(60) DEF Handshake, Goto, Return, DropSession, Offered, PinnedNeverPlain,
    PlainAt, Fallback, FallbackAt, Control, ControlAt, TypeOK, Commands, Progress, Shared,
    Histories
<1>8. ASSUME NEW t \in Threads, Ticket(t) PROVE PlainAt(u)'
  BY <1>8, SMTT(60) DEF Ticket, Goto, Moves, Running, PinnedNeverPlain, PlainAt, Fallback,
    FallbackAt, Control, ControlAt, TypeOK, Commands, Progress, Shared, Histories
<1>9. ASSUME NEW t \in Threads, CheckPin(t) PROVE PlainAt(u)'
  BY <1>9, SMTT(60) DEF CheckPin, Goto, Return, Load, LoadFails, Settle, DropSession,
    PinnedNeverPlain, PlainAt, Fallback, FallbackAt, Control, ControlAt, TypeOK, Commands,
    Progress, Shared, Histories
<1>10. ASSUME NEW t \in Threads, SetPin(t) PROVE PlainAt(u)'
  BY <1>10, SMTT(60) DEF SetPin, Goto, Return, Load, LoadFails, ForgetSessions,
    PinnedNeverPlain, PlainAt, Fallback, FallbackAt, Control, ControlAt, TypeOK, Commands,
    Progress, Shared, Histories
<1>11. ASSUME NEW t \in Threads, DeletePin(t) PROVE PlainAt(u)'
  BY <1>11, SMTT(60) DEF DeletePin, Goto, Return, Load, LoadFails, ForgetSessions, Settle,
    Pinned, PinnedNeverPlain, PlainAt, Fallback, FallbackAt, Control, ControlAt, TypeOK,
    Commands, Progress, Shared, Histories
<1>12. ASSUME NEW t \in Threads, Save(t) PROVE PlainAt(u)'
  BY <1>12, SMTT(60) DEF Save, Goto, Return, Saved, SaveFails, Settle, DropSession, Moves,
    Running, Stale, Written, Kind, PinnedNeverPlain, PlainAt, Fallback, FallbackAt, Control,
    ControlAt, TypeOK, Commands, Progress, Shared, Histories
<1>13. ASSUME NEW t \in Threads, Send(t) PROVE PlainAt(u)'
  BY <1>13, SMTT(60) DEF Send, Goto, Return, PinnedNeverPlain, PlainAt, Fallback,
    FallbackAt, Control, ControlAt, TypeOK, Commands, Progress, Shared, Histories
<1>14. ASSUME NEW t \in Threads, Again(t) PROVE PlainAt(u)'
  BY <1>14, SMTT(60) DEF Again, Goto, Begin, Pinned, PinnedNeverPlain, PlainAt, Fallback,
    FallbackAt, Control, ControlAt, TypeOK, Commands, Progress, Shared, Histories
<1>15. ASSUME NEW t \in Threads, Change(t) PROVE PlainAt(u)'
  BY <1>15, SMTT(60) DEF Change, Goto, Return, Changed, Changes, Moves, Running,
    PinnedNeverPlain, PlainAt, Fallback, FallbackAt, Control, ControlAt, TypeOK, Commands,
    Progress, Shared, Histories
<1>16. ASSUME NEW p \in Pods, ChangedElsewhere(p) PROVE PlainAt(u)'
  BY <1>16, SMTT(60) DEF ChangedElsewhere, Running, PinnedNeverPlain, PlainAt, Fallback,
    FallbackAt, Control, ControlAt, TypeOK, Commands, Progress, Shared, Histories
<1>17. ASSUME UNCHANGED vars PROVE PlainAt(u)'
  BY <1>17, SMTT(60) DEF vars, PinnedNeverPlain, PlainAt, Fallback, FallbackAt, Control,
    ControlAt, TypeOK, Commands, Progress, Shared, Histories
<1> QED BY <1>1, <1>2, <1>3, <1>4, <1>5, <1>6, <1>7, <1>8, <1>9, <1>10, <1>11, <1>12, <1>13,
  <1>14, <1>15, <1>16, <1>17 DEF Next, Step

\* A reported pin stays until a command that may write over it does.
LEMMA StandsStep == TypeOK /\ Control /\ PinAsReported /\ Copies /\ [Next]_vars => PinAsReported'
<1> SUFFICES ASSUME TypeOK /\ Control /\ PinAsReported /\ Copies, [Next]_vars,
                    NEW u \in Threads
             PROVE  (u \in stands => pins[pod[u]] = Value(u))'
  BY TypesStep DEF PinAsReported, TypeOK, Histories
<1> USE KnownPodsAssumption DEF setup, conn, thread, files, world, dialled, kept, alarm
<1>1. ASSUME NEW t \in Threads, Start(t) PROVE (u \in stands => pins[pod[u]] = Value(u))'
  BY <1>1, SMTT(60) DEF Start, Goto, Begin, Pinned, PinAsReported, Copies, CopyAt, Control,
    ControlAt, Value, TypeOK, Commands, Progress, Shared, Histories, Pins, MaybeCert
<1>2. ASSUME NEW t \in Threads, Plan(t) PROVE (u \in stands => pins[pod[u]] = Value(u))'
  BY <1>2, SMTT(60) DEF Plan, Goto, GetPin, Pinned, PinAsReported, Copies, CopyAt, Control,
    ControlAt, Value, TypeOK, Commands, Progress, Shared, Histories, Pins, MaybeCert
<1>3. ASSUME NEW t \in Threads, Look(t) PROVE (u \in stands => pins[pod[u]] = Value(u))'
  BY <1>3, SMTT(60) DEF Look, Goto, GetPin, Pinned, PinAsReported, Copies, CopyAt, Control,
    ControlAt, Value, TypeOK, Commands, Progress, Shared, Histories, Pins, MaybeCert
<1>4. ASSUME NEW t \in Threads, Probe(t) PROVE (u \in stands => pins[pod[u]] = Value(u))'
  BY <1>4, SMTT(60) DEF Probe, Goto, PinAsReported, Copies, CopyAt, Control, ControlAt,
    Value, TypeOK, Commands, Progress, Shared, Histories, Pins, MaybeCert
<1>5. ASSUME NEW t \in Threads, Dial(t) PROVE (u \in stands => pins[pod[u]] = Value(u))'
  BY <1>5, SMTT(60) DEF Dial, Goto, Return, PinAsReported, Copies, CopyAt, Control,
    ControlAt, Value, TypeOK, Commands, Progress, Shared, Histories, Pins, MaybeCert
<1>6. ASSUME NEW t \in Threads, DialPlain(t) PROVE (u \in stands => pins[pod[u]] = Value(u))'
  BY <1>6, SMTT(60) DEF DialPlain, Goto, Return, PinAsReported, Copies, CopyAt, Control,
    ControlAt, Value, TypeOK, Commands, Progress, Shared, Histories, Pins, MaybeCert
<1>7. ASSUME NEW t \in Threads, Handshake(t) PROVE (u \in stands => pins[pod[u]] = Value(u))'
  BY <1>7, SMTT(60) DEF Handshake, Goto, Return, DropSession, Offered, PinAsReported,
    Copies, CopyAt, Control, ControlAt, Value, TypeOK, Commands, Progress, Shared,
    Histories, Pins, MaybeCert
<1>8. ASSUME NEW t \in Threads, Ticket(t) PROVE (u \in stands => pins[pod[u]] = Value(u))'
  BY <1>8, SMTT(60) DEF Ticket, Goto, Moves, Running, PinAsReported, Copies, CopyAt,
    Control, ControlAt, Value, TypeOK, Commands, Progress, Shared, Histories, Pins,
    MaybeCert
<1>9. ASSUME NEW t \in Threads, CheckPin(t) PROVE (u \in stands => pins[pod[u]] = Value(u))'
  BY <1>9, SMTT(60) DEF CheckPin, Goto, Return, Load, LoadFails, Settle, DropSession,
    PinAsReported, Copies, CopyAt, Control, ControlAt, Value, TypeOK, Commands, Progress,
    Shared, Histories, Pins, MaybeCert
<1>10. ASSUME NEW t \in Threads, SetPin(t) PROVE (u \in stands => pins[pod[u]] = Value(u))'
  BY <1>10, SMTT(60) DEF SetPin, Goto, Return, Load, LoadFails, ForgetSessions,
    PinAsReported, Copies, CopyAt, Control, ControlAt, Value, TypeOK, Commands, Progress,
    Shared, Histories, Pins, MaybeCert
<1>11. ASSUME NEW t \in Threads, DeletePin(t) PROVE (u \in stands => pins[pod[u]] = Value(u))'
  BY <1>11, SMTT(60) DEF DeletePin, Goto, Return, Load, LoadFails, ForgetSessions, Settle,
    Pinned, PinAsReported, Copies, CopyAt, Control, ControlAt, Value, TypeOK, Commands,
    Progress, Shared, Histories, Pins, MaybeCert
<1>12. ASSUME NEW t \in Threads, Save(t) PROVE (u \in stands => pins[pod[u]] = Value(u))'
  <2>1. Value(u)' = Value(u) /\ pod' = pod
    BY <1>12 DEF Save, Value
  <2>2. CASE Saved(t)
    <3>1. pins' = snap[t] /\ stands' = {v \in stands : v \in after[t] /\ pod[v] # pod[t]} \cup {t}
      BY <2>2 DEF Saved, Written, Settle
    <3>2. CopyAt(t) /\ pc[t] = "save"
      BY <1>12 DEF Copies, Save
    <3> QED BY <2>1, <3>1, <3>2 DEF CopyAt
  <2>3. CASE SaveFails(t)
    BY <2>1, <2>3 DEF SaveFails, PinAsReported
  <2> QED BY <1>12, <2>2, <2>3 DEF Save
<1>13. ASSUME NEW t \in Threads, Send(t) PROVE (u \in stands => pins[pod[u]] = Value(u))'
  BY <1>13, SMTT(60) DEF Send, Goto, Return, PinAsReported, Copies, CopyAt, Control,
    ControlAt, Value, TypeOK, Commands, Progress, Shared, Histories, Pins, MaybeCert
<1>14. ASSUME NEW t \in Threads, Again(t) PROVE (u \in stands => pins[pod[u]] = Value(u))'
  BY <1>14, SMTT(60) DEF Again, Goto, Begin, Pinned, PinAsReported, Copies, CopyAt, Control,
    ControlAt, Value, TypeOK, Commands, Progress, Shared, Histories, Pins, MaybeCert
<1>15. ASSUME NEW t \in Threads, Change(t) PROVE (u \in stands => pins[pod[u]] = Value(u))'
  BY <1>15, SMTT(60) DEF Change, Goto, Return, Changed, Changes, Moves, Running,
    PinAsReported, Copies, CopyAt, Control, ControlAt, Value, TypeOK, Commands, Progress,
    Shared, Histories, Pins, MaybeCert
<1>16. ASSUME NEW p \in Pods, ChangedElsewhere(p) PROVE (u \in stands => pins[pod[u]] = Value(u))'
  BY <1>16, SMTT(60) DEF ChangedElsewhere, Running, PinAsReported, Copies, CopyAt, Control,
    ControlAt, Value, TypeOK, Commands, Progress, Shared, Histories, Pins, MaybeCert
<1>17. ASSUME UNCHANGED vars PROVE (u \in stands => pins[pod[u]] = Value(u))'
  BY <1>17, SMTT(60) DEF vars, PinAsReported, Copies, CopyAt, Control, ControlAt, Value,
    TypeOK, Commands, Progress, Shared, Histories, Pins, MaybeCert
<1> QED BY <1>1, <1>2, <1>3, <1>4, <1>5, <1>6, <1>7, <1>8, <1>9, <1>10, <1>11, <1>12, <1>13,
  <1>14, <1>15, <1>16, <1>17 DEF Next, Step

\* A copy has the pins that stood when it was read and still do.
LEMMA CopiesStep == TypeOK /\ Control /\ PinAsReported /\ Copies /\ [Next]_vars => Copies'
<1> SUFFICES ASSUME TypeOK /\ Control /\ PinAsReported /\ Copies, [Next]_vars,
                    NEW u \in Threads
             PROVE  CopyAt(u)'
  BY DEF Copies
<1> USE KnownPodsAssumption DEF setup, conn, thread, files, world, dialled, kept, alarm
<1>1. ASSUME NEW t \in Threads, Start(t) PROVE CopyAt(u)'
  BY <1>1, SMTT(60) DEF Start, Goto, Begin, Pinned, PinAsReported, Copies, CopyAt, Control,
    ControlAt, Value, TypeOK, Commands, Progress, Shared, Histories, Pins, MaybeCert
<1>2. ASSUME NEW t \in Threads, Plan(t) PROVE CopyAt(u)'
  BY <1>2, SMTT(60) DEF Plan, Goto, GetPin, Pinned, PinAsReported, Copies, CopyAt, Control,
    ControlAt, Value, TypeOK, Commands, Progress, Shared, Histories, Pins, MaybeCert
<1>3. ASSUME NEW t \in Threads, Look(t) PROVE CopyAt(u)'
  BY <1>3, SMTT(60) DEF Look, Goto, GetPin, Pinned, PinAsReported, Copies, CopyAt, Control,
    ControlAt, Value, TypeOK, Commands, Progress, Shared, Histories, Pins, MaybeCert
<1>4. ASSUME NEW t \in Threads, Probe(t) PROVE CopyAt(u)'
  BY <1>4, SMTT(60) DEF Probe, Goto, PinAsReported, Copies, CopyAt, Control, ControlAt,
    Value, TypeOK, Commands, Progress, Shared, Histories, Pins, MaybeCert
<1>5. ASSUME NEW t \in Threads, Dial(t) PROVE CopyAt(u)'
  BY <1>5, SMTT(60) DEF Dial, Goto, Return, PinAsReported, Copies, CopyAt, Control,
    ControlAt, Value, TypeOK, Commands, Progress, Shared, Histories, Pins, MaybeCert
<1>6. ASSUME NEW t \in Threads, DialPlain(t) PROVE CopyAt(u)'
  BY <1>6, SMTT(60) DEF DialPlain, Goto, Return, PinAsReported, Copies, CopyAt, Control,
    ControlAt, Value, TypeOK, Commands, Progress, Shared, Histories, Pins, MaybeCert
<1>7. ASSUME NEW t \in Threads, Handshake(t) PROVE CopyAt(u)'
  <2>1. snap' = snap /\ (pc'[u] = "save" => pc[u] = "save" /\ u # t)
    BY <1>7, SMTT(60) DEF Handshake, Goto, Return, TypeOK, Progress
  <2>2. CASE seen' = seen /\ UNCHANGED kept
    BY <1>7, <2>1, <2>2 DEF Handshake, Copies, CopyAt, Value
  <2>3. CASE stands' = stands \ {t} /\ after' = [v \in Threads |-> after[v] \ {t}]
    <3>1. \A v \in Threads \ {t} : Value(v)' = Value(v)
      BY <1>7, SMTT(60) DEF Handshake, Value, TypeOK, Progress
    <3>2. stands \subseteq Threads /\ pod' = pod /\ CopyAt(u)
      BY <1>7 DEF Handshake, TypeOK, Histories, Copies
    <3> QED BY <2>1, <2>3, <3>1, <3>2 DEF CopyAt
  <2> QED BY <1>7, <2>2, <2>3 DEF Handshake
<1>8. ASSUME NEW t \in Threads, Ticket(t) PROVE CopyAt(u)'
  BY <1>8, SMTT(60) DEF Ticket, Goto, Moves, Running, PinAsReported, Copies, CopyAt,
    Control, ControlAt, Value, TypeOK, Commands, Progress, Shared, Histories, Pins,
    MaybeCert
<1>9. ASSUME NEW t \in Threads, CheckPin(t) PROVE CopyAt(u)'
  BY <1>9, SMTT(60) DEF CheckPin, Goto, Return, Load, LoadFails, Settle, DropSession,
    PinAsReported, Copies, CopyAt, Control, ControlAt, Value, TypeOK, Commands, Progress,
    Shared, Histories, Pins, MaybeCert
<1>10. ASSUME NEW t \in Threads, SetPin(t) PROVE CopyAt(u)'
  BY <1>10, SMTT(60) DEF SetPin, Goto, Return, Load, LoadFails, ForgetSessions,
    PinAsReported, Copies, CopyAt, Control, ControlAt, Value, TypeOK, Commands, Progress,
    Shared, Histories, Pins, MaybeCert
<1>11. ASSUME NEW t \in Threads, DeletePin(t) PROVE CopyAt(u)'
  BY <1>11, SMTT(60) DEF DeletePin, Goto, Return, Load, LoadFails, ForgetSessions, Settle,
    Pinned, PinAsReported, Copies, CopyAt, Control, ControlAt, Value, TypeOK, Commands,
    Progress, Shared, Histories, Pins, MaybeCert
<1>12. ASSUME NEW t \in Threads, Save(t) PROVE CopyAt(u)'
  BY <1>12, SMTT(60) DEF Save, Goto, Return, Saved, SaveFails, Settle, DropSession, Moves,
    Running, Stale, Written, Kind, PinAsReported, Copies, CopyAt, Control, ControlAt, Value,
    TypeOK, Commands, Progress, Shared, Histories, Pins, MaybeCert
<1>13. ASSUME NEW t \in Threads, Send(t) PROVE CopyAt(u)'
  BY <1>13, SMTT(60) DEF Send, Goto, Return, PinAsReported, Copies, CopyAt, Control,
    ControlAt, Value, TypeOK, Commands, Progress, Shared, Histories, Pins, MaybeCert
<1>14. ASSUME NEW t \in Threads, Again(t) PROVE CopyAt(u)'
  BY <1>14, SMTT(60) DEF Again, Goto, Begin, Pinned, PinAsReported, Copies, CopyAt, Control,
    ControlAt, Value, TypeOK, Commands, Progress, Shared, Histories, Pins, MaybeCert
<1>15. ASSUME NEW t \in Threads, Change(t) PROVE CopyAt(u)'
  BY <1>15, SMTT(60) DEF Change, Goto, Return, Changed, Changes, Moves, Running,
    PinAsReported, Copies, CopyAt, Control, ControlAt, Value, TypeOK, Commands, Progress,
    Shared, Histories, Pins, MaybeCert
<1>16. ASSUME NEW p \in Pods, ChangedElsewhere(p) PROVE CopyAt(u)'
  BY <1>16, SMTT(60) DEF ChangedElsewhere, Running, PinAsReported, Copies, CopyAt, Control,
    ControlAt, Value, TypeOK, Commands, Progress, Shared, Histories, Pins, MaybeCert
<1>17. ASSUME UNCHANGED vars PROVE CopyAt(u)'
  BY <1>17, SMTT(60) DEF vars, PinAsReported, Copies, CopyAt, Control, ControlAt, Value,
    TypeOK, Commands, Progress, Shared, Histories, Pins, MaybeCert
<1> QED BY <1>1, <1>2, <1>3, <1>4, <1>5, <1>6, <1>7, <1>8, <1>9, <1>10, <1>11, <1>12, <1>13,
  <1>14, <1>15, <1>16, <1>17 DEF Next, Step

\* What a command was shown, unless somebody touched its pod or pin.
LEMMA ShownStep == TypeOK /\ Control /\ Copies /\ Sure /\ Shown /\ [Next]_vars => Shown'
<1> SUFFICES ASSUME TypeOK /\ Control /\ Copies /\ Sure /\ Shown, [Next]_vars,
                    NEW u \in Threads
             PROVE  ShownAt(u)'
  BY DEF Shown
<1> USE KnownPodsAssumption DEF setup, conn, thread, files, world, dialled, kept, alarm
<1>1. ASSUME NEW t \in Threads, Start(t) PROVE ShownAt(u)'
  BY <1>1, SMTT(60) DEF Start, Goto, Begin, Pinned, Shown, ShownAt, Sure, SureAt, Copies,
    CopyAt, Control, ControlAt, Value, Kind, Running, NoPins, TypeOK, Commands, Progress,
    Shared, Histories, Pins, MaybeCert
<1>2. ASSUME NEW t \in Threads, Plan(t) PROVE ShownAt(u)'
  BY <1>2, SMTT(60) DEF Plan, Goto, GetPin, Pinned, Shown, ShownAt, Sure, SureAt, Copies,
    CopyAt, Control, ControlAt, Value, Kind, Running, NoPins, TypeOK, Commands, Progress,
    Shared, Histories, Pins, MaybeCert
<1>3. ASSUME NEW t \in Threads, Look(t) PROVE ShownAt(u)'
  BY <1>3, SMTT(60) DEF Look, Goto, GetPin, Pinned, Shown, ShownAt, Sure, SureAt, Copies,
    CopyAt, Control, ControlAt, Value, Kind, Running, NoPins, TypeOK, Commands, Progress,
    Shared, Histories, Pins, MaybeCert
<1>4. ASSUME NEW t \in Threads, Probe(t) PROVE ShownAt(u)'
  BY <1>4, SMTT(60) DEF Probe, Goto, Shown, ShownAt, Sure, SureAt, Copies, CopyAt, Control,
    ControlAt, Value, Kind, Running, NoPins, TypeOK, Commands, Progress, Shared, Histories,
    Pins, MaybeCert
<1>5. ASSUME NEW t \in Threads, Dial(t) PROVE ShownAt(u)'
  BY <1>5, SMTT(60) DEF Dial, Goto, Return, Shown, ShownAt, Sure, SureAt, Copies, CopyAt,
    Control, ControlAt, Value, Kind, Running, NoPins, TypeOK, Commands, Progress, Shared,
    Histories, Pins, MaybeCert
<1>6. ASSUME NEW t \in Threads, DialPlain(t) PROVE ShownAt(u)'
  BY <1>6, SMTT(60) DEF DialPlain, Goto, Return, Shown, ShownAt, Sure, SureAt, Copies,
    CopyAt, Control, ControlAt, Value, Kind, Running, NoPins, TypeOK, Commands, Progress,
    Shared, Histories, Pins, MaybeCert
<1>7. ASSUME NEW t \in Threads, Handshake(t) PROVE ShownAt(u)'
  BY <1>7, SMTT(60) DEF Handshake, Goto, Return, DropSession, Offered, Shown, ShownAt, Sure,
    SureAt, Copies, CopyAt, Control, ControlAt, Value, Kind, Running, NoPins, TypeOK,
    Commands, Progress, Shared, Histories, Pins, MaybeCert
<1>8. ASSUME NEW t \in Threads, Ticket(t) PROVE ShownAt(u)'
  BY <1>8, SMTT(60) DEF Ticket, Goto, Moves, Running, Shown, ShownAt, Sure, SureAt, Copies,
    CopyAt, Control, ControlAt, Value, Kind, Running, NoPins, TypeOK, Commands, Progress,
    Shared, Histories, Pins, MaybeCert
<1>9. ASSUME NEW t \in Threads, CheckPin(t) PROVE ShownAt(u)'
  BY <1>9, SMTT(60) DEF CheckPin, Goto, Return, Load, LoadFails, Settle, DropSession, Shown,
    ShownAt, Sure, SureAt, Copies, CopyAt, Control, ControlAt, Value, Kind, Running, NoPins,
    TypeOK, Commands, Progress, Shared, Histories, Pins, MaybeCert
<1>10. ASSUME NEW t \in Threads, SetPin(t) PROVE ShownAt(u)'
  BY <1>10, SMTT(60) DEF SetPin, Goto, Return, Load, LoadFails, ForgetSessions, Shown,
    ShownAt, Sure, SureAt, Copies, CopyAt, Control, ControlAt, Value, Kind, Running, NoPins,
    TypeOK, Commands, Progress, Shared, Histories, Pins, MaybeCert
<1>11. ASSUME NEW t \in Threads, DeletePin(t) PROVE ShownAt(u)'
  BY <1>11, SMTT(60) DEF DeletePin, Goto, Return, Load, LoadFails, ForgetSessions, Settle,
    Pinned, Shown, ShownAt, Sure, SureAt, Copies, CopyAt, Control, ControlAt, Value, Kind,
    Running, NoPins, TypeOK, Commands, Progress, Shared, Histories, Pins, MaybeCert
<1>12. ASSUME NEW t \in Threads, Save(t) PROVE ShownAt(u)'
  <2>1. /\ seen' = seen /\ pod' = pod /\ cert' = cert /\ op' = op /\ via' = via
        /\ u # t => pc'[u] = pc[u]
    BY <1>12, SMTT(60) DEF Save, Saved, SaveFails, Goto, Return, TypeOK, Progress
  <2>2. Kind(u)' = Kind(u)
    BY <2>1 DEF Kind
  <2>3. CASE Saved(t)
    <3>1. moved'[u] <=> moved[u] \/ (u # t /\ Running(u) /\
                          pod[u] \in {pod[t]} \cup {p \in Pods : pins'[p] # pins[p]})
      BY <2>3, ZenonT(60) DEF Saved, Moves
    <3>2. session' = session
      BY <2>3 DEF Saved
    <3>3. pod[u] \in Pods
      BY DEF TypeOK, Commands
    <3>4. CASE pod[u] = pod[t] /\ u # t
      BY <2>1, <3>1, <3>4 DEF ShownAt, Running
    <3>5. CASE pod[u] # pod[t] \/ Kind(t) = "check"
      <4>1. doubt[pod[u]] => doubt'[pod[u]]
        BY <2>3, <3>3, <3>5, ZenonT(60) DEF Saved
      <4>2. u = t => pc'[u] \in {"ticket", "done"}
        BY <2>3, SMTT(60) DEF Saved, Goto, Return, TypeOK, Progress
      <4>3. pc[t] = "save"
        BY <1>12 DEF Save
      <4> QED BY <2>1, <2>2, <3>1, <3>2, <4>1, <4>2, <4>3 DEF Shown, ShownAt, Running
    <3>6. CASE u = t /\ Kind(t) # "check"
      <4>1. pc'[u] = "done"
        BY <2>3, <3>6 DEF Saved, Return, Goto, TypeOK, Progress
      <4> QED BY <4>1 DEF ShownAt, Running
    <3> QED BY <3>4, <3>5, <3>6
  <2>4. CASE SaveFails(t)
    <3>1. UNCHANGED alarm /\ (u = t => pc'[u] = "done")
      BY <2>4, SMTT(60) DEF SaveFails, Return, Goto, TypeOK, Progress
    <3>2. session'[pod[u]] \in {session[pod[u]], NoCert}
      BY <2>4, SMTT(60) DEF SaveFails, DropSession, TypeOK, Shared, Commands, Pins
    <3> QED BY <2>1, <2>2, <3>1, <3>2 DEF Shown, ShownAt, Running
  <2> QED BY <1>12, <2>3, <2>4 DEF Save
<1>13. ASSUME NEW t \in Threads, Send(t) PROVE ShownAt(u)'
  BY <1>13, SMTT(60) DEF Send, Goto, Return, Shown, ShownAt, Sure, SureAt, Copies, CopyAt,
    Control, ControlAt, Value, Kind, Running, NoPins, TypeOK, Commands, Progress, Shared,
    Histories, Pins, MaybeCert
<1>14. ASSUME NEW t \in Threads, Again(t) PROVE ShownAt(u)'
  BY <1>14, SMTT(60) DEF Again, Goto, Begin, Pinned, Shown, ShownAt, Sure, SureAt, Copies,
    CopyAt, Control, ControlAt, Value, Kind, Running, NoPins, TypeOK, Commands, Progress,
    Shared, Histories, Pins, MaybeCert
<1>15. ASSUME NEW t \in Threads, Change(t) PROVE ShownAt(u)'
  <2>1. /\ pod' = pod /\ op' = op /\ via' = via /\ session' = session
        /\ IF u = t THEN pc'[u] \in {"done", "set"} ELSE pc'[u] = pc[u] /\ seen'[u] = seen[u]
    BY <1>15, SMTT(60) DEF Change, Changed, Goto, Return, TypeOK, Progress
  <2>2. Kind(u)' = Kind(u)
    BY <2>1 DEF Kind
  <2>3. CASE UNCHANGED <<cert, alarm>> /\ Return(t, exit'[t])
    <3>1. u = t => pc'[u] = "done"
      BY <2>3 DEF Return, Goto, TypeOK, Progress
    <3> QED BY <2>1, <2>2, <2>3, <3>1 DEF Shown, ShownAt, Running
  <2>4. CASE \E c \in Certs : Changes(t, pod[t], c)
    <3>1. PICK c \in Certs : Changes(t, pod[t], c)
      BY <2>4
    <3>2. moved'[u] <=> moved[u] \/ (u # t /\ Running(u) /\ pod[u] = pod[t])
      BY <3>1, ZenonT(60) DEF Changes, Moves
    <3>3. pod[t] \in Pods /\ pod[u] \in Pods
      BY DEF TypeOK, Commands
    <3>4. CASE pod[u] = pod[t]
      <4>1. doubt'[pod[u]]
        BY <3>1, <3>3, <3>4, ZenonT(60) DEF Changes, TypeOK, Histories
      <4> QED BY <2>1, <3>2, <3>4, <4>1 DEF ShownAt, Running
    <3>5. CASE pod[u] # pod[t]
      <4>1. (doubt'[pod[u]] <=> doubt[pod[u]]) /\ cert'[pod[u]] = cert[pod[u]] /\ u # t
        BY <3>1, <3>3, <3>5, ZenonT(60) DEF Changes, TypeOK, Histories, Shared
      <4> QED BY <2>1, <2>2, <3>2, <3>5, <4>1 DEF Shown, ShownAt, Running
    <3> QED BY <3>4, <3>5
  <2>5. Return(t, exit'[t]) \/ \E c \in Certs : Changes(t, pod[t], c)
    BY <1>15, SMTT(60) DEF Change, Changed, Return, TypeOK, Progress
  <2>6. UNCHANGED <<cert, alarm>> \/ \E c \in Certs : Changes(t, pod[t], c)
    BY <1>15 DEF Change, Changed
  <2> QED BY <2>3, <2>4, <2>5, <2>6
<1>16. ASSUME NEW p \in Pods, ChangedElsewhere(p) PROVE ShownAt(u)'
  <2>1. UNCHANGED <<setup, thread, files>>
    BY <1>16 DEF ChangedElsewhere
  <2>2. Kind(u)' = Kind(u)
    BY <2>1 DEF Kind
  <2>3. moved'[u] <=> moved[u] \/ (Running(u) /\ pod[u] = p)
    BY <1>16, ZenonT(60) DEF ChangedElsewhere
  <2>4. pod[u] # p => (doubt'[pod[u]] <=> doubt[pod[u]]) /\ cert'[pod[u]] = cert[pod[u]]
    <3>1. pod[u] \in Pods
      BY DEF TypeOK, Commands
    <3> QED BY <1>16, <3>1, ZenonT(60) DEF ChangedElsewhere, TypeOK, Histories, Shared
  <2> QED BY <2>1, <2>2, <2>3, <2>4 DEF Shown, ShownAt, Running
<1>17. ASSUME UNCHANGED vars PROVE ShownAt(u)'
  BY <1>17, SMTT(60) DEF vars, Shown, ShownAt, Sure, SureAt, Copies, CopyAt, Control,
    ControlAt, Value, Kind, Running, NoPins, TypeOK, Commands, Progress, Shared, Histories,
    Pins, MaybeCert
<1> QED BY <1>1, <1>2, <1>3, <1>4, <1>5, <1>6, <1>7, <1>8, <1>9, <1>10, <1>11, <1>12, <1>13,
  <1>14, <1>15, <1>16, <1>17 DEF Next, Step

\* The files know the pods' certificates where there is no doubt.
LEMMA SureStep == TypeOK /\ Control /\ Copies /\ Sure /\ Shown /\ [Next]_vars => Sure'
<1> SUFFICES ASSUME TypeOK /\ Control /\ Copies /\ Sure /\ Shown, [Next]_vars,
                    NEW q \in Pods
             PROVE  SureAt(q)'
  BY DEF Sure
<1> USE KnownPodsAssumption DEF setup, conn, thread, files, world, dialled, kept, alarm
<1>1. ASSUME NEW t \in Threads, Start(t) PROVE SureAt(q)'
  BY <1>1, SMTT(60) DEF Start, Goto, Begin, Pinned, SureAt, Shown, ShownAt, Sure, Copies,
    CopyAt, Control, ControlAt, Value, Kind, Running, NoPins, TypeOK, Commands, Progress,
    Shared, Histories, Pins, MaybeCert
<1>2. ASSUME NEW t \in Threads, Plan(t) PROVE SureAt(q)'
  BY <1>2, SMTT(60) DEF Plan, Goto, GetPin, Pinned, SureAt, Shown, ShownAt, Sure, Copies,
    CopyAt, Control, ControlAt, Value, Kind, Running, NoPins, TypeOK, Commands, Progress,
    Shared, Histories, Pins, MaybeCert
<1>3. ASSUME NEW t \in Threads, Look(t) PROVE SureAt(q)'
  BY <1>3, SMTT(60) DEF Look, Goto, GetPin, Pinned, SureAt, Shown, ShownAt, Sure, Copies,
    CopyAt, Control, ControlAt, Value, Kind, Running, NoPins, TypeOK, Commands, Progress,
    Shared, Histories, Pins, MaybeCert
<1>4. ASSUME NEW t \in Threads, Probe(t) PROVE SureAt(q)'
  BY <1>4, SMTT(60) DEF Probe, Goto, SureAt, Shown, ShownAt, Sure, Copies, CopyAt, Control,
    ControlAt, Value, Kind, Running, NoPins, TypeOK, Commands, Progress, Shared, Histories,
    Pins, MaybeCert
<1>5. ASSUME NEW t \in Threads, Dial(t) PROVE SureAt(q)'
  BY <1>5, SMTT(60) DEF Dial, Goto, Return, SureAt, Shown, ShownAt, Sure, Copies, CopyAt,
    Control, ControlAt, Value, Kind, Running, NoPins, TypeOK, Commands, Progress, Shared,
    Histories, Pins, MaybeCert
<1>6. ASSUME NEW t \in Threads, DialPlain(t) PROVE SureAt(q)'
  BY <1>6, SMTT(60) DEF DialPlain, Goto, Return, SureAt, Shown, ShownAt, Sure, Copies,
    CopyAt, Control, ControlAt, Value, Kind, Running, NoPins, TypeOK, Commands, Progress,
    Shared, Histories, Pins, MaybeCert
<1>7. ASSUME NEW t \in Threads, Handshake(t) PROVE SureAt(q)'
  BY <1>7, SMTT(60) DEF Handshake, Goto, Return, DropSession, Offered, SureAt, Shown,
    ShownAt, Sure, Copies, CopyAt, Control, ControlAt, Value, Kind, Running, NoPins, TypeOK,
    Commands, Progress, Shared, Histories, Pins, MaybeCert
<1>8. ASSUME NEW t \in Threads, Ticket(t) PROVE SureAt(q)'
  BY <1>8, SMTT(60) DEF Ticket, Goto, Moves, Running, SureAt, Shown, ShownAt, Sure, Copies,
    CopyAt, Control, ControlAt, Value, Kind, Running, NoPins, TypeOK, Commands, Progress,
    Shared, Histories, Pins, MaybeCert
<1>9. ASSUME NEW t \in Threads, CheckPin(t) PROVE SureAt(q)'
  BY <1>9, SMTT(60) DEF CheckPin, Goto, Return, Load, LoadFails, Settle, DropSession,
    SureAt, Shown, ShownAt, Sure, Copies, CopyAt, Control, ControlAt, Value, Kind, Running,
    NoPins, TypeOK, Commands, Progress, Shared, Histories, Pins, MaybeCert
<1>10. ASSUME NEW t \in Threads, SetPin(t) PROVE SureAt(q)'
  BY <1>10, SMTT(60) DEF SetPin, Goto, Return, Load, LoadFails, ForgetSessions, SureAt,
    Shown, ShownAt, Sure, Copies, CopyAt, Control, ControlAt, Value, Kind, Running, NoPins,
    TypeOK, Commands, Progress, Shared, Histories, Pins, MaybeCert
<1>11. ASSUME NEW t \in Threads, DeletePin(t) PROVE SureAt(q)'
  BY <1>11, SMTT(60) DEF DeletePin, Goto, Return, Load, LoadFails, ForgetSessions, Settle,
    Pinned, SureAt, Shown, ShownAt, Sure, Copies, CopyAt, Control, ControlAt, Value, Kind,
    Running, NoPins, TypeOK, Commands, Progress, Shared, Histories, Pins, MaybeCert
<1>12. ASSUME NEW t \in Threads, Save(t) PROVE SureAt(q)'
  <2>1. cert' = cert /\ session'[q] \in {session[q], NoCert}
    BY <1>12, SMTT(60) DEF Save, Saved, SaveFails, DropSession, TypeOK, Shared, Commands, Pins
  <2>2. CASE Saved(t)
    <3>1. pins' = snap[t] /\ session' = session
      BY <2>2 DEF Saved, Written
    <3>2. CASE q = pod[t] /\ Kind(t) # "check"
      <4>1. doubt'[q] <=> Stale(q) \/ (doubt[q] /\ moved[t])
        BY <2>2, <3>2, ZenonT(60) DEF Saved
      <4>2. pc[t] = "save" /\ ShownAt(t)
        BY <1>12 DEF Save, Shown
      <4> QED BY <2>1, <3>1, <3>2, <4>1, <4>2 DEF Sure, SureAt, Stale, ShownAt, Running
    <3>3. CASE ~(q = pod[t] /\ Kind(t) # "check")
      <4>1. doubt'[q] <=> doubt[q] \/ (Stale(q) /\ pins'[q] # pins[q])
        BY <2>2, <3>3, ZenonT(60) DEF Saved
      <4> QED BY <2>1, <3>1, <4>1 DEF Sure, SureAt, Stale
    <3> QED BY <3>2, <3>3
  <2>3. CASE SaveFails(t)
    BY <2>1, <2>3 DEF SaveFails, Sure, SureAt
  <2> QED BY <1>12, <2>2, <2>3 DEF Save
<1>13. ASSUME NEW t \in Threads, Send(t) PROVE SureAt(q)'
  BY <1>13, SMTT(60) DEF Send, Goto, Return, SureAt, Shown, ShownAt, Sure, Copies, CopyAt,
    Control, ControlAt, Value, Kind, Running, NoPins, TypeOK, Commands, Progress, Shared,
    Histories, Pins, MaybeCert
<1>14. ASSUME NEW t \in Threads, Again(t) PROVE SureAt(q)'
  BY <1>14, SMTT(60) DEF Again, Goto, Begin, Pinned, SureAt, Shown, ShownAt, Sure, Copies,
    CopyAt, Control, ControlAt, Value, Kind, Running, NoPins, TypeOK, Commands, Progress,
    Shared, Histories, Pins, MaybeCert
<1>15. ASSUME NEW t \in Threads, Change(t) PROVE SureAt(q)'
  <2>1. UNCHANGED <<pins, session>>
    BY <1>15 DEF Change
  <2>2. CASE UNCHANGED <<cert, alarm>>
    BY <2>1, <2>2 DEF Sure, SureAt
  <2>3. CASE \E c \in Certs : Changes(t, pod[t], c)
    <3>1. PICK c \in Certs : Changes(t, pod[t], c)
      BY <2>3
    <3>2. /\ q = pod[t] => doubt'[q]
          /\ q # pod[t] => (doubt'[q] <=> doubt[q]) /\ cert'[q] = cert[q]
      BY <3>1, ZenonT(60) DEF Changes, TypeOK, Histories, Shared
    <3> QED BY <2>1, <3>2 DEF Sure, SureAt
  <2> QED BY <1>15, <2>2, <2>3 DEF Change, Changed
<1>16. ASSUME NEW p \in Pods, ChangedElsewhere(p) PROVE SureAt(q)'
  BY <1>16, SMTT(60) DEF ChangedElsewhere, Running, SureAt, Shown, ShownAt, Sure, Copies,
    CopyAt, Control, ControlAt, Value, Kind, Running, NoPins, TypeOK, Commands, Progress,
    Shared, Histories, Pins, MaybeCert
<1>17. ASSUME UNCHANGED vars PROVE SureAt(q)'
  BY <1>17, SMTT(60) DEF vars, SureAt, Shown, ShownAt, Sure, Copies, CopyAt, Control,
    ControlAt, Value, Kind, Running, NoPins, TypeOK, Commands, Progress, Shared, Histories,
    Pins, MaybeCert
<1> QED BY <1>1, <1>2, <1>3, <1>4, <1>5, <1>6, <1>7, <1>8, <1>9, <1>10, <1>11, <1>12, <1>13,
  <1>14, <1>15, <1>16, <1>17 DEF Next, Step

LEMMA InitHolds == Init => IInv
<1> SUFFICES ASSUME Init PROVE IInv
  OBVIOUS
<1> USE KnownPodsAssumption
<1>1. TypeOK
  <2>1. Commands /\ Shared
    BY ZenonT(60) DEF Init, Commands, Shared
  <2>2. NoPins \in Pins
    BY DEF NoPins, Pins, MaybeCert
  <2>3. Progress
    <3>1. pc \in [Threads -> Pcs] /\ exit \in [Threads -> Exits] /\ seen \in [Threads -> MaybeCert]
      BY SMTT(60) DEF Init, Pcs, Exits, MaybeCert
    <3>2. snap \in [Threads -> Pins]
      BY <2>2, SMTT(60) DEF Init
    <3>3. noTLS \in [Threads -> BOOLEAN]
      BY ZenonT(60) DEF Init
    <3>4. via \in [Threads -> {"-", "tls", "plain"}] /\ dials \in [Threads -> 0 .. MaxDials]
      BY SMTT(60) DEF Init
    <3> QED BY <3>1, <3>2, <3>3, <3>4 DEF Progress
  <2>4. Histories
    BY ZenonT(60) DEF Init, Histories
  <2> QED BY <2>1, <2>3, <2>4 DEF TypeOK
<1>2. Control /\ Fallback /\ PinnedNeverPlain
  BY SMTT(60) DEF Init, Control, ControlAt, Fallback, FallbackAt, PinnedNeverPlain
<1>3. PinAsReported /\ Copies /\ Sure /\ Shown
  BY SMTT(60) DEF Init, PinAsReported, Copies, CopyAt, Sure, SureAt, Shown, ShownAt, Running
<1> QED BY <1>1, <1>2, <1>3 DEF IInv

LEMMA Invariance == IInv /\ [Next]_vars => IInv'
BY TypesStep, ControlStep, FallbackStep, PlainStep, StandsStep, CopiesStep, ShownStep, SureStep
   DEF IInv

LEMMA Always == Spec => []IInv
BY InitHolds, Invariance, PTL DEF Spec

\* Every state of the pin file, the copies and the commands has the types TypeOK states.
THEOREM TypeCorrect == Spec => []TypeOK
<1>1. IInv => TypeOK
  BY DEF IInv
<1> QED BY <1>1, Always, PTL

\* tls.go:10, "never a silent downgrade": for any processes, a pod pinned since the dial
\* began is not dialled in plaintext unless that was asked for or a look-up could not
\* read the pins.
THEOREM NeverPlain == Spec => []PinnedNeverPlain
<1>1. IInv => PinnedNeverPlain
  BY DEF IInv
<1> QED BY <1>1, Always, PTL

\* However many processes share the file, the pin that a command has reported stays until
\* a command for the same pod writes, or one that had read the file before.
THEOREM PinsAsReported == Spec => []PinAsReported
<1>1. IInv => PinAsReported
  BY DEF IInv
<1> QED BY <1>1, Always, PTL

\* Only checkPin raises the alarm, and not while both files know the pod's certificate
\* and nobody has touched the pod or its pin since the command began.
LEMMA AlarmStep ==
  IInv /\ [Next]_vars =>
    \A t \in Threads :
      exit'[t] = "mismatch" /\ exit[t] # "mismatch" => doubt[pod[t]] \/ moved[t]
<1> SUFFICES ASSUME IInv, [Next]_vars, NEW u \in Threads,
                    exit'[u] = "mismatch", exit[u] # "mismatch"
             PROVE  doubt[pod[u]] \/ moved[u]
  OBVIOUS
<1> USE DEF setup, conn, thread, files, world, dialled, kept, alarm
<1>1. ASSUME NEW t \in Threads, CheckPin(t) PROVE doubt[pod[u]] \/ moved[u]
  <2>1. u = t /\ pins[pod[t]] \notin {NoCert, seen[t]}
    BY <1>1, SMTT(60) DEF CheckPin, Load, LoadFails, Goto, Return, IInv, TypeOK, Progress
  <2>2. pc[t] = "check" /\ seen[t] # NoCert
    BY <1>1 DEF CheckPin, IInv, Control, ControlAt
  <2>3. SureAt(pod[t]) /\ ShownAt(t)
    BY DEF IInv, Sure, Shown, TypeOK, Commands
  <2> QED BY <2>1, <2>2, <2>3 DEF SureAt, ShownAt, Running
<1>2. ASSUME NEW t \in Threads, Step(t), ~CheckPin(t) PROVE FALSE
  <2> DEFINE Calm == \/ exit' = exit
                     \/ \E r \in {"ok", "warned", "error"} : exit' = [exit EXCEPT ![t] = r]
  <2>1. Start(t) \/ Plan(t) \/ Look(t) \/ Probe(t) \/ Ticket(t) \/ Again(t) => Calm
    BY DEF Start, Plan, Look, Probe, Ticket, Again
  <2>2. Dial(t) \/ DialPlain(t) \/ Handshake(t) \/ Send(t) => Calm
    BY DEF Dial, DialPlain, Handshake, Send, Return
  <2>3. SetPin(t) \/ DeletePin(t) => Calm
    BY DEF SetPin, DeletePin, Load, LoadFails, Return
  <2>4. Save(t) => Calm
    BY DEF Save, Saved, SaveFails, Return
  <2>5. Change(t) => Calm
    BY DEF Change, Changed, Return
  <2>6. Calm
    BY <1>2, <2>1, <2>2, <2>3, <2>4, <2>5 DEF Step
  <2> QED BY <2>6, SMTT(60) DEF IInv, TypeOK, Progress
<1>3. ASSUME NEW p \in Pods, ChangedElsewhere(p) PROVE FALSE
  BY <1>3 DEF ChangedElsewhere
<1>4. ASSUME UNCHANGED vars PROVE FALSE
  BY <1>4 DEF vars
<1> QED BY <1>1, <1>2, <1>3, <1>4 DEF Next

\* For any processes and pods, an alarm has a cause: a certificate that changed, or a pin
\* that was lost, since a command last reported otherwise or while this one ran.
THEOREM AlarmsHaveCauses == Spec => AlarmHasACause
BY Always, AlarmStep, PTL DEF Spec, AlarmHasACause
=============================================================================

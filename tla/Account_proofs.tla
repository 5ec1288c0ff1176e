--------------------------- MODULE Account_proofs ---------------------------
(***************************************************************************)
(* Proofs about Account, for every set of processes and every bound: its   *)
(* type correctness, that the session in token.json survives concurrent    *)
(* refreshes, that the queue of reports never holds more than one, that no *)
(* report of runs in sequence is lost or sent a third time, and that no    *)
(* command leaves the pod and its record apart without saying so.          *)
(***************************************************************************)
EXTENDS Account, SequenceTheorems, FiniteSetTheorems, TLAPS

\* Where a command stands, and how it ended.
LEMMA CommandStep == TypeOK /\ [Next]_vars => CommandOK'
<1> SUFFICES ASSUME TypeOK, [Next]_vars PROVE CommandOK'
  OBVIOUS
<1> USE DEF TypeOK, CommandOK, PCs, Exits, Goto, End, Go
<1>1. ASSUME NEW p \in Procs, Start(p) PROVE CommandOK'
  <2>1. PICK o \in Ops : /\ op' = [op EXCEPT ![p] = o] /\ Go(p, FirstStep[o])
                         /\ overlap' = overlap \cup {Kind(op[q]) : q \in {r \in Procs : Running(r) /\ Kind(op[r]) = Kind(o)}}
    BY <1>1, ZenonT(60) DEF Start
  <2>2. overlap' \subseteq {"queue", "pod", "session"}
    BY <2>1 DEF Kind, Ops
  <2>3. FirstStep[o] \in PCs
    BY DEF FirstStep, Ops
  <2>4. sel' \in [Procs -> {"pod", "name", "id"}] /\ leave' \in [Procs -> BOOLEAN]
    BY <1>1 DEF Start
  <2> QED BY <2>1, <2>2, <2>3, <2>4
<1>2. ASSUME NEW p \in Procs, Credential(p) PROVE CommandOK'
  BY <1>2 DEF Credential, Onward
<1>3. ASSUME NEW p \in Procs, Refresh(p) PROVE CommandOK'
  BY <1>3 DEF Refresh
<1>4. ASSUME NEW p \in Procs, SaveTokens(p) PROVE CommandOK'
  BY <1>4 DEF SaveTokens, Onward
<1>5. ASSUME NEW p \in Procs, CheckSession(p) \/ Approve(p) \/ Logout(p) PROVE CommandOK'
  BY <1>5, ZenonT(60) DEF CheckSession, Approve, Logout
<1>6. ASSUME NEW p \in Procs, ReadQueue(p) \/ Post(p) \/ WriteQueue(p) \/ FillQueue(p) PROVE CommandOK'
  BY <1>6, ZenonT(60) DEF ReadQueue, Post, WriteQueue, FillQueue
<1>7. ASSUME NEW p \in Procs, Identity(p) \/ List(p) \/ Device(p) PROVE CommandOK'
  BY <1>7, ZenonT(120) DEF Identity, List, Device
<1>8. ASSUME NEW p \in Procs, PodSide(p) PROVE CommandOK'
  BY <1>8 DEF PodSide, PodFailure
<1>9. ASSUME NEW p \in Procs, Kill(p) PROVE CommandOK'
  BY <1>9 DEF Kill
<1>10. CASE Age \/ UNCHANGED vars
  BY <1>10 DEF Age, vars, proc
<1> QED BY <1>1, <1>2, <1>3, <1>4, <1>5, <1>6, <1>7, <1>8, <1>9, <1>10 DEF Next

\* The tokens: a new one is issued with the next number.
LEMMA SessionStep == TypeOK /\ [Next]_vars => SessionOK'
<1> SUFFICES ASSUME TypeOK, [Next]_vars PROVE SessionOK'
  OBVIOUS
<1> USE AccountAssumption DEF TypeOK, SessionOK
<1>1. ASSUME UNCHANGED <<hold, file, valid, gen, mislaid, expiries, fixed>> PROVE SessionOK'
  BY <1>1 DEF fixed
<1>2. ASSUME NEW p \in Procs, Start(p) \/ CheckSession(p) PROVE SessionOK'
  BY <1>1, <1>2 DEF Start, CheckSession, session
<1>3. ASSUME NEW p \in Procs, Credential(p) PROVE SessionOK'
  <2>1. hold' \in [Procs -> 0 .. gen]
    BY <1>3 DEF Credential, Life
  <2> QED BY <1>3, <2>1 DEF Credential, session, fixed
<1>4. ASSUME NEW p \in Procs, Refresh(p) PROVE SessionOK'
  <2>1. hold[p] \in 0 .. gen
    BY <1>4
  <2>2. gen' \in Nat /\ valid' \subseteq 0 .. gen' /\ 0 .. gen \subseteq 0 .. gen'
    <3>1. gen' \in {gen, gen + 1} /\ valid' \subseteq valid \cup {gen'}
      BY <1>4 DEF Refresh, Issue
    <3>2. gen' \in 0 .. gen' /\ 0 .. gen \subseteq 0 .. gen'
      BY <3>1
    <3> QED BY <3>1, <3>2
  <2>3. hold' \in [Procs -> 0 .. gen']
    BY <1>4, <2>2 DEF Refresh, Issue
  <2> QED BY <1>4, <2>2, <2>3 DEF Refresh, fixed
<1>5. ASSUME NEW p \in Procs, SaveTokens(p) PROVE SessionOK'
  <2>1. hold[p] \in 0 .. gen
    BY <1>5
  <2>2. file' \in [token : 0 .. gen, life : {"fresh", "stale", "dead"}] \cup {NoFile}
    BY <1>5, <2>1 DEF SaveTokens, Store
  <2>3. mislaid' \in BOOLEAN
    BY <1>5 DEF SaveTokens
  <2> QED BY <1>5, <2>2, <2>3 DEF SaveTokens, fixed
<1>6. ASSUME NEW p \in Procs, Approve(p) PROVE SessionOK'
  <2>1. gen' \in Nat /\ valid' \subseteq 0 .. gen' /\ 0 .. gen \subseteq 0 .. gen'
    <3>1. gen' \in {gen, gen + 1} /\ valid' \subseteq valid \cup {gen'}
      BY <1>6 DEF Approve
    <3>2. gen' \in 0 .. gen' /\ 0 .. gen \subseteq 0 .. gen'
      BY <3>1
    <3> QED BY <3>1, <3>2
  <2>2. hold' \in [Procs -> 0 .. gen']
    BY <1>6, <2>1 DEF Approve
  <2> QED BY <1>6, <2>1, <2>2 DEF Approve, fixed
<1>7. ASSUME NEW p \in Procs, Logout(p) PROVE SessionOK'
  BY <1>7 DEF Logout, fixed
<1>8. ASSUME NEW p \in Procs, ReadQueue(p) \/ Post(p) \/ WriteQueue(p) \/ FillQueue(p) PROVE SessionOK'
  BY <1>1, <1>8 DEF ReadQueue, Post, WriteQueue, FillQueue, session
<1>9. ASSUME NEW p \in Procs, Identity(p) \/ List(p) \/ Device(p) \/ PodSide(p) PROVE SessionOK'
  BY <1>1, <1>9 DEF Identity, List, Device, PodSide, session
<1>10. ASSUME NEW p \in Procs, Kill(p) PROVE SessionOK'
  BY <1>10 DEF Kill, fixed
<1>11. CASE Age
  BY <1>11 DEF Age, Life, proc, fixed
<1>12. CASE UNCHANGED vars
  BY <1>1, <1>12 DEF vars, proc, session
<1> QED BY <1>2, <1>3, <1>4, <1>5, <1>6, <1>7, <1>8, <1>9, <1>10, <1>11, <1>12 DEF Next

\* The inductive invariant of the reports.  A run has its own report, untried, behind
\* one of an earlier run at most, tried once: that one is not kept again, so what a run
\* keeps is its own.
Waiting(k) == Len(k) <= 1 /\ (k # <<>> => Head(k).tries = 1)
Sending(p) == op[p] = "report" /\ pc[p] \in {"cred", "refresh", "save", "post"}
ListsOf(p) ==
  /\ Waiting(keep[p])
  /\ pc[p] \in {"read", "post", "write", "fill"} => op[p] = "report"
  /\ pc[p] \in {"session", "approve"} => op[p] = "login"
  /\ pc[p] \in {"idle", "read"} \/ Sending(p) => keep[p] = <<>>
  /\ Sending(p) => \/ Len(pend[p]) = 1 /\ pend[p][1].tries = 0
                   \/ Len(pend[p]) = 2 /\ pend[p][1].tries = 1 /\ pend[p][2].tries = 0
Lists == Waiting(queue) /\ \A p \in Procs : ListsOf(p)

\* What is left of two.
LEMMA TailOfTwo ==
  ASSUME NEW S, NEW s \in Seq(S), Len(s) = 2
  PROVE  Len(Tail(s)) = 1 /\ Tail(s)[1] = s[2]
<1>1. s # <<>>
  BY SMTT(60)
<1>2. Len(Tail(s)) = Len(s) - 1 /\ \A i \in 1 .. Len(Tail(s)) : Tail(s)[i] = s[i + 1]
  BY <1>1, HeadTailProperties
<1> QED BY <1>2

\* What one send does to a run's lists.
LEMMA PostStep ==
  ASSUME TypeOK, Lists, NEW p \in Procs, Post(p)
  PROVE  /\ pend' \in [Procs -> Seq(QueuedEvent)] /\ keep' \in [Procs -> Seq(QueuedEvent)]
         /\ Head(pend[p]).event \in Procs
         /\ Waiting(keep'[p])
         /\ pc'[p] = "write" \/ (pc'[p] = "cred" /\ keep'[p] = <<>> /\ Len(pend'[p]) = 1 /\ pend'[p][1].tries = 0)
<1> DEFINE q == Head(pend[p])
<1>1. /\ pend \in [Procs -> Seq(QueuedEvent)] /\ keep \in [Procs -> Seq(QueuedEvent)]
      /\ pc \in [Procs -> PCs]
  BY SMTT(60) DEF TypeOK, CommandOK, ReportsOK
<1>2. /\ keep[p] = <<>>
      /\ \/ Len(pend[p]) = 1 /\ pend[p][1].tries = 0
         \/ Len(pend[p]) = 2 /\ pend[p][1].tries = 1 /\ pend[p][2].tries = 0
  BY DEF Post, Lists, ListsOf, Sending
<1>3. q \in QueuedEvent /\ q = pend[p][1] /\ Tail(pend[p]) \in Seq(QueuedEvent)
  BY <1>1, <1>2
<1>4. q.event \in Procs /\ q.tries \in 0 .. MaxTries
  BY <1>3 DEF QueuedEvent
<1>5. pend' = [pend EXCEPT ![p] = Tail(@)] /\ pc' = [pc EXCEPT ![p] = IF Len(pend[p]) = 1 THEN "write" ELSE "cred"]
  BY DEF Post, Go, Goto
<1>6. \/ keep' = [keep EXCEPT ![p] = <<>> \o <<>>]
      \/ keep' = [keep EXCEPT ![p] = <<>> \o Kept(q)]
  BY <1>1, <1>2 DEF Post, Answered
<1>7. CASE Len(pend[p]) = 1
  <2> DEFINE e == [q EXCEPT !.tries = @ + 1]
  <2>1. e \in QueuedEvent /\ e.tries = 1
    BY <1>2, <1>3, <1>7 DEF QueuedEvent, MaxTries
  <2>2. Kept(q) = <<e>>
    BY <1>2, <1>3, <1>7 DEF Kept, MaxTries
  <2> HIDE DEF e
  <2>3. <<e>> \in Seq(QueuedEvent) /\ Len(<<e>>) = 1 /\ Head(<<e>>) = e
    BY <2>1
  <2>5. <<>> \o <<e>> = <<e>>
    BY <2>1
  <2>6. Kept(q) \in Seq(QueuedEvent) /\ Waiting(Kept(q)) /\ <<>> \o Kept(q) = Kept(q)
    <3>1. Waiting(<<e>>)
      BY <2>1, <2>3 DEF Waiting
    <3> QED BY <2>2, <2>3, <2>5, <3>1, Zenon
  <2>4. <<>> \in Seq(QueuedEvent) /\ Waiting(<<>>) /\ <<>> \o <<>> = <<>>
    BY DEF Waiting
  <2> QED BY <1>1, <1>3, <1>4, <1>5, <1>6, <1>7, <2>6, <2>4, ZenonT(120)
<1>8. CASE Len(pend[p]) = 2
  <2>1. Kept(q) = <<>>
    BY <1>2, <1>3, <1>8 DEF Kept, MaxTries
  <2>2. <<>> \in Seq(QueuedEvent) /\ Waiting(<<>>) /\ <<>> \o <<>> = <<>>
    BY DEF Waiting
  <2>3. keep' = [keep EXCEPT ![p] = <<>>]
    BY <1>6, <2>1, <2>2
  <2>4. Len(Tail(pend[p])) = 1 /\ Tail(pend[p])[1] = pend[p][2]
    BY <1>1, <1>8, TailOfTwo
  <2> QED BY <1>1, <1>2, <1>3, <1>4, <1>5, <1>8, <2>2, <2>3, <2>4
<1> QED BY <1>2, <1>7, <1>8

\* What a run keeps is never cut: it is one report at most.
LEMMA CappedIsAll ==
  ASSUME NEW k, Waiting(k)
  PROVE  Capped(k) = k
BY DEF Waiting, Capped, QueueMax

\* The reports: each list holds reports with the tries they had.
LEMMA ReportsStep == TypeOK /\ Lists /\ [Next]_vars => ReportsOK'
<1> SUFFICES ASSUME TypeOK, Lists, [Next]_vars PROVE ReportsOK'
  OBVIOUS
<1>0. ReportsOK
  BY DEF TypeOK
<1>1. ASSUME UNCHANGED <<pend, keep, reports>> PROVE ReportsOK'
  BY <1>0, <1>1 DEF reports, ReportsOK
<1>2. ASSUME NEW p \in Procs,
             Start(p) \/ Credential(p) \/ Refresh(p) \/ SaveTokens(p) \/ CheckSession(p) \/ Approve(p) \/ Logout(p)
      PROVE ReportsOK'
  BY <1>1, <1>2 DEF Start, Credential, Refresh, SaveTokens, CheckSession, Approve, Logout
<1>3. ASSUME NEW p \in Procs, ReadQueue(p) PROVE ReportsOK'
  <2>1. Own(p) \in QueuedEvent
    BY DEF Own, QueuedEvent, MaxTries
  <2>2. Pending(p) \in Seq(QueuedEvent)
    BY <1>0, <2>1 DEF Pending, ReportsOK
  <2> QED BY <1>0, <1>3, <2>2 DEF ReadQueue, reports, ReportsOK
<1>4. ASSUME NEW p \in Procs, Post(p) PROVE ReportsOK'
  <2>1. /\ pend' \in [Procs -> Seq(QueuedEvent)] /\ keep' \in [Procs -> Seq(QueuedEvent)]
        /\ Head(pend[p]).event \in Procs
    BY <1>4, PostStep
  <2>2. answered' \in [Procs -> {"-", "accepted", "rejected"}]
    BY <1>0, <1>4, <2>1 DEF Post, ReportsOK
  <2>3. sent' \in [Procs -> SUBSET Procs] /\ again' \subseteq Procs
    BY <1>0, <1>4, <2>1, SMTT(60) DEF Post, ReportsOK
  <2> QED BY <1>0, <1>4, <2>1, <2>2, <2>3 DEF Post, ReportsOK
<1>5. ASSUME NEW p \in Procs, WriteQueue(p) \/ FillQueue(p) PROVE ReportsOK'
  <2>1. Capped(keep[p]) \in Seq(QueuedEvent)
    BY <1>0, CappedIsAll DEF Lists, ListsOf, ReportsOK
  <2>2. queue' \in {<<>>, queue, Capped(keep[p])} /\ UNCHANGED <<pend, keep, answered, sent, again>>
    BY <1>5 DEF WriteQueue, FillQueue
  <2>3. queue' \in Seq(QueuedEvent)
    <3>1. <<>> \in Seq(QueuedEvent) /\ queue \in Seq(QueuedEvent)
      BY <1>0 DEF ReportsOK
    <3> QED BY <2>1, <2>2, <3>1, Zenon
  <2> QED BY <1>0, <2>2, <2>3 DEF ReportsOK
<1>6. ASSUME NEW p \in Procs, Identity(p) \/ List(p) \/ Device(p) \/ PodSide(p) \/ Kill(p) PROVE ReportsOK'
  BY <1>1, <1>6 DEF Identity, List, Device, PodSide, Kill
<1>7. CASE Age \/ UNCHANGED vars
  BY <1>1, <1>7 DEF Age, vars, proc
<1> QED BY <1>2, <1>3, <1>4, <1>5, <1>6, <1>7 DEF Next

\* The server's record and the pod's configuration.
LEMMA PodStep == TypeOK /\ [Next]_vars => PodOK'
<1> SUFFICES ASSUME TypeOK, [Next]_vars PROVE PodOK'
  OBVIOUS
<1> USE DEF TypeOK, PodOK
<1>1. ASSUME NEW p \in Procs, Device(p) \/ PodSide(p) PROVE PodOK'
  BY <1>1 DEF Device, PodSide
<1>2. ASSUME UNCHANGED pod PROVE PodOK'
  BY <1>2, SMTT(60) DEF pod
<1>3. ASSUME NEW p \in Procs,
             \/ Start(p) \/ Credential(p) \/ Refresh(p) \/ SaveTokens(p) \/ CheckSession(p) \/ Approve(p)
             \/ Logout(p) \/ ReadQueue(p) \/ Post(p) \/ WriteQueue(p) \/ FillQueue(p) \/ Identity(p)
             \/ List(p) \/ Kill(p)
      PROVE PodOK'
  BY <1>2, <1>3 DEF Start, Credential, Refresh, SaveTokens, CheckSession, Approve, Logout,
                    ReadQueue, Post, WriteQueue, FillQueue, Identity, List, Kill
<1>4. CASE Age \/ UNCHANGED vars
  BY <1>2, <1>4 DEF Age, vars
<1> QED BY <1>1, <1>3, <1>4 DEF Next

\* Every step keeps the order in the lists.
LEMMA ListsStep == TypeOK /\ Lists /\ [Next]_vars => Lists'
<1> SUFFICES ASSUME TypeOK, Lists, [Next]_vars PROVE Lists'
  OBVIOUS
<1>0. /\ op \in [Procs -> Ops \cup {"-"}] /\ pc \in [Procs -> PCs]
      /\ pend \in [Procs -> Seq(QueuedEvent)] /\ keep \in [Procs -> Seq(QueuedEvent)]
      /\ queue \in Seq(QueuedEvent)
  BY DEF TypeOK, CommandOK, ReportsOK
\* A step of p that leaves the lists alone and keeps p's place among the senders.
<1>1. ASSUME NEW p \in Procs, UNCHANGED <<op, pend, keep, queue>>, NEW l, pc' = [pc EXCEPT ![p] = l],
             l \in {"read", "post", "write", "fill"} => op[p] = "report",
             l \in {"session", "approve"} => op[p] = "login",
             l \notin {"idle", "read"},
             op[p] = "report" /\ l \in {"cred", "refresh", "save", "post"} => Sending(p)
      PROVE Lists'
  <2>1. \A r \in Procs \ {p} : ListsOf(r)'
    BY <1>0, <1>1 DEF Lists, ListsOf, Sending
  <2>2. ListsOf(p)'
    BY <1>0, <1>1 DEF Lists, ListsOf, Sending
  <2> QED BY <1>1, <2>1, <2>2 DEF Lists
<1>2. ASSUME NEW p \in Procs, Start(p) PROVE Lists'
  <2>1. PICK o \in Ops : op' = [op EXCEPT ![p] = o] /\ pc' = [pc EXCEPT ![p] = FirstStep[o]]
    BY <1>2 DEF Start, Go, Goto
  <2>2. UNCHANGED <<pend, keep, queue>> /\ pc[p] = "idle"
    BY <1>2 DEF Start, reports
  <2>3. /\ o = "report" => FirstStep[o] = "read"
        /\ o # "report" => FirstStep[o] \in {"cred", "session", "remove"}
        /\ FirstStep[o] = "session" => o = "login"
    BY DEF FirstStep, Ops
  <2>4. ListsOf(p)'
    BY <1>0, <2>1, <2>2, <2>3 DEF Lists, ListsOf, Sending
  <2>5. \A r \in Procs \ {p} : ListsOf(r)'
    BY <1>0, <2>1, <2>2 DEF Lists, ListsOf, Sending
  <2> QED BY <2>2, <2>4, <2>5 DEF Lists
<1>3. ASSUME NEW p \in Procs, Credential(p) \/ Refresh(p) \/ SaveTokens(p) PROVE Lists'
  <2>1. UNCHANGED <<op, pend, keep, queue>> /\ pc[p] \in {"cred", "refresh", "save"}
    BY <1>3 DEF Credential, Refresh, SaveTokens, reports
  <2>2. \E l \in {"done", "refresh", "save", Onward(p)} : pc' = [pc EXCEPT ![p] = l]
    BY <1>3 DEF Credential, Refresh, SaveTokens, End, Go, Goto
  <2>3. /\ op[p] = "report" => Onward(p) = "post"
        /\ op[p] # "report" => Onward(p) \in {"identity", "list", "device"}
    BY DEF Onward
  <2> QED BY <1>1, <2>1, <2>2, <2>3 DEF Sending
<1>4. ASSUME NEW p \in Procs, CheckSession(p) \/ Approve(p) \/ Logout(p) PROVE Lists'
  <2>1. UNCHANGED <<op, pend, keep, queue>> /\ (pc[p] \in {"session", "approve"} \/ Logout(p))
    BY <1>4 DEF CheckSession, Approve, Logout, reports
  <2>2. pc[p] \in {"session", "approve"} => op[p] = "login"
    BY DEF Lists, ListsOf
  <2>3. \E l \in {"done", "save", "approve"} :
          pc' = [pc EXCEPT ![p] = l] /\ (l # "done" => pc[p] \in {"session", "approve"})
    BY <1>4 DEF CheckSession, Approve, Logout, End, Go, Goto
  <2> QED BY <1>1, <2>1, <2>2, <2>3
<1>5. ASSUME NEW p \in Procs, ReadQueue(p) PROVE Lists'
  <2>1. /\ op[p] = "report" /\ keep[p] = <<>>
        /\ UNCHANGED <<op, keep, queue>>
        /\ pend' = [pend EXCEPT ![p] = Pending(p)] /\ pc' = [pc EXCEPT ![p] = "cred"]
    BY <1>5 DEF ReadQueue, Lists, ListsOf, Go, Goto, reports
  <2>2. \/ Len(Pending(p)) = 1 /\ Pending(p)[1].tries = 0
        \/ Len(Pending(p)) = 2 /\ Pending(p)[1].tries = 1 /\ Pending(p)[2].tries = 0
    <3>1. Own(p) \in QueuedEvent /\ Own(p).tries = 0
      BY DEF Own, QueuedEvent, MaxTries
    <3>2. Len(queue) = 0 \/ (Len(queue) = 1 /\ queue[1].tries = 1)
      <4>1. Len(queue) \in Nat /\ (Len(queue) = 0 \/ (queue # <<>> /\ Head(queue) = queue[1]))
        BY <1>0
      <4> QED BY <4>1, SMTT(60) DEF Lists, Waiting
    <3>3. /\ Len(Pending(p)) = Len(queue) + 1 /\ Pending(p)[Len(queue) + 1] = Own(p)
          /\ \A i \in 1 .. Len(queue) : Pending(p)[i] = queue[i]
      BY <1>0, <3>1, AppendProperties DEF Pending
    <3> QED BY <3>1, <3>2, <3>3
  <2>3. ListsOf(p)'
    BY <1>0, <2>1, <2>2 DEF Lists, ListsOf
  <2>4. \A r \in Procs \ {p} : ListsOf(r)'
    BY <1>0, <2>1 DEF Lists, ListsOf, Sending
  <2> QED BY <2>1, <2>3, <2>4 DEF Lists
<1>6. ASSUME NEW p \in Procs, Post(p) PROVE Lists'
  <2>1. /\ Waiting(keep'[p])
        /\ pc'[p] = "write" \/ (pc'[p] = "cred" /\ keep'[p] = <<>> /\ Len(pend'[p]) = 1 /\ pend'[p][1].tries = 0)
    BY <1>6, PostStep, SMTT(60)
  <2>2. op[p] = "report" /\ UNCHANGED <<op, queue>>
    BY <1>6 DEF Post, Lists, ListsOf
  <2>3. \A r \in Procs \ {p} : pend'[r] = pend[r] /\ keep'[r] = keep[r] /\ pc'[r] = pc[r]
    BY <1>0, <1>6 DEF Post, Go, Goto
  <2>4. ListsOf(p)'
    BY <2>1, <2>2 DEF ListsOf, Sending
  <2>5. \A r \in Procs \ {p} : ListsOf(r)'
    BY <2>2, <2>3 DEF Lists, ListsOf, Sending
  <2> QED BY <2>2, <2>4, <2>5 DEF Lists
<1>7. ASSUME NEW p \in Procs, WriteQueue(p) \/ FillQueue(p) PROVE Lists'
  <2>1. UNCHANGED <<op, pend, keep>> /\ op[p] = "report"
    BY <1>7 DEF WriteQueue, FillQueue, Lists, ListsOf
  <2>2. pc' = [pc EXCEPT ![p] = "done"] \/ pc' = [pc EXCEPT ![p] = "fill"]
    BY <1>7 DEF WriteQueue, FillQueue, End, Go, Goto
  <2>3. Waiting(queue)'
    <3>1. Waiting(<<>>) /\ Waiting(queue) /\ Waiting(keep[p])
      BY DEF Waiting, Lists, ListsOf
    <3>2. queue' \in {<<>>, queue, keep[p]}
      BY <1>7, <3>1, CappedIsAll DEF WriteQueue, FillQueue
    <3> QED BY <3>1, <3>2
  <2>4. \A r \in Procs : ListsOf(r)'
    BY <1>0, <2>1, <2>2 DEF Lists, ListsOf, Sending
  <2> QED BY <2>3, <2>4 DEF Lists
<1>8. ASSUME NEW p \in Procs, Identity(p) \/ List(p) \/ Device(p) \/ PodSide(p) \/ Kill(p) PROVE Lists'
  <2>1. UNCHANGED <<op, pend, keep, queue>>
    BY <1>8 DEF Identity, List, Device, PodSide, Kill, reports
  <2>2. \E l \in {"done", "killed", "list", "device", "pod"} : pc' = [pc EXCEPT ![p] = l]
    BY <1>8 DEF Identity, List, Device, PodSide, Kill, End, Go, Goto
  <2> QED BY <1>1, <2>1, <2>2
<1>9. CASE Age \/ UNCHANGED vars
  <2>1. UNCHANGED <<op, pc, pend, keep, queue>>
    BY <1>9 DEF Age, vars, proc, reports
  <2> QED BY <2>1 DEF Lists, ListsOf, Sending
<1> QED BY <1>2, <1>3, <1>4, <1>5, <1>6, <1>7, <1>8, <1>9 DEF Next

\* The inductive invariant of the tokens.  Tokens that were issued and are not saved yet
\* are the server's, nobody else's, and not the file's: no refresh ends them before
\* their run saves them.
Unsaved(p) == pc[p] = "save"
Presents(p) == pc[p] \in {"refresh", "save"}
Tokens ==
  /\ SessionSurvives
  /\ \A p \in Procs : /\ pc[p] \in {"session", "approve"} => op[p] = "login"
                      /\ pc[p] \in {"read", "post", "cred", "refresh"} => op[p] # "login"
  /\ \A p \in Procs : Unsaved(p) =>
       /\ hold[p] \in valid
       /\ file # NoFile => file.token # hold[p]
       /\ \A r \in Procs \ {p} : Presents(r) => hold[r] # hold[p]

\* Whatever runs at once, every step keeps the session of the file alive.
LEMMA TokensStep == TypeOK /\ Tokens /\ [Next]_vars => Tokens'
<1> SUFFICES ASSUME TypeOK, Tokens, [Next]_vars PROVE Tokens'
  OBVIOUS
<1>0. /\ op \in [Procs -> Ops \cup {"-"}] /\ pc \in [Procs -> PCs]
      /\ gen \in Nat /\ valid \subseteq 0 .. gen /\ hold \in [Procs -> 0 .. gen]
      /\ file # NoFile => file.token \in 0 .. gen
  BY DEF TypeOK, CommandOK, SessionOK
\* A step that touches no token, and after which p holds no new ones.
<1>1. ASSUME NEW p \in Procs, NEW l, UNCHANGED <<op, hold, file, valid, gen>>, mislaid => mislaid',
             pc' = [pc EXCEPT ![p] = l], l \notin {"refresh", "save"},
             pc[p] = "save" /\ op[p] # "login" => mislaid',
             l \in {"session", "approve"} => op[p] = "login",
             l \in {"read", "post", "cred"} => op[p] # "login"
      PROVE Tokens'
  <2>1. SessionSurvives'
    BY <1>0, <1>1 DEF Tokens, SessionSurvives
  <2> QED BY <1>0, <1>1, <2>1 DEF Tokens, Unsaved, Presents
<1>2. ASSUME NEW p \in Procs, Start(p) PROVE Tokens'
  <2>1. PICK o \in Ops : op' = [op EXCEPT ![p] = o] /\ pc' = [pc EXCEPT ![p] = FirstStep[o]]
    BY <1>2 DEF Start, Go, Goto
  <2>2. UNCHANGED <<hold, file, valid, gen, mislaid>> /\ pc[p] = "idle"
    BY <1>2 DEF Start, session
  <2>3. /\ FirstStep[o] \in {"read", "post", "cred"} => o # "login"
        /\ FirstStep[o] \notin {"approve", "refresh", "save"}
        /\ FirstStep[o] = "session" => o = "login"
    BY DEF FirstStep, Ops
  <2>4. SessionSurvives'
    BY <1>0, <2>1, <2>2, <2>3 DEF Tokens, SessionSurvives
  <2> QED BY <1>0, <2>1, <2>2, <2>3, <2>4 DEF Tokens, Unsaved, Presents
<1>3. ASSUME NEW p \in Procs, Credential(p) PROVE Tokens'
  <2>1. UNCHANGED <<op, file, valid, gen, mislaid>> /\ pc[p] = "cred"
    BY <1>3 DEF Credential, session
  <2>2. CASE hold' = hold /\ pc' = [pc EXCEPT ![p] = Onward(p)]
    <3>1. op[p] # "login"
      BY <2>1 DEF Tokens
    <3>2. Onward(p) \in {"post", "identity", "list", "device"}
      BY DEF Onward
    <3> QED BY <1>1, <2>1, <2>2, <3>1, <3>2
  <2>3. CASE hold' = hold /\ pc' = [pc EXCEPT ![p] = "done"]
    BY <1>1, <2>1, <2>3, ZenonT(60)
  <2>4. CASE file # NoFile /\ hold' = [hold EXCEPT ![p] = file.token] /\ pc' = [pc EXCEPT ![p] = "refresh"]
    <3>1. SessionSurvives'
      BY <1>0, <2>1, <2>4 DEF Tokens, SessionSurvives
    <3> QED BY <1>0, <2>1, <2>4, <3>1 DEF Tokens, Unsaved, Presents
  <2> QED BY <1>3, <2>2, <2>3, <2>4 DEF Credential, Life, End, Go, Goto
<1>4. ASSUME NEW p \in Procs, Refresh(p) PROVE Tokens'
  <2>1. UNCHANGED <<op, file>> /\ pc[p] = "refresh" /\ op[p] # "login"
    BY <1>4 DEF Refresh, Tokens
  <2>2. CASE UNCHANGED <<valid, gen, mislaid, hold>> /\ pc' = [pc EXCEPT ![p] = "done"]
    BY <1>1, <2>1, <2>2, ZenonT(60)
  <2>3. CASE Issue(hold[p]) /\ hold' = [hold EXCEPT ![p] = gen + 1] /\ pc' = [pc EXCEPT ![p] = "save"]
    <3>1. SessionSurvives'
      BY <1>0, <2>1, <2>3 DEF SessionSurvives
    <3>2. gen + 1 \in valid' /\ \A t \in valid : t # hold[p] => t \in valid'
      BY <2>3 DEF Issue
    <3>3. \A q \in Procs \ {p} : hold'[q] = hold[q] /\ hold[q] # gen + 1
      BY <1>0, <2>3
    <3> QED BY <1>0, <2>1, <2>3, <3>1, <3>2, <3>3 DEF Tokens, Unsaved, Presents
  <2>4. CASE Issue(hold[p]) /\ hold' = hold /\ mislaid' = TRUE /\ pc' = [pc EXCEPT ![p] = "done"]
    <3>1. SessionSurvives'
      BY <2>4 DEF SessionSurvives
    <3>2. \A t \in valid : t # hold[p] => t \in valid'
      BY <2>4 DEF Issue
    <3> QED BY <1>0, <2>1, <2>4, <3>1, <3>2 DEF Tokens, Unsaved, Presents
  <2> QED BY <1>4, <2>2, <2>3, <2>4 DEF Refresh, End, Go, Goto
<1>5. ASSUME NEW p \in Procs, SaveTokens(p) PROVE Tokens'
  <2>1. UNCHANGED <<op, hold, valid, gen>> /\ pc[p] = "save"
    BY <1>5 DEF SaveTokens
  <2>2. CASE /\ UNCHANGED file /\ mislaid' = (mislaid \/ op[p] # "login")
             /\ pc' = [pc EXCEPT ![p] = "done"]
    <3>1. (mislaid => mislaid') /\ (op[p] # "login" => mislaid')
      BY <2>2, Zenon
    <3>2. UNCHANGED file /\ pc' = [pc EXCEPT ![p] = "done"]
      BY <2>2
    <3> QED BY <1>1, <2>1, <3>1, <3>2, ZenonT(60)
  <2>3. CASE Store(hold[p]) /\ \E l \in {"done", Onward(p)} :
                                 pc' = [pc EXCEPT ![p] = l] /\ (l # "done" => op[p] # "login")
    <3>1. file'.token = hold[p] /\ hold[p] \in valid
      BY <2>1, <2>3 DEF Store, Tokens, Unsaved
    <3>2. SessionSurvives'
      BY <2>1, <3>1 DEF SessionSurvives
    <3>3. PICK l : /\ pc' = [pc EXCEPT ![p] = l] /\ l \in {"done", "post", "identity", "list", "device"}
                   /\ l # "done" => op[p] # "login"
      BY <2>3 DEF Onward
    <3> QED BY <1>0, <2>1, <3>1, <3>2, <3>3 DEF Tokens, Unsaved, Presents
  <2> QED BY <1>5, <2>2, <2>3 DEF SaveTokens, End, Go, Goto
<1>6. ASSUME NEW p \in Procs, Approve(p) PROVE Tokens'
  <2>1. UNCHANGED <<op, file, mislaid>> /\ pc[p] = "approve" /\ op[p] = "login"
    BY <1>6 DEF Approve, Tokens
  <2>2. CASE UNCHANGED <<gen, valid, hold>> /\ pc' = [pc EXCEPT ![p] = "done"]
    BY <1>1, <2>1, <2>2, ZenonT(60)
  <2>3. CASE /\ gen' = gen + 1 /\ valid' = valid \cup {gen + 1}
             /\ hold' = [hold EXCEPT ![p] = gen + 1] /\ pc' = [pc EXCEPT ![p] = "save"]
    <3>1. SessionSurvives'
      BY <1>0, <2>1, <2>3 DEF Tokens, SessionSurvives
    <3>2. \A q \in Procs \ {p} : hold'[q] = hold[q] /\ hold[q] # gen + 1
      BY <1>0, <2>3
    <3> QED BY <1>0, <2>1, <2>3, <3>1, <3>2 DEF Tokens, Unsaved, Presents
  <2> QED BY <1>6, <2>2, <2>3 DEF Approve, End, Go, Goto
<1>7. ASSUME NEW p \in Procs, Logout(p) PROVE Tokens'
  BY <1>0, <1>7 DEF Logout, End, Goto, Tokens, SessionSurvives, Unsaved, Presents
<1>8. ASSUME NEW p \in Procs,
             \/ CheckSession(p) \/ ReadQueue(p) \/ Post(p) \/ WriteQueue(p) \/ FillQueue(p)
             \/ Identity(p) \/ List(p) \/ Device(p) \/ PodSide(p)
      PROVE Tokens'
  <2>1. UNCHANGED <<op, hold, file, valid, gen, mislaid>> /\ pc[p] # "save"
    BY <1>8 DEF CheckSession, ReadQueue, Post, WriteQueue, FillQueue, Identity, List,
      Device, PodSide,
                session
  <2>2. \E l \in {"done", "approve", "cred", "write", "fill", "list", "device", "pod"} :
          pc' = [pc EXCEPT ![p] = l] /\ (l = "approve" => pc[p] = "session")
                                     /\ (l = "cred" => pc[p] \in {"read", "post"})
    BY <1>8 DEF CheckSession, ReadQueue, Post, WriteQueue, FillQueue, Identity, List,
      Device, PodSide,
                End, Go, Goto
  <2>3. /\ pc[p] = "session" => op[p] = "login"
        /\ pc[p] \in {"read", "post"} => op[p] # "login"
    BY DEF Tokens
  <2> QED BY <1>1, <2>1, <2>2, <2>3
<1>9. CASE Age
  <2>1. UNCHANGED <<op, pc, hold, valid, gen, mislaid>> /\ file # NoFile
    BY <1>9 DEF Age, proc, Life
  <2>2. file'.token = file.token
    BY <1>9, <2>1 DEF Age, TypeOK, SessionOK
  <2> QED BY <1>0, <2>1, <2>2 DEF Tokens, SessionSurvives, Unsaved, Presents
<1>10. CASE UNCHANGED vars
  BY <1>10 DEF vars, proc, session, Tokens, SessionSurvives, Unsaved, Presents
<1>11. ASSUME NEW p \in Procs, Kill(p) PROVE Tokens'
  <2>1. UNCHANGED <<op, hold, file, valid, gen>> /\ pc' = [pc EXCEPT ![p] = "killed"]
    BY <1>11 DEF Kill, Goto
  <2>2. (mislaid => mislaid') /\ (pc[p] = "save" /\ op[p] # "login" => mislaid')
    BY <1>11, Zenon DEF Kill
  <2> QED BY <1>1, <2>1, <2>2
<1> QED BY <1>2, <1>3, <1>4, <1>5, <1>6, <1>7, <1>8, <1>9, <1>10, <1>11 DEF Next

-----------------------------------------------------------------------------
(* Which commands run at the same time.                                    *)

\* Which command is where; one that has not ended has no verdict yet; and commands of a
\* kind that never met run one at a time.
Placed(p) ==
  /\ pc[p] = "idle" => op[p] = "-"
  /\ pc[p] \notin Ended => exit[p] = "-"
  /\ pc[p] \in {"cred", "refresh"} => op[p] \in {"report", "register", "deregister"}
  /\ pc[p] = "save" => op[p] \in {"report", "register", "deregister", "login"}
  /\ pc[p] \in {"identity", "list", "device", "pod"} => op[p] \in {"register", "deregister"}
  /\ pc[p] = "remove" => op[p] = "logout"
Alone(k) == \A p, q \in Procs :
  Running(p) /\ Running(q) /\ Kind(op[p]) = k /\ Kind(op[q]) = k => p = q
Places ==
  /\ \A p \in Procs : Placed(p)
  /\ \A k \in {"queue", "pod"} : k \notin overlap => Alone(k)

\* The kind of each command.
LEMMA Kinds ==
  ASSUME NEW o \in Ops
  PROVE  /\ Kind(o) = "queue" <=> o = "report"
         /\ Kind(o) = "pod" <=> o \in {"register", "deregister"}
BY DEF Kind, Ops

\* What a step leaves alone: a command keeps its options, one that has ended stays as it
\* is, and what was sent and who met whom is not forgotten.
LEMMA StepShape ==
  ASSUME TypeOK, Places, [Next]_vars
  PROVE  /\ \A q \in Procs : pc[q] # "idle" =>
              op'[q] = op[q] /\ sel'[q] = sel[q] /\ leave'[q] = leave[q] /\ pc'[q] # "idle"
         /\ \A q \in Procs : pc[q] \in Ended => pc'[q] = pc[q] /\ exit'[q] = exit[q] /\ sent'[q] = sent[q]
         /\ overlap \subseteq overlap'
<1> DEFINE Shape ==
      /\ \A q \in Procs : pc[q] # "idle" =>
           op'[q] = op[q] /\ sel'[q] = sel[q] /\ leave'[q] = leave[q] /\ pc'[q] # "idle"
      /\ \A q \in Procs : pc[q] \in Ended => pc'[q] = pc[q] /\ exit'[q] = exit[q] /\ sent'[q] = sent[q]
      /\ overlap \subseteq overlap'
<1>0. /\ op \in [Procs -> Ops \cup {"-"}] /\ pc \in [Procs -> PCs] /\ exit \in [Procs -> Exits]
      /\ sel \in [Procs -> {"pod", "name", "id"}] /\ leave \in [Procs -> BOOLEAN]
      /\ sent \in [Procs -> SUBSET Procs]
  BY DEF TypeOK, CommandOK, ReportsOK
\* A step of p, which was running.
<1>1. ASSUME NEW p \in Procs, pc[p] \notin Ended, UNCHANGED <<op, sel, leave, overlap>>,
             NEW l, pc' = [pc EXCEPT ![p] = l], l # "idle",
             \A q \in Procs \ {p} : exit'[q] = exit[q] /\ sent'[q] = sent[q]
      PROVE Shape
  BY <1>0, <1>1
<1>2. ASSUME NEW p \in Procs, Start(p) PROVE Shape
  <2>1. PICK o \in Ops : op' = [op EXCEPT ![p] = o] /\ pc' = [pc EXCEPT ![p] = FirstStep[o]]
    BY <1>2 DEF Start, Go, Goto
  <2>2. /\ pc[p] = "idle" /\ UNCHANGED <<exit, sent>> /\ overlap \subseteq overlap'
        /\ \A q \in Procs \ {p} : sel'[q] = sel[q] /\ leave'[q] = leave[q]
    BY <1>0, <1>2 DEF Start, Go, Goto, reports
  <2> QED BY <1>0, <2>1, <2>2 DEF Ended
<1>3. ASSUME NEW p \in Procs,
             \/ Credential(p) \/ Refresh(p) \/ SaveTokens(p) \/ CheckSession(p) \/ Approve(p) \/ Logout(p)
             \/ ReadQueue(p) \/ Identity(p) \/ List(p)
      PROVE Shape
  <2>1. /\ pc[p] \notin Ended /\ UNCHANGED <<op, sel, leave, overlap, sent>>
        /\ \A q \in Procs \ {p} : exit'[q] = exit[q]
    BY <1>0, <1>3 DEF Credential, Refresh, SaveTokens, CheckSession, Approve, Logout,
      ReadQueue,
                      Identity, List, End, Go, Goto, reports, Ended
  <2>2. \E l \in {"done", "refresh", "save", "approve", "cred", "list", "device", Onward(p)} :
          pc' = [pc EXCEPT ![p] = l]
    BY <1>3 DEF Credential, Refresh, SaveTokens, CheckSession, Approve, Logout, ReadQueue,
                Identity, List, End, Go, Goto
  <2>3. Onward(p) # "idle"
    BY DEF Onward
  <2> QED BY <1>1, <2>1, <2>2, <2>3
<1>4. ASSUME NEW p \in Procs,
             Post(p) \/ WriteQueue(p) \/ FillQueue(p) \/ Device(p) \/ PodSide(p) \/ Kill(p)
      PROVE Shape
  <2>1. /\ pc[p] \notin Ended /\ UNCHANGED <<op, sel, leave, overlap>>
        /\ \A q \in Procs \ {p} : exit'[q] = exit[q] /\ sent'[q] = sent[q]
    BY <1>0, <1>4, ZenonT(60) DEF Post, WriteQueue, FillQueue, Device, PodSide, Kill, End, Go, Goto,
      reports,
                      Ended, Running
  <2>2. \E l \in {"done", "cred", "write", "fill", "pod", "killed"} : pc' = [pc EXCEPT ![p] = l]
    BY <1>4 DEF Post, WriteQueue, FillQueue, Device, PodSide, Kill, End, Go, Goto
  <2> QED BY <1>1, <2>1, <2>2, SMTT(60)
<1>5. CASE Age \/ UNCHANGED vars
  BY <1>5 DEF Age, vars, proc, reports
<1> QED BY <1>2, <1>3, <1>4, <1>5 DEF Next

\* Every step keeps the commands where they belong, and those of one kind apart unless
\* they were seen to meet.
LEMMA PlacesStep == TypeOK /\ Lists /\ Places /\ [Next]_vars => Places'
<1> SUFFICES ASSUME TypeOK, Lists, Places, [Next]_vars PROVE Places'
  OBVIOUS
<1>0. /\ op \in [Procs -> Ops \cup {"-"}] /\ pc \in [Procs -> PCs] /\ exit \in [Procs -> Exits]
  BY DEF TypeOK, CommandOK
\* A step of p, which was running.
<1>1. ASSUME NEW p \in Procs, Running(p), UNCHANGED <<op, overlap>>,
             NEW l, pc' = [pc EXCEPT ![p] = l], l # "idle",
             UNCHANGED exit \/ (l = "done" /\ \E r : exit' = [exit EXCEPT ![p] = r]),
             l \in {"cred", "refresh"} => op[p] \in {"report", "register", "deregister"},
             l = "save" => op[p] \in {"report", "register", "deregister", "login"},
             l \in {"identity", "list", "device", "pod"} => op[p] \in {"register",
             "deregister"},
             l # "remove"
      PROVE Places'
  <2>1. Placed(p)'
    BY <1>0, <1>1 DEF Places, Placed, Ended, Running
  <2>2. \A r \in Procs \ {p} : Placed(r)'
    BY <1>0, <1>1 DEF Places, Placed
  <2>3. \A k \in {"queue", "pod"} : k \notin overlap' => Alone(k)'
    BY <1>0, <1>1 DEF Places, Alone, Running
  <2> QED BY <2>1, <2>2, <2>3 DEF Places
<1>2. ASSUME NEW p \in Procs, Start(p) PROVE Places'
  <2>1. PICK o \in Ops :
          /\ op' = [op EXCEPT ![p] = o] /\ pc' = [pc EXCEPT ![p] = FirstStep[o]]
          /\ overlap' = overlap \cup {Kind(op[q]) : q \in {r \in Procs : Running(r) /\ Kind(op[r]) = Kind(o)}}
    BY <1>2 DEF Start, Go, Goto
  <2>2. pc[p] = "idle" /\ UNCHANGED exit
    BY <1>2 DEF Start, Go
  <2>3. /\ FirstStep[o] \in {"read", "cred", "session", "remove"}
        /\ FirstStep[o] = "cred" => o \in {"register", "deregister"}
        /\ FirstStep[o] = "remove" => o = "logout"
    BY DEF FirstStep, Ops
  <2>4. \A r \in Procs : Placed(r)'
    BY <1>0, <2>1, <2>2, <2>3 DEF Places, Placed, Ended
  <2>5. ASSUME NEW k \in {"queue", "pod"}, k \notin overlap' PROVE Alone(k)'
    <3>1. Alone(k)
      BY <2>1, <2>5 DEF Places
    <3>2. \A r \in Procs \ {p} : op'[r] = op[r] /\ (Running(r)' <=> Running(r))
      BY <1>0, <2>1 DEF Running
    <3>3. Kind(op'[p]) = k => \A r \in Procs \ {p} : ~(Running(r) /\ Kind(op[r]) = k)
      BY <1>0, <2>1, <2>5
    <3> QED BY <3>1, <3>2, <3>3 DEF Alone
  <2> QED BY <2>4, <2>5 DEF Places
<1>3. ASSUME NEW p \in Procs, Credential(p) \/ Refresh(p) \/ SaveTokens(p) PROVE Places'
  <2>1. Running(p) /\ UNCHANGED <<op, overlap>> /\ op[p] \in {"report", "register", "deregister", "login"}
    BY <1>3 DEF Credential, Refresh, SaveTokens, Running, Ended, Places, Placed
  <2>2. PICK l \in {"done", "refresh", "save", Onward(p)} :
          /\ pc' = [pc EXCEPT ![p] = l]
          /\ UNCHANGED exit \/ (l = "done" /\ \E r : exit' = [exit EXCEPT ![p] = r])
          /\ op[p] = "login" => l = "done"
    BY <1>3 DEF Credential, Refresh, SaveTokens, End, Go, Goto, Places, Placed
  <2>3. /\ Onward(p) \in {"post", "identity", "list", "device"}
        /\ op[p] = "report" => Onward(p) = "post"
    BY DEF Onward
  <2> QED BY <1>1, <2>1, <2>2, <2>3
<1>4. ASSUME NEW p \in Procs, CheckSession(p) \/ Approve(p) \/ Logout(p) PROVE Places'
  <2>1. Running(p) /\ UNCHANGED <<op, overlap>> /\ (pc[p] \in {"session", "approve"} => op[p] = "login")
    BY <1>4 DEF CheckSession, Approve, Logout, Running, Ended, Lists, ListsOf
  <2>2. PICK l \in {"done", "save", "approve"} :
          /\ pc' = [pc EXCEPT ![p] = l] /\ (l # "done" => pc[p] \in {"session", "approve"})
          /\ UNCHANGED exit \/ (l = "done" /\ \E r : exit' = [exit EXCEPT ![p] = r])
    BY <1>4 DEF CheckSession, Approve, Logout, End, Go, Goto
  <2> QED BY <1>1, <2>1, <2>2
<1>5. ASSUME NEW p \in Procs, ReadQueue(p) \/ Post(p) \/ WriteQueue(p) \/ FillQueue(p) PROVE Places'
  <2>1. Running(p) /\ UNCHANGED <<op, overlap>> /\ op[p] = "report"
    BY <1>5 DEF ReadQueue, Post, WriteQueue, FillQueue, Running, Ended, Lists, ListsOf
  <2>2. PICK l \in {"done", "cred", "write", "fill"} :
          /\ pc' = [pc EXCEPT ![p] = l]
          /\ UNCHANGED exit \/ (l = "done" /\ \E r : exit' = [exit EXCEPT ![p] = r])
    BY <1>5 DEF ReadQueue, Post, WriteQueue, FillQueue, End, Go, Goto
  <2> QED BY <1>1, <2>1, <2>2
<1>6. ASSUME NEW p \in Procs, Identity(p) \/ List(p) \/ Device(p) \/ PodSide(p) \/ Kill(p) PROVE Places'
  <2>1. /\ Running(p) /\ UNCHANGED <<op, overlap>>
        /\ Kill(p) \/ op[p] \in {"register", "deregister"}
    BY <1>6 DEF Identity, List, Device, PodSide, Kill, Running, Ended, Places, Placed
  <2>2. PICK l \in {"done", "list", "device", "pod", "killed"} :
          /\ pc' = [pc EXCEPT ![p] = l] /\ (Kill(p) => l \in {"done", "killed"})
          /\ UNCHANGED exit \/ (l = "done" /\ \E r : exit' = [exit EXCEPT ![p] = r])
    <3>1. CASE Kill(p)
      BY <3>1 DEF Kill, Goto
    <3>2. CASE ~Kill(p)
      BY <1>6, <3>2 DEF Identity, List, Device, PodSide, End, Go, Goto
    <3> QED BY <3>1, <3>2
  <2> QED BY <1>1, <2>1, <2>2
<1>7. CASE Age \/ UNCHANGED vars
  <2>1. UNCHANGED <<op, pc, exit, overlap>>
    BY <1>7 DEF Age, vars, proc
  <2> QED BY <2>1 DEF Places, Placed, Alone, Running
<1> QED BY <1>2, <1>3, <1>4, <1>5, <1>6, <1>7 DEF Next

-----------------------------------------------------------------------------
(* The pod and the server's record of it.                                  *)

\* The server's record and the pod agree, but for a command that has changed the one and
\* is at the other.
Told == \E p \in Procs :
  \/ exit[p] \in {"device", "pod", "warned"} \/ pc[p] = "killed"
  \/ op[p] = "deregister" /\ ~ClearsPod(p)
HalfDone(p) ==
  \/ op[p] = "register" /\ device = "enabled"
  \/ op[p] = "deregister" /\ device = "disabled"
Agree == "pod" \notin overlap /\ ~Told =>
  /\ \A p \in Procs : pc[p] = "pod" => HalfDone(p)
  /\ (\E p \in Procs : pc[p] = "pod") \/ (device = "enabled") = podCfg

\* What a command has told stays told.
LEMMA ToldStays == TypeOK /\ Places /\ [Next]_vars /\ Told => Told'
<1> SUFFICES ASSUME TypeOK, Places, [Next]_vars, Told PROVE Told'
  OBVIOUS
<1>1. PICK p \in Procs : \/ exit[p] \in {"device", "pod", "warned"} \/ pc[p] = "killed"
                         \/ op[p] = "deregister" /\ ~ClearsPod(p)
  BY DEF Told
<1>2. CASE exit[p] \in {"device", "pod", "warned"} \/ pc[p] = "killed"
  <2>1. pc[p] \in Ended
    BY <1>2 DEF Places, Placed, Ended
  <2> QED BY <1>2, <2>1, StepShape DEF Told
<1>3. CASE op[p] = "deregister" /\ ~ClearsPod(p)
  <2>1. pc[p] # "idle"
    BY <1>3 DEF Places, Placed
  <2>2. op'[p] = op[p] /\ (ClearsPod(p)' <=> ClearsPod(p))
    BY <2>1, StepShape DEF ClearsPod
  <2> QED BY <1>3, <2>2 DEF Told
<1> QED BY <1>1, <1>2, <1>3

\* Of two commands on the pod that never met, one is at it at a time; what the other has
\* not told, it has not done by half.
LEMMA AgreeStep == TypeOK /\ Places /\ Agree /\ [Next]_vars => Agree'
<1> SUFFICES ASSUME TypeOK, Places, Agree, [Next]_vars, "pod" \notin overlap', ~Told'
             PROVE  /\ \A p \in Procs : pc'[p] = "pod" => HalfDone(p)'
                    /\ (\E p \in Procs : pc'[p] = "pod") \/ (device' = "enabled") = podCfg'
  BY DEF Agree
<1> DEFINE Goal == /\ \A p \in Procs : pc'[p] = "pod" => HalfDone(p)'
                   /\ (\E p \in Procs : pc'[p] = "pod") \/ (device' = "enabled") = podCfg'
<1>0. /\ op \in [Procs -> Ops \cup {"-"}] /\ pc \in [Procs -> PCs] /\ exit \in [Procs -> Exits]
      /\ device \in {"none", "enabled", "disabled"} /\ podCfg \in BOOLEAN
  BY DEF TypeOK, CommandOK, PodOK
<1>1. /\ Alone("pod")
      /\ \A p \in Procs : pc[p] = "pod" => HalfDone(p)
      /\ (\E p \in Procs : pc[p] = "pod") \/ (device = "enabled") = podCfg
  BY StepShape, ToldStays DEF Places, Agree
\* A command at the pod, or about to be, is the only one.
<1>2. ASSUME NEW p \in Procs, NEW q \in Procs, pc[p] \in {"device", "pod"}, pc[q] = "pod" PROVE p = q
  <2>1. Running(p) /\ Running(q) /\ Kind(op[p]) = "pod" /\ Kind(op[q]) = "pod"
    BY <1>2, Kinds DEF Running, Ended, Places, Placed, Ops
  <2> QED BY <1>1, <2>1 DEF Alone
\* A step of p that is not at the pod.
<1>3. ASSUME NEW p \in Procs, UNCHANGED pod, pc[p] # "pod", pc'[p] # "pod",
             \A q \in Procs \ {p} : op'[q] = op[q] /\ pc'[q] = pc[q]
      PROVE Goal
  BY <1>1, <1>3 DEF HalfDone, pod
<1>4. ASSUME NEW p \in Procs, Start(p) PROVE Goal
  <2>1. PICK o \in Ops : op' = [op EXCEPT ![p] = o] /\ pc' = [pc EXCEPT ![p] = FirstStep[o]]
    BY <1>4 DEF Start, Go, Goto
  <2>2. FirstStep[o] # "pod" /\ pc[p] = "idle" /\ UNCHANGED pod
    BY <1>4 DEF Start, FirstStep, Ops
  <2> QED BY <1>0, <1>3, <2>1, <2>2
<1>5. ASSUME NEW p \in Procs,
             \/ Credential(p) \/ Refresh(p) \/ SaveTokens(p) \/ CheckSession(p) \/ Approve(p) \/ Logout(p)
             \/ ReadQueue(p) \/ Post(p) \/ WriteQueue(p) \/ FillQueue(p) \/ Identity(p) \/ List(p)
      PROVE Goal
  <2>1. UNCHANGED <<op, pod>> /\ pc[p] # "pod"
    BY <1>5 DEF Credential, Refresh, SaveTokens, CheckSession, Approve, Logout,
                ReadQueue, Post, WriteQueue, FillQueue, Identity, List
  <2>2. PICK l \in {"done", "refresh", "save", "approve", "cred", "write", "fill", "list", "device", Onward(p)} :
          pc' = [pc EXCEPT ![p] = l]
    BY <1>5 DEF Credential, Refresh, SaveTokens, CheckSession, Approve, Logout,
                ReadQueue, Post, WriteQueue, FillQueue, Identity, List, End, Go, Goto
  <2>3. Onward(p) # "pod"
    BY DEF Onward
  <2> QED BY <1>0, <1>3, <2>1, <2>2, <2>3
<1>6. ASSUME NEW p \in Procs, Device(p) PROVE Goal
  <2>1. /\ pc[p] = "device" /\ op[p] \in {"register", "deregister"} /\ UNCHANGED <<op, podCfg, sel, leave>>
    BY <1>6 DEF Device, Places, Placed
  <2>2. CASE /\ device' = (IF op[p] = "register" THEN "enabled" ELSE "disabled")
             /\ pc' = [pc EXCEPT ![p] = "pod"]
    <3>1. \A q \in Procs : pc'[q] = "pod" => q = p
      BY <1>0, <1>2, <2>1, <2>2
    <3>2. HalfDone(p)' /\ pc'[p] = "pod"
      BY <1>0, <2>1, <2>2 DEF HalfDone
    <3> QED BY <3>1, <3>2
  <2>3. CASE ~(op[p] = "register" \/ ClearsPod(p))
    BY <2>1, <2>3 DEF Told, ClearsPod
  <2>4. CASE End(p, "device")
    BY <1>0, <2>4 DEF End, Told
  <2> QED BY <1>6, <2>2, <2>3, <2>4 DEF Device, Go, Goto
<1>7. ASSUME NEW p \in Procs, PodSide(p) PROVE Goal
  <2>1. /\ pc[p] = "pod" /\ op[p] \in {"register", "deregister"} /\ UNCHANGED <<op, device>>
        /\ pc' = [pc EXCEPT ![p] = "done"]
    BY <1>7 DEF PodSide, Places, Placed, End, Goto
  <2>2. \A q \in Procs : pc'[q] # "pod"
    BY <1>0, <1>2, <2>1
  <2>3. CASE podCfg' = (op[p] = "register")
    BY <1>1, <2>1, <2>2, <2>3 DEF HalfDone
  <2>4. CASE End(p, PodFailure(p))
    BY <1>0, <2>4 DEF End, Told, PodFailure
  <2> QED BY <1>7, <2>3, <2>4 DEF PodSide
<1>8. ASSUME NEW p \in Procs, Kill(p) PROVE Goal
  <2>1. pc'[p] = "killed"
    BY <1>0, <1>8 DEF Kill, Goto
  <2> QED BY <2>1 DEF Told
<1>9. CASE Age \/ UNCHANGED vars
  <2>1. UNCHANGED <<op, pc, device, podCfg>>
    BY <1>9 DEF Age, vars, proc, pod
  <2> QED BY <1>1, <2>1 DEF HalfDone
<1> QED BY <1>4, <1>5, <1>6, <1>7, <1>8, <1>9 DEF Next

-----------------------------------------------------------------------------
(* What becomes of a report.                                               *)

\* The runs that sent a report: those that did not lose their credential, and of those
\* the ones that are past their list.
Counted(r) == {p \in Senders(r) : ~NoCredential(p)}
Full(r)    == {p \in Counted(r) : ~Sending(p)}
Twice(r)   == \E a, b \in Full(r) : a # b
Unheard(r) == Senders(r) = {} /\ answered[r] = "-"
Active(p)   == Running(p) /\ op[p] = "report"

\* A report is sent by its own run first; it waits in the queue from that run's end to
\* the end of the next, which sends it before its own.
Waits == \A i \in DOMAIN queue :
  LET e == queue[i].event IN op[e] = "report" /\ pc[e] = "done" /\ e \in sent[e]
Turn(p) ==
  /\ pc[p] \in {"idle", "read"} => sent[p] = {}
  /\ pc[p] \in {"idle", "read"} \/ Sending(p) => Unheard(p)
  /\ Sending(p) =>
       /\ pend[p][Len(pend[p])] = Own(p)
       /\ Len(pend[p]) = 2 => queue = <<pend[p][1]>> /\ sent[p] = {}
       /\ Len(pend[p]) = 1 => \A i \in DOMAIN queue : queue[i].event \in sent[p]
  /\ pc[p] \in {"write", "fill"} =>
       /\ \A i \in DOMAIN queue : queue[i].event \in sent[p]
       /\ p \in sent[p]
       /\ keep[p] # <<>> => keep[p][1].event = p /\ Senders(p) \subseteq {p} /\ answered[p] = "-"
       /\ keep[p] = <<>> => answered[p] # "-"
  /\ pc[p] = "fill" => queue = <<>> /\ keep[p] # <<>>
  /\ op[p] = "report" /\ pc[p] = "done" =>
       IF NoCredential(p) THEN Unheard(p)
       ELSE answered[p] # "-" \/ Twice(p) \/ Queued(p)

\* A run that sent r lost its credential.
Halfway(r) == \E p \in Senders(r) : NoCredential(p)

\* Nothing is counted as tried three times, and what waits in the queue has been tried
\* once, without an answer unless a run was cut short, or again by the run that is about
\* to replace the queue.
Once ==
  /\ \A r \in again : Halfway(r)
  /\ \A r \in Procs : \E b \in Procs : Counted(r) \subseteq {r, b}
  /\ \A i \in DOMAIN queue :
       LET e == queue[i].event IN
         \/ \E a \in Procs : Active(a) /\ a # e /\ e \in sent[a] /\ Counted(e) \subseteq {e, a}
         \/ Counted(e) \subseteq {e} /\ (answered[e] = "-" \/ Halfway(e))
Turns == Waits /\ \A p \in Procs : Turn(p)
Settling ==
  /\ \A r \in Procs : IsFiniteSet(Senders(r))
  /\ OneAtATime => Turns /\ Once

\* Runs that came to their end one after the other did so before.
LEMMA Backwards ==
  ASSUME TypeOK, Places, [Next]_vars, OneAtATime'
  PROVE  OneAtATime /\ Alone("queue")
<1>1. OneAtATime
  <2>1. "queue" \notin overlap
    BY StepShape DEF OneAtATime
  <2>2. ASSUME NEW p \in Procs, op[p] = "report" PROVE pc[p] # "killed" /\ exit[p] # "unwritten"
    <3>1. pc[p] # "idle"
      BY <2>2 DEF Places, Placed
    <3>2. op'[p] = "report" /\ pc'[p] # "killed" /\ exit'[p] # "unwritten"
      BY <2>2, <3>1, StepShape DEF OneAtATime
    <3> QED BY <3>2, StepShape DEF Places, Placed, Ended
  <2> QED BY <2>1, <2>2 DEF OneAtATime
<1>2. Alone("queue")
  BY <1>1 DEF OneAtATime, Places
<1> QED BY <1>1, <1>2

\* A run that reports is the only one.
LEMMA OnlyActive ==
  ASSUME TypeOK, Alone("queue"), NEW p \in Procs, Active(p), NEW q \in Procs, Active(q)
  PROVE  p = q
<1>1. Kind(op[p]) = "queue" /\ Kind(op[q]) = "queue"
  BY DEF Active, Kind
<1> QED BY <1>1 DEF Active, Alone

\* A step of p that sends nothing and leaves the queue: the turns of the others stay.
LEMMA QuietStep ==
  ASSUME TypeOK, Turns, Once, NEW p \in Procs, UNCHANGED <<queue, answered, sent, again>>,
         pc[p] \notin Ended,
         \A q \in Procs \ {p} : /\ op'[q] = op[q] /\ pc'[q] = pc[q] /\ exit'[q] = exit[q]
                                /\ pend'[q] = pend[q] /\ keep'[q] = keep[q],
         sent[p] = {} \/ Sending(p) \/ (op[p] # "report" /\ op'[p] = op[p]),
         sent[p] # {} /\ NoCredential(p) => NoCredential(p)',
         Active(p) => Active(p)' \/ sent[p] = {} \/ NoCredential(p)',
         Turn(p)'
  PROVE  Turns' /\ Once'
<1>1. \A r : Senders(r)' = Senders(r)
  BY DEF Senders
<1>2. \A i \in DOMAIN queue : queue[i].event \in Procs
  <2>1. queue \in Seq(QueuedEvent) /\ \A i \in DOMAIN queue : queue[i] \in QueuedEvent
    BY DEF TypeOK, ReportsOK
  <2> QED BY <2>1 DEF QueuedEvent
<1>3. Waits'
  BY <1>2 DEF Turns, Waits, Ended
<1>4. \A q \in Procs \ {p} : (NoCredential(q)' <=> NoCredential(q)) /\ (Sending(q)' <=> Sending(q))
  BY DEF NoCredential, Sending
<1>5. \A r : Counted(r)' \subseteq Counted(r) /\ Full(r) \subseteq Full(r)' /\ (Halfway(r) => Halfway(r)')
  <2> SUFFICES ASSUME NEW r
               PROVE  Counted(r)' \subseteq Counted(r) /\ Full(r) \subseteq Full(r)' /\ (Halfway(r) => Halfway(r)')
    OBVIOUS
  <2>1. p \in Senders(r) => sent[p] # {}
    BY DEF Senders
  <2>2. sent[p] # {} => (NoCredential(p) => NoCredential(p)')
    OBVIOUS
  <2>3. sent[p] # {} /\ ~Sending(p) => ~NoCredential(p)' /\ ~Sending(p)'
    BY DEF NoCredential, Sending
  <2>4. Senders(r) \subseteq Procs
    BY DEF Senders
  <2>5. Counted(r)' \subseteq Counted(r)
    BY <1>1, <1>4, <2>1, <2>2, <2>4 DEF Counted
  <2>6. Full(r) \subseteq Full(r)'
    BY <1>1, <1>4, <2>1, <2>3, <2>4 DEF Full, Counted
  <2>7. Halfway(r) => Halfway(r)'
    BY <1>1, <1>4, <2>1, <2>2, <2>4 DEF Halfway
  <2> QED BY <2>5, <2>6, <2>7
<1>6. ASSUME NEW q \in Procs \ {p} PROVE Turn(q)'
  <2>1. Turn(q) /\ (Twice(q) => Twice(q)') /\ (Unheard(q)' <=> Unheard(q)) /\ (Queued(q)' <=> Queued(q))
    BY <1>1, <1>5 DEF Turns, Twice, Unheard, Queued
  <2> QED BY <1>1, <1>4, <2>1 DEF Turn, Sending
<1>7. Once'
  <2>1. \A r \in again' : Halfway(r)'
    BY <1>5 DEF Once
  <2>2. \A r \in Procs : \E b \in Procs : Counted(r)' \subseteq {r, b}
    BY <1>5 DEF Once
  <2>3. ASSUME NEW i \in DOMAIN queue, NEW e, e = queue[i].event
        PROVE  \/ \E a \in Procs : Active(a)' /\ a # e /\ e \in sent'[a] /\ Counted(e)' \subseteq {e, a}
               \/ Counted(e)' \subseteq {e} /\ (answered'[e] = "-" \/ Halfway(e)')
    <3>1. CASE Counted(e) \subseteq {e} /\ (answered[e] = "-" \/ Halfway(e))
      BY <1>5, <3>1
    <3>2. ASSUME NEW a \in Procs, Active(a), a # e, e \in sent[a], Counted(e) \subseteq {e, a}
          PROVE  \/ Active(a)'
                 \/ Counted(e)' \subseteq {e} /\ Halfway(e)'
      <4>1. CASE a # p
        BY <3>2, <4>1 DEF Active, Running
      <4>2. CASE a = p /\ NoCredential(p)'
        <5>1. a \in Senders(e)' /\ a \notin Counted(e)'
          BY <1>1, <3>2, <4>2 DEF Senders, Counted
        <5> QED BY <1>5, <3>2, <4>2, <5>1 DEF Halfway
      <4>3. sent[a] # {}
        BY <3>2
      <4> QED BY <3>2, <4>1, <4>2, <4>3
    <3> QED BY <1>5, <2>3, <3>1, <3>2 DEF Once
  <2> QED BY <2>1, <2>2, <2>3 DEF Once
<1> QED BY <1>3, <1>6, <1>7 DEF Turns

\* A run sends its own report when nobody has, or what waits in the queue.
LEMMA PostTurn ==
  ASSUME TypeOK, Lists, Alone("queue"), Turns, NEW p \in Procs, Post(p)
  PROVE  LET e == Head(pend[p]).event IN
         /\ Active(p) /\ e \in Procs /\ Unheard(p)
         /\ \/ Len(pend[p]) = 1 /\ e = p /\ pc'[p] = "write" /\ \A i \in DOMAIN queue : queue[i].event \in sent[p]
            \/ /\ Len(pend[p]) = 2 /\ pc'[p] = "cred" /\ Sending(p)' /\ e # p
               /\ queue = <<Head(pend[p])>> /\ sent[p] = {}
               /\ op[e] = "report" /\ pc[e] = "done" /\ e \in sent[e]
               /\ Len(pend'[p]) = 1 /\ pend'[p][1] = Own(p)
         /\ keep[p] = <<>> /\ (Len(pend[p]) = 2 => keep'[p] = <<>>)
<1> DEFINE e == Head(pend[p]).event
<1>1. /\ pend \in [Procs -> Seq(QueuedEvent)] /\ keep \in [Procs -> Seq(QueuedEvent)]
      /\ pc \in [Procs -> PCs] /\ queue \in Seq(QueuedEvent)
  BY DEF TypeOK, CommandOK, ReportsOK
<1>2. /\ op[p] = "report" /\ pc[p] = "post" /\ Sending(p) /\ Active(p) /\ keep[p] = <<>>
      /\ Len(pend[p]) = 1 \/ Len(pend[p]) = 2
  BY DEF Post, Lists, ListsOf, Sending, Active, Running, Ended
<1>3. /\ Unheard(p) /\ pend[p][Len(pend[p])] = Own(p)
      /\ Len(pend[p]) = 2 => queue = <<pend[p][1]>> /\ sent[p] = {}
      /\ Len(pend[p]) = 1 => \A i \in DOMAIN queue : queue[i].event \in sent[p]
  BY <1>2 DEF Turns, Turn
<1>4. Head(pend[p]) = pend[p][1] /\ e \in Procs
  BY <1>1, <1>2, PostStep
<1>5. /\ pc' = [pc EXCEPT ![p] = IF Len(pend[p]) = 1 THEN "write" ELSE "cred"]
      /\ pend' = [pend EXCEPT ![p] = Tail(@)] /\ UNCHANGED op
  BY DEF Post, Go, Goto
<1>6. CASE Len(pend[p]) = 1
  BY <1>1, <1>2, <1>3, <1>4, <1>5, <1>6 DEF Own
<1>7. CASE Len(pend[p]) = 2
  <2>1. queue = <<Head(pend[p])>> /\ queue[1] = Head(pend[p]) /\ 1 \in DOMAIN queue /\ sent[p] = {}
    BY <1>1, <1>3, <1>4, <1>7
  <2>2. op[e] = "report" /\ pc[e] = "done" /\ e \in sent[e]
    BY <2>1 DEF Turns, Waits
  <2>3. Len(pend'[p]) = 1 /\ pend'[p][1] = pend[p][2]
    BY <1>1, <1>5, <1>7, TailOfTwo
  <2>4. pc'[p] = "cred" /\ Sending(p)' /\ e # p
    BY <1>1, <1>2, <1>5, <1>7, <2>2 DEF Sending
  <2>5. keep'[p] = <<>>
    BY <1>7, <2>4, PostStep
  <2> QED BY <1>2, <1>3, <1>4, <1>7, <2>1, <2>2, <2>3, <2>4, <2>5
<1> QED BY <1>2, <1>3, <1>4, <1>6, <1>7

\* A list of one.
LEMMA OnlyOne ==
  ASSUME NEW S, NEW s \in Seq(S), Len(s) = 1
  PROVE  Head(s) = s[1] /\ Head(s) \in S
OBVIOUS

\* One send: a first one, or the second of what waited in the queue.
LEMMA PostSettles ==
  ASSUME TypeOK, Lists, Alone("queue"), Turns, Once, NEW p \in Procs, Post(p)
  PROVE  Turns' /\ Once'
<1> PICK e : e = Head(pend[p]).event
  OBVIOUS
<1>0. /\ op \in [Procs -> Ops \cup {"-"}] /\ pc \in [Procs -> PCs] /\ exit \in [Procs -> Exits]
      /\ pend \in [Procs -> Seq(QueuedEvent)] /\ keep \in [Procs -> Seq(QueuedEvent)]
      /\ answered \in [Procs -> {"-", "accepted", "rejected"}] /\ sent \in [Procs -> SUBSET Procs]
      /\ queue \in Seq(QueuedEvent)
  BY DEF TypeOK, CommandOK, ReportsOK
<1>1. /\ Active(p) /\ e \in Procs /\ Unheard(p)
      /\ \/ Len(pend[p]) = 1 /\ e = p /\ pc'[p] = "write" /\ \A i \in DOMAIN queue : queue[i].event \in sent[p]
         \/ /\ Len(pend[p]) = 2 /\ pc'[p] = "cred" /\ Sending(p)' /\ e # p
            /\ queue = <<Head(pend[p])>> /\ sent[p] = {}
            /\ op[e] = "report" /\ pc[e] = "done" /\ e \in sent[e]
            /\ Len(pend'[p]) = 1 /\ pend'[p][1] = Own(p)
      /\ keep[p] = <<>> /\ (Len(pend[p]) = 2 => keep'[p] = <<>>)
  BY PostTurn
<1>2. /\ UNCHANGED <<op, exit, queue>> /\ sent' = [sent EXCEPT ![p] = @ \cup {e}]
      /\ again' = IF answered[e] = "-" THEN again ELSE again \cup {e}
      /\ \A q \in Procs \ {p} : pc'[q] = pc[q] /\ pend'[q] = pend[q] /\ keep'[q] = keep[q]
      /\ \A q \in Procs \ {e} : answered'[q] = answered[q]
      /\ answered'[e] # answered[e] => answered'[e] # "-"
      /\ pc[p] = "post" /\ op[p] = "report"
  BY <1>0, <1>1 DEF Post, Go, Goto, Active
<1>3. (keep'[p] = <<>> /\ answered'[e] # "-") \/ (keep'[p] = Kept(Head(pend[p])) /\ UNCHANGED answered)
  <2>1. <<>> \o <<>> = <<>> /\ <<>> \o Kept(Head(pend[p])) = Kept(Head(pend[p]))
    BY DEF Kept
  <2> QED BY <1>0, <1>1, <2>1 DEF Post, Answered
<1>4. /\ \A r \in Procs \ {e} : Senders(r)' = Senders(r)
      /\ Senders(e)' = Senders(e) \cup {p}
      /\ \A q \in Procs \ {p} : sent'[q] = sent[q]
  BY <1>0, <1>1, <1>2 DEF Senders
<1>40. /\ \A q \in Procs : NoCredential(q)' <=> NoCredential(q)
       /\ \A q \in Procs \ {p} : Sending(q)' <=> Sending(q)
       /\ Sending(p)
  BY <1>2 DEF NoCredential, Sending
<1>41. \A r \in Procs : /\ Full(r) \subseteq Full(r)' /\ (Halfway(r) => Halfway(r)')
                        /\ Counted(r)' \subseteq Counted(r) \cup {p}
                        /\ r # e => Counted(r)' = Counted(r)
  <2>1. \A r \in Procs : Senders(r) \subseteq Senders(r)' /\ Senders(r)' \subseteq Senders(r) \cup {p}
    BY <1>1, <1>4
  <2>2. \A r \in Procs : Senders(r) \subseteq Procs /\ Senders(r)' \subseteq Procs
    BY DEF Senders
  <2>3. \A r \in Procs : Full(r) \subseteq Full(r)'
    BY <1>40, <2>1, <2>2 DEF Full, Counted
  <2>4. \A r \in Procs : Halfway(r) => Halfway(r)'
    BY <1>40, <2>1, <2>2 DEF Halfway
  <2>5. \A r \in Procs : Counted(r)' \subseteq Counted(r) \cup {p}
    BY <1>40, <2>1, <2>2 DEF Counted
  <2>6. \A r \in Procs : r # e => Counted(r)' = Counted(r)
    BY <1>4, <1>40, <2>2 DEF Counted
  <2> QED BY <2>3, <2>4, <2>5, <2>6
<1>5. Waits'
  <2>1. \A i \in DOMAIN queue : queue[i].event \in Procs /\ queue[i].event # p
    <3>1. \A i \in DOMAIN queue : queue[i] \in QueuedEvent
      BY <1>0
    <3> QED BY <1>2, <3>1 DEF QueuedEvent, Turns, Waits
  <2> QED BY <1>2, <1>4, <2>1 DEF Turns, Waits
<1>6. ASSUME NEW r \in Procs \ {p} PROVE Turn(r)'
  <2>1. Turn(r) /\ ~(pc[r] \in {"write", "fill"}) /\ ~Sending(r)
    <3>1. pc[r] \in {"write", "fill"} \/ Sending(r) => Active(r)
      BY DEF Lists, ListsOf, Sending, Active, Running, Ended
    <3> QED BY <1>1, <3>1, OnlyActive DEF Turns
  <2>2. Unheard(r) /\ r # e => Unheard(r)'
    BY <1>2, <1>4 DEF Unheard
  <2>3. r = e => pc[r] = "done" /\ op[r] = "report" /\ Queued(r)' /\ ~NoCredential(r)
    <3> SUFFICES ASSUME r = e PROVE pc[r] = "done" /\ op[r] = "report" /\ Queued(r)' /\ ~NoCredential(r)
      OBVIOUS
    <3>1. queue = <<Head(pend[p])>> /\ pc[r] = "done" /\ op[r] = "report" /\ r \in sent[r]
      BY <1>1
    <3>2. 1 \in DOMAIN queue /\ queue[1].event = r
      BY <3>1
    <3>3. ~Unheard(r)
      BY <3>1 DEF Unheard, Senders
    <3> QED BY <1>2, <2>1, <3>1, <3>2, <3>3 DEF Queued, Turn
  <2>4. (Twice(r) => Twice(r)') /\ (Queued(r) => Queued(r)') /\ (NoCredential(r)' <=> NoCredential(r))
    BY <1>2, <1>40, <1>41 DEF Twice, Queued
  <2>5. ~(Sending(r)') /\ op'[r] = op[r] /\ pc'[r] = pc[r] /\ sent'[r] = sent[r] /\ pend'[r] = pend[r] /\ keep'[r] = keep[r]
    BY <1>2, <1>4, <1>40, <2>1
  <2>6. r # e => answered'[r] = answered[r] /\ Senders(r)' = Senders(r)
    BY <1>2, <1>4
  <2>7. CASE r = e
    BY <2>1, <2>3, <2>4, <2>5, <2>7 DEF Turn
  <2>8. CASE r # e
    BY <2>1, <2>2, <2>4, <2>5, <2>6, <2>8 DEF Turn
  <2> QED BY <2>7, <2>8
<1>7. Turn(p)'
  <2>1. CASE Len(pend[p]) = 1
    <3>1. e = p /\ pc'[p] = "write" /\ p \in sent'[p] /\ \A i \in DOMAIN queue : queue[i].event \in sent'[p]
      BY <1>0, <1>1, <1>2, <2>1
    <3>2. Senders(p)' = {p}
      BY <1>1, <1>4, <3>1 DEF Unheard
    <3>3. keep'[p] # <<>> => keep'[p][1].event = p /\ answered'[p] = "-"
      <4>1. Head(pend[p]) \in QueuedEvent
        BY <1>0, <2>1, OnlyOne
      <4>2. Kept(Head(pend[p])) # <<>> => Kept(Head(pend[p]))[1].event = e
        BY <4>1 DEF Kept, QueuedEvent
      <4> QED BY <1>1, <1>3, <3>1, <4>2 DEF Unheard
    <3>4. keep'[p] = <<>> => answered'[p] # "-"
      <4>1. Head(pend[p]).tries = 0
        <5>1. ListsOf(p) /\ Sending(p)
          BY <1>2 DEF Lists, Sending
        <5>2. Head(pend[p]) = pend[p][1]
          BY <1>0, <2>1, OnlyOne
        <5> QED BY <2>1, <5>1, <5>2 DEF ListsOf
      <4>2. Kept(Head(pend[p])) # <<>>
        BY <4>1 DEF Kept, MaxTries
      <4> QED BY <1>3, <3>1, <4>2
    <3> QED BY <1>2, <3>1, <3>2, <3>3, <3>4 DEF Turn, Sending
  <2>2. CASE Len(pend[p]) = 2
    <3>1. Unheard(p)'
      BY <1>1, <1>2, <1>4, <2>2 DEF Unheard
    <3>2. \A i \in DOMAIN queue : queue[i].event \in sent'[p]
      <4>1. \A i \in DOMAIN queue : queue[i] = Head(pend[p])
        BY <1>1, <2>2
      <4> QED BY <1>0, <1>2, <4>1
    <3> QED BY <1>1, <1>2, <2>2, <3>1, <3>2 DEF Turn
  <2> QED BY <1>1, <2>1, <2>2
<1>8. Once'
  <2>1. Active(p)'
    BY <1>1, <1>2 DEF Active, Running, Ended
  <2>2. Counted(e) \subseteq {e} /\ (answered[e] = "-" \/ Halfway(e))
    <3>1. CASE Len(pend[p]) = 1
      BY <1>1, <3>1 DEF Unheard, Counted
    <3>2. CASE Len(pend[p]) = 2
      <4>1. 1 \in DOMAIN queue /\ queue[1].event = e /\ sent[p] = {}
        BY <1>1, <3>2
      <4>2. \A a \in Procs : Active(a) => a = p
        BY <1>1, OnlyActive
      <4> QED BY <4>1, <4>2 DEF Once
    <3> QED BY <1>1, <3>1, <3>2
  <2>3. \A r \in again' : Halfway(r)'
    <3>1. again \subseteq Procs
      BY DEF TypeOK, ReportsOK
    <3> QED BY <1>1, <1>2, <1>41, <2>2, <3>1 DEF Once
  <2>4. \A r \in Procs : \E b \in Procs : Counted(r)' \subseteq {r, b}
    BY <1>1, <1>41, <2>2 DEF Once
  <2>5. ASSUME NEW i \in DOMAIN queue
        PROVE  queue[i].event # p /\ queue[i].event \in sent'[p] /\ queue[i].event \in Procs
    <3>1. queue[i].event # p /\ queue[i].event \in Procs
      <4>1. queue[i] \in QueuedEvent
        BY <1>0
      <4> QED BY <1>2, <4>1 DEF Turns, Waits, QueuedEvent
    <3>2. CASE Len(pend[p]) = 1
      BY <1>0, <1>1, <1>2, <3>2, <3>1
    <3>3. CASE Len(pend[p]) = 2
      <4>1. queue[i] = Head(pend[p])
        BY <1>1, <3>3
      <4> QED BY <1>0, <1>2, <3>1, <4>1
    <3> QED BY <1>1, <3>1, <3>2, <3>3
  <2>6. ASSUME NEW i \in DOMAIN queue, NEW r \in Procs, r = queue[i].event
        PROVE  Counted(r)' \subseteq {r, p}
    <3>1. CASE Len(pend[p]) = 2
      <4>1. r = e
        BY <1>1, <2>6, <3>1
      <4> QED BY <1>1, <1>41, <2>2, <4>1
    <3>2. CASE Len(pend[p]) = 1
      <4>1. r # e
        BY <1>1, <2>5, <2>6, <3>2
      <4>2. Counted(r) \subseteq {r, p}
        <5>1. \A a \in Procs : Active(a) => a = p
          BY <1>1, OnlyActive
        <5> QED BY <2>6, <5>1 DEF Once
      <4> QED BY <1>41, <4>1, <4>2
    <3> QED BY <1>1, <3>1, <3>2
  <2>7. \A i \in DOMAIN queue' : \A r \in Procs : r = (queue[i].event)' => Counted(r)' \subseteq {r, p}
    BY <1>2, <2>6
  <2> QED BY <1>2, <2>1, <2>3, <2>4, <2>5, <2>7 DEF Once
<1> QED BY <1>5, <1>6, <1>7, <1>8 DEF Turns

\* A run that ends replaces what it has sent by what it keeps.
LEMMA WriteSettles ==
  ASSUME TypeOK, Lists, Alone("queue"), Turns, Once, NEW p \in Procs, Placed(p), WriteQueue(p) \/ FillQueue(p), OneAtATime'
  PROVE  Turns' /\ Once'
<1>0. /\ op \in [Procs -> Ops \cup {"-"}] /\ pc \in [Procs -> PCs] /\ exit \in [Procs -> Exits]
      /\ queue \in Seq(QueuedEvent) /\ keep \in [Procs -> Seq(QueuedEvent)]
  BY DEF TypeOK, CommandOK, ReportsOK
<1>1. /\ op[p] = "report" /\ Active(p) /\ pc[p] \in {"write", "fill"}
      /\ UNCHANGED <<op, pend, keep, answered, sent, again>>
      /\ \A q \in Procs \ {p} : pc'[q] = pc[q] /\ exit'[q] = exit[q]
  BY <1>0 DEF WriteQueue, FillQueue, Lists, ListsOf, Active, Running, Ended, End, Go, Goto
<1>2. exit'[p] # "unwritten"
  BY <1>1 DEF OneAtATime
<1>3. \/ queue' = <<>> /\ keep[p] = <<>> /\ pc'[p] = "done"
      \/ queue' = <<>> /\ keep[p] # <<>> /\ pc'[p] = "fill"
      \/ queue' = keep[p] /\ pc[p] = "fill" /\ pc'[p] = "done"
  BY <1>0, <1>2, CappedIsAll DEF WriteQueue, FillQueue, End, Go, Goto, Lists, ListsOf
<1>4. /\ \A i \in DOMAIN queue : queue[i].event \in sent[p]
      /\ p \in sent[p]
      /\ keep[p] # <<>> => keep[p][1].event = p /\ Senders(p) \subseteq {p} /\ answered[p] = "-"
      /\ keep[p] = <<>> => answered[p] # "-"
      /\ pc[p] = "fill" => queue = <<>> /\ keep[p] # <<>>
  BY <1>1 DEF Turns, Turn
<1>50. ~NoCredential(p) /\ ~(NoCredential(p)') /\ ~Sending(p) /\ ~(Sending(p)')
  <2>1. exit[p] = "-" /\ exit'[p] \in {"-", "ok", "unwritten"}
    BY <1>0, <1>1 DEF Placed, WriteQueue, FillQueue, End, Go, Ended
  <2> QED BY <1>1, <1>3, <2>1 DEF NoCredential, Sending
<1>51. \A q \in Procs : (NoCredential(q)' <=> NoCredential(q)) /\ (Sending(q)' <=> Sending(q))
  BY <1>1, <1>50 DEF NoCredential, Sending
<1>5. \A r : /\ Senders(r)' = Senders(r) /\ Counted(r)' = Counted(r) /\ Full(r)' = Full(r)
             /\ (Twice(r)' <=> Twice(r)) /\ (Unheard(r)' <=> Unheard(r)) /\ (Halfway(r)' <=> Halfway(r))
  <2>1. \A r : Senders(r)' = Senders(r) /\ Senders(r) \subseteq Procs
    BY <1>1 DEF Senders
  <2>2. \A r : Counted(r)' = Counted(r) /\ (Halfway(r)' <=> Halfway(r))
    BY <1>51, <2>1 DEF Counted, Halfway
  <2>3. \A r : Full(r)' = Full(r)
    BY <1>51, <2>1, <2>2 DEF Full, Counted
  <2> QED BY <1>1, <2>1, <2>2, <2>3 DEF Twice, Unheard
\* What is written is the run's own report.
<1>6. \A i \in DOMAIN queue' : queue'[i].event = p /\ queue' = keep[p] /\ pc'[p] = "done"
  <2>1. \A i \in DOMAIN keep[p] : keep[p] # <<>> /\ i = 1
    <3>1. keep[p] \in Seq(QueuedEvent) /\ Len(keep[p]) <= 1
      BY <1>0 DEF Lists, ListsOf, Waiting
    <3> QED BY <3>1
  <2> QED BY <1>3, <1>4, <2>1
<1>7. Waits'
  BY <1>1, <1>4, <1>6 DEF Waits
<1>8. ASSUME NEW r \in Procs \ {p} PROVE Turn(r)'
  <2>1. Turn(r) /\ ~(pc[r] \in {"write", "fill"}) /\ ~Sending(r)
    <3>1. pc[r] \in {"write", "fill"} \/ Sending(r) => Active(r)
      BY DEF Lists, ListsOf, Sending, Active, Running, Ended
    <3> QED BY <1>1, <3>1, OnlyActive DEF Turns
  <2>2. Queued(r) => Twice(r)
    <3> SUFFICES ASSUME NEW i \in DOMAIN queue, queue[i].event = r PROVE Twice(r)
      BY DEF Queued
    <3>1. r \in sent[r] /\ r \in sent[p] /\ op[r] = "report" /\ pc[r] = "done"
      BY <1>4 DEF Turns, Waits
    <3>2. ~NoCredential(r)
      BY <2>1, <3>1 DEF Turn, Unheard, Senders
    <3>3. r \in Full(r) /\ p \in Full(r)
      BY <1>50, <2>1, <3>1, <3>2 DEF Full, Counted, Senders
    <3> QED BY <3>3 DEF Twice
  <2> QED BY <1>1, <1>5, <1>51, <2>1, <2>2 DEF Turn, Sending
<1>9. Turn(p)'
  <2>1. CASE queue' = <<>> /\ keep[p] = <<>> /\ pc'[p] = "done"
    BY <1>1, <1>4, <1>50, <2>1 DEF Turn, Sending
  <2>2. CASE queue' = <<>> /\ keep[p] # <<>> /\ pc'[p] = "fill"
    BY <1>1, <1>4, <1>5, <2>2 DEF Turn, Sending
  <2>3. CASE queue' = keep[p] /\ pc[p] = "fill" /\ pc'[p] = "done"
    <3>1. 1 \in DOMAIN keep[p]
      BY <1>0, <1>4, <2>3
    <3>2. Queued(p)'
      BY <1>4, <2>3, <3>1 DEF Queued
    <3> QED BY <1>1, <1>50, <2>3, <3>2 DEF Turn, Sending
  <2> QED BY <1>3, <2>1, <2>2, <2>3
<1>10. Once'
  <2>1. ASSUME NEW i \in DOMAIN queue' PROVE answered'[p] = "-" /\ Counted(p)' \subseteq {p} /\ queue'[i].event = p
    <3>1. keep[p] # <<>>
      BY <1>0, <1>6, <2>1
    <3> QED BY <1>1, <1>4, <1>5, <1>6, <2>1, <3>1 DEF Counted
  <2>2. \A r \in again' : Halfway(r)'
    BY <1>1, <1>5 DEF Once
  <2>3. \A r \in Procs : \E b \in Procs : Counted(r)' \subseteq {r, b}
    BY <1>5 DEF Once
  <2> QED BY <2>1, <2>2, <2>3 DEF Once
<1> QED BY <1>7, <1>8, <1>9, <1>10 DEF Turns

\* No step sends a report for more runs than one.
LEMMA SendersStep ==
  ASSUME TypeOK, Lists, [Next]_vars, NEW r \in Procs, IsFiniteSet(Senders(r))
  PROVE  IsFiniteSet(Senders(r)')
<1>0. sent \in [Procs -> SUBSET Procs]
  BY DEF TypeOK, ReportsOK
<1>1. CASE UNCHANGED sent
  BY <1>1 DEF Senders
<1>2. ASSUME NEW p \in Procs, Post(p) PROVE IsFiniteSet(Senders(r)')
  <2>1. Senders(r)' \subseteq Senders(r) \cup {p}
    BY <1>0, <1>2 DEF Post, Senders
  <2> QED BY <2>1, FS_AddElement, FS_Subset
<1>3. ASSUME NEW p \in Procs,
             \/ Start(p) \/ Credential(p) \/ Refresh(p) \/ SaveTokens(p) \/ CheckSession(p) \/ Approve(p)
             \/ Logout(p) \/ ReadQueue(p) \/ WriteQueue(p) \/ FillQueue(p) \/ Identity(p)
             \/ List(p) \/ Device(p) \/ PodSide(p) \/ Kill(p)
      PROVE UNCHANGED sent
  BY <1>3 DEF Start, Credential, Refresh, SaveTokens, CheckSession, Approve, Logout,
    ReadQueue,
              WriteQueue, FillQueue, Identity, List, Device, PodSide, Kill, reports
<1>4. CASE Age \/ UNCHANGED vars
  BY <1>1, <1>4 DEF Age, vars, reports
<1> QED BY <1>1, <1>2, <1>3, <1>4 DEF Next

\* Every step leaves each report answered, tried twice, waiting, or with its own run.
LEMMA TurnsStep ==
  ASSUME TypeOK, Lists, Places, [Next]_vars, OneAtATime', Turns, Once
  PROVE  Turns' /\ Once'
<1> DEFINE Goal == Turns' /\ Once'
<1>0. /\ op \in [Procs -> Ops \cup {"-"}] /\ pc \in [Procs -> PCs] /\ exit \in [Procs -> Exits]
      /\ pend \in [Procs -> Seq(QueuedEvent)] /\ keep \in [Procs -> Seq(QueuedEvent)]
      /\ sent \in [Procs -> SUBSET Procs] /\ queue \in Seq(QueuedEvent)
  BY DEF TypeOK, CommandOK, ReportsOK
<1>1. Alone("queue")
  BY Backwards
\* A step of a command that does not report.
<1>2. ASSUME NEW p \in Procs, pc[p] \notin Ended, op[p] # "report",
             UNCHANGED <<op, pend, keep, queue, answered, sent, again>>,
             NEW l, pc' = [pc EXCEPT ![p] = l], l \notin {"idle", "read", "write",
             "fill"},
             \A q \in Procs \ {p} : exit'[q] = exit[q]
      PROVE Goal
  <2>1. Turn(p)'
    BY <1>0, <1>2 DEF Turn, Sending
  <2>2. ~Active(p) /\ ~NoCredential(p) /\ op'[p] = op[p]
    BY <1>2 DEF Active, NoCredential
  <2> QED BY <1>0, <1>2, <2>1, <2>2, QuietStep
<1>3. ASSUME NEW p \in Procs, Start(p) PROVE Goal
  <2>1. PICK o \in Ops : op' = [op EXCEPT ![p] = o] /\ pc' = [pc EXCEPT ![p] = FirstStep[o]]
    BY <1>3 DEF Start, Go, Goto
  <2>2. pc[p] = "idle" /\ UNCHANGED <<exit, pend, keep, queue, answered, sent, again>>
    BY <1>3 DEF Start, Go, reports
  <2>3. /\ FirstStep[o] \in {"read", "cred", "session", "remove"}
        /\ FirstStep[o] = "cred" => o # "report"
    BY DEF FirstStep, Ops
  <2>4. sent[p] = {} /\ Unheard(p)
    BY <2>2 DEF Turns, Turn
  <2>5. Unheard(p)'
    BY <2>2, <2>4 DEF Unheard, Senders
  <2>6. Turn(p)'
    BY <1>0, <2>1, <2>2, <2>3, <2>4, <2>5 DEF Turn, Sending
  <2>7. ~Active(p)
    BY <2>2 DEF Active, Running
  <2> QED BY <1>0, <2>1, <2>2, <2>4, <2>6, <2>7, QuietStep DEF Ended
<1>4. ASSUME NEW p \in Procs, Credential(p) \/ Refresh(p) \/ SaveTokens(p) PROVE Goal
  <2>1. pc[p] \in {"cred", "refresh", "save"} /\ UNCHANGED <<op, pend, keep, queue, answered, sent, again>>
    BY <1>4 DEF Credential, Refresh, SaveTokens, reports
  <2>2. PICK l \in {"done", "refresh", "save", Onward(p)} :
          /\ pc' = [pc EXCEPT ![p] = l]
          /\ \/ l # "done" /\ UNCHANGED exit
             \/ /\ l = "done"
                /\ \E r \in {"ok", "signedout", "cred", "offline"} :
                     exit' = [exit EXCEPT ![p] = r] /\ (r = "ok" => op[p] = "login")
    BY <1>4 DEF Credential, Refresh, SaveTokens, End, Go, Goto, Onward
  <2>3. /\ Onward(p) \in {"post", "identity", "list", "device"}
        /\ op[p] = "report" => Onward(p) = "post"
    BY DEF Onward
  <2>4. CASE op[p] # "report"
    BY <1>0, <1>2, <2>1, <2>2, <2>3, <2>4 DEF Ended
  <2>5. CASE op[p] = "report"
    <3>1. Sending(p) /\ Turn(p) /\ Unheard(p)
      BY <2>1, <2>5 DEF Sending, Turns, Turn
    <3>2. Unheard(p)' /\ Senders(p)' = {}
      BY <2>1, <3>1 DEF Unheard, Senders
    <3>3. CASE l # "done"
      <4>1. Turn(p)'
        BY <1>0, <2>1, <2>2, <2>3, <2>5, <3>1, <3>2, <3>3 DEF Turn, Sending
      <4>2. Active(p)'
        BY <1>0, <2>1, <2>2, <2>3, <2>5, <3>3 DEF Active, Running, Ended
      <4>3. NoCredential(p) => NoCredential(p)'
        BY <2>1, <2>2, <3>3 DEF NoCredential
      <4> QED BY <1>0, <2>1, <2>2, <3>1, <3>3, <4>1, <4>2, <4>3, QuietStep DEF Ended
    <3>4. CASE l = "done"
      <4>1. NoCredential(p)' /\ pc'[p] = "done" /\ \A q \in Procs \ {p} : exit'[q] = exit[q]
        BY <1>0, <2>1, <2>2, <2>5, <3>4 DEF NoCredential
      <4>2. Turn(p)'
        BY <3>2, <4>1 DEF Turn, Sending
      <4> QED BY <1>0, <2>1, <2>2, <3>1, <4>1, <4>2, QuietStep DEF Ended
    <3> QED BY <3>3, <3>4
  <2> QED BY <2>4, <2>5
<1>5. ASSUME NEW p \in Procs, CheckSession(p) \/ Approve(p) \/ Logout(p) PROVE Goal
  <2>1. /\ UNCHANGED <<op, pend, keep, queue, answered, sent, again>>
        /\ op[p] # "report" /\ pc[p] \notin Ended
        /\ \A q \in Procs \ {p} : exit'[q] = exit[q]
    BY <1>0, <1>5 DEF CheckSession, Approve, Logout, End, Go, Goto, reports, Ended,
                      Lists, ListsOf, Places, Placed
  <2>2. \E l \in {"done", "save", "approve"} : pc' = [pc EXCEPT ![p] = l]
    BY <1>5 DEF CheckSession, Approve, Logout, End, Go, Goto
  <2> QED BY <1>2, <2>1, <2>2
<1>6. ASSUME NEW p \in Procs, ReadQueue(p) PROVE Goal
  <2>1. /\ op[p] = "report" /\ pc[p] = "read" /\ pend' = [pend EXCEPT ![p] = Pending(p)]
        /\ pc' = [pc EXCEPT ![p] = "cred"] /\ UNCHANGED <<op, exit, keep, queue, answered, sent, again>>
    BY <1>6 DEF ReadQueue, Go, Goto, reports, Lists, ListsOf
  <2>2. Unheard(p) /\ sent[p] = {}
    BY <2>1 DEF Turns, Turn
  <2>3. Unheard(p)'
    BY <2>1, <2>2 DEF Unheard, Senders
  <2>4. /\ Len(pend'[p]) = Len(queue) + 1
        /\ pend'[p][Len(pend'[p])] = Own(p)
        /\ Len(queue) = 1 => queue = <<pend'[p][1]>>
        /\ Len(queue) = 0 => DOMAIN queue = {}
    <3>1. Own(p) \in QueuedEvent
      BY DEF Own, QueuedEvent, MaxTries
    <3>2. pend'[p] = Append(queue, Own(p))
      BY <1>0, <2>1 DEF Pending
    <3>3. /\ Len(Append(queue, Own(p))) = Len(queue) + 1 /\ Append(queue, Own(p))[Len(queue) + 1] = Own(p)
          /\ \A i \in 1 .. Len(queue) : Append(queue, Own(p))[i] = queue[i]
      BY <1>0, <3>1, AppendProperties
    <3>4. Len(queue) = 1 => queue = <<queue[1]>>
      BY <1>0
    <3> QED BY <1>0, <3>2, <3>3, <3>4
  <2>5. Turn(p)'
    <3>1. pc'[p] = "cred" /\ sent'[p] = {} /\ queue' = queue /\ Len(queue) \in Nat
      BY <1>0, <2>1, <2>2
    <3>2. Len(pend'[p]) = 2 => queue' = <<pend'[p][1]>> /\ sent'[p] = {}
      <4>1. Len(pend'[p]) = Len(queue) + 1
        BY <2>4, Zenon
      <4>2. Len(pend'[p]) = 2 => Len(queue) = 1
        <5>1. \A n \in Nat : n + 1 = 2 => n = 1
          OBVIOUS
        <5> QED BY <3>1, <4>1, <5>1, Zenon
      <4> QED BY <2>4, <3>1, <4>2, Zenon
    <3>3. Len(pend'[p]) = 1 => DOMAIN queue' = {}
      BY <2>4, <3>1
    <3> QED BY <2>3, <2>4, <3>1, <3>2, <3>3 DEF Turn
  <2>6. Active(p)'
    BY <1>0, <2>1 DEF Active, Running, Ended
  <2> QED BY <1>0, <2>1, <2>2, <2>5, <2>6, QuietStep DEF Ended
<1>7. ASSUME NEW p \in Procs, Post(p) PROVE Goal
  BY <1>1, <1>7, PostSettles
<1>8. ASSUME NEW p \in Procs, WriteQueue(p) \/ FillQueue(p) PROVE Goal
  BY <1>1, <1>8, WriteSettles DEF Places
<1>9. ASSUME NEW p \in Procs, Identity(p) \/ List(p) \/ Device(p) \/ PodSide(p) PROVE Goal
  <2>1. /\ UNCHANGED <<op, pend, keep, queue, answered, sent, again>>
        /\ op[p] # "report" /\ pc[p] \notin Ended
        /\ \A q \in Procs \ {p} : exit'[q] = exit[q]
    BY <1>0, <1>9 DEF Identity, List, Device, PodSide, End, Go, Goto, reports, Ended,
      Places, Placed
  <2>2. \E l \in {"done", "list", "device", "pod"} : pc' = [pc EXCEPT ![p] = l]
    BY <1>9 DEF Identity, List, Device, PodSide, End, Go, Goto
  <2> QED BY <1>2, <2>1, <2>2
<1>10. ASSUME NEW p \in Procs, Kill(p) PROVE Goal
  <2>1. /\ pc' = [pc EXCEPT ![p] = "killed"] /\ pc[p] \notin Ended
        /\ UNCHANGED <<op, exit, pend, keep, queue, answered, sent, again>>
    BY <1>10 DEF Kill, Goto, reports, Running, Ended
  <2>2. op[p] # "report"
    BY <1>0, <2>1 DEF OneAtATime
  <2> QED BY <1>2, <2>1, <2>2
<1>11. CASE Age \/ UNCHANGED vars
  <2>1. UNCHANGED <<op, exit, pc, pend, keep, queue, answered, sent, again>>
    BY <1>11 DEF Age, vars, proc, reports
  <2>2. /\ \A r : Senders(r)' = Senders(r) /\ (NoCredential(r)' <=> NoCredential(r)) /\ (Sending(r)' <=> Sending(r))
        /\ \A r : Active(r)' <=> Active(r)
    BY <2>1 DEF Senders, NoCredential, Sending, Active, Running
  <2>3. \A r : /\ Counted(r)' = Counted(r) /\ Full(r)' = Full(r) /\ (Twice(r)' <=> Twice(r))
               /\ (Unheard(r)' <=> Unheard(r)) /\ (Queued(r)' <=> Queued(r)) /\ (Halfway(r)' <=> Halfway(r))
    <3>1. \A r : Counted(r)' = Counted(r) /\ (Halfway(r)' <=> Halfway(r))
      BY <2>2 DEF Counted, Halfway
    <3>2. \A r : Full(r)' = Full(r)
      BY <2>2, <3>1 DEF Full
    <3> QED BY <2>1, <2>2, <3>1, <3>2 DEF Twice, Unheard, Queued
  <2>4. Turns'
    BY <2>1, <2>2, <2>3 DEF Turns, Waits, Turn
  <2>5. Once'
    BY <2>1, <2>2, <2>3 DEF Once
  <2> QED BY <2>4, <2>5
<1> QED BY <1>3, <1>4, <1>5, <1>6, <1>7, <1>8, <1>9, <1>10, <1>11 DEF Next

LEMMA SettlingStep == TypeOK /\ Lists /\ Places /\ Settling /\ [Next]_vars => Settling'
<1> SUFFICES ASSUME TypeOK, Lists, Places, Settling, [Next]_vars PROVE Settling'
  OBVIOUS
<1>1. \A r \in Procs : IsFiniteSet(Senders(r)')
  BY SendersStep DEF Settling
<1>2. OneAtATime' => Turns' /\ Once'
  BY Backwards, TurnsStep DEF Settling
<1> QED BY <1>1, <1>2 DEF Settling

\* How often a report was tried.
LEMMA TriesOf ==
  ASSUME NEW r \in Procs, IsFiniteSet(Senders(r))
  PROVE  /\ Twice(r) => Tries(r) >= MaxTries
         /\ \A b \in Procs : Counted(r) \subseteq {r, b} => Tries(r) <= MaxTries
<1>1. Tries(r) = Cardinality(Counted(r)) /\ IsFiniteSet(Counted(r)) /\ Tries(r) \in Nat
  <2>1. Counted(r) \subseteq Senders(r) /\ Tries(r) = Cardinality(Counted(r))
    BY DEF Tries, Counted
  <2>2. IsFiniteSet(Counted(r))
    BY <2>1, FS_Subset
  <2> QED BY <2>1, <2>2, FS_CardinalityType
<1>3. ASSUME Twice(r) PROVE Tries(r) >= MaxTries
  <2>1. PICK a, b \in Counted(r) : a # b
    BY <1>3 DEF Twice, Full
  <2>2. Cardinality({a, b}) = 2
    <3>1. IsFiniteSet({b}) /\ Cardinality({b}) = 1
      BY FS_Singleton
    <3>2. a \notin {b} /\ {b} \cup {a} = {a, b}
      BY <2>1
    <3>3. Cardinality({b} \cup {a}) = Cardinality({b}) + 1
      BY <3>1, <3>2, FS_AddElement
    <3> QED BY <3>1, <3>2, <3>3
  <2>3. Cardinality({a, b}) <= Cardinality(Counted(r))
    BY <1>1, <2>1, FS_Subset
  <2> QED BY <1>1, <2>2, <2>3 DEF MaxTries
<1>4. ASSUME NEW b \in Procs, Counted(r) \subseteq {r, b} PROVE Tries(r) <= MaxTries
  <2>1. IsFiniteSet({r}) /\ Cardinality({r}) = 1
    BY FS_Singleton
  <2>2. IsFiniteSet({r} \cup {b}) /\ Cardinality({r} \cup {b}) \in {1, 2} /\ {r} \cup {b} = {r, b}
    BY <2>1, FS_AddElement
  <2>3. Cardinality(Counted(r)) <= Cardinality({r, b})
    BY <1>4, <2>2, FS_Subset
  <2> QED BY <1>1, <2>2, <2>3 DEF MaxTries
<1> QED BY <1>3, <1>4

-----------------------------------------------------------------------------
IInv == TypeOK /\ Lists /\ Tokens /\ Places /\ Agree /\ Settling

\* The parts hold together in every reachable state.
LEMMA Invariance == Spec => []IInv
<1>1. Init => IInv
  <2> SUFFICES ASSUME Init PROVE IInv
    OBVIOUS
  <2>1. CommandOK /\ PodOK
    BY DEF Init, CommandOK, PodOK, Ops, PCs, Exits
  <2>2. SessionOK
    <3>1. gen = 0 /\ 0 \in 0 .. gen /\ 0 \in 0 .. MaxExpiries
      BY AccountAssumption DEF Init
    <3>2. file \in [token : 0 .. gen, life : {"fresh", "stale", "dead"}] \cup {NoFile}
      BY <3>1 DEF Init
    <3>3. hold \in [Procs -> 0 .. gen] /\ valid \subseteq 0 .. gen
      BY <3>1 DEF Init
    <3>4. rotates \in BOOLEAN /\ hasKey \in BOOLEAN /\ mislaid \in BOOLEAN
      BY DEF Init
    <3>5. expiries = 0 /\ gen \in Nat
      BY <3>1 DEF Init
    <3> QED BY <3>1, <3>2, <3>3, <3>4, <3>5, Zenon DEF SessionOK
  <2>3. ReportsOK
    BY DEF Init, ReportsOK
  <2>4. Lists
    BY DEF Init, Lists, ListsOf, Waiting, Sending
  <2>5. Tokens
    BY DEF Init, Tokens, SessionSurvives, Unsaved, Presents
  <2>6. Places /\ Agree
    BY DEF Init, Places, Placed, Alone, Running, Agree, Ended
  <2>7. Settling
    <3>1. \A r \in Procs : Senders(r) = {} /\ Unheard(r)
      BY DEF Init, Senders, Unheard
    <3>2. Turns
      BY <3>1 DEF Init, Turns, Waits, Turn, Sending
    <3>3. Once
      BY <3>1 DEF Init, Once, Counted
    <3> QED BY <3>1, <3>2, <3>3, FS_EmptySet DEF Settling
  <2> QED BY <2>1, <2>2, <2>3, <2>4, <2>5, <2>6, <2>7 DEF IInv, TypeOK
<1>2. IInv /\ [Next]_vars => IInv'
  BY CommandStep, SessionStep, ReportsStep, PodStep, ListsStep, TokensStep, PlacesStep,
    AgreeStep, SettlingStep
  DEF IInv, TypeOK
<1> QED BY <1>1, <1>2, PTL DEF Spec

\* Every variable keeps its type.
THEOREM TypeCorrect == Spec => []TypeOK
BY Invariance, PTL DEF IInv

\* The session in token.json outlives any number of commands that refresh, sign in and
\* sign out at once, unless new tokens never reached the file.
THEOREM SessionStaysValid == Spec => []SessionSurvives
<1>1. IInv => SessionSurvives
  BY DEF IInv, Tokens
<1> QED BY <1>1, Invariance, PTL

\* The queue of reports never reaches its cap: it holds one report at most.
THEOREM QueueStaysShort == Spec => []QueueHoldsOne
<1>1. IInv => QueueHoldsOne
  BY DEF IInv, Lists, Waiting, QueueHoldsOne
<1> QED BY <1>1, Invariance, PTL

\* What becomes of the reports of runs that follow one another: a report is dropped only
\* if its own run had no credential; every other one is answered, counted as tried twice,
\* or waits in the queue; none is counted as tried three times, and none is sent after
\* its answer was heard unless a run that sent it lost its credential halfway.
THEOREM ReportsSettle == Spec => []ReportSettled
<1>1. IInv => ReportSettled
  <2> SUFFICES ASSUME IInv, OneAtATime, NEW r \in Procs
               PROVE  /\ Tries(r) <= MaxTries
                      /\ r \in again => \E p \in Senders(r) : NoCredential(p)
                      /\ op[r] = "report" /\ pc[r] = "done" =>
                           IF NoCredential(r) THEN Senders(r) = {} /\ ~Queued(r)
                           ELSE answered[r] # "-" \/ Tries(r) >= MaxTries \/ Queued(r)
    BY DEF ReportSettled
  <2>1. IsFiniteSet(Senders(r)) /\ Turn(r) /\ Waits /\ Once
    BY DEF IInv, Settling, Turns
  <2>2. Tries(r) <= MaxTries
    BY <2>1, TriesOf DEF Once
  <2>3. r \in again => \E p \in Senders(r) : NoCredential(p)
    BY <2>1 DEF Once, Halfway
  <2>4. Queued(r) => Senders(r) # {}
    BY <2>1 DEF Queued, Waits, Senders
  <2>5. Twice(r) => Tries(r) >= MaxTries
    BY <2>1, TriesOf
  <2> QED BY <2>1, <2>2, <2>3, <2>4, <2>5 DEF Turn, Unheard
<1> QED BY <1>1, Invariance, PTL

\* The server's record of the pod and the pod's configuration differ only where a command
\* said so, was killed, was told to leave the pod alone or met another on the pod.
THEOREM HalfDoneTold == Spec => []HalfDoneIsTold
<1>1. IInv => HalfDoneIsTold
  <2> SUFFICES ASSUME IInv, "pod" \notin overlap,
    \A p \in Procs : Running(p) => Kind(op[p]) # "pod",
                      (device = "enabled") # podCfg
               PROVE  Told
    BY DEF HalfDoneIsTold, Told
  <2>1. ASSUME NEW p \in Procs PROVE pc[p] # "pod"
    <3>1. pc[p] = "pod" => Running(p) /\ op[p] \in {"register", "deregister"}
      BY DEF IInv, Places, Placed, Running, Ended
    <3> QED BY <3>1, Kinds DEF Ops
  <2> QED BY <2>1 DEF IInv, Agree
<1> QED BY <1>1, Invariance, PTL
=============================================================================

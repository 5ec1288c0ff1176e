------------------------- MODULE PodSession_proofs -------------------------
(***************************************************************************)
(* Proofs about PodSession, for every set of commands: its type            *)
(* correctness, that a command returns only the reply to its own request,  *)
(* that it loses it only for a reason of its own or through the watcher of *)
(* a command that has returned, and that the session implements            *)
(* RequestReply.                                                           *)
(***************************************************************************)
EXTENDS PodSession, TLAPS

\* The inductive invariant: a reply matches its request because a good session
\* owes nothing but the reply of the command that waits, and that is so because
\* the mutex keeps the others out and only an unbroken session writes.
IInv == TypeOK /\ MutexHeldInside /\ NothingOwed /\ ReplyMatchesRequest

\* No step of the session, a watcher, the pod or the link leaves the types.
LEMMA TypeStep == TypeOK /\ [Next]_vars => TypeOK'
<1> SUFFICES ASSUME TypeOK, [Next]_vars PROVE TypeOK'
  OBVIOUS
<1> USE SessionAssumption DEF TypeOK, context, wire, Goto
<1>1. ASSUME NEW c \in Commands, Acquire(c) PROVE TypeOK'
  BY <1>1 DEF Acquire, PCs
<1>2. ASSUME NEW c \in Commands, Refuse(c) PROVE TypeOK'
  BY <1>2 DEF Refuse, PCs, Results
<1>3. ASSUME NEW c \in Commands, SetDeadline(c) PROVE TypeOK'
  BY <1>3 DEF SetDeadline, PCs
<1>4. ASSUME NEW c \in Commands, StartWatcher(c) PROVE TypeOK'
  BY <1>4 DEF StartWatcher, PCs
<1>5. ASSUME NEW c \in Commands, MarshalFails(c) PROVE TypeOK'
  BY <1>5 DEF MarshalFails, PCs, Results
<1>6. ASSUME NEW c \in Commands, Write(c) PROVE TypeOK'
  BY <1>6 DEF Write, PCs
<1>7. ASSUME NEW c \in Commands, WriteFails(c) PROVE TypeOK'
  BY <1>7 DEF WriteFails, Break, PCs, Results
<1>8. ASSUME NEW c \in Commands, ReadReply(c) PROVE TypeOK'
  <2>1. /\ Head(toCli) \in Replies
        /\ Tail(toCli) \in Seq(Replies)
    BY <1>8 DEF ReadReply
  <2>2. /\ Head(toCli).req \in Commands
        /\ Head(toCli).kind \in Kinds
    BY <2>1 DEF Replies
  <2>3. CASE Head(toCli).kind = "garbled"
    BY <1>8, <2>1, <2>3 DEF ReadReply, Break, PCs, Results
  <2>4. CASE Head(toCli).kind # "garbled"
    <3>1. Head(toCli).kind \in Results
      BY <2>2, <2>4 DEF Kinds, Results
    <3> QED BY <1>8, <2>1, <2>2, <2>4, <3>1 DEF ReadReply, PCs
  <2> QED BY <2>3, <2>4
<1>9. ASSUME NEW c \in Commands, ReadFails(c) PROVE TypeOK'
  BY <1>9 DEF ReadFails, Break, PCs, Results
<1>10. ASSUME NEW c \in Commands, Return(c) PROVE TypeOK'
  BY <1>10 DEF Return, PCs
<1>11. ASSUME NEW c \in Commands, Watch(c) PROVE TypeOK'
  BY <1>11, ZenonT(60) DEF Watch, WatcherWakes, WatcherFires, WatcherStops
<1>12. ASSUME NEW c \in Commands, DeadlinePasses(c) \/ ContextEnds(c) PROVE TypeOK'
  BY <1>12 DEF DeadlinePasses, ContextEnds
<1>13. CASE PodReplies
  <2>1. /\ Head(toPod) \in Commands
        /\ Tail(toPod) \in Seq(Commands)
    BY <1>13 DEF PodReplies
  <2> QED BY <1>13, <2>1 DEF PodReplies, Replies
<1>14. CASE LinkDrops
  BY <1>14 DEF LinkDrops
<1>15. CASE UNCHANGED vars
  BY <1>15 DEF vars
<1> QED
  BY <1>1, <1>2, <1>3, <1>4, <1>5, <1>6, <1>7, <1>8, <1>9, <1>10, <1>11,
     <1>12, <1>13, <1>14, <1>15 DEF Next, RoundTrip

\* A freshly opened session has its types.
LEMMA TypeInit == Init => TypeOK
<1> SUFFICES ASSUME Init PROVE TypeOK
  OBVIOUS
<1>1. toPod \in Seq(Commands) /\ toCli \in Seq(Replies)
  BY DEF Init
<1>2. late \subseteq Timed /\ ended \subseteq Commands
  BY DEF Init
<1> QED BY <1>1, <1>2 DEF Init, TypeOK, PCs, Results

\* Types hold in every reachable state (session.go's fields and the goroutines
\* around them).
THEOREM TypeCorrect == Spec => []TypeOK
BY TypeInit, TypeStep, PTL DEF Spec

-----------------------------------------------------------------------------
\* The mutex is held by exactly the command inside (session.go's Lock and the
\* deferred Unlock), and only a command that saw the session good goes on.
LEMMA MutexStep == TypeOK /\ MutexHeldInside /\ [Next]_vars => MutexHeldInside'
<1> SUFFICES ASSUME TypeOK, MutexHeldInside, [Next]_vars PROVE MutexHeldInside'
  OBVIOUS
<1> USE SessionAssumption DEF TypeOK, MutexHeldInside, Goto
<1>1. ASSUME NEW c \in Commands, Acquire(c) PROVE MutexHeldInside'
  BY <1>1 DEF Acquire
<1>2. ASSUME NEW c \in Commands, Refuse(c) PROVE MutexHeldInside'
  BY <1>2 DEF Refuse
<1>3. ASSUME NEW c \in Commands, SetDeadline(c) PROVE MutexHeldInside'
  BY <1>3 DEF SetDeadline
<1>4. ASSUME NEW c \in Commands, StartWatcher(c) PROVE MutexHeldInside'
  BY <1>4 DEF StartWatcher
<1>5. ASSUME NEW c \in Commands, MarshalFails(c) PROVE MutexHeldInside'
  BY <1>5 DEF MarshalFails
<1>6. ASSUME NEW c \in Commands, Write(c) PROVE MutexHeldInside'
  BY <1>6 DEF Write
<1>7. ASSUME NEW c \in Commands, WriteFails(c) \/ ReadFails(c) PROVE MutexHeldInside'
  BY <1>7 DEF WriteFails, ReadFails, Break
<1>8. ASSUME NEW c \in Commands, ReadReply(c) PROVE MutexHeldInside'
  <2>1. Head(toCli) \in Replies
    BY <1>8 DEF ReadReply
  <2>2. Head(toCli).kind \in Kinds
    BY <2>1 DEF Replies
  <2> QED BY <1>8, <2>2 DEF ReadReply, Break, Kinds
<1>9. ASSUME NEW c \in Commands, Return(c) PROVE MutexHeldInside'
  BY <1>9 DEF Return
<1>10. ASSUME UNCHANGED <<pc, mu, broken, result>> PROVE MutexHeldInside'
  BY <1>10
<1> QED
  BY <1>1, <1>2, <1>3, <1>4, <1>5, <1>6, <1>7, <1>8, <1>9, <1>10
  DEF Next, RoundTrip, Watch, WatcherWakes, WatcherFires, WatcherStops,
      DeadlinePasses, ContextEnds, PodReplies, LinkDrops, vars

-----------------------------------------------------------------------------
\* While nobody waits nothing is owed, so a request goes out on a clean link.
LEMMA WaitingIsOwed ==
  ASSUME TypeOK, NothingOwed, ~broken, NEW c \in Commands, Waiting(c)
  PROVE  \/ toPod = <<c>> /\ toCli = <<>>
         \/ toPod = <<>> /\ \E k \in Kinds : toCli = <<[req |-> c, kind |-> k]>>
BY DEF NothingOwed, Waiting

\* A good session owes the waiting command's reply and no other.
LEMMA OwedStep ==
  TypeOK /\ MutexHeldInside /\ NothingOwed /\ [Next]_vars => NothingOwed'
<1> SUFFICES ASSUME TypeOK, MutexHeldInside, NothingOwed, [Next]_vars, ~broken'
             PROVE  NothingOwed'
  BY DEF NothingOwed
<1> USE SessionAssumption DEF TypeOK, Goto
<1>0. ~broken
  BY DEF Next, RoundTrip, Watch, Acquire, Refuse, SetDeadline, StartWatcher,
         MarshalFails, Write, WriteFails, ReadReply, ReadFails, Return, Break,
         WatcherWakes, WatcherFires, WatcherStops, DeadlinePasses, ContextEnds,
         PodReplies, LinkDrops, vars
<1>1. ASSUME NEW c \in Commands,
             \/ Acquire(c) \/ SetDeadline(c) \/ StartWatcher(c)
             \/ MarshalFails(c) \/ Return(c)
      PROVE  NothingOwed'
  <2>1. \A d \in Commands : ~Waiting(d) /\ ~Waiting(d)'
    BY <1>1 DEF Acquire, SetDeadline, StartWatcher, MarshalFails, Return,
                MutexHeldInside, Waiting
  <2> QED
    BY <1>0, <1>1, <2>1 DEF Acquire, SetDeadline, StartWatcher, MarshalFails,
                            Return, NothingOwed, wire
<1>2. ASSUME NEW c \in Commands, Write(c) PROVE NothingOwed'
  <2>1. \A d \in Commands : ~Waiting(d)
    BY <1>2 DEF Write, MutexHeldInside, Waiting
  <2>2. toPod = <<>> /\ toCli = <<>>
    BY <1>0, <2>1 DEF NothingOwed
  <2>3. toPod' = <<c>> /\ toCli' = <<>>
    BY <1>2, <2>2 DEF Write
  <2>4. Waiting(c)'
    BY <1>2 DEF Write, MutexHeldInside, Waiting
  <2> QED BY <2>3, <2>4 DEF NothingOwed
<1>3. ASSUME NEW c \in Commands, ReadReply(c) PROVE NothingOwed'
  <2>1. Waiting(c)
    BY <1>3 DEF ReadReply, MutexHeldInside, Waiting
  <2>2. PICK k \in Kinds : toPod = <<>> /\ toCli = <<[req |-> c, kind |-> k]>>
    BY <1>0, <1>3, <2>1, WaitingIsOwed DEF ReadReply
  <2>3. toPod' = <<>> /\ toCli' = <<>>
    BY <1>3, <2>2 DEF ReadReply
  <2>4. \A d \in Commands : ~Waiting(d)'
    BY <1>3, <2>1 DEF ReadReply, Waiting
  <2> QED BY <2>3, <2>4 DEF NothingOwed
<1>4. CASE PodReplies
  <2>1. PICK c \in Commands : Waiting(c) /\ toPod = <<c>> /\ toCli = <<>>
    BY <1>0, <1>4 DEF PodReplies, NothingOwed
  <2>2. PICK k \in Kinds : toCli' = Append(toCli, [req |-> Head(toPod), kind |-> k])
    BY <1>4 DEF PodReplies
  <2>3. toPod' = <<>> /\ toCli' = <<[req |-> c, kind |-> k]>>
    BY <1>4, <2>1, <2>2 DEF PodReplies
  <2>4. Waiting(c)'
    BY <1>4, <2>1 DEF PodReplies, Waiting
  <2> QED BY <2>3, <2>4 DEF NothingOwed
<1>5. ASSUME UNCHANGED <<pc, mu, toPod, toCli>> PROVE NothingOwed'
  BY <1>0, <1>5 DEF NothingOwed, Waiting
<1> QED
  BY <1>0, <1>1, <1>2, <1>3, <1>4, <1>5
  DEF Next, RoundTrip, Refuse, WriteFails, ReadFails, Break,
      Watch, WatcherWakes, WatcherFires, WatcherStops,
      DeadlinePasses, ContextEnds, LinkDrops, vars, wire

-----------------------------------------------------------------------------
\* The reply a command reads is the one to its own request.
LEMMA ReplyStep ==
  TypeOK /\ MutexHeldInside /\ NothingOwed /\ ReplyMatchesRequest /\ [Next]_vars
    => ReplyMatchesRequest'
<1> SUFFICES ASSUME TypeOK, MutexHeldInside, NothingOwed, ReplyMatchesRequest,
                    [Next]_vars
             PROVE  ReplyMatchesRequest'
  OBVIOUS
<1> USE SessionAssumption DEF TypeOK, Goto, ReplyMatchesRequest
<1>1. ASSUME NEW c \in Commands, ReadReply(c) PROVE ReplyMatchesRequest'
  <2>1. Waiting(c) /\ ~broken
    BY <1>1 DEF ReadReply, MutexHeldInside, Waiting
  <2>2. PICK k \in Kinds : toPod = <<>> /\ toCli = <<[req |-> c, kind |-> k]>>
    BY <1>1, <2>1, WaitingIsOwed DEF ReadReply
  <2>3. Head(toCli).req = c
    BY <2>2
  <2> QED BY <1>1, <2>3 DEF ReadReply, Break
<1>2. ASSUME NEW c \in Commands,
             Refuse(c) \/ MarshalFails(c) \/ WriteFails(c) \/ ReadFails(c)
      PROVE  ReplyMatchesRequest'
  BY <1>2 DEF Refuse, MarshalFails, WriteFails, ReadFails, Break
<1>3. ASSUME UNCHANGED <<result, got>> PROVE ReplyMatchesRequest'
  BY <1>3
<1> QED
  BY <1>1, <1>2, <1>3
  DEF Next, RoundTrip, Acquire, SetDeadline, StartWatcher, Write, Return,
      Watch, WatcherWakes, WatcherFires, WatcherStops,
      DeadlinePasses, ContextEnds, PodReplies, LinkDrops, vars

-----------------------------------------------------------------------------
\* The invariant of the session, inductive.
LEMMA Invariance == Spec => []IInv
<1>1. Init => IInv
  <2> SUFFICES ASSUME Init PROVE IInv
    OBVIOUS
  <2>1. TypeOK
    BY TypeInit
  <2>2. MutexHeldInside /\ ReplyMatchesRequest
    BY SessionAssumption DEF Init, MutexHeldInside, ReplyMatchesRequest
  <2>3. NothingOwed
    BY DEF Init, NothingOwed, Waiting
  <2> QED BY <2>1, <2>2, <2>3 DEF IInv
<1>2. IInv /\ [Next]_vars => IInv'
  BY TypeStep, MutexStep, OwedStep, ReplyStep DEF IInv
<1> QED BY <1>1, <1>2, PTL DEF Spec

\* Session.Command never returns the reply that another command was owed,
\* whatever the commands, the deadlines, the link and the watchers do.
THEOREM RepliesMatch == Spec => []ReplyMatchesRequest
BY Invariance, PTL DEF IInv

\* A good session's link owes nothing but the waiting command's reply.
THEOREM GoodSessionOwesNothing == Spec => []NothingOwed
BY Invariance, PTL DEF IInv

\* Session.mu is held by exactly the command inside Session.Command.
THEOREM MutexHeld == Spec => []MutexHeldInside
BY Invariance, PTL DEF IInv

-----------------------------------------------------------------------------
\* The deadline a round trip runs under is its own: the one its context has, none
\* when its context has none, or the past, where only a watcher moves it.
Own(c) == IF c \in Timed THEN c ELSE NoCommand

OwnDeadline ==
  \A c \in Commands : pc[c] \in {"bounded", "watched", "sent"} =>
    deadline = Own(c) \/ (deadline = Past /\ \E d \in Commands : watcher[d] = "fired")

\* A watcher is started by a command past its deadline, and fires only when that
\* command's context has ended.
WatcherOfOne ==
  \A d \in Commands :
    /\ watcher[d] # "none" => pc[d] \notin {"new", "locked", "bounded"}
    /\ watcher[d] \in {"firing", "fired"} => d \in ended

LEMMA WatcherStep ==
  TypeOK /\ MutexHeldInside /\ WatcherOfOne /\ [Next]_vars => WatcherOfOne'
<1> SUFFICES ASSUME TypeOK, MutexHeldInside, WatcherOfOne, [Next]_vars
             PROVE  WatcherOfOne'
  OBVIOUS
<1> USE DEF TypeOK, Goto, WatcherOfOne, context
<1>1. ASSUME NEW c \in Commands, \/ Acquire(c) \/ Refuse(c) \/ SetDeadline(c)
                                 \/ MarshalFails(c) \/ Write(c) \/ WriteFails(c)
                                 \/ ReadReply(c) \/ ReadFails(c) \/ Return(c)
      PROVE  WatcherOfOne'
  <2>1. /\ watcher' = watcher
        /\ ended' = ended
    BY <1>1 DEF Acquire, Refuse, SetDeadline, MarshalFails, Write, WriteFails,
                ReadReply, ReadFails, Return
  <2>2. \E from \in PCs, to \in PCs :
          /\ Goto(c, from, to)
          /\ to \in {"new", "locked", "bounded"} => from \in {"new", "locked"}
    BY <1>1 DEF Acquire, Refuse, SetDeadline, MarshalFails, Write, WriteFails,
                ReadReply, ReadFails, Return, PCs
  <2> QED BY <2>1, <2>2
<1>2. ASSUME NEW c \in Commands, StartWatcher(c) PROVE WatcherOfOne'
  BY <1>2 DEF StartWatcher
<1>3. ASSUME NEW c \in Commands, Watch(c) PROVE WatcherOfOne'
  BY <1>3 DEF Watch, WatcherWakes, WatcherFires, WatcherStops
<1>4. ASSUME NEW c \in Commands, ContextEnds(c) PROVE WatcherOfOne'
  BY <1>4 DEF ContextEnds
<1>5. ASSUME UNCHANGED <<pc, watcher, ended>> PROVE WatcherOfOne'
  BY <1>5
<1> QED
  BY <1>1, <1>2, <1>3, <1>4, <1>5
  DEF Next, RoundTrip, DeadlinePasses, PodReplies, LinkDrops, vars

LEMMA DeadlineStep ==
  TypeOK /\ MutexHeldInside /\ WatcherOfOne /\ OwnDeadline /\ [Next]_vars => OwnDeadline'
<1> SUFFICES ASSUME TypeOK, MutexHeldInside, WatcherOfOne, OwnDeadline, [Next]_vars
             PROVE  OwnDeadline'
  OBVIOUS
<1> USE DEF TypeOK, Goto, OwnDeadline, Own
<1>1. ASSUME NEW c \in Commands, \/ Acquire(c) \/ Refuse(c) \/ StartWatcher(c)
                                 \/ MarshalFails(c) \/ Write(c) \/ WriteFails(c)
                                 \/ ReadReply(c) \/ ReadFails(c) \/ Return(c)
      PROVE  OwnDeadline'
  <2>1. /\ deadline' = deadline
        /\ \A d \in Commands : watcher[d] = "fired" => watcher'[d] = "fired"
    <3>1. CASE StartWatcher(c)
      BY <3>1 DEF StartWatcher, WatcherOfOne
    <3> QED BY <1>1, <3>1 DEF Acquire, Refuse, MarshalFails, Write, WriteFails,
                              ReadReply, ReadFails, Return
  <2>2. \A d \in Commands : pc'[d] \in {"bounded", "watched", "sent"} =>
                             pc[d] \in {"bounded", "watched", "sent"}
    BY <1>1 DEF Acquire, Refuse, StartWatcher, MarshalFails, Write, WriteFails,
                ReadReply, ReadFails, Return
  <2> QED BY <2>1, <2>2
<1>2. ASSUME NEW c \in Commands, SetDeadline(c) PROVE OwnDeadline'
  <2>1. \A d \in Commands : pc'[d] \in {"bounded", "watched", "sent"} => d = c
    BY <1>2 DEF SetDeadline, MutexHeldInside
  <2> QED BY <1>2, <2>1 DEF SetDeadline
<1>3. ASSUME NEW c \in Commands, Watch(c) PROVE OwnDeadline'
  BY <1>3 DEF Watch, WatcherWakes, WatcherFires, WatcherStops
<1>4. ASSUME UNCHANGED <<pc, deadline, watcher>> PROVE OwnDeadline'
  BY <1>4
<1> QED
  BY <1>1, <1>2, <1>3, <1>4
  DEF Next, RoundTrip, DeadlinePasses, ContextEnds, PodReplies, LinkDrops, vars

\* A round trip is lost for a reason: Session.Command's deadline is set anew for
\* each, so the only thing of another command that can end it is a watcher that
\* fires after its command returned.
THEOREM LostForItsReason == Spec => LostForAReason
<1>1. Init => WatcherOfOne /\ OwnDeadline
  BY DEF Init, WatcherOfOne, OwnDeadline
<1>2. IInv /\ WatcherOfOne /\ OwnDeadline /\ [Next]_vars => (WatcherOfOne /\ OwnDeadline)'
  BY WatcherStep, DeadlineStep DEF IInv
<1>3. IInv /\ WatcherOfOne /\ OwnDeadline /\ [Next]_vars =>
        [\A c \in Commands :
           (result[c] = "none" /\ result'[c] = "lost") =>
             \/ c \in ended \cup late
             \/ ~link
             \/ toCli # <<>> /\ Head(toCli).kind = "garbled"
             \/ \E d \in Commands : watcher[d] = "fired" /\ pc[d] = "returned"]_vars
  <2> SUFFICES ASSUME IInv, WatcherOfOne, OwnDeadline, [Next]_vars, NEW c \in Commands,
                      result[c] = "none", result'[c] = "lost", link, c \notin ended \cup late,
                      toCli # <<>> => Head(toCli).kind # "garbled"
               PROVE  \E d \in Commands : watcher[d] = "fired" /\ pc[d] = "returned"
    OBVIOUS
  <2> USE DEF IInv, TypeOK, Goto
  <2>1. Expired /\ pc[c] \in {"watched", "sent"}
    <3>1. ASSUME NEW b \in Commands, WriteFails(b) \/ ReadFails(b)
          PROVE  Expired /\ pc[c] \in {"watched", "sent"}
      BY <3>1 DEF WriteFails, ReadFails, Break
    <3>2. ASSUME NEW b \in Commands, ReadReply(b) PROVE FALSE
      <4>1. Head(toCli) \in Replies
        BY <3>2 DEF ReadReply
      <4>2. Head(toCli).kind \in Kinds
        BY <4>1 DEF Replies
      <4> QED BY <3>2, <4>2 DEF ReadReply, Kinds
    <3>3. ASSUME NEW b \in Commands, Refuse(b) \/ MarshalFails(b) PROVE FALSE
      BY <3>3 DEF Refuse, MarshalFails
    <3>4. ASSUME result' = result PROVE FALSE
      BY <3>4
    <3> QED
      BY <3>1, <3>2, <3>3, <3>4
      DEF Next, RoundTrip, Acquire, SetDeadline, StartWatcher, Write, Return, Watch,
          WatcherWakes, WatcherFires, WatcherStops, DeadlinePasses, ContextEnds,
          PodReplies, LinkDrops, vars
  <2>2. Own(c) \notin late /\ Own(c) # Past
    BY SessionAssumption DEF Own
  <2>3. Past \notin late
    BY SessionAssumption
  <2>4. PICK d \in Commands : watcher[d] = "fired"
    BY <2>1, <2>2, <2>3 DEF Expired, OwnDeadline
  <2>5. d # c /\ pc[d] \notin {"new", "locked", "bounded"}
    BY <2>4 DEF WatcherOfOne
  <2>6. pc[d] \in {"new", "returned"}
    BY <2>1, <2>5 DEF MutexHeldInside
  <2> QED BY <2>4, <2>5, <2>6
<1> QED BY <1>1, <1>2, <1>3, Invariance, PTL DEF Spec, LostForAReason

-----------------------------------------------------------------------------
\* The session implements RequestReply: every step of Command that gives its
\* caller a result is a step of the promise, every other step is invisible.
THEOREM Implements == Spec => ImplementsRequestReply
<1>1. Init => RR!Init
  BY DEF Init, RR!Init
<1>2. IInv /\ IInv' /\ [Next]_vars => [RR!Next]_RR!rrVars
  <2> SUFFICES ASSUME IInv, IInv', [Next]_vars PROVE [RR!Next]_RR!rrVars
    OBVIOUS
  <2> USE DEF IInv, TypeOK, Goto, RR!Settle
  <2>1. ASSUME NEW c \in Commands, Refuse(c) PROVE RR!Refuse(c)
    BY <2>1, ZenonT(60) DEF Refuse, RR!Refuse, MutexHeldInside
  <2>2. ASSUME NEW c \in Commands, MarshalFails(c) PROVE RR!Reject(c)
    BY <2>2, ZenonT(60) DEF MarshalFails, RR!Reject, MutexHeldInside
  <2>3. ASSUME NEW c \in Commands, WriteFails(c) \/ ReadFails(c) PROVE RR!Lose(c)
    <3>1. result[c] = "none" /\ ~broken
      BY <2>3 DEF WriteFails, ReadFails, MutexHeldInside
    <3>2. /\ result' = [result EXCEPT ![c] = "lost"]
          /\ got' = got
          /\ broken' = TRUE
      BY <2>3 DEF WriteFails, ReadFails, Break
    <3> QED BY <3>1, <3>2 DEF RR!Lose
  <2>4. ASSUME NEW c \in Commands, ReadReply(c) PROVE RR!Answer(c) \/ RR!Lose(c)
    <3>1. Head(toCli) \in Replies
      BY <2>4 DEF ReadReply
    <3>2. Head(toCli).kind \in Kinds
      BY <3>1 DEF Replies
    <3>3. result[c] = "none" /\ ~broken
      BY <2>4 DEF ReadReply, MutexHeldInside
    <3>4. CASE Head(toCli).kind = "garbled"
      <4>1. /\ result' = [result EXCEPT ![c] = "lost"]
            /\ got' = got
            /\ broken' = TRUE
        BY <2>4, <3>4 DEF ReadReply, Break
      <4>2. RR!Lose(c)
        BY <3>3, <4>1 DEF RR!Lose
      <4> QED BY <4>2
    <3>5. CASE Head(toCli).kind # "garbled"
      <4>1. /\ result' = [result EXCEPT ![c] = Head(toCli).kind]
            /\ got' = [got EXCEPT ![c] = Head(toCli).req]
            /\ broken' = broken
        BY <2>4, <3>5 DEF ReadReply
      <4>2. result'[c] \in {"ok", "error"}
        BY <3>2, <3>5, <4>1 DEF Kinds
      <4>3. got'[c] = c
        BY <4>2 DEF ReplyMatchesRequest
      <4>4. RR!Answer(c)
        BY <3>3, <4>1, <4>2, <4>3, ZenonT(60) DEF RR!Answer
      <4> QED BY <4>4
    <3> QED BY <3>4, <3>5
  <2>5. ASSUME UNCHANGED <<result, got, broken>> PROVE UNCHANGED RR!rrVars
    BY <2>5 DEF RR!rrVars
  <2> QED
    BY <2>1, <2>2, <2>3, <2>4, <2>5
    DEF Next, RoundTrip, Acquire, SetDeadline, StartWatcher, Write, Return,
        Watch, WatcherWakes, WatcherFires, WatcherStops,
        DeadlinePasses, ContextEnds, PodReplies, LinkDrops, vars, RR!Next
<1> QED BY <1>1, <1>2, Invariance, PTL DEF Spec, RR!Spec, ImplementsRequestReply
=============================================================================

----------------------------- MODULE PodSession -----------------------------
(***************************************************************************)
(* tcpclient.Session: one connection to a pod that carries many            *)
(* request/reply round trips.  A Command holds the session's mutex,        *)
(* points the connection's deadline at its context's, starts a watcher     *)
(* goroutine that pushes the deadline into the past when the context ends, *)
(* writes one request line and reads one reply line.  A round trip that    *)
(* fails marks the session broken.                                         *)
(*                                                                         *)
(* The pod and the link are external: the pod answers the requests of a    *)
(* connection in order, one line each, and the link may go down.  A        *)
(* command is its request: the reply records which request it answers.     *)
(***************************************************************************)
EXTENDS Naturals, Sequences

CONSTANTS Commands,    \* the calls of Session.Command, by any goroutine
          Timed,       \* those whose context has a deadline
          NoCommand,   \* no command, no deadline
          Past         \* a deadline that has passed

ASSUME SessionAssumption ==
  /\ Timed \subseteq Commands
  /\ NoCommand \notin Commands
  /\ Past \notin Commands \cup {NoCommand}

VARIABLES
  pc,         \* where each command is
  mu,         \* Session.mu: the command that holds it
  broken,     \* Session.broken # nil
  result,     \* what each command returned
  got,        \* the request whose reply each command returned
  deadline,   \* the connection's deadline: a command's, none, or past
  late,       \* the commands whose deadline the clock has passed
  ended,      \* the commands whose context is done
  watcher,    \* the watchContext goroutine of each command
  toPod,      \* request lines the pod has not read
  toCli,      \* reply lines the client has not read
  link        \* the connection is up

vars == <<pc, mu, broken, result, got, deadline, late, ended, watcher,
          toPod, toCli, link>>

wire    == <<toPod, toCli, link>>
context == <<late, ended>>

PCs     == {"new", "locked", "bounded", "watched", "sent", "returning", "returned"}
Results == {"none", "ok", "error", "unsent", "lost", "refused"}
Kinds   == {"ok", "error", "garbled"}
Replies == [req : Commands, kind : Kinds]

TypeOK ==
  /\ pc \in [Commands -> PCs]
  /\ mu \in Commands \cup {NoCommand}
  /\ broken \in BOOLEAN
  /\ result \in [Commands -> Results]
  /\ got \in [Commands -> Commands \cup {NoCommand}]
  /\ deadline \in Commands \cup {NoCommand, Past}
  /\ late \subseteq Timed
  /\ ended \subseteq Commands
  /\ watcher \in [Commands -> {"none", "waiting", "firing", "fired", "stopped"}]
  /\ toPod \in Seq(Commands)
  /\ toCli \in Seq(Replies)
  /\ link \in BOOLEAN

Init ==
  /\ pc = [c \in Commands |-> "new"]
  /\ mu = NoCommand
  /\ broken = FALSE
  /\ result = [c \in Commands |-> "none"]
  /\ got = [c \in Commands |-> NoCommand]
  /\ deadline = NoCommand
  /\ late = {}
  /\ ended = {}
  /\ watcher = [c \in Commands |-> "none"]
  /\ toPod = <<>>
  /\ toCli = <<>>
  /\ link = TRUE

-----------------------------------------------------------------------------
(* The calling goroutine.                                                  *)

Goto(c, from, to) == pc[c] = from /\ pc' = [pc EXCEPT ![c] = to]

\* The connection's deadline has passed: I/O on it fails at once.
Expired == deadline = Past \/ deadline \in late

\* Mutant: no mutex around the round trip.
AcquireUnlocked(c) ==
  /\ Goto(c, "new", "locked")
  /\ mu' = c
  /\ UNCHANGED <<broken, result, got, deadline, watcher, context, wire>>

Acquire(c) ==
  /\ mu = NoCommand
  /\ Goto(c, "new", "locked")
  /\ mu' = c
  /\ UNCHANGED <<broken, result, got, deadline, watcher, context, wire>>

Refuse(c) ==
  /\ broken
  /\ Goto(c, "locked", "returning")
  /\ result' = [result EXCEPT ![c] = "refused"]
  /\ UNCHANGED <<mu, broken, got, deadline, watcher, context, wire>>

\* Mutant: Command does not look at broken.
SetDeadlineAnyway(c) ==
  /\ Goto(c, "locked", "bounded")
  /\ deadline' = IF c \in Timed THEN c ELSE NoCommand
  /\ UNCHANGED <<mu, broken, result, got, watcher, context, wire>>

\* Mutant: a context without a deadline leaves the connection's as it is.
SetDeadlineLeft(c) ==
  /\ ~broken
  /\ Goto(c, "locked", "bounded")
  /\ deadline' = IF c \in Timed THEN c ELSE deadline
  /\ UNCHANGED <<mu, broken, result, got, watcher, context, wire>>

SetDeadline(c) ==
  /\ ~broken
  /\ Goto(c, "locked", "bounded")
  /\ deadline' = IF c \in Timed THEN c ELSE NoCommand
  /\ UNCHANGED <<mu, broken, result, got, watcher, context, wire>>

\* Mutant: Command relies on the deadline alone.
StartNoWatcher(c) ==
  /\ Goto(c, "bounded", "watched")
  /\ UNCHANGED <<mu, broken, result, got, deadline, watcher, context, wire>>

StartWatcher(c) ==
  /\ Goto(c, "bounded", "watched")
  /\ watcher' = [watcher EXCEPT ![c] = "waiting"]
  /\ UNCHANGED <<mu, broken, result, got, deadline, context, wire>>

\* json.Marshal failed: the request was never sent, the session is still good.
MarshalFails(c) ==
  /\ Goto(c, "watched", "returning")
  /\ result' = [result EXCEPT ![c] = "unsent"]
  /\ UNCHANGED <<mu, broken, got, deadline, watcher, context, wire>>

Write(c) ==
  /\ ~Expired
  /\ Goto(c, "watched", "sent")
  /\ toPod' = Append(toPod, c)
  /\ UNCHANGED <<mu, broken, result, got, deadline, watcher, context, toCli, link>>

\* The round trip of c failed: sessionErr is kept in Session.broken.
Break(c) ==
  /\ result' = [result EXCEPT ![c] = "lost"]
  /\ broken' = TRUE

\* A failed write leaves at most a partial line, which the pod never dispatches.
WriteFails(c) ==
  /\ Expired \/ ~link
  /\ Goto(c, "watched", "returning")
  /\ Break(c)
  /\ UNCHANGED <<mu, got, deadline, watcher, context, wire>>

ReadReply(c) ==
  /\ toCli # <<>>
  /\ Goto(c, "sent", "returning")
  /\ toCli' = Tail(toCli)
  /\ IF Head(toCli).kind = "garbled"
     THEN Break(c) /\ UNCHANGED got
     ELSE /\ result' = [result EXCEPT ![c] = Head(toCli).kind]
          /\ got' = [got EXCEPT ![c] = Head(toCli).req]
          /\ UNCHANGED broken
  /\ UNCHANGED <<mu, deadline, watcher, context, toPod, link>>

\* Mutant: a failed read leaves the session unbroken.
ReadFailsUnbroken(c) ==
  /\ Expired \/ ~link
  /\ Goto(c, "sent", "returning")
  /\ result' = [result EXCEPT ![c] = "lost"]
  /\ UNCHANGED <<mu, broken, got, deadline, watcher, context, wire>>

ReadFails(c) ==
  /\ Expired \/ ~link
  /\ Goto(c, "sent", "returning")
  /\ Break(c)
  /\ UNCHANGED <<mu, got, deadline, watcher, context, wire>>

\* The deferred calls: close the watcher's done channel, unlock.  Nothing waits
\* for the watcher goroutine to have seen it.
Return(c) ==
  /\ Goto(c, "returning", "returned")
  /\ mu' = NoCommand
  /\ UNCHANGED <<broken, result, got, deadline, watcher, context, wire>>

-----------------------------------------------------------------------------
(* The watcher goroutine of c.  It may run long after c returned: a        *)
(* goroutine that has not reached its select finds both channels ready and *)
(* may take either, and one that took ctx.Done has yet to move the         *)
(* deadline.                                                               *)

WatcherWakes(c) ==
  /\ watcher[c] = "waiting"
  /\ c \in ended
  /\ watcher' = [watcher EXCEPT ![c] = "firing"]
  /\ UNCHANGED <<pc, mu, broken, result, got, deadline, context, wire>>

WatcherFires(c) ==
  /\ watcher[c] = "firing"
  /\ watcher' = [watcher EXCEPT ![c] = "fired"]
  /\ deadline' = Past
  /\ UNCHANGED <<pc, mu, broken, result, got, context, wire>>

WatcherStops(c) ==
  /\ watcher[c] = "waiting"
  /\ pc[c] = "returned"
  /\ watcher' = [watcher EXCEPT ![c] = "stopped"]
  /\ UNCHANGED <<pc, mu, broken, result, got, deadline, context, wire>>

-----------------------------------------------------------------------------
(* Contexts, the clock, the pod and the link.                              *)

\* The clock passes c's deadline; the context itself reports it a moment later.
DeadlinePasses(c) ==
  /\ c \in Timed \ late
  /\ late' = late \cup {c}
  /\ UNCHANGED <<pc, mu, broken, result, got, deadline, ended, watcher, wire>>

\* c's context is done: its deadline, Ctrl-C, or the cancel of the caller
\* (spiflash.Pod.call) once c has returned.
ContextEnds(c) ==
  /\ c \notin ended
  /\ ended' = ended \cup {c}
  /\ UNCHANGED <<pc, mu, broken, result, got, deadline, late, watcher, wire>>

PodReplies ==
  /\ link
  /\ toPod # <<>>
  /\ toPod' = Tail(toPod)
  /\ \E k \in Kinds : toCli' = Append(toCli, [req |-> Head(toPod), kind |-> k])
  /\ UNCHANGED <<pc, mu, broken, result, got, deadline, context, watcher, link>>

\* The pod drops the connection, the network does, or Session.Close is called.
LinkDrops ==
  /\ link
  /\ link' = FALSE
  /\ UNCHANGED <<pc, mu, broken, result, got, deadline, context, watcher, toPod, toCli>>

-----------------------------------------------------------------------------
\* The steps of a command that holds the mutex.
RoundTrip(c) ==
  \/ Refuse(c) \/ SetDeadline(c) \/ StartWatcher(c)
  \/ MarshalFails(c) \/ Write(c) \/ WriteFails(c)
  \/ ReadReply(c) \/ ReadFails(c) \/ Return(c)

Watch(c) == WatcherWakes(c) \/ WatcherFires(c) \/ WatcherStops(c)

Next ==
  \/ \E c \in Commands :
       \/ Acquire(c) \/ RoundTrip(c) \/ Watch(c)
       \/ DeadlinePasses(c) \/ ContextEnds(c)
  \/ PodReplies
  \/ LinkDrops

\* Goroutines run; nothing is asked of the pod, the link, the clock or the user.
Fairness ==
  \A c \in Commands : WF_vars(RoundTrip(c)) /\ WF_vars(Watch(c))

Spec     == Init /\ [][Next]_vars
FairSpec == Spec /\ Fairness

-----------------------------------------------------------------------------
(* Properties.                                                             *)

\* A command that returns a reply returns the reply to its own request, never
\* one an earlier command on the connection was still owed.
ReplyMatchesRequest ==
  \A c \in Commands : result[c] \in {"ok", "error"} => got[c] = c

\* The link owes at most one reply while the session is good: exactly the one of
\* the command that has written and not read, nothing when nobody is waiting.
Waiting(c) == mu = c /\ pc[c] = "sent"

NothingOwed ==
  ~broken =>
    \/ toPod = <<>> /\ toCli = <<>> /\ \A c \in Commands : ~Waiting(c)
    \/ \E c \in Commands :
         /\ Waiting(c)
         /\ \/ toPod = <<c>> /\ toCli = <<>>
            \/ /\ toPod = <<>>
               /\ \E k \in Kinds : toCli = <<[req |-> c, kind |-> k]>>

\* The mutex is held by exactly the command that is inside, only commands that
\* got past the broken check are between its steps, and only commands that are
\* done have a result.
MutexHeldInside ==
  \A c \in Commands :
    /\ mu = c <=> pc[c] \notin {"new", "returned"}
    /\ pc[c] \in {"bounded", "watched", "sent"} => ~broken
    /\ result[c] = "none" <=> pc[c] \notin {"returning", "returned"}

\* The session is what RequestReply promises.
RR == INSTANCE RequestReply WITH
        outcome <- [c \in Commands |->
                      CASE result[c] = "none"                        -> "pending"
                        [] result[c] \in {"ok", "error"} /\ got[c] = c -> "answered"
                        [] OTHER                                     -> "failed"],
        dead <- broken
ImplementsRequestReply == RR!Spec

\* A command whose context ends, or whose deadline passes, while it writes or
\* waits for its reply returns, even when the pod never answers: the deadline it
\* set cannot overwrite the one its watcher moved.
EndedContextUnblocks ==
  \A c \in Commands :
    (pc[c] \in {"bounded", "watched", "sent"} /\ c \in ended \cup late)
      ~> (pc[c] = "returned")

\* A command loses its reply only when its own context ended, the link went down,
\* the reply was not a reply, or the watcher of a command that had returned moved
\* the connection's deadline late (client.go:245): no deadline of another command,
\* passed or not, outlives that command.
LostForAReason ==
  [][\A c \in Commands :
       (result[c] = "none" /\ result'[c] = "lost") =>
         \/ c \in ended \cup late
         \/ ~link
         \/ toCli # <<>> /\ Head(toCli).kind = "garbled"
         \/ \E d \in Commands : watcher[d] = "fired" /\ pc[d] = "returned"]_vars

\* Session.Command's doc: "ctx bounds this round trip only."  A command loses its
\* reply only when its own context ended, the link went down, or the reply was
\* not a reply.
OwnContextOnly ==
  [][\A c \in Commands :
       (result[c] = "none" /\ result'[c] = "lost") =>
         \/ c \in ended \cup late
         \/ ~link
         \/ toCli # <<>> /\ Head(toCli).kind = "garbled"]_vars
=============================================================================

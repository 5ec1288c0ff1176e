------------------------------- MODULE Account -------------------------------
(***************************************************************************)
(* The account side of the CLI: the sign-in in token.json, the firmware    *)
(* reports and their queue firmware-reports.jsonl, register and deregister.*)
(*                                                                         *)
(* Each process runs one command, at any time: processes share the two     *)
(* files, the account's server and the pod.  token.json is replaced by a   *)
(* rename; the queue is truncated and then written.  Whether a refresh     *)
(* ends the token it used is the server's choice.  There is one pod and    *)
(* one account, so one device record: registering again revives it.        *)
(***************************************************************************)
EXTENDS Naturals, Sequences, FiniteSets

CONSTANTS
  Procs,
  NoFile,
  MaxExpiries,    \* bound: how often the saved tokens age
  MaxAtOnce,      \* bound: the commands running at the same time
  Mixes           \* bound: the sets of commands that meet in one behaviour

ASSUME AccountAssumption ==
  MaxExpiries \in Nat /\ MaxAtOnce \in Nat /\ Mixes \subseteq SUBSET STRING

VARIABLES
  op, sel, leave,       \* each process's command; how deregister finds the pod, --keep-pod-config
  pc, exit,             \* where it is; how it ended: well, or where it failed
  hold,                 \* the refresh token it loaded or was just given
  pend, keep,           \* reportFirmware's lists
  file,                 \* token.json
  valid, gen, rotates,  \* the server: its refresh tokens, and whether a use ends one
  hasKey,               \* BENCHPOD_API_KEY is set
  expiries,
  mislaid,              \* new tokens were issued and never saved
  queue,                \* firmware-reports.jsonl
  answered,             \* each report: the answer that was heard
  sent,                 \* the reports each run sent
  again,                \* reports sent after their answer had been heard
  overlap,              \* the kinds of command that ran at the same time as another such
  device, podCfg        \* the server's record, and whether the pod holds a cloud configuration

proc    == <<op, sel, leave, pc, exit, hold, pend, keep>>
session == <<file, valid, gen, mislaid>>
reports == <<queue, answered, sent, again>>
pod     == <<device, podCfg>>
fixed   == <<rotates, hasKey>>
vars    == <<proc, session, expiries, reports, overlap, pod, fixed>>

MaxTries == 2     \* reportFirmware: a send, and one more
QueueMax == 20    \* fwReportQueueMax

Ops    == {"report", "register", "deregister", "login", "logout"}
Ended  == {"done", "killed"}
Kind(o) == CASE o = "report" -> "queue" [] o \in {"register", "deregister"} -> "pod" [] OTHER -> "session"
Running(p) == pc[p] \notin Ended \cup {"idle"}

QueuedEvent == [event : Procs, tries : 0 .. MaxTries]

PCs == {"idle", "cred", "refresh", "save", "read", "post", "write", "fill", "identity", "list",
        "device", "pod", "session", "approve", "remove", "done", "killed"}
Exits == {"-", "ok", "signedout", "cred", "offline", "login", "unwritten", "identity", "list",
          "found", "device", "pod", "warned", "notconnected"}

CommandOK ==
  /\ op \in [Procs -> Ops \cup {"-"}]
  /\ sel \in [Procs -> {"pod", "name", "id"}] /\ leave \in [Procs -> BOOLEAN]
  /\ pc \in [Procs -> PCs] /\ exit \in [Procs -> Exits]
  /\ overlap \subseteq {"queue", "pod", "session"}

SessionOK ==
  /\ gen \in Nat /\ valid \subseteq 0 .. gen /\ rotates \in BOOLEAN /\ hasKey \in BOOLEAN
  /\ file \in [token : 0 .. gen, life : {"fresh", "stale", "dead"}] \cup {NoFile}
  /\ hold \in [Procs -> 0 .. gen]
  /\ expiries \in 0 .. MaxExpiries /\ mislaid \in BOOLEAN

ReportsOK ==
  /\ pend \in [Procs -> Seq(QueuedEvent)] /\ keep \in [Procs -> Seq(QueuedEvent)]
  /\ queue \in Seq(QueuedEvent)
  /\ answered \in [Procs -> {"-", "accepted", "rejected"}]
  /\ sent \in [Procs -> SUBSET Procs] /\ again \subseteq Procs

PodOK == device \in {"none", "enabled", "disabled"} /\ podCfg \in BOOLEAN

TypeOK == CommandOK /\ SessionOK /\ ReportsOK /\ PodOK

Init ==
  /\ op = [p \in Procs |-> "-"] /\ sel = [p \in Procs |-> "pod"] /\ leave = [p \in Procs |-> FALSE]
  /\ pc = [p \in Procs |-> "idle"] /\ exit = [p \in Procs |-> "-"]
  /\ hold = [p \in Procs |-> 0]
  /\ pend = [p \in Procs |-> <<>>] /\ keep = [p \in Procs |-> <<>>]
  /\ file \in {NoFile, [token |-> 0, life |-> "fresh"]}
  /\ valid = {0} /\ gen = 0 /\ rotates \in BOOLEAN /\ hasKey \in BOOLEAN
  /\ expiries = 0 /\ mislaid = FALSE
  /\ queue = <<>>
  /\ answered = [p \in Procs |-> "-"] /\ sent = [p \in Procs |-> {}] /\ again = {}
  /\ overlap = {}
  /\ device \in {"none", "enabled"} /\ podCfg = (device = "enabled")

Goto(p, l) == pc' = [pc EXCEPT ![p] = l]
End(p, r)  == Goto(p, "done") /\ exit' = [exit EXCEPT ![p] = r]
Go(p, l)   == Goto(p, l) /\ UNCHANGED exit

FirstStep == [report |-> "read", register |-> "cred", deregister |-> "cred",
              login |-> "session", logout |-> "remove"]

Start(p) ==
  /\ pc[p] = "idle" /\ Cardinality({q \in Procs : Running(q)}) < MaxAtOnce
  /\ \E o \in Ops :
       /\ op' = [op EXCEPT ![p] = o]
       /\ \E m \in Mixes : \A q \in Procs : op'[q] \in m \cup {"-"}
       /\ Go(p, FirstStep[o])
       /\ overlap' = overlap \cup {Kind(op[q]) : q \in {r \in Procs : Running(r) /\ Kind(op[r]) = Kind(o)}}
       /\ \E s \in {"pod", "name", "id"}, k \in BOOLEAN :
            /\ o # "deregister" => s = "pod" /\ ~k
            /\ s # "pod" => ~k
            /\ sel' = [sel EXCEPT ![p] = s] /\ leave' = [leave EXCEPT ![p] = k]
  /\ UNCHANGED <<hold, pend, keep, session, expiries, reports, pod, fixed>>

-----------------------------------------------------------------------------
(* The sign-in: ensureTokens, cloudCredential, credentialFor.              *)

\* Where a command goes on once it has its credential.
Onward(p) ==
  CASE op[p] = "report" -> "post"
    [] op[p] = "register" -> "identity"
    [] OTHER -> CASE sel[p] = "pod" -> "identity" [] sel[p] = "name" -> "list" [] OTHER -> "device"

\* register takes the session only; the others an API key first.
UsesKey(p) == hasKey /\ op[p] # "register"

\* AccessExpired and RefreshExpired.
Life == IF file = NoFile THEN "dead" ELSE file.life

Credential(p) ==
  /\ pc[p] = "cred"
  /\ \/ /\ UsesKey(p) \/ Life = "fresh"
        /\ Go(p, Onward(p)) /\ UNCHANGED hold
     \/ /\ ~UsesKey(p) /\ Life = "stale"
        /\ hold' = [hold EXCEPT ![p] = file.token]
        /\ Go(p, "refresh")
     \/ /\ ~UsesKey(p) /\ Life = "dead"
        /\ End(p, "signedout") /\ UNCHANGED hold
  /\ UNCHANGED <<op, sel, leave, pend, keep, session, expiries, reports, overlap, pod, fixed>>

\* The server issues a token for one it still takes.
Issue(t) ==
  /\ gen' = gen + 1
  /\ valid' = (IF rotates THEN valid \ {t} ELSE valid) \cup {gen + 1}

Refresh(p) ==
  /\ pc[p] = "refresh"
  /\ \/ /\ hold[p] \in valid /\ Issue(hold[p])
        /\ \/ hold' = [hold EXCEPT ![p] = gen + 1] /\ Go(p, "save") /\ UNCHANGED mislaid
           \/ End(p, "cred") /\ mislaid' = TRUE /\ UNCHANGED hold     \* the reply is lost
     \/ /\ \/ hold[p] \notin valid /\ End(p, "cred")
           \/ End(p, "offline")
        /\ UNCHANGED <<valid, gen, mislaid, hold>>
  /\ UNCHANGED <<op, sel, leave, pend, keep, file, expiries, reports, overlap, pod, fixed>>

\* Mutant: the refreshed tokens are used and not stored.
StoreNothing(t) == UNCHANGED file

\* authstore.Save: a temporary file renamed over the old one.
Store(t) == file' = [token |-> t, life |-> "fresh"]

\* saveTokensFromResponse.
SaveTokens(p) ==
  /\ pc[p] = "save"
  /\ \/ /\ Store(hold[p])
        /\ IF op[p] = "login" THEN End(p, "ok") ELSE Go(p, Onward(p))
        /\ UNCHANGED mislaid
     \/ /\ End(p, "cred") /\ UNCHANGED file
        /\ mislaid' = (mislaid \/ op[p] # "login")
  /\ UNCHANGED <<op, sel, leave, hold, pend, keep, valid, gen, expiries, reports, overlap, pod, fixed>>

\* login without --force does nothing while a session is usable.
CheckSession(p) ==
  /\ pc[p] = "session"
  /\ \/ Life # "dead" /\ End(p, "ok")
     \/ Go(p, "approve")
  /\ UNCHANGED <<op, sel, leave, hold, pend, keep, session, expiries, reports, overlap, pod, fixed>>

\* runLogin: pending polls change nothing; the code is approved, or it is not.
Approve(p) ==
  /\ pc[p] = "approve"
  /\ \/ /\ gen' = gen + 1 /\ valid' = valid \cup {gen + 1}
        /\ hold' = [hold EXCEPT ![p] = gen + 1]
        /\ Go(p, "save")
     \/ End(p, "login") /\ UNCHANGED <<gen, valid, hold>>
  /\ UNCHANGED <<op, sel, leave, pend, keep, file, mislaid, expiries, reports, overlap, pod, fixed>>

Logout(p) ==
  /\ pc[p] = "remove"
  /\ file' = NoFile
  /\ End(p, "ok")
  /\ UNCHANGED <<op, sel, leave, hold, pend, keep, valid, gen, mislaid, expiries, reports, overlap, pod, fixed>>

-----------------------------------------------------------------------------
(* reportFirmware.  A process's own report carries its name.               *)

Own(p) == [event |-> p, tries |-> 0]

\* Mutant: what earlier runs left is not read.
PendingOwn(p) == <<Own(p)>>

Pending(p) == Append(queue, Own(p))

ReadQueue(p) ==
  /\ pc[p] = "read"
  /\ pend' = [pend EXCEPT ![p] = Pending(p)]
  /\ Go(p, "cred")
  /\ UNCHANGED <<op, sel, leave, hold, keep, session, expiries, reports, overlap, pod, fixed>>

\* Mutant: a report is tried a third time.
KeptOneMore(q) == IF q.tries < MaxTries THEN <<[q EXCEPT !.tries = @ + 1]>> ELSE <<>>

\* A failed send is kept for one more try.
Kept(q) == IF q.tries + 1 < MaxTries THEN <<[q EXCEPT !.tries = @ + 1]>> ELSE <<>>

\* An answer settles a report.
Answered(q) == <<>>

\* fwReportPost, and what becomes of the report.  2xx and 4xx are answers; one that is
\* not heard, a 5xx and a 429 are not.
Post(p) ==
  LET q == Head(pend[p]) IN
  /\ pc[p] = "post"
  /\ sent' = [sent EXCEPT ![p] = @ \cup {q.event}]
  /\ again' = IF answered[q.event] = "-" THEN again ELSE again \cup {q.event}
  /\ \/ /\ \E r \in {"accepted", "rejected"} : answered' = [answered EXCEPT ![q.event] = r]
        /\ keep' = [keep EXCEPT ![p] = @ \o Answered(q)]
     \/ /\ keep' = [keep EXCEPT ![p] = @ \o Kept(q)]
        /\ UNCHANGED answered
  /\ pend' = [pend EXCEPT ![p] = Tail(@)]
  /\ Go(p, IF Len(pend[p]) = 1 THEN "write" ELSE "cred")
  /\ UNCHANGED <<op, sel, leave, hold, session, expiries, queue, overlap, pod, fixed>>

\* writeFWQueue: nothing to keep removes the file, and os.WriteFile empties it first.
WriteQueue(p) ==
  /\ pc[p] = "write"
  /\ \/ /\ queue' = <<>>
        /\ IF keep[p] = <<>> THEN End(p, "ok") ELSE Go(p, "fill")
     \/ End(p, "unwritten") /\ UNCHANGED queue
  /\ UNCHANGED <<op, sel, leave, hold, pend, keep, session, expiries, answered, sent, again, overlap, pod, fixed>>

\* The newest QueueMax.
Capped(k) == IF Len(k) > QueueMax THEN SubSeq(k, Len(k) - QueueMax + 1, Len(k)) ELSE k

FillQueue(p) ==
  /\ pc[p] = "fill"
  /\ \/ queue' = Capped(keep[p]) /\ End(p, "ok")
     \/ End(p, "unwritten") /\ UNCHANGED queue
  /\ UNCHANGED <<op, sel, leave, hold, pend, keep, session, expiries, answered, sent, again, overlap, pod, fixed>>

-----------------------------------------------------------------------------
(* runRegister and runDeregister.                                          *)

\* IdentityPublic.
Identity(p) ==
  /\ pc[p] = "identity"
  /\ \/ Go(p, IF op[p] = "register" THEN "device" ELSE "list")
     \/ End(p, "identity")
  /\ UNCHANGED <<op, sel, leave, hold, pend, keep, session, expiries, reports, overlap, pod, fixed>>

\* ListDevices leaves out a deregistered device; findDeviceToDeregister does not guess.
List(p) ==
  /\ pc[p] = "list"
  /\ \/ device = "enabled" /\ Go(p, "device")
     \/ device # "enabled" /\ End(p, "found")
     \/ End(p, "list")
  /\ UNCHANGED <<op, sel, leave, hold, pend, keep, session, expiries, reports, overlap, pod, fixed>>

ClearsPod(p) == sel[p] = "pod" /\ ~leave[p]

\* RegisterDevice, DeregisterDevice: the record is made, revived or disabled; the
\* answer may be lost, or the call may fail.
Device(p) ==
  /\ pc[p] = "device"
  /\ \/ /\ op[p] = "register" \/ device # "none"
        /\ device' = IF op[p] = "register" THEN "enabled" ELSE "disabled"
        /\ \/ IF op[p] = "register" \/ ClearsPod(p) THEN Go(p, "pod") ELSE End(p, "ok")
           \/ End(p, "device")
     \/ End(p, "device") /\ UNCHANGED device
  /\ UNCHANGED <<op, sel, leave, hold, pend, keep, session, expiries, reports, overlap, podCfg, fixed>>

\* Mutant: a cloud_clear that failed is not reported.
QuietPodFailure(p) == IF op[p] = "register" THEN "pod" ELSE "ok"

\* register fails with the pod; deregister only warns.
PodFailure(p) == IF op[p] = "register" THEN "pod" ELSE "warned"

\* cloud_set, after which register waits for the pod to connect, and cloud_clear.
PodSide(p) ==
  /\ pc[p] = "pod"
  /\ \/ /\ podCfg' = (op[p] = "register")
        /\ \E r \in {"ok", PodFailure(p)} \cup (IF op[p] = "register" THEN {"notconnected"} ELSE {}) : End(p, r)
     \/ End(p, PodFailure(p)) /\ UNCHANGED podCfg
  /\ UNCHANGED <<op, sel, leave, hold, pend, keep, session, expiries, reports, overlap, device, fixed>>

-----------------------------------------------------------------------------
(* The rest of the world.                                                  *)

Kill(p) ==
  /\ Running(p)
  /\ Goto(p, "killed")
  /\ mislaid' = (mislaid \/ (pc[p] = "save" /\ op[p] # "login"))
  /\ UNCHANGED <<op, sel, leave, exit, hold, pend, keep, file, valid, gen, expiries, reports, overlap, pod, fixed>>

\* Time: the access token expires, then the refresh token.
Age ==
  /\ Life # "dead" /\ expiries < MaxExpiries
  /\ file' = [file EXCEPT !.life = IF @ = "fresh" THEN "stale" ELSE "dead"]
  /\ expiries' = expiries + 1
  /\ UNCHANGED <<proc, valid, gen, mislaid, reports, overlap, pod, fixed>>

Next ==
  \/ \E p \in Procs :
       \/ Start(p) \/ Credential(p) \/ Refresh(p) \/ SaveTokens(p)
       \/ CheckSession(p) \/ Approve(p) \/ Logout(p)
       \/ ReadQueue(p) \/ Post(p) \/ WriteQueue(p) \/ FillQueue(p)
       \/ Identity(p) \/ List(p) \/ Device(p) \/ PodSide(p)
       \/ Kill(p)
  \/ Age

Spec == Init /\ [][Next]_vars

-----------------------------------------------------------------------------
(* Properties.                                                             *)

\* ensureTokens with authstore.Save: whatever commands run at once, and whether or not
\* the server ends a refresh token it has seen, the session in token.json is one the
\* server still takes, unless new tokens were issued and never arrived or were never
\* saved.  Between a refresh and its save the file is behind.
SessionSurvives ==
  file # NoFile /\ ~mislaid /\ (\A p \in Procs : pc[p] = "save" => op[p] = "login")
    => file.token \in valid

\* reportFirmware: a run's queue holds its own report at most, in any interleaving, so
\* the cap of fwReportQueueMax is never reached and nothing is dropped for it.
QueueHoldsOne == Len(queue) <= 1

\* A run that has no credential returns and leaves the queue as it was: signed out, or a
\* refresh that was refused, not answered or not saved.
NoCredential(p) == op[p] = "report" /\ exit[p] \in {"signedout", "cred", "offline"}

Queued(r)  == \E i \in DOMAIN queue : queue[i].event = r
Senders(r) == {p \in Procs : r \in sent[p]}

\* The sends that counted as a try: a run without a credential writes no queue.
Tries(r) == Cardinality({p \in Senders(r) : ~NoCredential(p)})

\* Commands that report ran one after the other, to their end.
OneAtATime ==
  /\ "queue" \notin overlap
  /\ \A p \in Procs : op[p] = "report" => pc[p] # "killed" /\ exit[p] # "unwritten"

\* "Keeps a report that could not be sent for one more try on a later run"
\* (fwreport.go:27): once its run is over, a report is answered, or counted as tried
\* twice, or waits in the queue.  The one report that is dropped is that of a run
\* without a credential, at the start of the list or halfway: it was neither sent nor
\* kept.  No report is counted as tried three times, and one is sent again after its
\* answer was heard only if a run that sent it lost its credential halfway.
ReportSettled == OneAtATime =>
  \A r \in Procs :
    /\ Tries(r) <= MaxTries
    /\ r \in again => \E p \in Senders(r) : NoCredential(p)
    /\ op[r] = "report" /\ pc[r] = "done" =>
         IF NoCredential(r) THEN Senders(r) = {} /\ ~Queued(r)
         ELSE answered[r] # "-" \/ Tries(r) >= MaxTries \/ Queued(r)

\* The server's record and the pod's configuration differ only if some command said so
\* (it failed past the point of no return, or warned), was killed, was told to leave the
\* pod alone, or ran at the same time as another on the pod.
HalfDoneIsTold ==
  "pod" \notin overlap /\ (\A p \in Procs : Running(p) => Kind(op[p]) # "pod")
    /\ (device = "enabled") # podCfg
    => \E p \in Procs :
         \/ exit[p] \in {"device", "pod", "warned"} \/ pc[p] = "killed"
         \/ op[p] = "deregister" /\ ~ClearsPod(p)

\* README: a report that could not be sent because the computer is offline is kept for
\* one more try; only without a sign-in is nothing kept.
OfflineReportKept ==
  OneAtATime =>
    \A p \in Procs : op[p] = "report" /\ exit[p] = "offline" => Queued(p)

\* The warning of deregister: "re-run with the pod reachable".  A second deregister that
\* failed nowhere leaves the pod without its configuration.
RerunClears ==
  \A p, q \in Procs :
    /\ p # q /\ op[q] = "deregister" /\ exit[q] = "warned"
    /\ op[p] = "deregister" /\ ClearsPod(p) /\ exit[p] \in {"ok", "found"}
    /\ \A r \in Procs : op[r] # "register"
    => ~podCfg
=============================================================================

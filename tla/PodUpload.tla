------------------------------ MODULE PodUpload ------------------------------
(***************************************************************************)
(* Signed uploads to a pod: `install-blobs` over the USB console           *)
(* (Console.UploadSigned) or the network (lanBlobs.UploadSigned), and      *)
(* `flash-self --network` (uploadFirmwareLAN, waitForPodOnNetwork, then    *)
(* the blobs).                                                             *)
(*                                                                         *)
(* The host asks one thing at a time and waits for the line that answers   *)
(* it, skipping others.  On the console a late answer is still in the      *)
(* stream when the host has gone on; on the network the first lost answer  *)
(* breaks the session.  The pod (staging, SHA-256 check, commit) is        *)
(* external, modelled on the tests' podUploadSim.                          *)
(***************************************************************************)
EXTENDS Naturals, Sequences, FiniteSetsExt, SequencesExt

CONSTANTS
  Blobs,      \* the pod has blob slots 1..Blobs; 0 stands for the firmware
  Chunks,     \* bound: an image is Chunks chunks
  Attempts,   \* uploadChunkAttempts
  MaxLost,    \* bound: messages lost
  MaxLate     \* bound: answers that come after the host's timeout

ASSUME PodUploadAssumption ==
  {Blobs, Chunks, Attempts, MaxLost, MaxLate} \subseteq Nat /\ Chunks > 0 /\ Attempts > 0

Items  == 0..Blobs
Phases == {"list", "probe", "half0", "half1", "clear", "begin", "query", "chunk", "status",
           "end", "commit", "wait"}

\* How the command ends: success, the failure of install-blobs, and those of flash-self:
\* "nothing was written: the pod keeps its firmware", "the firmware was written, but the pod
\* did not come back", "the firmware is updated, but .. its blobs ..".
Reports == {"ok", "error", "kept", "away", "updated"}

VARIABLES
  lan, flash, man,    \* over the network; flash-self --network; the images come signed
  at, sent,           \* what the host asks for, and whether it has asked
  item, off, try,     \* the item it uploads, the chunk, the attempt
  missing, installed,    \* blobs to install; what installed, or flashed, without an error
  sup, sigSent,       \* the console takes upload-sig; the manifest reached the pod
  broken, ctxDone, exit,
  toPod, toHost,      \* messages and answers in flight
  stage, sigs, sigAware,   \* the pod: its staging area, manifest halves it holds
  slot,               \* the pod: whether each item is "old" or "new"
  lost, late, trouble, \* messages lost, late answers; the pod refused, or restarted
  lostOther, unanswered, resent  \* something else than a chunk was lost; an unanswered
                                 \* upload-status; a chunk the pod has was sent again

host  == <<lan, flash, man, at, sent, item, off, try, missing, installed, sup, sigSent, broken, ctxDone, exit>>
wires == <<toPod, toHost>>
pod   == <<stage, sigs, sigAware, slot>>
past  == <<lost, late, trouble, lostOther, unanswered, resent>>
uploadVars  == <<host, wires, pod, past>>

Idle == [item |-> 0, got |-> {}, state |-> "idle", sigs |-> 0]

UploadTypeOK ==
  /\ {lan, flash, man, sent, sup, sigSent, broken, ctxDone, sigAware} \subseteq BOOLEAN
  /\ {trouble, lostOther, unanswered, resent} \subseteq BOOLEAN
  /\ at \in Phases \cup {"done"} /\ exit \in {""} \cup Reports
  /\ item \in Items /\ off \in 1..Chunks /\ try \in 1..Attempts
  /\ missing \subseteq 1..Blobs /\ installed \subseteq Items
  /\ sigs \in 0..2 /\ lost \in 0..MaxLost /\ late \in 0..MaxLate
  /\ slot \in [Items -> {"old", "new"}]
  /\ stage.item \in Items /\ stage.got \subseteq 1..Chunks
  /\ stage.state \in {"idle", "receiving", "verified"}
  \* one thing at a time: on the network at most one request or answer is in flight
  /\ lan => Len(toPod) + Len(toHost) <= 1

UploadInit ==
  /\ lan \in BOOLEAN /\ flash \in BOOLEAN /\ (flash => lan) /\ man \in BOOLEAN
  /\ at = (IF flash THEN "begin" ELSE "list") /\ sent = FALSE
  /\ item = 0 /\ off = 1 /\ try = 1
  /\ missing = {} /\ installed = {}
  /\ sup = FALSE /\ sigSent = FALSE /\ broken = FALSE /\ ctxDone = FALSE /\ exit = ""
  /\ toPod = <<>> /\ toHost = <<>>
  /\ stage = Idle /\ sigs = 0 /\ sigAware \in BOOLEAN
  /\ slot \in {s \in [Items -> {"old", "new"}] : s[0] = "old"}
  /\ lost = 0 /\ late = 0 /\ trouble = FALSE
  /\ lostOther = FALSE /\ unanswered = FALSE /\ resent = FALSE

-----------------------------------------------------------------------------
(* Where the host goes.                                                    *)

\* The console command a phase sends, which is also the first word of its answer.
Wire(ph) == CASE ph \in {"probe", "query"}          -> "sig"
              [] ph \in {"half0", "half1", "clear"} -> "half"
              [] OTHER                              -> ph

Keep == UNCHANGED <<item, off, try, missing, installed, sup, sigSent, exit>>

Goto(ph) == at' = ph /\ sent' = FALSE

\* An error ends the command; what the host still sends is an abort.
Fail(abort) ==
  /\ at' = "done" /\ sent' = FALSE
  /\ exit' = CASE ~flash                -> "error"
               [] at = "wait"            -> "away"
               [] at = "list" \/ item # 0 -> "updated"
               [] OTHER                  -> "kept"
  /\ toPod' = IF abort /\ ~broken' THEN Append(toPod, [c |-> "abort", i |-> item, k |-> 0]) ELSE toPod
  /\ UNCHANGED <<item, off, try, missing, installed, sup, sigSent>>

\* What a blob's upload begins with.  The console is asked for upload-sig once, before
\* the first blob.
FirstOf(got, s) == IF lan \/ ~man THEN "begin"
                   ELSE IF got = {} THEN "probe"
                   ELSE IF s THEN "half0" ELSE "begin"

\* The next blob, in the manifest's order; none left is success.
NextBlob(left, got, s) ==
  /\ installed' = got /\ missing' = left /\ sup' = s
  /\ sent' = FALSE /\ off' = 1 /\ try' = 1 /\ sigSent' = FALSE
  /\ UNCHANGED toPod
  /\ IF left = {} THEN at' = "done" /\ exit' = "ok" /\ UNCHANGED item
     ELSE /\ item' = Min(left) /\ UNCHANGED exit
          /\ at' = FirstOf(got, s)

\* Chunk off is on the pod.
ChunkDone ==
  /\ try' = 1
  /\ IF off < Chunks THEN off' = off + 1 /\ Goto("chunk") ELSE Goto("end") /\ UNCHANGED off
  /\ UNCHANGED <<item, missing, installed, sup, sigSent, exit, toPod>>

\* Mutant: attempts are not counted.
ChunkAgainForever ==
  Goto("chunk") /\ UNCHANGED <<item, off, try, missing, installed, sup, sigSent, exit, toPod>>

\* Chunk off is sent again, at most Attempts times.
ChunkAgain ==
  \/ /\ try < Attempts
     /\ try' = try + 1 /\ Goto("chunk")
     /\ UNCHANGED <<item, off, missing, installed, sup, sigSent, exit, toPod>>
  \/ try = Attempts /\ Fail(TRUE)

-----------------------------------------------------------------------------
(* The host.                                                               *)

\* A request goes out.  A broken session, and the network after Ctrl-C, send nothing.
Send ==
  /\ at \in Phases \ {"wait"} /\ ~sent /\ ~broken /\ ~(lan /\ ctxDone)
  /\ toPod' = Append(toPod, [c |-> Wire(at), i |-> item, k |-> IF at = "chunk" THEN off
                                                               ELSE CASE at = "half1" -> 1 [] at = "clear" -> 2
                                                                      [] OTHER -> 0])
  /\ sent' = TRUE
  /\ resent' = (resent \/ (at = "chunk" /\ stage.item = item /\ off \in stage.got))
  /\ UNCHANGED <<lan, flash, man, at, broken, ctxDone, toHost, pod,
                 lost, late, trouble, lostOther, unanswered>>
  /\ Keep

\* The answers that are for the host's question, and the first of them.
Mine   == {j \in DOMAIN toHost : toHost[j].c = Wire(at)}
Answer == toHost[Min(Mine)]

GoodCommit(r) == r = "ok"

\* Mutants: the pod must have more than the chunk, or only the one before.
HasAllMore(n) == n > off
HasAllLess(n) == n >= off - 1

\* uploadReceived: the pod has the whole chunk.
HasAll(n) == n >= off

\* Mutant: trouble with a half leaves the pod with what it collected.
HalfFailedKeeps == Goto("begin") /\ Keep /\ UNCHANGED toPod

\* sendUploadSig: trouble with a half clears what the pod collected.
HalfFailed == Goto("clear") /\ Keep /\ UNCHANGED toPod

\* What the answer a means in each phase.
Understand(a) ==
  \/ at = "list" /\ NextBlob(a.r, installed, sup)
  \/ /\ at = "probe" /\ sup' = (a.r = "result")
     /\ Goto(IF sup' THEN "half0" ELSE "begin")
     /\ UNCHANGED <<item, off, try, missing, installed, sigSent, exit, toPod>>
  \/ at = "half0" /\ a.r = "ok" /\ Goto("half1") /\ Keep /\ UNCHANGED toPod
  \/ /\ at = "half1" /\ a.r = "ok" /\ sigSent' = TRUE /\ Goto("begin")
     /\ UNCHANGED <<item, off, try, missing, installed, sup, exit, toPod>>
  \/ at \in {"half0", "half1"} /\ a.r # "ok" /\ HalfFailed
  \/ at = "clear" /\ Goto("begin") /\ Keep /\ UNCHANGED toPod
  \/ at = "begin" /\ a.r = "ok" /\ Goto(IF man /\ sup THEN "query" ELSE "chunk") /\ Keep /\ UNCHANGED toPod
  \/ at = "begin" /\ a.r # "ok" /\ Fail(FALSE)
  \/ at = "query" /\ Goto("chunk") /\ Keep /\ UNCHANGED toPod
  \/ at = "chunk" /\ a.r = "ok" /\ ChunkDone
  \/ at = "chunk" /\ a.r \in {"retry", "busy"} /\ ChunkAgain
  \/ at = "chunk" /\ a.r \notin {"ok", "retry", "busy"} /\ Fail(TRUE)
  \/ at = "status" /\ IF HasAll(a.k) THEN ChunkDone ELSE ChunkAgain
  \/ at = "end" /\ a.r = "ok" /\ Goto("commit") /\ Keep /\ UNCHANGED toPod
  \/ at = "end" /\ a.r # "ok" /\ Fail(lan)
  \/ /\ at = "commit" /\ GoodCommit(a.r) /\ item = 0
     /\ installed' = {0} /\ Goto("wait")
     /\ UNCHANGED <<item, off, try, missing, sup, sigSent, exit, toPod>>
  \/ /\ at = "commit" /\ GoodCommit(a.r) /\ item # 0
     /\ NextBlob(missing \ {item}, installed \cup {item}, sup)
  \* "commit: timeout" may be the write that takes the pod's time
  \/ at = "commit" /\ ~GoodCommit(a.r) /\ a.r = "timeout" /\ Goto("wait") /\ Keep /\ UNCHANGED toPod
  \/ at = "commit" /\ ~GoodCommit(a.r) /\ a.r # "timeout" /\ Fail(FALSE)

\* awaitReply, readLine and Session.Command: lines before the answer are skipped.
Receive ==
  /\ sent /\ Mine # {}
  /\ toHost' = SubSeq(toHost, Min(Mine) + 1, Len(toHost))
  /\ UNCHANGED broken /\ Understand(Answer)
  /\ UNCHANGED <<lan, flash, man, ctxDone, pod, past>>

\* Mutant: a commit without an answer did not happen.
LostCommitFails == Fail(FALSE)

\* "a connection that drops there is the expected end, not a failure".
LostCommit ==
  IF item = 0 THEN Goto("wait") /\ Keep /\ UNCHANGED toPod ELSE Fail(FALSE)

\* The answer does not come in time, or cannot come any more.
CanTimeOut ==
  /\ Mine = {}
  /\ ctxDone \/ broken \/ late < MaxLate \/ toPod = <<>>

\* A network session ends with its first lost answer (Session.sessionErr).
Unreliable == broken \/ lan

TimeOut ==
  /\ at \in Phases \ {"wait"} /\ (sent \/ broken \/ (lan /\ ctxDone)) /\ CanTimeOut
  /\ broken' = Unreliable
  /\ late' = IF sent /\ ~ctxDone /\ ~broken /\ (toPod # <<>>) THEN late + 1 ELSE late
  /\ unanswered' = (unanswered \/ at = "status")
  /\ CASE at = "probe"  -> /\ sup' = FALSE /\ Goto("begin")
                           /\ UNCHANGED <<item, off, try, missing, installed, sigSent, exit, toPod>>
       [] at \in {"half0", "half1"} -> HalfFailed
       [] at \in {"clear"} -> Goto("begin") /\ Keep /\ UNCHANGED toPod
       [] at = "query"  -> Goto("chunk") /\ Keep /\ UNCHANGED toPod
       [] at = "chunk"  -> IF lan \/ ctxDone THEN Fail(TRUE)
                           ELSE Goto("status") /\ Keep /\ UNCHANGED toPod
       [] at = "status" -> ChunkAgain
       [] at = "commit" -> LostCommit
       [] at = "end"    -> Fail(lan)
       [] OTHER         -> Fail(FALSE)
  /\ UNCHANGED <<lan, flash, man, ctxDone, toHost, pod, lost, trouble, lostOther, resent>>

\* waitForPodOnNetwork: a new session to whatever firmware answers; then the blobs.
PodIsBack ==
  /\ at = "wait" /\ ~ctxDone
  /\ broken' = FALSE
  /\ toPod' = <<>> /\ toHost' = <<>>
  /\ Goto("list") /\ Keep
  /\ UNCHANGED <<lan, flash, man, ctxDone, pod, past>>

PodStaysAway ==
  /\ at = "wait"
  /\ UNCHANGED broken /\ Fail(FALSE)
  /\ UNCHANGED <<lan, flash, man, ctxDone, toHost, pod, past>>

Host == Send \/ Receive \/ TimeOut \/ PodIsBack \/ PodStaysAway

\* Ctrl-C or the total timeout.
CtxEnds ==
  /\ ~ctxDone /\ at # "done"
  /\ ctxDone' = TRUE
  /\ UNCHANGED <<lan, flash, man, at, sent, item, off, try, missing, installed, sup, sigSent, broken,
                 exit, wires, pod, past>>

-----------------------------------------------------------------------------
(* The pod and the wire.                                                   *)

Reply(m, r, n) == toHost' = IF broken THEN <<>> ELSE Append(toHost, [c |-> m.c, r |-> r, k |-> n])

Listed == {i \in 1..Blobs : slot[i] # "new"}

\* The pod answers m without a refusal.
Obeys(m) ==
  CASE m.c = "list"   -> Reply(m, Listed, 0) /\ UNCHANGED <<stage, sigs, slot>>
    [] m.c = "sig"    -> /\ Reply(m, IF sigAware THEN "result" ELSE "unknown", 0)
                         /\ UNCHANGED <<stage, sigs, slot>>
    [] m.c = "half"   -> /\ Reply(m, "ok", 0)
                         /\ sigs' = CASE m.k = 0 -> 1 [] m.k = 1 -> Min({sigs + 1, 2}) [] OTHER -> 0
                         /\ UNCHANGED <<stage, slot>>
    [] m.c = "begin"  -> /\ Reply(m, "ok", 0)
                         /\ stage' = [item |-> m.i, got |-> {}, state |-> "receiving", sigs |-> sigs]
                         /\ sigs' = 0 /\ UNCHANGED slot
    [] m.c = "chunk"  -> /\ Reply(m, "ok", m.k)
                         /\ stage.state = "receiving"
                         /\ stage' = [stage EXCEPT !.got = @ \cup {m.k}]
                         /\ UNCHANGED <<sigs, slot>>
    [] m.c = "status" -> /\ Reply(m, "received", Max(stage.got \cup {0}))
                         /\ UNCHANGED <<stage, sigs, slot>>
    [] m.c = "end"    -> /\ stage.got = 1..Chunks /\ Reply(m, "ok", 0)
                         /\ stage' = [stage EXCEPT !.state = "verified"]
                         /\ UNCHANGED <<sigs, slot>>
    [] m.c = "commit" -> /\ stage.state = "verified" /\ Reply(m, "ok", 0)
                         /\ slot' = [slot EXCEPT ![stage.item] = "new"]
                         /\ stage' = Idle /\ UNCHANGED sigs
    [] OTHER          -> /\ stage' = Idle /\ UNCHANGED <<sigs, slot, toHost>>

PodExecutes ==
  /\ toPod # <<>>
  /\ toPod' = Tail(toPod)
  /\ Obeys(Head(toPod))
  /\ UNCHANGED <<host, sigAware, past>>

\* The pod cannot do it: no upload, a hash that does not match, a full flash.
PodRefuses ==
  /\ toPod # <<>> /\ Head(toPod).c \in {"half", "begin", "chunk", "end", "commit"}
  /\ toPod' = Tail(toPod)
  /\ \/ Reply(Head(toPod), "error", 0)
     \/ lan /\ item = 0 /\ Head(toPod).c = "commit" /\ Reply(Head(toPod), "timeout", 0)
  /\ trouble' = TRUE
  /\ UNCHANGED <<host, pod, lost, late, lostOther, unanswered, resent>>

\* A chunk that came corrupted ("retry") or too early ("busy") is asked for again.
PodAsksAgain ==
  /\ toPod # <<>> /\ Head(toPod).c = "chunk" /\ ~lan
  /\ toPod' = Tail(toPod)
  /\ \/ /\ lost < MaxLost /\ lost' = lost + 1 /\ UNCHANGED trouble
        /\ Reply(Head(toPod), "retry", 0)
     \/ /\ trouble' = TRUE /\ UNCHANGED lost
        /\ Reply(Head(toPod), "busy", 0)
  /\ UNCHANGED <<host, pod, late, lostOther, unanswered, resent>>

PodRestarts ==
  /\ stage # Idle /\ ~trouble
  /\ stage' = Idle /\ sigs' = 0 /\ toPod' = <<>> /\ toHost' = <<>> /\ trouble' = TRUE
  /\ UNCHANGED <<host, sigAware, slot, lost, late, lostOther, unanswered, resent>>

\* A full receive ring, or a console that drops output.
Lose ==
  /\ lost < MaxLost
  /\ lost' = lost + 1
  /\ \/ \E j \in DOMAIN toPod :
          /\ toPod' = RemoveAt(toPod, j) /\ UNCHANGED toHost
          /\ lostOther' = (lostOther \/ toPod[j].c # "chunk")
     \/ \E j \in DOMAIN toHost :
          /\ toHost' = RemoveAt(toHost, j) /\ UNCHANGED toPod
          /\ lostOther' = (lostOther \/ toHost[j].c # "chunk")
  /\ UNCHANGED <<host, pod, late, trouble, unanswered, resent>>

Pod == PodExecutes \/ PodRefuses \/ PodAsksAgain

-----------------------------------------------------------------------------
UploadNext == Host \/ CtxEnds \/ Pod \/ PodRestarts \/ Lose

UploadSpec     == UploadInit /\ [][UploadNext]_uploadVars
FairSpec == UploadSpec /\ WF_uploadVars(Host) /\ WF_uploadVars(Pod)
-----------------------------------------------------------------------------
(* Properties.                                                             *)

Uploading == {"chunk", "status", "end", "commit"}

\* flash-self says that the new firmware is in the pod.
SaysWritten == flash /\ exit \in {"ok", "away", "updated"}

\* No message or answer was lost, late or a refusal, the pod did not restart by itself
\* and nobody stopped the command.
NothingWentWrong == lost = 0 /\ late = 0 /\ ~trouble /\ ~ctxDone

\* What the command says is so: a blob reported installed is in its slot; after
\* "nothing was written: the pod keeps its firmware" the old firmware is there and
\* stays, whatever messages are still under way; and where flash-self ends with the
\* firmware written (success, "the firmware was written, but the pod did not come
\* back", "the firmware is updated, but .."), it is, unless something went wrong: a
\* commit that was not answered, or with "timeout", is taken for done
\* (uploadFirmwareLAN, runFlashSelfNetwork, installBlobsList).
OutcomeIsTrue ==
  /\ \A i \in installed : slot[i] = "new"
  /\ exit = "kept" => slot[0] = "old"
  /\ SaysWritten /\ NothingWentWrong => slot[0] = "new"

\* The last part without the exception: a lost commit refutes it.
WrittenIsWritten == SaysWritten => slot[0] = "new"

\* As long as every upload-status was answered, the host has gone past a chunk only if
\* the pod has it: no late answer to an earlier chunk was taken for a later one's.
NeverAheadOfThePod ==
  (~unanswered /\ at \in Uploading /\ stage.state # "idle") =>
    (IF at \in {"end", "commit"} THEN 1..Chunks ELSE 1..(off - 1)) \subseteq stage.got

\* uploadChunk: "A chunk that did land is not sent twice", only after an upload-status
\* that went unanswered as well; and lost, corrupted or refused chunks and replies,
\* fewer than there are attempts, do not fail a console upload.
ChunksGetThrough ==
  /\ resent => unanswered
  /\ exit = "error" => lan \/ trouble \/ ctxDone \/ lostOther \/ late > 0 \/ lost >= Attempts

\* The pod checks the upload with the whole manifest when the host reports it sent, and
\* never with half of one unless two messages are lost (sendUploadSig clears it).
ManifestAsReported ==
  (stage.state # "idle" /\ ~trouble /\ ~ctxDone /\ late = 0) =>
    /\ sigSent => stage.sigs = 2
    /\ lost <= 1 => stage.sigs # 1

\* An upload comes to an end, whatever is lost.
UploadEnds == <>(at = "done")
=============================================================================

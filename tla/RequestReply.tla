---------------------------- MODULE RequestReply ----------------------------
(***************************************************************************)
(* What a tcpclient.Session promises its callers: every command gets the  *)
(* reply to its own request, or fails; the first command that loses its   *)
(* reply kills the session, and a dead session only refuses.              *)
(***************************************************************************)
CONSTANT Commands

VARIABLES outcome,    \* what the caller of each command was told
          dead        \* some command lost its reply

rrVars == <<outcome, dead>>

Outcomes == {"pending", "answered", "failed"}

Init == /\ outcome = [c \in Commands |-> "pending"]
        /\ dead = FALSE

Settle(c, o) == /\ outcome[c] = "pending"
                /\ outcome' = [outcome EXCEPT ![c] = o]

\* The caller gets the reply to the request it made.
Answer(c) == ~dead /\ Settle(c, "answered") /\ dead' = FALSE

\* The request could not be encoded; nothing was sent.
Reject(c) == ~dead /\ Settle(c, "failed") /\ dead' = FALSE

\* The round trip failed; the connection may still owe a reply.
Lose(c) == ~dead /\ Settle(c, "failed") /\ dead' = TRUE

\* A later command on the dead session fails at once.
Refuse(c) == dead /\ Settle(c, "failed") /\ dead' = TRUE

Next == \E c \in Commands : Answer(c) \/ Reject(c) \/ Lose(c) \/ Refuse(c)

Spec == Init /\ [][Next]_rrVars
=============================================================================

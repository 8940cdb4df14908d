------------------------------ MODULE SignService ------------------------------
(***************************************************************************)
(* What SshWardenAgent::confirm promises the SSH clients, without the      *)
(* channels it is built on: a sign request is decided at most once by the  *)
(* daemon, and its client is told yes only when that decision was yes.     *)
(* A client may always be told no (the agent fails closed).                *)
(***************************************************************************)
CONSTANT Clients      \* connections of SSH clients

VARIABLES
    open,             \* the clients with a sign request under way
    verdict,          \* what the daemon decided on the request of each client
    answer,           \* what each client was told last
    degraded          \* the agent handed out a request id while it was not running

vars == <<open, verdict, answer, degraded>>

Verdicts == {"none", "yes", "no"}

Init ==
    /\ open = {}
    /\ verdict = [c \in Clients |-> "none"]
    /\ answer = [c \in Clients |-> "none"]
    /\ degraded = FALSE

Ask(c) ==
    /\ c \notin open
    /\ open' = open \cup {c}
    /\ UNCHANGED <<verdict, answer, degraded>>

\* A request turned down before it is asked: the agent does not run.
Refuse(c) ==
    /\ c \notin open
    /\ answer' = [answer EXCEPT ![c] = "no"]
    /\ UNCHANGED <<open, verdict, degraded>>

Decide(c, v) ==
    /\ c \in open /\ verdict[c] = "none" /\ v # "none"
    /\ verdict' = [verdict EXCEPT ![c] = v]
    /\ UNCHANGED <<open, answer, degraded>>

\* Told yes only by its own approval, as long as the agent is not degraded.
Tell(c, v) ==
    /\ c \in open /\ v # "none"
    /\ v = "yes" => verdict[c] = "yes" \/ degraded
    /\ open' = open \ {c}
    /\ verdict' = [verdict EXCEPT ![c] = "none"]
    /\ answer' = [answer EXCEPT ![c] = v]
    /\ UNCHANGED degraded

Degrade ==
    /\ degraded' = TRUE
    /\ UNCHANGED <<open, verdict, answer>>

Next ==
    \/ Degrade
    \/ \E c \in Clients : Ask(c) \/ Refuse(c) \/ \E v \in Verdicts : Decide(c, v) \/ Tell(c, v)

Spec == Init /\ [][Next]_vars
=============================================================================

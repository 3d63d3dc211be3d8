--------------------------- MODULE ApprovalPromise ---------------------------
(***************************************************************************)
(* What the human-in-the-loop approval layer promises to the SSH signers   *)
(* that block on it: every request is decided at most once, an approval    *)
(* is only ever decided before the request's deadline, an expiry only      *)
(* after it, and the signer is released at most once, with the decision    *)
(* that was taken or because it gave up waiting.                           *)
(***************************************************************************)
EXTENDS Naturals

CONSTANTS
  Actions,      \* the requests
  TTL           \* how long a request may be decided in favour

VARIABLES
  now,          \* the clock
  decision,     \* decision[a]: "none", "pending" or one of Decided
  deadline,     \* deadline[a]: the instant a's approval would come too late
  released      \* released[a]: what the signer was told, "none" before that

vars == <<now, decision, deadline, released>>

Decided == {"completed", "denied", "expired"}

Init ==
  /\ now = 0
  /\ decision = [a \in Actions |-> "none"]
  /\ deadline = [a \in Actions |-> 0]
  /\ released = [a \in Actions |-> "none"]

Request(a) ==
  /\ decision[a] = "none"
  /\ decision' = [decision EXCEPT ![a] = "pending"]
  /\ deadline' = [deadline EXCEPT ![a] = now + TTL]
  /\ UNCHANGED <<now, released>>

\* One event may decide several requests at once: a connection dying, a sweep.
Decide(S, d) ==
  /\ \A a \in S : /\ decision[a] = "pending"
                  /\ d = "completed" => now < deadline[a]
                  /\ d = "expired" => deadline[a] <= now
  /\ decision' = [a \in Actions |-> IF a \in S THEN d ELSE decision[a]]
  /\ UNCHANGED <<now, deadline, released>>

Release(a) ==
  /\ released[a] = "none"
  /\ decision[a] \in Decided
  /\ released' = [released EXCEPT ![a] = decision[a]]
  /\ UNCHANGED <<now, decision, deadline>>

\* The signer's own context ended first.
GiveUp(a) ==
  /\ released[a] = "none"
  /\ decision[a] # "none"
  /\ released' = [released EXCEPT ![a] = "gaveup"]
  /\ UNCHANGED <<now, decision, deadline>>

Tick ==
  /\ now' = now + 1
  /\ UNCHANGED <<decision, deadline, released>>

Next ==
  \/ Tick
  \/ \E a \in Actions : Request(a) \/ Release(a) \/ GiveUp(a)
  \/ \E S \in SUBSET Actions, d \in Decided : Decide(S, d)

Spec == Init /\ [][Next]_vars
=============================================================================

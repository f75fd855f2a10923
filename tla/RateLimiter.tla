----------------------------- MODULE RateLimiter -----------------------------
(***************************************************************************)
(* What the server's rate limit promises each address: of its requests, no *)
(* more than Limit are let through in any Window, and none is turned away  *)
(* while fewer were.  HandshakePow implements it with a table of time      *)
(* stamps that is cleaned up now and then.                                 *)
(***************************************************************************)
EXTENDS Stamps

CONSTANTS
  Client,
  Limit,   \* RATE_LIMIT_REQUESTS
  Window   \* RATE_LIMIT_WINDOW

VARIABLES
  now,
  admitted,  \* admitted[c]: when c's requests of the last Window were let through
  verdict    \* verdict[c]: how c's last request was met

rlvars == <<now, admitted, verdict>>

Init ==
  /\ now = 0
  /\ admitted = [c \in Client |-> <<>>]
  /\ verdict = [c \in Client |-> "none"]

Admit(c) ==
  /\ Len(admitted[c]) < Limit
  /\ admitted' = [admitted EXCEPT ![c] = Append(@, now)]
  /\ verdict' = [verdict EXCEPT ![c] = "admitted"]
  /\ UNCHANGED now

Refuse(c) ==
  /\ Len(admitted[c]) = Limit
  /\ verdict' = [verdict EXCEPT ![c] = "limited"]
  /\ UNCHANGED <<now, admitted>>

Tick ==
  /\ now' = now + 1
  /\ admitted' = [c \in Client |-> Since(admitted[c], now' - Window + 1)]
  /\ UNCHANGED verdict

\* A restarted server has forgotten every request.
Forget ==
  /\ admitted' = [c \in Client |-> <<>>]
  /\ UNCHANGED <<now, verdict>>

Next ==
  \/ \E c \in Client : Admit(c) \/ Refuse(c)
  \/ Tick
  \/ Forget

Spec == Init /\ [][Next]_rlvars
=============================================================================

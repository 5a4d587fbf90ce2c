-------------------------------- MODULE RPC ---------------------------------
(***************************************************************************)
(* What a caller of sendRequest may rely on, at the client and at the      *)
(* server, whatever the transport, the timers and the peer do.  A call is  *)
(* made once, is executed by the peer at most once, and comes back at most *)
(* once: with the value the peer computed for this very call, or with an   *)
(* error.  An error says nothing about the peer: the call may have been    *)
(* executed, may still be, or may never be.                                *)
(***************************************************************************)
CONSTANTS
  Calls,  \* the invocations of sendRequest
  None    \* "no value"

VARIABLES
  status,   \* status[c]: what the caller of c sees
  executed, \* the calls the peer has executed and answered
  answer    \* answer[c]: the call whose answer was handed to the caller of c

vars == <<status, executed, answer>>

Statuses == {"idle", "pending", "ok", "failed"}

Init ==
  /\ status = [c \in Calls |-> "idle"]
  /\ executed = {}
  /\ answer = [c \in Calls |-> None]

Invoke(c) ==
  /\ status[c] = "idle"
  /\ status' = [status EXCEPT ![c] = "pending"]
  /\ UNCHANGED <<executed, answer>>

\* The peer may still be working for a caller that has given up.
Execute(c) ==
  /\ status[c] \in {"pending", "failed"}
  /\ c \notin executed
  /\ executed' = executed \cup {c}
  /\ UNCHANGED <<status, answer>>

Return(c) ==
  /\ status[c] = "pending"
  /\ c \in executed
  /\ status' = [status EXCEPT ![c] = "ok"]
  /\ answer' = [answer EXCEPT ![c] = c]
  /\ UNCHANGED executed

Fail(c) ==
  /\ status[c] = "pending"
  /\ status' = [status EXCEPT ![c] = "failed"]
  /\ UNCHANGED <<executed, answer>>

Next == \E c \in Calls : Invoke(c) \/ Execute(c) \/ Return(c) \/ Fail(c)

Spec == Init /\ [][Next]_vars

=============================================================================

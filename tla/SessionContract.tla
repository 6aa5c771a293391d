--------------------------- MODULE SessionContract ---------------------------
(***************************************************************************)
(* What start_session and end_session promise their callers, without       *)
(* Redis.  A server has one session slot.  A session enters a slot once,   *)
(* when its start opens it, and leaves it because its own start fails,     *)
(* because one call takes it to end it, or because the server stops, and   *)
(* for no other reason: each of the three is told from the others by what  *)
(* becomes of starting, ending and boot, so that the failure of another    *)
(* session's start, or a call that only reads, is no step of the contract  *)
(* if it empties the slot.                                                 *)
(***************************************************************************)
EXTENDS Naturals

CONSTANTS Server, Session, None

VARIABLES
  slot,      \* slot[srv]: the active session of a server
  starting,  \* starting[srv]: the sessions whose start has yet to store them
  ending,    \* ending[srv]: the sessions that calls have taken to end
  created,   \* the sessions that have been opened
  boot       \* boot[srv]: the run of the server's process, by its parity

vars == <<slot, starting, ending, created, boot>>

Init ==
  /\ slot = [srv \in Server |-> None]
  /\ starting = [srv \in Server |-> {}]
  /\ ending = [srv \in Server |-> {}]
  /\ created = {}
  /\ boot = [srv \in Server |-> 0]

Open(srv, s) ==
  /\ slot[srv] = None /\ s \notin created
  /\ slot' = [slot EXCEPT ![srv] = s]
  /\ starting' = [starting EXCEPT ![srv] = @ \cup {s}]
  /\ created' = created \cup {s}
  /\ UNCHANGED <<ending, boot>>

\* The session is stored and its start will be answered with success.
Confirm(srv, s) ==
  /\ s \in starting[srv]
  /\ starting' = [starting EXCEPT ![srv] = @ \ {s}]
  /\ UNCHANGED <<slot, ending, created, boot>>

\* A start that fails empties the slot of its own session only, which a call
\* may have taken from it already.
Withdraw(srv, s) ==
  /\ s \in starting[srv]
  /\ starting' = [starting EXCEPT ![srv] = @ \ {s}]
  /\ slot' = [slot EXCEPT ![srv] = IF @ = s THEN None ELSE @]
  /\ UNCHANGED <<ending, created, boot>>

Take(srv, s) ==
  /\ slot[srv] = s
  /\ slot' = [slot EXCEPT ![srv] = None]
  /\ ending' = [ending EXCEPT ![srv] = @ \cup {s}]
  /\ UNCHANGED <<starting, created, boot>>

Finish(srv, s) ==
  /\ s \in ending[srv]
  /\ ending' = [ending EXCEPT ![srv] = @ \ {s}]
  /\ UNCHANGED <<slot, starting, created, boot>>

Crash(srv) ==
  /\ boot' = [boot EXCEPT ![srv] = 1 - @]
  /\ slot' = [slot EXCEPT ![srv] = None]
  /\ starting' = [starting EXCEPT ![srv] = {}]
  /\ ending' = [ending EXCEPT ![srv] = {}]
  /\ UNCHANGED created

Next ==
  \E srv \in Server :
    \/ \E s \in Session :
         Open(srv, s) \/ Confirm(srv, s) \/ Withdraw(srv, s) \/ Take(srv, s) \/ Finish(srv, s)
    \/ Crash(srv)

Spec == Init /\ [][Next]_vars
=============================================================================

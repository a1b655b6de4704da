------------------------- MODULE RevocableSessions --------------------------
(***************************************************************************)
(* What the authentication service promises about the sessions of a user,  *)
(* with every request a single step.  A session is opened once, may be     *)
(* raised to the second factor once a factor has been confirmed, and ends  *)
(* for good when it is revoked.                                            *)
(***************************************************************************)
CONSTANT Sessions

VARIABLES
  status,   \* [Sessions -> {"none", "active", "revoked"}]
  raised,   \* the sessions that passed the second factor
  factor    \* a second factor has been confirmed at some time

vars == <<status, raised, factor>>

Init ==
  /\ status = [s \in Sessions |-> "none"]
  /\ raised = {}
  /\ factor = FALSE

Open(s) ==
  /\ status[s] = "none"
  /\ status' = [status EXCEPT ![s] = "active"]
  /\ UNCHANGED <<raised, factor>>

\* One session at logout or replay, any number of them at revoke_all.
Revoke(S) ==
  /\ \A s \in S : status[s] # "none"
  /\ status' = [s \in Sessions |-> IF s \in S THEN "revoked" ELSE status[s]]
  /\ UNCHANGED <<raised, factor>>

\* A code was accepted: of a confirmed factor, or to confirm it.
Raise(s) ==
  /\ status[s] # "none"
  /\ raised' = raised \cup {s}
  /\ factor' = TRUE
  /\ UNCHANGED status

Next ==
  \/ \E s \in Sessions : Open(s) \/ Raise(s)
  \/ \E S \in SUBSET Sessions : Revoke(S)

Spec == Init /\ [][Next]_vars
=============================================================================

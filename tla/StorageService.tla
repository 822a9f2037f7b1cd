---------------------------- MODULE StorageService ----------------------------
(***************************************************************************)
(* What the optimizer, the API and the import ledger may rely on when they *)
(* hand a database operation to storage: an accepted call is carried out   *)
(* at most once, or is dropped, unperformed, by the shutdown that ended    *)
(* admission; its outcome is known once and only afterwards.               *)
(***************************************************************************)
CONSTANT Callers   \* those who may have one call outstanding each

VARIABLES
  open,     \* calls are accepted
  call,     \* each caller's call
  performed \* the callers whose last accepted call reached the database

vars == <<open, call, performed>>

Outcomes == {"done", "failed"}

Init == open = TRUE /\ call = [c \in Callers |-> "none"] /\ performed = {}

Request(c) ==
  /\ open /\ call[c] = "none"
  /\ call' = [call EXCEPT ![c] = "accepted"]
  /\ performed' = performed \ {c}
  /\ UNCHANGED open

Perform(c) ==
  /\ call[c] = "accepted"
  /\ \E outcome \in Outcomes : call' = [call EXCEPT ![c] = outcome]
  /\ performed' = performed \cup {c}
  /\ UNCHANGED open

\* Shutdown drops some calls that nobody has begun.
Stop ==
  /\ open' = FALSE
  /\ \E dropped \in SUBSET {c \in Callers : call[c] = "accepted"} :
       call' = [c \in Callers |-> IF c \in dropped THEN "dropped" ELSE call[c]]
  /\ UNCHANGED performed

\* The caller, or the loop in its place, takes note of the outcome.
Collect(c) ==
  /\ call[c] \in Outcomes \cup {"dropped"}
  /\ call' = [call EXCEPT ![c] = "none"]
  /\ UNCHANGED <<open, performed>>

Next == Stop \/ \E c \in Callers : Request(c) \/ Perform(c) \/ Collect(c)

Spec == Init /\ [][Next]_vars
=============================================================================

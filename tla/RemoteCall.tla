------------------------------- MODULE RemoteCall -------------------------------
(***************************************************************************)
(* What a command to the browser extension promises its caller: the caller *)
(* gets one outcome, an answer only of a command that was run, and the     *)
(* command is run at most once - perhaps after the caller has given up.    *)
(***************************************************************************)
CONSTANT Calls

VARIABLES outcome,  \* outcome[c]: what the caller of c has been told
          ran       \* the calls the extension has run

vars == <<outcome, ran>>

Answers == {"ok", "error"}
GivenUp == {"timeout", "disconnected", "crashed"}

Init == outcome = [c \in Calls |-> "idle"] /\ ran = {}

\* The command goes out, or is refused on the spot.
Start(c) ==
  /\ outcome[c] = "idle"
  /\ \E o \in {"waiting", "refused"} : outcome' = [outcome EXCEPT ![c] = o]
  /\ UNCHANGED ran

Run(c) ==
  /\ outcome[c] \notin {"idle", "refused"}
  /\ c \notin ran
  /\ ran' = ran \cup {c}
  /\ UNCHANGED outcome

Answer(c) ==
  /\ outcome[c] = "waiting" /\ c \in ran
  /\ \E o \in Answers : outcome' = [outcome EXCEPT ![c] = o]
  /\ UNCHANGED ran

\* Some callers are told that no answer will come.
GiveUp(S) ==
  /\ \A c \in S : outcome[c] = "waiting"
  /\ \E o \in GivenUp : outcome' = [c \in Calls |-> IF c \in S THEN o ELSE outcome[c]]
  /\ UNCHANGED ran

Next ==
  \/ \E c \in Calls : Start(c) \/ Run(c) \/ Answer(c)
  \/ \E S \in SUBSET Calls : GiveUp(S)

Spec == Init /\ [][Next]_vars
=============================================================================

------------------------------ MODULE PlotJob ------------------------------
(***************************************************************************)
(* What plotter::run_plotter promises about the nonces of its plan,        *)
(* whatever its threads, queues and memory blocks do: a nonce is cut into  *)
(* a batch once, and it is counted as finished only after it was stored,   *)
(* unless somebody stopped the program.  What is stored stays stored.      *)
(***************************************************************************)
EXTENDS Naturals, FiniteSets

CONSTANTS
  Nonces,           \* the nonces of the plan
  BatchSize         \* the nonces of the largest batch

VARIABLES
  todo,             \* not cut yet
  flying,           \* in a batch that is on its way
  done,             \* counted as finished
  stored,           \* on disk, whole and in place
  stopped

jobVars == <<todo, flying, done, stored, stopped>>

Init ==
  /\ todo = Nonces
  /\ flying = {}
  /\ done = {}
  /\ stored = {}
  /\ stopped = FALSE

Cut(S) ==
  /\ S # {}
  /\ Cardinality(S) <= BatchSize
  /\ todo' = todo \ S
  /\ flying' = flying \cup S
  /\ UNCHANGED <<done, stored, stopped>>

Store(S) ==
  /\ stored' = stored \cup S
  /\ UNCHANGED <<todo, flying, done, stopped>>

Finish(S) ==
  /\ S \subseteq stored \/ stopped
  /\ flying' = flying \ S
  /\ done' = done \cup S
  /\ UNCHANGED <<todo, stored, stopped>>

Stop ==
  /\ stopped' = TRUE
  /\ UNCHANGED <<todo, flying, done, stored>>

Next ==
  \/ \E S \in SUBSET todo : Cut(S)
  \/ \E S \in SUBSET flying : Store(S) \/ Finish(S)
  \/ Stop

Spec == Init /\ [][Next]_jobVars

-----------------------------------------------------------------------------
\* Every nonce is in one of the three states.
Partition ==
  /\ todo \cup flying \cup done = Nonces
  /\ todo \cap flying = {}
  /\ todo \cap done = {}
  /\ flying \cap done = {}

\* A run that nobody stopped has stored what it counts.
DoneIsStored == stopped \/ done \subseteq stored
=============================================================================

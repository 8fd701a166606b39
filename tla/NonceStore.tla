----------------------------- MODULE NonceStore -----------------------------
(***************************************************************************)
(* What the write of a task promises, and what PlotPipeline takes for one  *)
(* step: the nonces of a file are cut into tasks one after the other; the  *)
(* nonces of the task in hand get stored from the first on; none that is   *)
(* stored is ever lost; and a task is put away only with all its nonces    *)
(* stored, unless somebody stopped the program.  A program that ends in    *)
(* the middle starts again with the first task.                            *)
(***************************************************************************)
EXTENDS Integers

VARIABLES
  nonces,           \* of the file
  next,             \* the first nonce not cut
  task,             \* the nonces of the task in hand
  stored,
  stopped

vars == <<nonces, next, task, stored, stopped>>

Init ==
  /\ nonces \in Nat
  /\ next = 0
  /\ task = {}
  /\ stored = {}
  /\ stopped = FALSE

Cut ==
  /\ task = {}
  /\ \E n \in 1 .. nonces - next :
       /\ task' = next .. next + n - 1
       /\ next' = next + n
  /\ UNCHANGED <<nonces, stored, stopped>>

Store ==
  /\ \E n \in task : stored' = stored \cup {k \in task : k <= n}
  /\ UNCHANGED <<nonces, next, task, stopped>>

PutAway ==
  /\ task \subseteq stored \/ stopped
  /\ task' = {}
  /\ UNCHANGED <<nonces, next, stored, stopped>>

Stop ==
  /\ stopped' = TRUE
  /\ UNCHANGED <<nonces, next, task, stored>>

Restart ==
  /\ next' = 0
  /\ task' = {}
  /\ stopped' = FALSE
  /\ UNCHANGED <<nonces, stored>>

Next == Cut \/ Store \/ PutAway \/ Stop \/ Restart

Spec == Init /\ [][Next]_vars
=============================================================================

----------------------------- MODULE TaskChannel -----------------------------
(***************************************************************************)
(* What the threads of the plotter expect of a util::queue, and all they   *)
(* may rely on: a first-in first-out channel that hands every task it was  *)
(* given to exactly one taker, in the order of arrival, and that can be    *)
(* closed once.  The channel is a log of the tasks it received with a      *)
(* count of those already handed out, so "no task is lost, duplicated or   *)
(* overtaken" is the shape of the state.  A closed channel keeps what it   *)
(* holds and promises no further delivery.                                 *)
(***************************************************************************)
EXTENDS Naturals, Sequences

CONSTANT Tasks      \* the tasks that may be sent

VARIABLES
  log,              \* every task sent so far, in the order of arrival
  delivered,        \* how many of them have been handed out
  closed            \* has the channel been closed

chanVars == <<log, delivered, closed>>

Init ==
  /\ log = <<>>
  /\ delivered = 0
  /\ closed = FALSE

Send(t) ==
  /\ log' = Append(log, t)
  /\ UNCHANGED <<delivered, closed>>

\* The oldest task not handed out yet leaves the channel.
Deliver ==
  /\ delivered < Len(log)
  /\ delivered' = delivered + 1
  /\ UNCHANGED <<log, closed>>

Close ==
  /\ closed' = TRUE
  /\ UNCHANGED <<log, delivered>>

Next ==
  \/ \E t \in Tasks : Send(t)
  \/ Deliver
  \/ Close

Spec == Init /\ [][Next]_chanVars
=============================================================================

---------------------------- MODULE ChunkGroup ----------------------------
(***************************************************************************)
(* The tally that ties the transmissions of one split message back to the  *)
(* Discord message that was typed: type chunkGroup of                      *)
(* internal/bridge/outbound.go.  Every operator is one method, run under   *)
(* the group's mutex, as a function of the tally before it.                *)
(***************************************************************************)
EXTENDS Integers

Outcomes == {"delivered", "failed", "unknown"}

\* What a message can be told: no verdict yet, a tick, a cross, a satellite.
Verdicts == {"none", "ok", "fail", "sent"}

Groups == [delivered : Nat, failed : Nat, unknown : Nat, done : BOOLEAN]

NewGroup == [delivered |-> 0, failed |-> 0, unknown |-> 0, done |-> FALSE]

Accounted(g) == g.delivered + g.failed + g.unknown

\* Mutant of Verdict: a missing piece does not count against the whole.
VerdictIgnoresFailed(g, total) ==
  IF Accounted(g) < total THEN "none"
  ELSE IF g.unknown > 0 THEN "sent"
  ELSE "ok"

Verdict(g, total) ==
  IF Accounted(g) < total THEN "none"
  ELSE IF g.failed > 0 THEN "fail"
  ELSE IF g.unknown > 0 THEN "sent"
  ELSE "ok"

Count(g, outcome) == [g EXCEPT ![outcome] = @ + 1]

\* The tally after settle(), and what settle() returns.
Settle(g, outcome, total) ==
  [Count(g, outcome) EXCEPT !.done = @ \/ Verdict(Count(g, outcome), total) # "none"]

SettleVerdict(g, outcome, total) ==
  IF g.done THEN "none" ELSE Verdict(Count(g, outcome), total)

Correct(g) ==
  IF g.failed > 0 THEN [g EXCEPT !.failed = @ - 1, !.delivered = @ + 1] ELSE g

Abandon(g) == [g EXCEPT !.done = TRUE]
=============================================================================

--------------------------- MODULE PortContract ---------------------------
(***************************************************************************)
(* What the command port of a session promises its callers, without the    *)
(* queues, frames and timers it is made of: callers take turns, every turn *)
(* ends with one outcome, and an answer that was meant for somebody else   *)
(* can only come from a stray, the answer to a command that was given up.  *)
(* Strays are never made but by giving a command up, and never multiply.   *)
(***************************************************************************)
EXTENDS Integers

CONSTANT Callers

VARIABLES
  asking,    \* who has a command to send, or sent
  turn,      \* whose command the node is answering, or "none"
  strays,    \* answers on their way that nobody waits for
  ending     \* how the last turn ended, until the next one begins

contractVars == <<asking, turn, strays, ending>>

Endings == {"none", "own", "late", "nothing"}

ContractInit ==
  /\ asking \in SUBSET Callers
  /\ turn = "none"
  /\ strays = 0
  /\ ending = "none"

Ask(c) ==
  /\ c \notin asking
  /\ asking' = asking \union {c}
  /\ UNCHANGED <<turn, strays, ending>>

\* A turn begins by throwing away what is left over.
TakeTurn(c) ==
  /\ turn = "none"
  /\ c \in asking
  /\ turn' = c
  /\ ending' = "none"
  /\ strays' \in 0 .. strays
  /\ UNCHANGED asking

\* A turn that ends before anything is sent.
GiveUpAsking(c) ==
  /\ turn = "none"
  /\ c \in asking
  /\ asking' \in {asking, asking \ {c}}
  /\ ending' = "nothing"
  /\ strays' \in 0 .. strays
  /\ UNCHANGED turn

\* The caller may ask again at once.
EndTurn(c, how) ==
  /\ turn = c
  /\ turn' = "none"
  /\ asking' \in {asking, asking \ {c}}
  /\ ending' = how

Answered(c) == EndTurn(c, "own") /\ strays' = strays

\* The stray is used up, and the answer that should have come takes its place.
AnsweredByStray(c) ==
  /\ strays > 0
  /\ EndTurn(c, "late")
  /\ strays' \in {strays - 1, strays}

NotAnswered(c) == EndTurn(c, "nothing") /\ strays' \in {strays, strays + 1}

Discard ==
  /\ strays > 0
  /\ strays' \in 0 .. strays - 1
  /\ UNCHANGED <<asking, turn, ending>>

ContractNext ==
  \/ \E c \in Callers :
       \/ Ask(c) \/ TakeTurn(c) \/ GiveUpAsking(c)
       \/ Answered(c) \/ AnsweredByStray(c) \/ NotAnswered(c)
  \/ Discard

ContractSpec == ContractInit /\ [][ContractNext]_contractVars
=============================================================================

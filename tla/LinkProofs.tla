------------------------------ MODULE LinkProofs ------------------------------
(***************************************************************************)
(* Theorems about LinkSupervisor, for any number of faults and changes of  *)
(* radio: type correctness, one session at a time, nothing left behind,    *)
(* and each session set up once.                                           *)
(***************************************************************************)
EXTENDS LinkSupervisor, TLAPS

\* A session is only opened when every earlier one is closed, and is published
\* exactly while the supervisor watches it.
Succession ==
  /\ \A s \in 1 .. made : s # made => s \in closed
  /\ run \in {"dial", "wait", "stopped"} => ~Alive(made)
  /\ run \in {"handshake", "connect", "watch"} => made # 0
  /\ published = (IF run = "watch" THEN made ELSE 0)

\* Every session but a living one was ended by a fault or by a change of radio.
EndsCounted ==
  ~stopping =>
    made + (IF request = "close" THEN 1 ELSE 0)
      <= faults + dialer + (IF Alive(made) THEN 1 ELSE 0)

\* A session meshLoop has set up is the one it serves, or ended; and the one it
\* serves is published while it lives.
SetUpOnce ==
  /\ \A s \in Sessions :
       /\ started[s] <= 1
       /\ started[s] # 0 => s = serving \/ s \in closed
  /\ Alive(serving) => serving = published

LinkInv == TypeOK /\ Succession /\ EndsCounted /\ SetUpOnce

LEMMA InitLink == Init => LinkInv
<1> SUFFICES ASSUME Init PROVE LinkInv
  OBVIOUS
<1> USE BoundsAssumption DEF Init
<1>1. TypeOK
  <2>1. carrier \in [Sessions -> Dialers] /\ started \in [Sessions -> Nat]
    BY DEF Dialers
  <2>2. dialer \in Dialers
    BY DEF Dialers
  <2>3. made \in 0 .. MaxFaults + MaxChanges + 1 /\ faults \in 0 .. MaxFaults
    OBVIOUS
  <2>4. closed \subseteq 1 .. made /\ published \in 0 .. made /\ serving \in 0 .. made
    OBVIOUS
  <2>5. stopping \in BOOLEAN /\ request = "none" /\ run = "dial"
    OBVIOUS
  <2> QED BY ONLY <2>1, <2>2, <2>3, <2>4, <2>5 DEF TypeOK
<1>2. Succession /\ EndsCounted
  BY DEF Succession, EndsCounted, Alive
<1>3. SetUpOnce
  BY DEF SetUpOnce, Alive
<1> QED BY <1>1, <1>2, <1>3 DEF LinkInv

LEMMA StepTypes ==
  ASSUME LinkInv, [Next]_vars
  PROVE  TypeOK'
<1> USE BoundsAssumption DEF LinkInv, TypeOK, Sessions, Dialers
<1>1. CASE Dial
  <2>1. CASE stopping
    BY <1>1, <2>1 DEF Dial
  <2>2. CASE ~stopping /\ made' = made
    BY <1>1, <2>2 DEF Dial, MayFail, Fault
  <2>3. CASE ~stopping /\ made' = made + 1
    <3>1. made <= faults + dialer
      BY <1>1, <2>3 DEF Dial, Succession, EndsCounted
    <3>2. made + 1 \in Sessions
      BY <3>1
    <3>3. /\ made' \in 0 .. MaxFaults + MaxChanges + 1
          /\ closed' \subseteq 1 .. made'
          /\ published' \in 0 .. made' /\ serving' \in 0 .. made'
      BY <1>1, <2>3, <3>2 DEF Dial
    <3>4. carrier' \in [Sessions -> Dialers] /\ started' \in [Sessions -> Nat]
      BY <1>1, <2>3, <3>2 DEF Dial
    <3>5. /\ run' \in {"dial", "handshake", "connect", "watch", "wait", "stopped"}
          /\ faults' \in 0 .. MaxFaults /\ dialer' \in Dialers
          /\ request' \in {"none", "close"} /\ stopping' \in BOOLEAN
      BY <1>1, <2>3 DEF Dial, MayFail, Fault
    <3> QED BY ONLY <3>3, <3>4, <3>5 DEF TypeOK
  <2> QED BY <1>1, <2>1, <2>2, <2>3 DEF Dial
<1>2. CASE Handshake
  <2>1. /\ UNCHANGED <<made, carrier, published, dialer, request, serving, started, stopping>>
        /\ run' \in {"connect", "wait"} /\ made \in 1 .. made
        /\ closed' \in {closed, closed \cup {made}}
    BY <1>2 DEF Handshake, Succession
  <2>2. faults' \in 0 .. MaxFaults
    BY <1>2 DEF Handshake, MayFail, Fault
  <2> QED BY <2>1, <2>2
<1>3. CASE Publish
  <2>1. published' \in 0 .. made
    BY <1>3 DEF Publish
  <2>2. UNCHANGED <<made, closed, carrier, faults, dialer, request, serving, started, stopping>>
    BY <1>3 DEF Publish
  <2>3. run' = "watch"
    BY <1>3 DEF Publish
  <2> QED BY <2>1, <2>2, <2>3
<1>4. CASE Watch
  <2>1. UNCHANGED <<made, carrier, faults, dialer, request, serving, started, stopping>>
    BY <1>4 DEF Watch
  <2>2. run' \in {"wait", "stopped"} /\ published' = 0
    BY <1>4 DEF Watch
  <2>3. closed' \in {closed, closed \cup {published}} /\ published = made /\ made # 0
    BY <1>4 DEF Watch, Succession
  <2> QED BY <2>1, <2>2, <2>3
<1>5. CASE Redial
  BY <1>5 DEF Redial
<1>6. CASE LoseLink
  BY <1>6 DEF LoseLink, Alive
<1>7. CASE SetDialer
  BY <1>7 DEF SetDialer, linkVars
<1>8. CASE CloseOld
  BY <1>8 DEF CloseOld
<1>9. CASE Serve
  BY <1>9 DEF Serve, Alive, linkVars
<1>10. CASE Leave
  BY <1>10 DEF Leave, linkVars
<1>11. CASE Shutdown
  BY <1>11 DEF Shutdown, linkVars
<1>12. CASE UNCHANGED vars
  BY <1>12 DEF vars, linkVars
<1> QED
  BY <1>1, <1>2, <1>3, <1>4, <1>5, <1>6, <1>7, <1>8, <1>9, <1>10, <1>11, <1>12 DEF Next

LEMMA StepSuccession ==
  ASSUME LinkInv, [Next]_vars
  PROVE  Succession' /\ EndsCounted'
<1> USE BoundsAssumption DEF LinkInv, TypeOK, Succession, EndsCounted, Dialers, Alive
<1>1. CASE Dial
  BY <1>1 DEF Dial, MayFail, Fault
<1>2. CASE Handshake
  BY <1>2 DEF Handshake, MayFail, Fault
<1>3. CASE Publish
  BY <1>3 DEF Publish
<1>4. CASE Watch
  BY <1>4 DEF Watch
<1>5. CASE Redial
  BY <1>5 DEF Redial
<1>6. CASE LoseLink
  BY <1>6 DEF LoseLink
<1>7. CASE SetDialer
  BY <1>7 DEF SetDialer, linkVars
<1>8. CASE CloseOld
  BY <1>8 DEF CloseOld
<1>9. CASE Serve
  BY <1>9 DEF Serve, linkVars
<1>10. CASE Leave
  BY <1>10 DEF Leave, linkVars
<1>11. CASE Shutdown
  BY <1>11 DEF Shutdown, linkVars
<1>12. CASE UNCHANGED vars
  BY <1>12 DEF vars, linkVars
<1> QED
  BY <1>1, <1>2, <1>3, <1>4, <1>5, <1>6, <1>7, <1>8, <1>9, <1>10, <1>11, <1>12 DEF Next

LEMMA StepSetUp ==
  ASSUME LinkInv, [Next]_vars
  PROVE  SetUpOnce'
<1> USE DEF LinkInv, TypeOK, SetUpOnce, Alive
<1>1. closed \subseteq closed'
  BY DEF Next, vars, linkVars, Dial, Handshake, Publish, Watch, Redial, LoseLink,
         SetDialer, CloseOld, Serve, Leave, Shutdown
<1>2. CASE Serve
  \* The session taken is alive and not served, so it was not set up before.
  <2>1. published \in Sessions => started[published] = 0
    BY <1>2 DEF Serve
  <2>2. started' = [started EXCEPT ![published] = @ + 1] /\ serving' = published
    BY <1>2 DEF Serve
  <2>3. \A s \in Sessions : started[s] # 0 => s \in closed
    BY <1>2, BoundsAssumption DEF Serve, Sessions
  <2>4. closed' = closed /\ published' = published
    BY <1>2 DEF Serve, linkVars
  <2>5. ASSUME NEW s \in Sessions
        PROVE  /\ started'[s] <= 1
               /\ started'[s] # 0 => s = serving' \/ s \in closed'
    <3>1. CASE s = published
      BY <2>1, <2>2, <3>1
    <3>2. CASE s # published
      BY <2>2, <2>3, <2>4, <3>2
    <3> QED BY <3>1, <3>2
  <2> QED BY <2>2, <2>4, <2>5
<1>3. CASE Leave
  \* A living session that is not published is not the one served.
  <2>1. started' = started /\ serving' = 0 /\ closed' = closed
    BY <1>3 DEF Leave, linkVars
  <2>2. serving \in closed
    BY <1>3 DEF Leave
  <2> QED BY <2>1, <2>2
<1>4. ASSUME started' = started, serving' = serving PROVE SetUpOnce'
  \* What is published only changes when nothing living is served.
  <2>1. published' = published \/ ~Alive(serving)'
    <3>1. CASE Publish
      BY <1>4, <3>1 DEF Publish, Succession
    <3>2. CASE Watch
      BY <1>4, <3>2 DEF Watch, Succession
    <3> QED
      BY <3>1, <3>2 DEF Next, vars, linkVars, Dial, Handshake, Redial, LoseLink,
         SetDialer, CloseOld, Serve, Leave, Shutdown
  <2> QED BY <1>1, <1>4, <2>1
<1>5. Serve \/ Leave \/ (started' = started /\ serving' = serving)
  BY DEF Next, vars, Dial, Handshake, Publish, Watch, Redial, LoseLink,
         SetDialer, CloseOld, Shutdown
<1> QED BY <1>2, <1>3, <1>4, <1>5

LEMMA LinkInvariant == Spec => []LinkInv
<1>1. LinkInv /\ [Next]_vars => LinkInv'
  BY StepTypes, StepSuccession, StepSetUp DEF LinkInv
<1> QED BY InitLink, <1>1, PTL DEF Spec

-----------------------------------------------------------------------------

\* Every reachable state is well typed; in particular the sessions opened are
\* bounded by the faults and the changes of radio, as Link.Run opens none without
\* a reason.
THEOREM LinkTypeCorrect == Spec => []TypeOK
<1>1. LinkInv => TypeOK
  BY DEF LinkInv
<1> QED BY LinkInvariant, <1>1, PTL

\* Link.Run keeps one session at most alive: connect's failure paths and RebuildLink
\* never leave an open session behind for the next dial to compete with.
THEOREM OneAlive == Spec => []OneSession
<1>1. LinkInv => OneSession
  BY DEF LinkInv, Succession, OneSession
<1> QED BY LinkInvariant, <1>1, PTL

\* A supervisor that has returned has closed its session and published nil.
THEOREM CleanStop == Spec => []StoppedClean
<1>1. LinkInv => StoppedClean
  BY DEF LinkInv, TypeOK, Succession, StoppedClean, Alive
<1> QED BY LinkInvariant, <1>1, PTL

\* meshLoop sets up each session once, dead ones that are still published included.
THEOREM SetUpAtMostOnce == Spec => []ServedOnce
<1>1. LinkInv => ServedOnce
  BY DEF LinkInv, SetUpOnce, ServedOnce
<1> QED BY LinkInvariant, <1>1, PTL

=============================================================================

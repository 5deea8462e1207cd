----------------------------- MODULE CLIProofs -----------------------------
(***************************************************************************)
(* Theorems about RemoteCLI, for any number of runners, commands, logins   *)
(* and lines.  A line says nothing of the command it answers, so what      *)
(* keeps two runners apart is the registration: CLIInv says that whatever  *)
(* can still become a line is a command of the runner that is registered,  *)
(* or of one that left early.                                              *)
(***************************************************************************)
EXTENDS RemoteCLI, TLAPS

Listening == {"send", "wait", "collect"}
LoggingIn == {"login", "prove", "verdict", "proof"}

CLIShape ==
  /\ runner \in [Runners -> {"idle", "register"} \union Listening \union LoggingIn]
  /\ current \in [Runners -> Nat]
  /\ output \in [Runners -> Seq(Nat)]
  /\ waiter \in Runners \union {NoRunner}
  /\ box \in Seq(Nat)
  /\ loginWaiter \in Runners \union {NoRunner}
  /\ answering \in Seq([command : Nat, lines : Nat])
  /\ outputs \in Seq(Nat)
  /\ abandoned \subseteq Nat

\* The commands of which a line may still be collected.
Owed ==
  {answering[i].command : i \in {j \in DOMAIN answering : answering[j].lines > 0}}
    \union ToSet(outputs) \union ToSet(box)

\* The commands somebody is there to collect for.
Attended ==
  {current[r] : r \in {s \in Runners : waiter = s /\ runner[s] \in {"wait", "collect"}}}

\* Whoever left while lines were on their way is on record.
Accounted == Owed \subseteq Attended \union abandoned

CLIInv == CLIShape /\ RegistrationsHeld /\ Accounted /\ AnswersMatch
-----------------------------------------------------------------------------
(***************************************************************************)
(* Sequences as sets.                                                      *)
(***************************************************************************)

\* What is appended is in, and nothing else is new.
LEMMA SetOfAppend ==
  ASSUME NEW S, NEW q \in Seq(S), NEW e
  PROVE  ToSet(Append(q, e)) = ToSet(q) \union {e}
<1>1. DOMAIN q = 1 .. Len(q)
  OBVIOUS
<1>2. DOMAIN Append(q, e) = 1 .. Len(q) + 1
  OBVIOUS
<1>3. \A i \in 1 .. Len(q) : Append(q, e)[i] = q[i]
  OBVIOUS
<1>4. Append(q, e)[Len(q) + 1] = e
  OBVIOUS
<1>5. Len(q) \in Nat
  OBVIOUS
<1>6. \A i : i \in 1 .. Len(q) + 1 <=> i \in 1 .. Len(q) \/ i = Len(q) + 1
  BY <1>5
<1> QED
  BY <1>1, <1>2, <1>3, <1>4, <1>6 DEF ToSet

\* What is taken from the front was in, and the rest stays.
LEMMA SetOfTail ==
  ASSUME NEW S, NEW q \in Seq(S), q # << >>
  PROVE  /\ Head(q) \in ToSet(q) /\ Head(q) \in S
         /\ Tail(q) \in Seq(S)
         /\ ToSet(Tail(q)) \subseteq ToSet(q)
<1>1. DOMAIN q = 1 .. Len(q) /\ Len(q) \in Nat /\ Len(q) > 0
  OBVIOUS
<1>2. Tail(q) \in Seq(S) /\ Len(Tail(q)) = Len(q) - 1
  OBVIOUS
<1>3. DOMAIN Tail(q) = 1 .. Len(q) - 1
  BY <1>2
<1>4. \A i \in 1 .. Len(q) - 1 : Tail(q)[i] = q[i + 1] /\ i + 1 \in 1 .. Len(q)
  BY <1>1
<1>5. Head(q) = q[1] /\ 1 \in 1 .. Len(q)
  BY <1>1
<1> QED
  BY <1>1, <1>2, <1>3, <1>4, <1>5 DEF ToSet

\* Nobody waits under the name that means nobody.
LEMMA NamesNobody == \A r \in Runners : r # NoRunner
BY CLIAssumption

\* The invariant holds at the start.
LEMMA CLIInitInv == CLIInit => CLIInv
<1> SUFFICES ASSUME CLIInit
             PROVE  CLIInv
  OBVIOUS
<1> USE DEF CLIInit
<1>1. CLIShape
  BY DEF CLIShape, None
<1>2. RegistrationsHeld
  BY NamesNobody DEF RegistrationsHeld
<1>3. DOMAIN << >> = {}
  OBVIOUS
<1>4. Accounted
  BY <1>3 DEF Accounted, Owed, ToSet
<1>5. AnswersMatch
  BY <1>3 DEF AnswersMatch, ToSet
<1> QED
  BY <1>1, <1>2, <1>4, <1>5 DEF CLIInv
-----------------------------------------------------------------------------
(***************************************************************************)
(* The node and the mesh loop: a line goes from the node to the wire to    *)
(* the box, and is owed all the way.                                       *)
(***************************************************************************)

LEMMA PrintsKeeps == CLIInv /\ NodePrints => CLIInv'
<1> SUFFICES ASSUME CLIInv, NodePrints
             PROVE  CLIInv'
  OBVIOUS
<1> USE DEF CLIInv
<1>1. PICK i \in DOMAIN answering :
        /\ answering[i].lines > 0
        /\ outputs' = Append(outputs, answering[i].command)
        /\ answering' = [answering EXCEPT ![i].lines = @ - 1]
  BY DEF NodePrints
<1>2. UNCHANGED <<runner, current, output, waiter, box, loginWaiter, abandoned>>
  BY DEF NodePrints
<1> DEFINE Command == [command : Nat, lines : Nat]
<1>a. answering \in Seq(Command)
  BY DEF CLIShape
<1> HIDE DEF Command
<1>b. answering[i] \in Command
  BY <1>a
<1>3. answering[i] \in [command : Nat, lines : Nat]
  BY <1>b DEF Command
<1>4. answering[i].lines - 1 \in Nat
  BY <1>1, <1>3
<1>c. [answering[i] EXCEPT !.lines = @ - 1] \in Command
  BY <1>3, <1>4 DEF Command
<1>d. answering' \in Seq(Command)
  BY <1>1, <1>a, <1>c
<1>5. answering' \in Seq([command : Nat, lines : Nat])
  BY <1>d DEF Command
<1>6. outputs' \in Seq(Nat)
  BY <1>1, <1>3 DEF CLIShape
<1>7. CLIShape'
  BY <1>2, <1>5, <1>6 DEF CLIShape
<1>8. RegistrationsHeld'
  BY <1>2 DEF RegistrationsHeld
<1>9. \A j \in DOMAIN answering' :
        /\ j \in DOMAIN answering
        /\ answering'[j].command = answering[j].command
        /\ answering'[j].lines > 0 => answering[j].lines > 0
  BY <1>1, <1>3 DEF CLIShape
<1>10. ToSet(outputs') = ToSet(outputs) \union {answering[i].command}
  BY <1>1, SetOfAppend DEF CLIShape
<1>11. Owed' \subseteq Owed
  BY <1>1, <1>2, <1>9, <1>10 DEF Owed
<1>12. Accounted'
  BY <1>2, <1>11 DEF Accounted, Attended
<1>13. AnswersMatch'
  BY <1>2 DEF AnswersMatch
<1> QED
  BY <1>7, <1>8, <1>12, <1>13

LEMMA DeliverKeeps == CLIInv /\ DeliverReply => CLIInv'
<1> SUFFICES ASSUME CLIInv, DeliverReply
             PROVE  CLIInv'
  OBVIOUS
<1> USE DEF CLIInv
<1>1. /\ outputs # <<>>
      /\ outputs' = Tail(outputs)
      /\ box' = Append(box, Head(outputs)) \/ box' = box
      /\ UNCHANGED <<runner, current, output, waiter, loginWaiter, answering, abandoned>>
  BY DEF DeliverReply, nodeVars
<1>2. /\ Head(outputs) \in ToSet(outputs) /\ Head(outputs) \in Nat
      /\ Tail(outputs) \in Seq(Nat)
      /\ ToSet(Tail(outputs)) \subseteq ToSet(outputs)
  BY <1>1, SetOfTail DEF CLIShape
<1>3. ToSet(Append(box, Head(outputs))) = ToSet(box) \union {Head(outputs)}
  BY SetOfAppend DEF CLIShape
<1>a. box \in Seq(Nat) /\ Append(box, Head(outputs)) \in Seq(Nat)
  BY <1>2 DEF CLIShape
<1>4. box' \in Seq(Nat)
  BY <1>1, <1>a
<1>5. CLIShape'
  BY <1>1, <1>2, <1>4 DEF CLIShape
<1>6. RegistrationsHeld'
  BY <1>1 DEF RegistrationsHeld
<1>7. ToSet(box') \subseteq ToSet(box) \union ToSet(outputs)
  BY <1>1, <1>2, <1>3
<1>8. Owed' \subseteq Owed
  BY <1>1, <1>2, <1>7 DEF Owed
<1>9. Accounted'
  BY <1>1, <1>8 DEF Accounted, Attended
<1>10. AnswersMatch'
  BY <1>1 DEF AnswersMatch
<1> QED
  BY <1>5, <1>6, <1>9, <1>10

\* Verdicts, room logins and the link are no part of the argument.
LEMMA VerdictsKeep ==
  ASSUME CLIInv,
         UNCHANGED <<runner, current, output, waiter, box, loginWaiter, answering, outputs,
                     abandoned>>
  PROVE  CLIInv'
BY DEF CLIInv, CLIShape, RegistrationsHeld, Accounted, Owed, Attended, AnswersMatch
-----------------------------------------------------------------------------
(***************************************************************************)
(* The runners.                                                            *)
(***************************************************************************)

\* What a step of one runner between "idle" and "register" leaves alone.
LEMMA LoginKeeps ==
  ASSUME NEW r \in Runners, NEW to, CLIInv,
         runner[r] \notin Listening, to \in {"idle", "register"} \union LoggingIn,
         Goto(r, to),
         loginWaiter' \in Runners \union {NoRunner},
         loginWaiter' = r <=> to \in LoggingIn,
         \A s \in Runners \ {r} : loginWaiter' = s <=> loginWaiter = s,
         UNCHANGED <<current, output, waiter, box, answering, outputs, abandoned>>
  PROVE  CLIInv'
<1> USE DEF CLIInv
<1>1. /\ runner' \in [Runners -> {"idle", "register"} \union Listening \union LoggingIn]
      /\ runner'[r] = to
      /\ \A s \in Runners \ {r} : runner'[s] = runner[s]
  BY DEF Goto, CLIShape
<1>2. CLIShape'
  BY <1>1 DEF CLIShape
<1>3. to \notin Listening
  BY DEF Listening, LoggingIn
<1>4. RegistrationsHeld'
  <2> SUFFICES ASSUME NEW s \in Runners
               PROVE  /\ waiter' = s <=> runner'[s] \in Listening
                      /\ loginWaiter' = s <=> runner'[s] \in LoggingIn
    BY DEF RegistrationsHeld, Listening, LoggingIn
  <2>1. CASE s = r
    BY <1>1, <1>3, <2>1 DEF RegistrationsHeld, Listening
  <2>2. CASE s # r
    BY <1>1, <2>2 DEF RegistrationsHeld, Listening, LoggingIn
  <2> QED
    BY <2>1, <2>2
<1>5. \A s \in Runners :
        waiter = s /\ runner[s] \in {"wait", "collect"} => runner'[s] = runner[s]
  BY <1>1 DEF Listening
<1>6. Attended \subseteq Attended'
  BY <1>5 DEF Attended
<1>7. Owed' = Owed
  BY DEF Owed
<1>8. Accounted'
  BY <1>6, <1>7 DEF Accounted
<1>9. AnswersMatch'
  BY DEF AnswersMatch
<1> QED
  BY <1>2, <1>4, <1>8, <1>9

LEMMA RunKeeps == ASSUME NEW r \in Runners, CLIInv, RunCLI(r) PROVE CLIInv'
<1>1. /\ runner[r] \notin Listening
      /\ UNCHANGED <<current, output, waiter, box, answering, outputs, abandoned>>
  BY DEF RunCLI, nodeVars, Listening
<1>2. loginWaiter # r
  BY DEF RunCLI, CLIInv, RegistrationsHeld
<1>3. CASE admin /\ Goto(r, "register") /\ UNCHANGED loginWaiter
  BY <1>1, <1>2, <1>3, LoginKeeps DEF LoggingIn, CLIInv, CLIShape
<1>4. CASE loginWaiter = NoRunner /\ loginWaiter' = r /\ Goto(r, "login")
  BY <1>1, <1>4, LoginKeeps, NamesNobody DEF LoggingIn
<1> QED
  BY <1>3, <1>4 DEF RunCLI

LEMMA SetPasswordKeeps == ASSUME NEW r \in Runners, CLIInv, SetPassword(r) PROVE CLIInv'
<1>1. /\ runner[r] \notin Listening
      /\ UNCHANGED <<current, output, waiter, box, answering, outputs, abandoned>>
  BY DEF SetPassword, nodeVars, Listening
<1>2. CASE loginWaiter = NoRunner
  <2>1. loginWaiter' = r /\ Goto(r, "prove")
    BY <1>2 DEF SetPassword
  <2> QED
    BY <1>1, <1>2, <2>1, LoginKeeps, NamesNobody DEF LoggingIn
<1>3. CASE loginWaiter # NoRunner
  <2>1. UNCHANGED <<loginWaiter, runner>>
    BY <1>3 DEF SetPassword
  <2> QED
    BY <1>1, <2>1, VerdictsKeep
<1> QED
  BY <1>2, <1>3

LEMMA SendLoginKeeps == ASSUME NEW r \in Runners, CLIInv, Login(r) PROVE CLIInv'
<1>1. /\ runner[r] \notin Listening /\ loginWaiter = r
      /\ UNCHANGED <<current, output, waiter, box, loginWaiter, answering, outputs, abandoned>>
  BY DEF Login, Listening
<1>2. \/ Goto(r, "verdict")
      \/ Goto(r, "proof")
  BY DEF Login
<1> QED
  BY <1>1, <1>2, LoginKeeps DEF LoggingIn

\* A runner that leaves its login takes its registration along, and no other's.
LEMMA LeaveKeeps ==
  ASSUME NEW r \in Runners, CLIInv, runner[r] \in LoggingIn,
         LeaveLogin(r),
         Goto(r, "idle") \/ Goto(r, "register"),
         UNCHANGED <<current, output, waiter, box, answering, outputs, abandoned>>
  PROVE  CLIInv'
<1>1. runner[r] \notin Listening
  BY DEF Listening, LoggingIn
<1>2. loginWaiter = r /\ loginWaiter' = NoRunner
  BY DEF CLIInv, RegistrationsHeld, LoggingIn, LeaveLogin
<1> QED
  BY <1>1, <1>2, LoginKeeps, NamesNobody DEF LoggingIn

LEMMA TakeVerdictKeeps == ASSUME NEW r \in Runners, CLIInv, TakeVerdict(r) PROVE CLIInv'
<1>1. Goto(r, "idle") \/ Goto(r, "register")
  BY DEF TakeVerdict
<1> QED
  BY <1>1, LeaveKeeps DEF TakeVerdict, nodeVars, LoggingIn

LEMMA GiveUpKeeps == ASSUME NEW r \in Runners, CLIInv, GiveUpLogin(r) PROVE CLIInv'
BY LeaveKeeps DEF GiveUpLogin, nodeVars, LoggingIn

LEMMA AwaitReplyKeeps == ASSUME NEW r \in Runners, CLIInv, AwaitReply(r) PROVE CLIInv'
<1> USE DEF CLIInv
<1>1. /\ runner[r] = "register"
      /\ UNCHANGED <<current, output, loginWaiter, answering, outputs, abandoned>>
  BY DEF AwaitReply, nodeVars
<1>2. CASE waiter # NoRunner
  <2>1. Goto(r, "idle") /\ UNCHANGED <<waiter, box>>
    BY <1>2 DEF AwaitReply
  <2>2. loginWaiter # r
    BY <1>1 DEF RegistrationsHeld
  <2> QED
    BY <1>1, <2>1, <2>2, LoginKeeps DEF Listening, LoggingIn, CLIShape
<1>3. CASE waiter = NoRunner
  <2>1. waiter' = r /\ box' = <<>> /\ Goto(r, "send")
    BY <1>3 DEF AwaitReply
  <2>2. /\ runner' \in [Runners -> {"idle", "register"} \union Listening \union LoggingIn]
        /\ runner'[r] = "send"
        /\ \A s \in Runners \ {r} : runner'[s] = runner[s]
    BY <2>1 DEF Goto, CLIShape, Listening
  <2>3. CLIShape'
    BY <1>1, <2>1, <2>2 DEF CLIShape
  <2>4. RegistrationsHeld'
    <3> SUFFICES ASSUME NEW s \in Runners
                 PROVE  /\ waiter' = s <=> runner'[s] \in Listening
                        /\ loginWaiter' = s <=> runner'[s] \in LoggingIn
      BY DEF RegistrationsHeld, Listening, LoggingIn
    <3>1. CASE s = r
      BY <1>1, <2>1, <2>2, <3>1 DEF RegistrationsHeld, Listening, LoggingIn
    <3>2. CASE s # r
      BY <1>1, <1>3, <2>1, <2>2, <3>2, NamesNobody DEF RegistrationsHeld, Listening, LoggingIn
    <3> QED
      BY <3>1, <3>2
  <2>5. Attended = {}
    BY <1>3, NamesNobody DEF Attended
  <2>6. ToSet(box') = {}
    BY <2>1 DEF ToSet
  <2>7. Owed' \subseteq Owed
    BY <1>1, <2>6 DEF Owed
  <2>8. Accounted'
    BY <1>1, <2>5, <2>7 DEF Accounted
  <2>9. AnswersMatch'
    BY <1>1 DEF AnswersMatch
  <2> QED
    BY <2>3, <2>4, <2>8, <2>9
<1> QED
  BY <1>2, <1>3

\* The command that goes out is the first thing its runner is there to hear; all
\* that is still owed from before belongs to somebody who left.
LEMMA SendKeeps == ASSUME NEW r \in Runners, CLIInv, SendCLI(r) PROVE CLIInv'
<1> USE DEF CLIInv
<1> DEFINE c == Len(answering) + 1
<1>1. PICK n \in 0 .. MaxLines :
        answering' = Append(answering, [command |-> c, lines |-> n])
  BY DEF SendCLI
<1>2. /\ runner[r] = "send"
      /\ current' = [current EXCEPT ![r] = c]
      /\ output' = [output EXCEPT ![r] = <<>>]
      /\ Goto(r, "wait")
      /\ UNCHANGED <<waiter, box, loginWaiter, outputs, abandoned>>
  BY DEF SendCLI
<1>3. c \in Nat /\ n \in Nat
  BY CLIAssumption DEF CLIShape
<1>4. answering' \in Seq([command : Nat, lines : Nat])
  BY <1>1, <1>3 DEF CLIShape
<1>5. /\ runner' \in [Runners -> {"idle", "register"} \union Listening \union LoggingIn]
      /\ runner'[r] = "wait"
      /\ \A s \in Runners \ {r} : runner'[s] = runner[s]
  BY <1>2 DEF Goto, CLIShape, Listening
<1>6. /\ current' \in [Runners -> Nat] /\ current'[r] = c
      /\ output' \in [Runners -> Seq(Nat)] /\ output'[r] = <<>>
      /\ \A s \in Runners \ {r} : current'[s] = current[s] /\ output'[s] = output[s]
  BY <1>2, <1>3 DEF CLIShape
<1>7. CLIShape'
  BY <1>2, <1>4, <1>5, <1>6 DEF CLIShape
<1>8. RegistrationsHeld'
  <2> SUFFICES ASSUME NEW s \in Runners
               PROVE  /\ waiter' = s <=> runner'[s] \in Listening
                      /\ loginWaiter' = s <=> runner'[s] \in LoggingIn
    BY DEF RegistrationsHeld, Listening, LoggingIn
  <2>1. CASE s = r
    BY <1>2, <1>5, <2>1 DEF RegistrationsHeld, Listening, LoggingIn
  <2>2. CASE s # r
    BY <1>2, <1>5, <2>2 DEF RegistrationsHeld, Listening, LoggingIn
  <2> QED
    BY <2>1, <2>2
<1>9. waiter = r
  BY <1>2 DEF RegistrationsHeld
<1>10. Attended = {}
  BY <1>2, <1>9 DEF Attended
<1>11. c \in Attended'
  BY <1>2, <1>5, <1>6, <1>9 DEF Attended
<1>12. \A j \in DOMAIN answering' :
         \/ j \in DOMAIN answering /\ answering'[j] = answering[j]
         \/ answering'[j].command = c
  BY <1>1, <1>3 DEF CLIShape
<1>13. Owed' \subseteq Owed \union {c}
  BY <1>2, <1>12 DEF Owed
<1>14. Accounted'
  BY <1>2, <1>10, <1>11, <1>13 DEF Accounted
<1>15. AnswersMatch'
  <2> SUFFICES ASSUME NEW s \in Runners
               PROVE  ToSet(output'[s]) \subseteq {current'[s]} \union abandoned'
    BY DEF AnswersMatch
  <2>1. CASE s = r
    BY <1>6, <2>1 DEF ToSet
  <2>2. CASE s # r
    BY <1>2, <1>6, <2>2 DEF AnswersMatch
  <2> QED
    BY <2>1, <2>2
<1> QED
  BY <1>7, <1>8, <1>14, <1>15

LEMMA CollectKeeps == ASSUME NEW r \in Runners, CLIInv, CollectLines(r) PROVE CLIInv'
<1> USE DEF CLIInv
<1>1. /\ runner[r] \in {"wait", "collect"} /\ waiter = r /\ box # <<>>
      /\ output' = [output EXCEPT ![r] = Append(@, Head(box))]
      /\ box' = Tail(box)
      /\ Goto(r, "collect")
      /\ UNCHANGED <<current, waiter, loginWaiter, answering, outputs, abandoned>>
  BY DEF CollectLines, nodeVars
<1>2. /\ Head(box) \in ToSet(box) /\ Head(box) \in Nat
      /\ Tail(box) \in Seq(Nat)
      /\ ToSet(Tail(box)) \subseteq ToSet(box)
  BY <1>1, SetOfTail DEF CLIShape
<1>3. /\ runner' \in [Runners -> {"idle", "register"} \union Listening \union LoggingIn]
      /\ runner'[r] = "collect"
      /\ \A s \in Runners \ {r} : runner'[s] = runner[s]
  BY <1>1 DEF Goto, CLIShape, Listening
<1>4. /\ output' \in [Runners -> Seq(Nat)]
      /\ output'[r] = Append(output[r], Head(box))
      /\ \A s \in Runners \ {r} : output'[s] = output[s]
  BY <1>1, <1>2 DEF CLIShape
<1>5. CLIShape'
  BY <1>1, <1>2, <1>3, <1>4 DEF CLIShape
<1>6. RegistrationsHeld'
  <2> SUFFICES ASSUME NEW s \in Runners
               PROVE  /\ waiter' = s <=> runner'[s] \in Listening
                      /\ loginWaiter' = s <=> runner'[s] \in LoggingIn
    BY DEF RegistrationsHeld, Listening, LoggingIn
  <2>1. CASE s = r
    BY <1>1, <1>3, <2>1 DEF RegistrationsHeld, Listening, LoggingIn
  <2>2. CASE s # r
    BY <1>1, <1>3, <2>2 DEF RegistrationsHeld, Listening, LoggingIn
  <2> QED
    BY <2>1, <2>2
<1>7. Attended = {current[r]} /\ Attended' = {current[r]}
  BY <1>1, <1>3 DEF Attended
<1>8. Owed' \subseteq Owed /\ Head(box) \in Owed
  BY <1>1, <1>2 DEF Owed
<1>9. Accounted'
  BY <1>1, <1>7, <1>8 DEF Accounted
<1>10. Head(box) \in {current[r]} \union abandoned
  BY <1>7, <1>8 DEF Accounted
<1>11. ToSet(output'[r]) = ToSet(output[r]) \union {Head(box)}
  BY <1>4, SetOfAppend DEF CLIShape
<1>12. AnswersMatch'
  <2> SUFFICES ASSUME NEW s \in Runners
               PROVE  ToSet(output'[s]) \subseteq {current[s]} \union abandoned
    BY <1>1 DEF AnswersMatch
  <2>1. CASE s = r
    BY <1>10, <1>11, <2>1 DEF AnswersMatch
  <2>2. CASE s # r
    BY <1>4, <2>2 DEF AnswersMatch
  <2> QED
    BY <2>1, <2>2
<1> QED
  BY <1>5, <1>6, <1>9, <1>12

\* A runner that leaves lines behind puts its command on record.
LEMMA ReturnKeeps == ASSUME NEW r \in Runners, CLIInv, Return(r) PROVE CLIInv'
<1> USE DEF CLIInv
<1>1. /\ runner[r] \in Listening
      /\ waiter' = NoRunner /\ box' = <<>>
      /\ Goto(r, "idle")
      /\ UNCHANGED <<current, output, loginWaiter, answering, outputs>>
  BY DEF Return, nodeVars, Listening
<1>2. /\ abandoned \subseteq abandoned'
      /\ abandoned' \subseteq abandoned \union {current[r]}
      /\ runner[r] # "send" /\ Owing(current[r]) => current[r] \in abandoned'
  BY DEF Return
<1>3. /\ runner' \in [Runners -> {"idle", "register"} \union Listening \union LoggingIn]
      /\ runner'[r] = "idle"
      /\ \A s \in Runners \ {r} : runner'[s] = runner[s]
  BY <1>1 DEF Goto, CLIShape
<1>4. current[r] \in Nat
  BY DEF CLIShape
<1>5. CLIShape'
  BY <1>1, <1>2, <1>3, <1>4 DEF CLIShape
<1>6. waiter = r
  BY <1>1 DEF RegistrationsHeld, Listening
<1>7. RegistrationsHeld'
  <2> SUFFICES ASSUME NEW s \in Runners
               PROVE  /\ waiter' = s <=> runner'[s] \in Listening
                      /\ loginWaiter' = s <=> runner'[s] \in LoggingIn
    BY DEF RegistrationsHeld, Listening, LoggingIn
  <2>1. CASE s = r
    BY <1>1, <1>3, <2>1, NamesNobody DEF RegistrationsHeld, Listening, LoggingIn
  <2>2. CASE s # r
    BY <1>1, <1>3, <1>6, <2>2, NamesNobody DEF RegistrationsHeld, Listening, LoggingIn
  <2> QED
    BY <2>1, <2>2
<1>8. ToSet(box') = {}
  BY <1>1 DEF ToSet
<1>9. Owed' \subseteq Owed
  BY <1>1, <1>8 DEF Owed
<1>10. \A c \in Owed : Owing(c)
  BY DEF Owed, Owing
<1>11. \A c \in Attended : c = current[r] /\ runner[r] # "send"
  BY <1>6 DEF Attended
<1>12. Owed \subseteq abandoned'
  BY <1>2, <1>10, <1>11 DEF Accounted
<1>13. Accounted'
  BY <1>9, <1>12 DEF Accounted
<1>14. AnswersMatch'
  BY <1>1, <1>2 DEF AnswersMatch
<1> QED
  BY <1>5, <1>7, <1>13, <1>14
-----------------------------------------------------------------------------
LEMMA CLIStepInv == CLIInv /\ [CLINext]_cliVars => CLIInv'
<1> SUFFICES ASSUME CLIInv, [CLINext]_cliVars
             PROVE  CLIInv'
  OBVIOUS
<1>1. CASE NodePrints
  BY <1>1, PrintsKeeps
<1>2. CASE NodeJudges
  BY <1>2, VerdictsKeep DEF NodeJudges
<1>3. CASE DeliverReply
  BY <1>3, DeliverKeeps
<1>4. CASE DeliverVerdict
  BY <1>4, VerdictsKeep DEF DeliverVerdict, nodeVars
<1>5. CASE RoomLogin
  BY <1>5, VerdictsKeep DEF RoomLogin
<1>6. CASE ExpireRoomLogin
  BY <1>6, VerdictsKeep DEF ExpireRoomLogin, nodeVars
<1>7. CASE Disconnect
  BY <1>7, VerdictsKeep DEF Disconnect
<1>8. CASE \E r \in Runners : RunCLI(r) \/ SetPassword(r) \/ Runs(r)
  BY <1>8, RunKeeps, SetPasswordKeeps, SendLoginKeeps, TakeVerdictKeeps, GiveUpKeeps,
     AwaitReplyKeeps, SendKeeps, CollectKeeps, ReturnKeeps DEF Runs
<1>9. CASE UNCHANGED cliVars
  BY <1>9, VerdictsKeep DEF cliVars
<1> QED
  BY <1>1, <1>2, <1>3, <1>4, <1>5, <1>6, <1>7, <1>8, <1>9 DEF CLINext

\* CLIInv holds: each registration has its owner, and a line that can still come is
\* of a command somebody collects for, or left behind on record.
THEOREM CLIInvariant == CLISpec => []CLIInv
BY CLIInitInv, CLIStepInv, PTL DEF CLISpec

\* A registration for a node's output, or for a verdict, is held by the runner
\* that waits for it and goes with it: awaitCLIReply and ensureCLIAdmin never
\* leave one behind, whatever times out, is refused or is cut off.
THEOREM RegistrationsAlwaysHeld == CLISpec => []RegistrationsHeld
<1>1. CLIInv => RegistrationsHeld
  BY DEF CLIInv
<1> QED
  BY CLIInvariant, <1>1, PTL

\* A runner collects nothing of another's command, unless that one's runner had
\* left while lines were on their way: one registration per node stands in for
\* the identifier that replies do not carry.
THEOREM NoWrongAnswer == CLISpec => []AnswersMatch
<1>1. CLIInv => AnswersMatch
  BY DEF CLIInv
<1> QED
  BY CLIInvariant, <1>1, PTL
=============================================================================

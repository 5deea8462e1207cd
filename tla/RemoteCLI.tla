----------------------------- MODULE RemoteCLI -----------------------------
(***************************************************************************)
(* Commands run on one repeater or room server over the air                *)
(* (bridge/nodecli.go), next to the room login the bridge may have under   *)
(* way with the same node.  Neither an output nor a verdict says what it   *)
(* answers: both go to whoever is registered for the node when they come.  *)
(*                                                                         *)
(* A line of output is the number of its command, which the code cannot    *)
(* see and the properties are about.                                       *)
(***************************************************************************)
EXTENDS Integers, SequencesExt

CONSTANTS
  Runners,     \* requests of meshycord-cli
  MaxCommands, \* requests of any kind, and so commands transmitted
  MaxLogins,   \* logins sent, of either kind
  MaxLines     \* lines a command may answer with

NoRunner == "none"
None == 0

ASSUME CLIAssumption ==
  /\ MaxCommands \in Nat /\ MaxLogins \in Nat /\ MaxLines \in Nat
  /\ NoRunner \notin Runners

VARIABLES
  runner,     \* where each RunCLI is
  current,    \* the command each is waiting for
  output,     \* the lines each has collected
  waiter,     \* cliWaiters: the runner registered for the node's output
  box,        \* the reply channel of that registration
  loginWaiter,\* cliLogins: the runner registered for a verdict
  slot,       \* its channel, of capacity one
  admin,      \* cliAdminAt: a session fresh enough to trust
  roomLogin,  \* roomSession.loginInFlight of the same node
  answering,  \* commands the node has and may still answer, with the lines left
  outputs,    \* lines on their way to the bridge
  verdicts,   \* verdicts on their way to the bridge
  asked,      \* logins on their way to the node
  logins,     \* how many logins have been sent
  requests,   \* how many requests have come in
  abandoned   \* commands whose runner left before the node was silent

cliVars == <<runner, current, output, waiter, box, loginWaiter, slot, admin, roomLogin,
             answering, outputs, verdicts, asked, logins, requests, abandoned>>

CLIInit ==
  /\ runner = [r \in Runners |-> "idle"]
  /\ current = [r \in Runners |-> None]
  /\ output = [r \in Runners |-> <<>>]
  /\ waiter = NoRunner /\ box = <<>>
  /\ loginWaiter = NoRunner /\ slot = <<>>
  /\ admin = FALSE /\ roomLogin = FALSE
  /\ answering = <<>>
  /\ outputs = <<>> /\ verdicts = <<>>
  /\ asked = 0 /\ logins = 0 /\ requests = 0
  /\ abandoned = {}

LoginVerdicts == {"admin", "guest", "rejected"}
BoxSize == 4

nodeVars == <<answering, asked>>
-----------------------------------------------------------------------------
(***************************************************************************)
(* The far node, and what the mesh loop does with what it sends.           *)
(***************************************************************************)

\* One more line of output, for the oldest command that still has some.
NodePrints ==
  /\ \E i \in DOMAIN answering :
       /\ answering[i].lines > 0
       /\ outputs' = Append(outputs, answering[i].command)
       /\ answering' = [answering EXCEPT ![i].lines = @ - 1]
  /\ UNCHANGED <<runner, current, output, waiter, box, loginWaiter, slot, admin, roomLogin,
                 verdicts, asked, logins, requests, abandoned>>

\* A login is judged; it may also get lost.
NodeJudges ==
  /\ asked > 0
  /\ asked' = asked - 1
  /\ \/ \E v \in LoginVerdicts : verdicts' = Append(verdicts, v)
     \/ UNCHANGED verdicts
  /\ UNCHANGED <<runner, current, output, waiter, box, loginWaiter, slot, admin, roomLogin,
                 answering, outputs, logins, requests, abandoned>>

\* deliverCLIReply, from relayInbound: to the waiter, or nowhere.
DeliverReply ==
  /\ outputs # <<>>
  /\ outputs' = Tail(outputs)
  /\ box' = IF waiter # NoRunner /\ Len(box) < BoxSize THEN Append(box, Head(outputs)) ELSE box
  /\ UNCHANGED <<runner, current, output, waiter, loginWaiter, slot, admin, roomLogin,
                 verdicts, nodeVars, logins, requests, abandoned>>

\* deliverCLILogin, from handleLoginResult: to the command line, else to the room.
DeliverVerdict ==
  /\ verdicts # <<>>
  /\ verdicts' = Tail(verdicts)
  /\ IF loginWaiter # NoRunner /\ slot = <<>>
     THEN slot' = <<Head(verdicts)>> /\ UNCHANGED roomLogin
     ELSE roomLogin' = FALSE /\ UNCHANGED slot
  /\ UNCHANGED <<runner, current, output, waiter, box, loginWaiter, admin, outputs, nodeVars,
                 logins, requests, abandoned>>

SendLogin ==
  /\ logins < MaxLogins
  /\ logins' = logins + 1
  /\ asked' = asked + 1

\* tryRoomLogin.
RoomLogin ==
  /\ ~roomLogin
  /\ SendLogin
  /\ roomLogin' = TRUE
  /\ UNCHANGED <<runner, current, output, waiter, box, loginWaiter, slot, admin, answering,
                 outputs, verdicts, requests, abandoned>>

\* expireRoomLogins, for a login whose verdict never came, or went elsewhere.
ExpireRoomLogin ==
  /\ roomLogin
  /\ roomLogin' = FALSE
  /\ UNCHANGED <<runner, current, output, waiter, box, loginWaiter, slot, admin, outputs,
                 verdicts, nodeVars, logins, requests, abandoned>>

\* onMeshDisconnect, and what was on its way over that link.
Disconnect ==
  /\ admin' = FALSE /\ roomLogin' = FALSE
  /\ verdicts' = <<>> /\ asked' = 0
  /\ UNCHANGED <<runner, current, output, waiter, box, loginWaiter, slot, answering,
                 outputs, logins, requests, abandoned>>
-----------------------------------------------------------------------------
(***************************************************************************)
(* RunCLI.                                                                 *)
(***************************************************************************)

Goto(r, at) == runner' = [runner EXCEPT ![r] = at]

Request ==
  /\ requests < MaxCommands
  /\ requests' = requests + 1

\* The request comes in; with no session to trust, a login comes first.
RunCLI(r) ==
  /\ runner[r] = "idle"
  /\ Request
  /\ \/ admin /\ Goto(r, "register") /\ UNCHANGED loginWaiter
     \/ /\ ~admin /\ loginWaiter = NoRunner
        /\ loginWaiter' = r
        /\ Goto(r, "login")
  /\ UNCHANGED <<current, output, waiter, box, slot, admin, roomLogin, outputs, verdicts,
                 nodeVars, logins, abandoned>>

\* SetCLIPassword forgets the session, then proves the new password.
SetPassword(r) ==
  /\ runner[r] = "idle"
  /\ Request
  /\ admin' = FALSE
  /\ IF loginWaiter = NoRunner THEN loginWaiter' = r /\ Goto(r, "prove")
     ELSE UNCHANGED <<loginWaiter, runner>>
  /\ UNCHANGED <<current, output, waiter, box, slot, roomLogin, outputs, verdicts, nodeVars,
                 logins, abandoned>>

Login(r) ==
  /\ loginWaiter = r
  /\ runner[r] \in {"login", "prove"}
  /\ SendLogin
  /\ Goto(r, IF runner[r] = "login" THEN "verdict" ELSE "proof")
  /\ UNCHANGED <<current, output, waiter, box, loginWaiter, slot, admin, roomLogin, answering,
                 outputs, verdicts, requests, abandoned>>

\* The registration goes with the function that made it.
LeaveLogin(r) == loginWaiter' = NoRunner /\ slot' = <<>>

TakeVerdict(r) ==
  /\ loginWaiter = r /\ slot # <<>>
  /\ runner[r] \in {"verdict", "proof"}
  /\ admin' = (admin \/ Head(slot) = "admin")
  /\ Goto(r, IF Head(slot) = "admin" /\ runner[r] = "verdict" THEN "register" ELSE "idle")
  /\ LeaveLogin(r)
  /\ UNCHANGED <<current, output, waiter, box, roomLogin, outputs, verdicts, nodeVars, logins, requests,
                 abandoned>>

\* No verdict within cliLoginTimeout, or the node would not send the login.
GiveUpLogin(r) ==
  /\ runner[r] \in {"login", "prove", "verdict", "proof"}
  /\ LeaveLogin(r)
  /\ Goto(r, "idle")
  /\ UNCHANGED <<current, output, waiter, box, admin, roomLogin, outputs, verdicts, nodeVars,
                 logins, requests, abandoned>>

\* Mutant of AwaitReply: a busy node is not refused.
AwaitReplyShared(r) ==
  /\ runner[r] = "register"
  /\ waiter' = r /\ box' = <<>> /\ Goto(r, "send")
  /\ UNCHANGED <<current, output, loginWaiter, slot, admin, roomLogin, outputs, verdicts,
                 nodeVars, logins, requests, abandoned>>

\* awaitCLIReply: one command at a time for one node.
AwaitReply(r) ==
  /\ runner[r] = "register"
  /\ IF waiter = NoRunner
     THEN waiter' = r /\ box' = <<>> /\ Goto(r, "send")
     ELSE Goto(r, "idle") /\ UNCHANGED <<waiter, box>>
  /\ UNCHANGED <<current, output, loginWaiter, slot, admin, roomLogin, outputs, verdicts,
                 nodeVars, logins, requests, abandoned>>

\* The command goes out; the node may answer it in any number of lines, or none.  One
\* that is sent although the port gave up on it is one whose runner Returns at once.
SendCLI(r) ==
  /\ runner[r] = "send"
  /\ LET c == Len(answering) + 1 IN
       /\ current' = [current EXCEPT ![r] = c]
       /\ \E n \in 0 .. MaxLines : answering' = Append(answering, [command |-> c, lines |-> n])
  /\ output' = [output EXCEPT ![r] = <<>>]
  /\ Goto(r, "wait")
  /\ UNCHANGED <<waiter, box, loginWaiter, slot, admin, roomLogin, outputs, verdicts, asked,
                 logins, requests, abandoned>>

\* The first line, and those that follow within the window.
CollectLines(r) ==
  /\ runner[r] \in {"wait", "collect"}
  /\ waiter = r /\ box # <<>>
  /\ output' = [output EXCEPT ![r] = Append(@, Head(box))]
  /\ box' = Tail(box)
  /\ Goto(r, "collect")
  /\ UNCHANGED <<current, waiter, loginWaiter, slot, admin, roomLogin, outputs, verdicts,
                 nodeVars, logins, requests, abandoned>>

\* Lines of a command that its runner has not seen.
Owing(c) ==
  \/ \E i \in DOMAIN answering : answering[i].command = c /\ answering[i].lines > 0
  \/ c \in ToSet(outputs) \union ToSet(box)

\* Mutant of Return: only a runner that has collected something returns.
ReturnWithOutput(r) ==
  /\ runner[r] = "collect"
  /\ abandoned' = IF Owing(current[r]) THEN abandoned \union {current[r]} ELSE abandoned
  /\ waiter' = NoRunner /\ box' = <<>>
  /\ Goto(r, "idle")
  /\ UNCHANGED <<current, output, loginWaiter, slot, admin, roomLogin, outputs, verdicts,
                 nodeVars, logins, requests>>

\* No reply within CLIReplyTimeout, no further line within the window, or the
\* node refused the command: the runner returns and releases the registration.
Return(r) ==
  /\ runner[r] \in {"send", "wait", "collect"}
  /\ abandoned' = IF runner[r] # "send" /\ Owing(current[r])
                  THEN abandoned \union {current[r]} ELSE abandoned
  /\ waiter' = NoRunner /\ box' = <<>>
  /\ Goto(r, "idle")
  /\ UNCHANGED <<current, output, loginWaiter, slot, admin, roomLogin, outputs, verdicts,
                 nodeVars, logins, requests>>

Runs(r) ==
  \/ Login(r) \/ TakeVerdict(r) \/ GiveUpLogin(r)
  \/ AwaitReply(r) \/ SendCLI(r) \/ CollectLines(r) \/ Return(r)

CLINext ==
  \/ NodePrints \/ NodeJudges \/ DeliverReply \/ DeliverVerdict
  \/ RoomLogin \/ ExpireRoomLogin \/ Disconnect
  \/ \E r \in Runners : RunCLI(r) \/ SetPassword(r) \/ Runs(r)

\* Every wait of RunCLI has a timer, and housekeeping expires room logins.
CLIFairness ==
  /\ \A r \in Runners : WF_cliVars(Runs(r))
  /\ WF_cliVars(ExpireRoomLogin)

CLISpec == CLIInit /\ [][CLINext]_cliVars /\ CLIFairness
-----------------------------------------------------------------------------
(***************************************************************************)
(* Properties.                                                             *)
(***************************************************************************)

\* A runner is given a line of another command only when that command's own
\* runner had left before the node fell silent (nodecli.go:93): two runners are
\* never each other's audience.
AnswersMatch ==
  \A r \in Runners : ToSet(output[r]) \subseteq {current[r]} \union abandoned

\* Registrations belong to whoever is waiting: no two runners share one, and
\* none is left behind by a runner that has returned (nodecli.go:93, 111).
RegistrationsHeld ==
  \A r \in Runners :
    /\ waiter = r <=> runner[r] \in {"send", "wait", "collect"}
    /\ loginWaiter = r <=> runner[r] \in {"login", "prove", "verdict", "proof"}

\* Every run returns, and a room login whose verdict a command line took is not
\* in flight for ever (nodecli.go:111).
EverythingReturns == <>[]((\A r \in Runners : runner[r] = "idle") /\ ~roomLogin)
=============================================================================

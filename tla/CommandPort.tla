---------------------------- MODULE CommandPort ----------------------------
(***************************************************************************)
(* One session with a companion node: Session of meshcore/client.go, from  *)
(* the handshake to the closed link, with the drain of bridge/bridge.go as *)
(* one of its callers.                                                     *)
(*                                                                         *)
(* A frame on its way back is [code, item, own]: own says that the command *)
(* it answers is still being waited for.  The code cannot see own; it is   *)
(* what the properties are about.  A command that is given up turns its    *)
(* answer, wherever it is, into a stray.                                   *)
(***************************************************************************)
EXTENDS Integers, FiniteSets, SequencesExt

CONSTANTS
  Askers,       \* goroutines that send commands, besides the drain
  MaxMessages,  \* messages the mesh may leave in the node's queue
  MaxSlots,     \* channel slots: eight in the code
  Kinds,        \* the kinds of command the askers send, of AskKinds
  ReplyCap,     \* capacity of the replies channel: 64 in the code
  MaxLate,      \* answers that come after their deadline
  MaxIgnored    \* commands the node never answers

\* Commands of one reply with a known code, and readChannel, and RoomLogout.  The
\* listing of the contacts, of many frames, is the subject of ContactCache; a reply
\* that does not decode is left out.
AskKinds == {"sent", "ok", "channel", "any"}

Boot == "boot"
Drain == "drain"
Nobody == "none"
Nothing == 0

Callers == Askers \union {Boot, Drain}
Messages == 1 .. MaxMessages
Slots == 1 .. MaxSlots

ASSUME PortAssumption ==
  /\ Askers \intersect {Boot, Drain, Nobody} = {}
  /\ Kinds \subseteq AskKinds
  /\ ReplyCap \in Nat \ {0}
  /\ MaxMessages \in Nat
  /\ MaxSlots \in Nat
  /\ MaxLate \in Nat
  /\ MaxIgnored \in Nat

VARIABLES
  queue,      \* messages waiting on the node
  arrived,    \* how many messages the mesh has brought
  atNode,     \* commands written and not answered
  wire,       \* frames from the node that readLoop has not read
  replies,    \* the replies channel
  waiting,    \* the msgWaiting channel, of capacity one
  holder,     \* who holds cmdMu
  command,    \* what each caller asks
  tries,      \* attempts of readChannel
  ending,     \* how the last turn ended, until the next begins
  stage,      \* the handshake, then "up"
  closed,     \* Session.done
  channels,   \* the name cache: what each slot was read as
  relayed,    \* messages handed to the bridge
  lost,       \* messages that left the node and reached nobody
  late,       \* answers that have missed their deadline
  ignored

portVars == <<queue, arrived, atNode, wire, replies, waiting, holder, command, tries,
              ending, stage, closed, channels, relayed, lost, late, ignored>>

host == <<waiting, stage, channels, relayed>>
counters == <<late, ignored>>

\* What the handshake asks, in order; only the first answer is required.
Steps == <<"self", "device", "time", "clock">>

\* The reply code each kind of command is answered with.
Want(kind) ==
  CASE kind = "self" -> "SelfInfo"
    [] kind = "device" -> "DeviceInfo"
    [] kind = "time" -> "CurrTime"
    [] kind = "sent" -> "Sent"
    [] kind = "channel" -> "ChannelInfo"
    [] kind = "sync" -> "Message"
    [] OTHER -> "OK"

Codes == {"SelfInfo", "DeviceInfo", "CurrTime", "Sent", "OK", "ChannelInfo",
          "Message", "NoMore", "Error", "Waiting"}

Items == Messages \union Slots \union {Nothing}

Frame(code, item, own) == [code |-> code, item |-> item, own |-> own]

NoCommand == [kind |-> "none", slot |-> Nothing]

Idle(c) == command[c] = NoCommand

Orphan(frames) == [i \in DOMAIN frames |-> [frames[i] EXCEPT !.own = FALSE]]

\* The commands the callers have given up on, and the frames that answer them.
Strays ==
  LET count(frames) ==
        Cardinality({i \in DOMAIN frames : ~frames[i].own /\ frames[i].code # "Waiting"})
  IN  count(atNode) + count(wire) + count(replies)

MessagesIn(frames) ==
  {frames[i].item : i \in {j \in DOMAIN frames : frames[j].code = "Message"}}

PortInit ==
  /\ queue = <<>>
  /\ arrived = 0
  /\ atNode = <<>> /\ wire = <<>> /\ replies = <<>>
  /\ waiting = FALSE
  /\ holder = Nobody
  /\ command = [c \in Callers |->
                  IF c = Boot THEN [kind |-> Steps[1], slot |-> Nothing] ELSE NoCommand]
  /\ tries = [c \in Callers |-> 0]
  /\ ending = "none"
  /\ stage = 1
  /\ closed = FALSE
  /\ channels = [s \in Slots |-> Nothing]
  /\ relayed = {} /\ lost = {}
  /\ late = 0 /\ ignored = 0

Up == stage = Len(Steps) + 1
-----------------------------------------------------------------------------
(***************************************************************************)
(* The node and the read loop.                                             *)
(***************************************************************************)

\* A message reaches the node, which pushes MSG_WAITING.
MessageArrives ==
  /\ ~closed
  /\ arrived < MaxMessages
  /\ arrived' = arrived + 1
  /\ queue' = Append(queue, arrived + 1)
  /\ wire' = Append(wire, Frame("Waiting", Nothing, FALSE))
  /\ UNCHANGED <<atNode, replies, holder, command, tries, ending, closed, lost, host, counters>>

\* What the node may answer.  A message leaves its queue with the answer.
AnswersTo(c) ==
  CASE c.code = "sync" -> {IF queue = <<>> THEN Frame("NoMore", Nothing, c.own)
                           ELSE Frame("Message", Head(queue), c.own)}
    [] c.code = "channel" -> {Frame("ChannelInfo", c.item, c.own), Frame("Error", Nothing, c.own)}
    [] OTHER -> {Frame(Want(c.code), Nothing, c.own), Frame("Error", Nothing, c.own)}

NodeAnswers ==
  /\ ~closed
  /\ atNode # <<>>
  /\ LET c == Head(atNode) IN
       /\ \E f \in AnswersTo(c) : wire' = Append(wire, f)
       /\ queue' = IF c.code = "sync" /\ queue # <<>> THEN Tail(queue) ELSE queue
  /\ atNode' = Tail(atNode)
  /\ UNCHANGED <<arrived, replies, holder, command, tries, ending, closed, lost, host, counters>>

NodeIgnores ==
  /\ ~closed
  /\ ignored < MaxIgnored
  /\ atNode # <<>>
  /\ atNode' = Tail(atNode)
  /\ ignored' = ignored + 1
  /\ UNCHANGED <<queue, arrived, wire, replies, holder, command, tries, ending, closed,
                 lost, host, late>>

\* handlePush: the wake-up coalesces with the one that has not been taken yet.
HandlePush(f) ==
  /\ f.code = "Waiting"
  /\ waiting' = TRUE
  /\ UNCHANGED <<replies, lost>>

\* Mutant of QueueReply: the queue grows without a limit.
QueueReplyUnbounded(f) ==
  /\ f.code # "Waiting"
  /\ replies' = Append(replies, f)
  /\ UNCHANGED <<waiting, lost>>

\* A reply is queued for the command that waits, or dropped when the queue is full.
QueueReply(f) ==
  /\ f.code # "Waiting"
  /\ IF Len(replies) < ReplyCap
     THEN replies' = Append(replies, f) /\ UNCHANGED lost
     ELSE UNCHANGED replies /\ lost' = lost \union MessagesIn(<<f>>)
  /\ UNCHANGED waiting

ReadLoop ==
  /\ ~closed
  /\ wire # <<>>
  /\ wire' = Tail(wire)
  /\ HandlePush(Head(wire)) \/ QueueReply(Head(wire))
  /\ UNCHANGED <<queue, arrived, atNode, holder, command, tries, ending, stage, closed,
                 channels, relayed, counters>>

\* The link dies, or somebody closes the session.
Close ==
  /\ ~closed
  /\ closed' = TRUE
  /\ atNode' = <<>> /\ wire' = <<>>
  /\ UNCHANGED <<queue, arrived, replies, holder, command, tries, ending, lost, host, counters>>
-----------------------------------------------------------------------------
(***************************************************************************)
(* do: the callers.                                                        *)
(***************************************************************************)

\* An asker sends a command, once the handshake is over.
Ask(c, kind, slot) ==
  /\ Up /\ Idle(c)
  /\ kind = "channel" <=> slot # Nothing
  /\ command' = [command EXCEPT ![c] = [kind |-> kind, slot |-> slot]]
  /\ tries' = [tries EXCEPT ![c] = 1]
  /\ UNCHANGED <<queue, arrived, atNode, wire, replies, holder, ending, closed, lost, host, counters>>

\* Mutant of StartDrain: only the push starts a drain.
StartDrainOnPush ==
  /\ Up /\ ~closed /\ Idle(Drain)
  /\ waiting
  /\ waiting' = FALSE
  /\ command' = [command EXCEPT ![Drain] = [kind |-> "sync", slot |-> Nothing]]
  /\ UNCHANGED <<queue, arrived, atNode, wire, replies, holder, tries, ending, stage, closed,
                 channels, relayed, lost, counters>>

\* meshLoop starts a drain: on a fresh session, on a push, on a tick.
StartDrain ==
  /\ Up /\ ~closed /\ Idle(Drain)
  /\ waiting' = FALSE
  /\ command' = [command EXCEPT ![Drain] = [kind |-> "sync", slot |-> Nothing]]
  /\ UNCHANGED <<queue, arrived, atNode, wire, replies, holder, tries, ending, stage, closed,
                 channels, relayed, lost, counters>>

DrainReplies ==
  /\ replies' = <<>>
  /\ lost' = lost \union MessagesIn(replies)

\* Mutant of Begin: commands are pipelined.
BeginUnlocked(c) ==
  /\ holder # c
  /\ ~Idle(c)
  /\ ~closed
  /\ DrainReplies
  /\ holder' = c
  /\ ending' = "none"
  /\ atNode' = Append(atNode, Frame(command[c].kind, command[c].slot, TRUE))
  /\ UNCHANGED <<queue, arrived, wire, command, tries, closed, host, counters>>

\* The lock is taken, what is left over thrown away and the command written.
Begin(c) ==
  /\ holder = Nobody
  /\ ~Idle(c)
  /\ ~closed
  /\ DrainReplies
  /\ holder' = c
  /\ ending' = "none"
  /\ atNode' = Append(atNode, Frame(command[c].kind, command[c].slot, TRUE))
  /\ UNCHANGED <<queue, arrived, wire, command, tries, closed, host, counters>>

\* Where a caller goes after its command: the next step of the handshake, the
\* next message of a drain, another attempt at a slot, or nowhere.
AfterBoot(ok) ==
  IF stage = 1 /\ ~ok THEN /\ command' = [command EXCEPT ![Boot] = NoCommand]
                           /\ closed' = TRUE
                           /\ UNCHANGED stage
  ELSE /\ stage' = stage + 1
       /\ command' = [command EXCEPT ![Boot] =
                        IF stage < Len(Steps) THEN [kind |-> Steps[stage + 1], slot |-> Nothing]
                        ELSE NoCommand]
       /\ UNCHANGED closed

\* Everything still on its way for this command becomes a stray.
Finish(c, how) ==
  /\ holder' = Nobody
  /\ ending' = how
  /\ atNode' = Orphan(atNode)
  /\ wire' = Orphan(wire)

\* Mutant of Accepts: readChannel does not look at the index that came back.
AcceptsAnySlot(kind, slot, f) ==
  CASE kind = "channel" -> f.code = "ChannelInfo"
    [] kind = "sync" -> f.code \in {"Message", "NoMore"}
    [] kind = "any" -> f.code # "Error"
    [] OTHER -> f.code = Want(kind)

\* Mutant of Accepts: one of the message codes is missing from isSyncReply.
AcceptsOldMessages(kind, slot, f) ==
  CASE kind = "channel" -> f.code = "ChannelInfo" /\ f.item = slot
    [] kind = "sync" -> f.code = "NoMore"
    [] kind = "any" -> f.code # "Error"
    [] OTHER -> f.code = Want(kind)

\* Whether a frame is the answer a command is looking for.
Accepts(kind, slot, f) ==
  CASE kind = "channel" -> f.code = "ChannelInfo" /\ f.item = slot
    [] kind = "sync" -> f.code \in {"Message", "NoMore"}
    [] kind = "any" -> f.code # "Error"
    [] OTHER -> f.code = Want(kind)

\* What the command's collector does with a frame.
Collect(kind, slot, f) ==
  IF Accepts(kind, slot, f) THEN "accept" ELSE IF f.code = "Error" THEN "refuse" ELSE "skip"

Whose(f) == IF f.own THEN "own" ELSE "late"

\* A frame the collector has no use for; the timer starts again.
Skip(c) ==
  /\ holder = c /\ replies # <<>>
  /\ Collect(command[c].kind, command[c].slot, Head(replies)) = "skip"
  /\ replies' = Tail(replies)
  /\ lost' = lost \union MessagesIn(<<Head(replies)>>)
  /\ UNCHANGED <<queue, arrived, atNode, wire, holder, command, tries, ending, closed, host, counters>>

\* A frame that ends the command of an asker.  An error answers readChannel too:
\* it means an empty slot.
TakeReply(c) ==
  /\ holder = c /\ c \in Askers /\ replies # <<>>
  /\ LET f == Head(replies)
         cmd == command[c]
         verdict == Collect(cmd.kind, cmd.slot, f)
     IN  /\ verdict # "skip"
         /\ Finish(c, Whose(f))
         /\ channels' = IF cmd.kind # "channel" THEN channels
                        ELSE [channels EXCEPT ![cmd.slot] =
                                IF verdict = "accept" THEN f.item ELSE Nothing]
         /\ lost' = lost \union MessagesIn(<<f>>)
  /\ replies' = Orphan(Tail(replies))
  /\ command' = [command EXCEPT ![c] = NoCommand]
  /\ tries' = [tries EXCEPT ![c] = 0]
  /\ UNCHANGED <<queue, arrived, waiting, stage, closed, relayed, counters>>

HandshakeReply ==
  /\ holder = Boot /\ replies # <<>>
  /\ LET f == Head(replies)
         verdict == Collect(command[Boot].kind, Nothing, f)
     IN  /\ verdict # "skip"
         /\ Finish(Boot, Whose(f))
         /\ AfterBoot(verdict = "accept")
  /\ replies' = Orphan(Tail(replies))
  /\ UNCHANGED <<queue, arrived, waiting, tries, channels, relayed, lost, counters>>

\* NextMessage returns, and drainMesh relays what it brought and asks again.
NextMessage ==
  /\ holder = Drain /\ replies # <<>>
  /\ LET f == Head(replies)
         verdict == Collect("sync", Nothing, f)
     IN  /\ verdict # "skip"
         /\ Finish(Drain, Whose(f))
         /\ relayed' = relayed \union MessagesIn(<<f>>)
         /\ command' = [command EXCEPT ![Drain] =
                          IF f.code = "Message" THEN @ ELSE NoCommand]
  /\ replies' = Orphan(Tail(replies))
  /\ UNCHANGED <<queue, arrived, waiting, tries, stage, closed, channels, lost, counters>>

\* Whether the answer to the command being waited for may still come.
Owed == \E frames \in {atNode, wire, replies} :
          \E i \in DOMAIN frames : frames[i].own

GiveUp(c) ==
  CASE c = Boot -> AfterBoot(FALSE) /\ UNCHANGED <<channels, tries>>
    [] c = Drain -> /\ command' = [command EXCEPT ![Drain] = NoCommand]
                    /\ UNCHANGED <<stage, closed, channels, tries>>
    [] OTHER -> /\ UNCHANGED <<stage, closed>>
                /\ IF command[c].kind = "channel" /\ tries[c] < 2
                   THEN /\ tries' = [tries EXCEPT ![c] = 2]
                        /\ UNCHANGED <<command, channels>>
                   ELSE /\ command' = [command EXCEPT ![c] = NoCommand]
                        /\ channels' = IF command[c].kind # "channel" THEN channels
                                       ELSE [channels EXCEPT ![command[c].slot] = Nothing]
                        /\ tries' = [tries EXCEPT ![c] = 0]

\* Mutant of Timeout: the timer is armed for the handshake only.
TimeoutInHandshake(c) ==
  /\ holder = c /\ c = Boot
  /\ Owed => late < MaxLate
  /\ late' = IF Owed THEN late + 1 ELSE late
  /\ Finish(c, "nothing")
  /\ replies' = Orphan(replies)
  /\ GiveUp(c)
  /\ UNCHANGED <<queue, arrived, waiting, relayed, lost, ignored>>

\* The timer fires, or the caller's context ends.
Timeout(c) ==
  /\ holder = c
  /\ Owed => late < MaxLate
  /\ late' = IF Owed THEN late + 1 ELSE late
  /\ Finish(c, "nothing")
  /\ replies' = Orphan(replies)
  /\ GiveUp(c)
  /\ UNCHANGED <<queue, arrived, waiting, relayed, lost, ignored>>

\* The transport refuses the command, with the lock held and the queue drained.
WriteFails(c) ==
  /\ holder = Nobody /\ ~Idle(c) /\ ~closed
  /\ ignored < MaxIgnored
  /\ ignored' = ignored + 1
  /\ DrainReplies
  /\ ending' = "nothing"
  /\ GiveUp(c)
  /\ UNCHANGED <<queue, arrived, atNode, wire, holder, waiting, relayed, late>>

\* ErrLinkDown, before or after the command was written.
Down(c) ==
  /\ closed
  /\ ~Idle(c)
  /\ holder \in {c, Nobody}
  /\ holder' = Nobody
  /\ ending' = "nothing"
  /\ replies' = Orphan(replies)
  /\ command' = [command EXCEPT ![c] = NoCommand]
  /\ channels' = IF command[c].kind # "channel" THEN channels
                 ELSE [channels EXCEPT ![command[c].slot] = Nothing]
  /\ tries' = [tries EXCEPT ![c] = 0]
  /\ UNCHANGED <<queue, arrived, atNode, wire, waiting, stage, closed, relayed, lost, counters>>

Await(c) ==
  \/ Skip(c)
  \/ TakeReply(c)
  \/ c = Boot /\ HandshakeReply
  \/ c = Drain /\ NextMessage
  \/ Timeout(c)
  \/ Down(c)

PortNext ==
  \/ MessageArrives
  \/ NodeAnswers \/ NodeIgnores \/ ReadLoop \/ Close
  \/ \E c \in Askers, k \in Kinds, s \in Slots \union {Nothing} : Ask(c, k, s)
  \/ StartDrain
  \/ \E c \in Callers : Begin(c) \/ WriteFails(c) \/ Await(c)

\* Go hands a mutex that is waited for to the waiter, so a caller that keeps
\* trying gets its turn; a wait ends with a reply or with the timer.
PortSpec ==
  /\ PortInit /\ [][PortNext]_portVars
  /\ WF_portVars(NodeAnswers \/ ReadLoop)
  /\ WF_portVars(StartDrain)
  /\ WF_portVars(\E c \in Callers : Await(c))
  /\ \A c \in Callers \ {Boot} : SF_portVars(Begin(c))
  /\ WF_portVars(Begin(Boot))
-----------------------------------------------------------------------------
(***************************************************************************)
(* Properties.                                                             *)
(***************************************************************************)

\* The session's state is well formed: client.go, type Session.
PortTypeOK ==
  /\ \A frames \in {atNode, wire, replies} : \A i \in DOMAIN frames :
       frames[i].own \in BOOLEAN /\ frames[i].item \in Items
  /\ Len(replies) <= ReplyCap
  /\ holder \in Callers \union {Nobody}
  /\ \A c \in Callers : tries[c] \in 0 .. 2
  /\ stage \in 1 .. Len(Steps) + 1
  /\ ~closed => Strays <= late

\* A slot never gets the name of another: an answer about slot N that arrives
\* during the query for slot N+1 is told apart by the index it echoes
\* (client.go:1084), whatever timed out before.
SlotsTellTheTruth == \A s \in Slots : channels[s] \in {s, Nothing}

\* Messages are lost only to answers that missed their deadline: itself, and the
\* one that finds the queue full of it (client.go:222).  No interleaving of
\* drains, timeouts and other commands multiplies the loss (client.go:525), but
\* for RoomLogout (client.go:1036): whatever frame comes first ends it, a message
\* included, and its own answer is then left for the next.  Nor is it said of a
\* listing of the contacts that is given up, which leaves many frames behind at once
\* (client.go:730).
LossBounded == holder = Nobody => Cardinality(lost) <= 2 * late

\* The port keeps the contract of its callers: they take turns, and an answer
\* meant for somebody else can only be one of the strays.
Contract == INSTANCE PortContract WITH
  asking <- {c \in Callers : ~Idle(c)}, turn <- holder, strays <- Strays

KeepsContract == Contract!ContractSpec

\* Every command returns: the timer of do (client.go:348) ends every wait.
CallReturns == \A c \in Askers : ~Idle(c) ~> Idle(c)

\* A message the node has queued is relayed, or lost to a late answer, unless
\* the link dies: one wake-up is enough for a backlog, and a failed drain is
\* tried again (client.go:158, bridge.go:486).
MessagesFetched ==
  \A m \in Messages : m \in ToSet(queue) ~> (m \in relayed \union lost \/ closed)
=============================================================================

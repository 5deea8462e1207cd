------------------------------ MODULE Gateway ------------------------------
(***************************************************************************)
(* The Gateway client (discord/gateway.go): Run, one connection of runOnce *)
(* after another, with the reader, the heartbeat of a goroutine of its own *)
(* and what both know of the session.  Discord's end, external, numbers    *)
(* the events of a session, replays what a resuming client has not seen    *)
(* and may forget a session at any moment.                                 *)
(*                                                                         *)
(* A session is a number; an event is its number in the session.  Backoff  *)
(* is a state without a length; time is counted only for the identify      *)
(* throttle, in units of which Window make its five seconds.               *)
(***************************************************************************)
EXTENDS Integers, Sequences

CONSTANTS
  Window,       \* units of time between two identifies
  MaxEvents,    \* events of one session, the READY among them
  MaxMishaps    \* lost connections, forgotten sessions, refusals, silences

ASSUME GatewayAssumption ==
  Window \in Nat \ {0} /\ MaxEvents \in Nat \ {0} /\ MaxMishaps \in Nat

VARIABLES
  phase,      \* where runOnce is, or "backoff", or "fatal"
  known,      \* the session id the client keeps, 0 for none
  seq,        \* the last sequence number it read
  handled,    \* the events of that session given to the handlers
  acked, hbErr, \* of the heartbeat: was the last beat answered, has it given up
  up,         \* Gateway.connected
  wire,       \* frames from Discord on the open connection
  mute,       \* does Discord leave the beats of this connection unanswered?
  latest,    \* Discord's latest session
  valid,      \* can it be resumed?
  log,        \* how many events it has
  sinceMark,  \* time since lastIdentify was set
  wait,       \* what is left to wait for the throttle
  recent,     \* ages of the identifies sent less than Window ago
  mishaps

gatewayVars == <<phase, known, seq, handled, acked, hbErr, up, wire, mute, latest, valid, log,
                 sinceMark, wait, recent, mishaps>>
clientVars == <<known, seq, handled>>
beatVars == <<acked, hbErr>>
serverVars == <<latest, valid, log>>
timeVars == <<sinceMark, wait, recent>>

Open == phase \in {"sent", "reading"}
Frame(op, s) == [op |-> op, s |-> s]

GatewayInit ==
  /\ phase = "backoff" /\ known = 0 /\ seq = 0 /\ handled = <<>>
  /\ acked = TRUE /\ hbErr = FALSE /\ up = FALSE
  /\ wire = <<>> /\ mute = FALSE
  /\ latest = 0 /\ valid = FALSE /\ log = 0
  /\ sinceMark = Window /\ wait = 0 /\ recent = <<>>
  /\ mishaps = 0

Mishap == mishaps < MaxMishaps /\ mishaps' = mishaps + 1

\* runOnce returns, and Run goes to sleep.
Drop(next) ==
  /\ phase' = next /\ up' = FALSE
  /\ wire' = <<>> /\ mute' = FALSE
  /\ acked' = TRUE /\ hbErr' = FALSE

ForgetSession == known' = 0 /\ seq' = 0 /\ handled' = <<>>
-----------------------------------------------------------------------------
(***************************************************************************)
(* Discord.                                                                *)
(***************************************************************************)

\* An event of the latest session; on the wire if a client is attached.
ServerEvent ==
  /\ valid /\ log < MaxEvents
  /\ log' = log + 1
  /\ wire' = IF phase = "reading" THEN Append(wire, Frame("event", log + 1)) ELSE wire
  /\ UNCHANGED <<phase, clientVars, beatVars, up, mute, latest, valid, timeVars, mishaps>>

\* A session that no client is attached to expires.
ServerForgets ==
  /\ valid /\ ~Open /\ Mishap
  /\ valid' = FALSE
  /\ UNCHANGED <<phase, clientVars, beatVars, up, wire, mute, latest, log, timeVars>>

\* It asks for a reconnect, calls the session invalid, or closes with 4004.
ServerSays(op) ==
  /\ phase = "reading" /\ Mishap
  /\ wire' = Append(wire, Frame(op, 0))
  /\ valid' = (valid /\ op \notin {"invalid", "close"})
  /\ UNCHANGED <<phase, clientVars, beatVars, up, mute, latest, log, timeVars>>

\* From here on no beat is answered, though events may still come.
ServerMute ==
  /\ Open /\ ~mute /\ Mishap
  /\ mute' = TRUE
  /\ UNCHANGED <<phase, clientVars, beatVars, up, wire, serverVars, timeVars>>

\* What the request on a fresh connection gets: the rest of a session that is
\* still there, a refusal, or a new session.
ServerAnswers ==
  /\ phase = "sent"
  /\ phase' = "reading"
  /\ \/ /\ known # 0 /\ known = latest /\ valid
        /\ wire' = wire \o [i \in 1 .. log - seq |-> Frame("event", seq + i)]
                    \o <<Frame("resumed", 0)>>
        /\ UNCHANGED serverVars
     \/ /\ known # 0 /\ ~(known = latest /\ valid)
        /\ wire' = Append(wire, Frame("invalid", 0))
        /\ UNCHANGED serverVars
     \/ /\ known = 0
        /\ latest' = latest + 1 /\ valid' = TRUE /\ log' = 1
        /\ wire' = Append(wire, Frame("ready", 1))
  /\ UNCHANGED <<clientVars, beatVars, up, mute, timeVars, mishaps>>
-----------------------------------------------------------------------------
(***************************************************************************)
(* Connecting.                                                             *)
(***************************************************************************)

\* Mutant of Connect: an identify is not throttled.
ConnectUnthrottled ==
  /\ phase = "backoff"
  /\ phase' = IF known # 0 THEN "sent" ELSE "throttle"
  /\ IF known # 0 THEN UNCHANGED <<wait, sinceMark>> ELSE wait' = 0 /\ sinceMark' = 0
  /\ UNCHANGED <<clientVars, beatVars, up, wire, mute, serverVars, recent, mishaps>>

\* The backoff is over: dial, HELLO, and RESUME or the identify throttle, which
\* notes the time before it waits.
Connect ==
  /\ phase = "backoff"
  /\ phase' = IF known # 0 THEN "sent" ELSE "throttle"
  /\ IF known # 0 THEN UNCHANGED <<wait, sinceMark>>
                  ELSE wait' = Window - sinceMark /\ sinceMark' = 0
  /\ UNCHANGED <<clientVars, beatVars, up, wire, mute, serverVars, recent, mishaps>>

Identify ==
  /\ phase = "throttle" /\ wait = 0
  /\ phase' = "sent"
  /\ recent' = Append(recent, 0)
  /\ UNCHANGED <<clientVars, beatVars, up, wire, mute, serverVars, sinceMark, wait, mishaps>>

\* A read that fails.  The throttle waits in full and sees nothing of the connection;
\* a dial that fails leaves the backoff as it was.
ConnectionLost ==
  /\ Open /\ Mishap
  /\ Drop("backoff")
  /\ UNCHANGED <<clientVars, serverVars, timeVars>>

\* After a minute the operator may have mended the setting.
FatalCleared ==
  /\ phase = "fatal"
  /\ phase' = "backoff"
  /\ UNCHANGED <<clientVars, beatVars, up, wire, mute, serverVars, timeVars, mishaps>>

Tick ==
  /\ sinceMark < Window \/ wait > 0 \/ recent # <<>>
  /\ sinceMark' = IF sinceMark < Window THEN sinceMark + 1 ELSE Window
  /\ wait' = IF wait > 0 THEN wait - 1 ELSE 0
  /\ \E k \in 0 .. Len(recent) :
       /\ \A i \in DOMAIN recent : recent[i] + 1 >= Window <=> i <= k
       /\ recent' = [i \in 1 .. Len(recent) - k |-> recent[i + k] + 1]
  /\ UNCHANGED <<phase, clientVars, beatVars, up, wire, mute, serverVars, mishaps>>
-----------------------------------------------------------------------------
(***************************************************************************)
(* The heartbeat and the reader.                                           *)
(***************************************************************************)

\* Mutant of Beat: it does not look whether the last one was answered.
BeatBlindly ==
  /\ Open /\ ~hbErr /\ ~(\E i \in DOMAIN wire : wire[i].op = "ack")
  /\ acked' = FALSE
  /\ wire' = IF mute THEN wire ELSE Append(wire, Frame("ack", 0))
  /\ UNCHANGED <<phase, clientVars, hbErr, up, mute, serverVars, timeVars, mishaps>>

\* A beat, answered unless Discord is mute; or, the last one unanswered, the end.
Beat ==
  /\ Open /\ ~hbErr /\ ~(\E i \in DOMAIN wire : wire[i].op = "ack")
  /\ IF acked THEN /\ acked' = FALSE
                   /\ wire' = IF mute THEN wire ELSE Append(wire, Frame("ack", 0))
                   /\ UNCHANGED hbErr
              ELSE hbErr' = TRUE /\ UNCHANGED <<acked, wire>>
  /\ UNCHANGED <<phase, clientVars, up, mute, serverVars, timeVars, mishaps>>

\* The reader looks at the heartbeat's channel: at the top of its loop, or when a
\* read ends without a frame.
ReaderStops ==
  /\ phase = "reading" /\ hbErr
  /\ Drop("backoff")
  /\ UNCHANGED <<clientVars, serverVars, timeVars, mishaps>>

\* Mutant of Receive: the sequence number is only kept with the session.
ReceiveForgetsSeq ==
  /\ phase = "reading" /\ wire # <<>> /\ Head(wire).op = "event"
  /\ handled' = Append(handled, Head(wire).s)
  /\ wire' = Tail(wire)
  /\ UNCHANGED <<phase, known, seq, beatVars, up, mute, serverVars, timeVars, mishaps>>

\* A dispatch, its number kept before it is handled.  A read under way when the
\* heartbeat gives up may still return one.
Receive ==
  /\ phase = "reading" /\ wire # <<>> /\ Head(wire).op = "event"
  /\ seq' = Head(wire).s
  /\ handled' = Append(handled, Head(wire).s)
  /\ wire' = Tail(wire)
  /\ UNCHANGED <<phase, known, beatVars, up, mute, serverVars, timeVars, mishaps>>

ReceiveReady ==
  /\ phase = "reading" /\ wire # <<>> /\ Head(wire).op = "ready"
  /\ known' = latest /\ seq' = Head(wire).s /\ handled' = <<Head(wire).s>>
  /\ up' = TRUE
  /\ wire' = Tail(wire)
  /\ UNCHANGED <<phase, beatVars, mute, serverVars, timeVars, mishaps>>

ReceiveResumed ==
  /\ phase = "reading" /\ wire # <<>> /\ Head(wire).op = "resumed"
  /\ up' = TRUE
  /\ wire' = Tail(wire)
  /\ UNCHANGED <<phase, clientVars, beatVars, mute, serverVars, timeVars, mishaps>>

ReceiveAck ==
  /\ phase = "reading" /\ wire # <<>> /\ Head(wire).op = "ack"
  /\ acked' = TRUE
  /\ wire' = Tail(wire)
  /\ UNCHANGED <<phase, clientVars, hbErr, up, mute, serverVars, timeVars, mishaps>>

\* Mutant of ReceiveEnd: an invalid session is resumed again.
ReceiveEndKeepsSession ==
  /\ phase = "reading" /\ wire # <<>>
  /\ \/ /\ Head(wire).op \in {"reconnect", "resumable", "invalid"}
        /\ Drop("backoff")
        /\ UNCHANGED clientVars
     \/ /\ Head(wire).op = "close"
        /\ Drop("fatal")
        /\ ForgetSession
  /\ UNCHANGED <<serverVars, timeVars, mishaps>>

\* A frame that ends the connection, and the session or not.
ReceiveEnd ==
  /\ phase = "reading" /\ wire # <<>>
  /\ \/ /\ Head(wire).op \in {"reconnect", "resumable"}
        /\ Drop("backoff")
        /\ UNCHANGED clientVars
     \/ /\ Head(wire).op = "invalid"
        /\ Drop("backoff")
        /\ ForgetSession
     \/ /\ Head(wire).op = "close"
        /\ Drop("fatal")
        /\ ForgetSession
  /\ UNCHANGED <<serverVars, timeVars, mishaps>>

Read == Receive \/ ReceiveReady \/ ReceiveResumed \/ ReceiveAck \/ ReceiveEnd

GatewayNext ==
  \/ ServerEvent \/ ServerForgets \/ ServerMute \/ ServerAnswers
  \/ \E op \in {"reconnect", "resumable", "invalid", "close"} : ServerSays(op)
  \/ Connect \/ Identify \/ ConnectionLost \/ FatalCleared \/ Tick
  \/ Beat \/ ReaderStops \/ Read

\* The client's timers and reads, and a Discord that answers what it is asked.
GatewayFairness ==
  /\ WF_gatewayVars(Connect \/ Identify \/ FatalCleared) /\ WF_gatewayVars(Tick)
  /\ WF_gatewayVars(ServerAnswers)
  /\ WF_gatewayVars(Beat) /\ WF_gatewayVars(ReaderStops) /\ WF_gatewayVars(Read)

GatewaySpec == GatewayInit /\ [][GatewayNext]_gatewayVars /\ GatewayFairness
-----------------------------------------------------------------------------
(***************************************************************************)
(* Properties.                                                             *)
(***************************************************************************)

\* Through every lost connection and every resume, the handlers get each event of
\* the session once and in order: "resumed with no events missed" (gateway.go:415).
NothingMissed == handled = [i \in DOMAIN handled |-> i]

\* Never more than two identifies within the window, although the throttle notes
\* the time before it waits and so lets two of them come close (gateway.go:374).
IdentifyPaced == Len(recent) <= 2

\* What the comment says, "one every five seconds" (gateway.go:368).
IdentifyOnce == Len(recent) <= 1

\* Whatever was lost, refused or silent, the client is connected in the end: a
\* session that is gone is not resumed for ever, a silent connection is dropped.
Connected == up /\ ~mute
GatewayReturns == <>[]Connected
=============================================================================

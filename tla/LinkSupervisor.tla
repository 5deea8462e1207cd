---------------------------- MODULE LinkSupervisor ----------------------------
(***************************************************************************)
(* The supervisor that holds one session with the node open, redialling    *)
(* whenever it goes away (Link.Run, internal/meshcore/link.go), together   *)
(* with the two parts of the bridge that race with it: the web request     *)
(* that changes the radio (RebuildLink), and meshLoop, which serves each   *)
(* session it finds published.                                             *)
(*                                                                         *)
(* A session is a number, given when its transport is opened; closing one  *)
(* closes its transport.  The length of a backoff is left out.             *)
(***************************************************************************)
EXTENDS Naturals

CONSTANTS
  MaxFaults,   \* bound: failed dials, failed handshakes and lost links
  MaxChanges   \* bound: times the operator changes the radio

ASSUME BoundsAssumption == MaxFaults \in Nat /\ MaxChanges \in Nat

Dialers  == 0 .. MaxChanges
Sessions == 1 .. MaxFaults + MaxChanges + 1

VARIABLES
  run,        \* where Link.Run is
  made,       \* sessions opened so far; the last is the one connect works on
  closed,     \* sessions that ended
  carrier,    \* session -> the dialer that opened it
  published,  \* Link.sess, 0 for nil
  faults,
  dialer,     \* Link.dialer
  request,    \* RebuildLink: none, or to close the old session
  serving,    \* the session meshLoop serves, 0 for none
  started,    \* session -> times meshLoop has set it up
  stopping    \* the context is cancelled

linkVars == <<run, made, closed, carrier, published, faults>>
vars     == <<linkVars, dialer, request, serving, started, stopping>>

Init ==
  /\ run = "dial" /\ made = 0 /\ closed = {} /\ carrier = [s \in Sessions |-> 0]
  /\ published = 0 /\ faults = 0 /\ dialer = 0 /\ request = "none"
  /\ serving = 0 /\ started = [s \in Sessions |-> 0] /\ stopping = FALSE

Alive(s) == s # 0 /\ s \notin closed

\* What goes wrong on its own is bounded; a cancelled context fails whatever waits.
MayFail == faults < MaxFaults \/ stopping
Fault   == faults' = IF stopping THEN faults ELSE faults + 1

-----------------------------------------------------------------------------
(* Link.Run.                                                               *)

\* The dialer is read once, here; what it opens is a session when it answers.
Dial ==
  /\ run = "dial"
  /\ \/ /\ stopping
        /\ run' = "stopped"
        /\ UNCHANGED <<made, carrier, faults>>
     \/ /\ ~stopping /\ MayFail /\ Fault
        /\ run' = "wait"
        /\ UNCHANGED <<made, carrier>>
     \/ /\ ~stopping
        /\ made' = made + 1 /\ carrier' = [carrier EXCEPT ![made + 1] = dialer]
        /\ run' = "handshake"
        /\ UNCHANGED faults
  /\ UNCHANGED <<closed, published, dialer, request, serving, started, stopping>>

\* Mutant of Handshake: a failed one leaves its transport open.
HandshakeLeaks ==
  /\ run = "handshake"
  /\ \/ /\ Alive(made) /\ run' = "connect" /\ UNCHANGED <<closed, faults>>
     \/ /\ ~Alive(made) \/ MayFail
        /\ IF Alive(made) THEN Fault ELSE UNCHANGED faults
        /\ run' = "wait"
        /\ UNCHANGED closed
  /\ UNCHANGED <<made, carrier, published, dialer, request, serving, started, stopping>>

\* Mutant of Handshake: a node that does not answer is the end of the supervisor.
HandshakeEndsRun ==
  /\ run = "handshake"
  /\ \/ /\ Alive(made) /\ run' = "connect" /\ UNCHANGED <<closed, faults>>
     \/ /\ ~Alive(made) \/ MayFail
        /\ IF Alive(made) THEN Fault ELSE UNCHANGED faults
        /\ run' = "stopped"
        /\ closed' = closed \cup {made}
  /\ UNCHANGED <<made, carrier, published, dialer, request, serving, started, stopping>>

\* NewSession: a node that does not answer ends the session it never was.
Handshake ==
  /\ run = "handshake"
  /\ \/ /\ Alive(made) /\ run' = "connect" /\ UNCHANGED <<closed, faults>>
     \/ /\ ~Alive(made) \/ MayFail
        /\ IF Alive(made) THEN Fault ELSE UNCHANGED faults
        /\ run' = "wait"
        /\ closed' = closed \cup {made}
  /\ UNCHANGED <<made, carrier, published, dialer, request, serving, started, stopping>>

\* onMeshConnect reads the channels and the contacts, and never fails; the session
\* is published after it, alive or not.
Publish ==
  /\ run = "connect"
  /\ published' = made /\ run' = "watch"
  /\ UNCHANGED <<made, closed, carrier, faults, dialer, request, serving, started, stopping>>

\* Mutant of Watch: a stopping supervisor leaves the session open.
WatchLeaks ==
  /\ run = "watch"
  /\ \/ stopping /\ run' = "stopped"
     \/ ~Alive(published) /\ run' = "wait"
  /\ published' = 0
  /\ UNCHANGED <<made, closed, carrier, faults, dialer, request, serving, started, stopping>>

\* Until the session ends, or the bridge does.
Watch ==
  /\ run = "watch"
  /\ \/ stopping /\ closed' = closed \cup {published} /\ run' = "stopped"
     \/ ~Alive(published) /\ run' = "wait" /\ UNCHANGED closed
  /\ published' = 0
  /\ UNCHANGED <<made, carrier, faults, dialer, request, serving, started, stopping>>

\* The backoff after a failure, or the pause after a session, is over.
Redial ==
  /\ run = "wait"
  /\ run' = IF stopping THEN "stopped" ELSE "dial"
  /\ UNCHANGED <<made, closed, carrier, published, faults, dialer, request, serving, started, stopping>>

\* readLoop: the transport fails under an open session, published or not.
LoseLink ==
  /\ faults < MaxFaults /\ Alive(made)
  /\ faults' = faults + 1 /\ closed' = closed \cup {made}
  /\ UNCHANGED <<run, made, carrier, published, dialer, request, serving, started, stopping>>

-----------------------------------------------------------------------------
(* The bridge.                                                             *)

\* RebuildLink swaps the dialer, then closes the session it finds published.
SetDialer ==
  /\ request = "none" /\ dialer < MaxChanges
  /\ dialer' = dialer + 1 /\ request' = "close"
  /\ UNCHANGED <<linkVars, serving, started, stopping>>

\* Mutant of CloseOld: nil is closed too.
CloseNil ==
  /\ request = "close"
  /\ closed' = closed \cup {published}
  /\ request' = "none"
  /\ UNCHANGED <<run, made, carrier, published, faults, dialer, serving, started, stopping>>

CloseOld ==
  /\ request = "close"
  /\ closed' = IF published = 0 THEN closed ELSE closed \cup {published}
  /\ request' = "none"
  /\ UNCHANGED <<run, made, carrier, published, faults, dialer, serving, started, stopping>>

\* Mutant of Serve: a session is taken as it is found.
ServeAny ==
  /\ serving = 0 /\ ~stopping /\ published # 0
  /\ serving' = published
  /\ started' = [started EXCEPT ![published] = @ + 1]
  /\ UNCHANGED <<linkVars, dialer, request, stopping>>

\* meshLoop takes up a session that is not dead already: it drains the node and
\* starts loginAllRooms, syncAfterMesh and watchRawPackets for it.
Serve ==
  /\ serving = 0 /\ ~stopping /\ Alive(published)
  /\ serving' = published
  /\ started' = [started EXCEPT ![published] = @ + 1]
  /\ UNCHANGED <<linkVars, dialer, request, stopping>>

\* Mutant of Leave: meshLoop waits to see the supervisor publish nil.
LeaveOnNil ==
  /\ serving # 0 /\ published = 0
  /\ serving' = 0
  /\ UNCHANGED <<linkVars, dialer, request, started, stopping>>

\* The session ended, or another was published.
Leave ==
  /\ serving # 0 /\ (~Alive(serving) \/ published # serving)
  /\ serving' = 0
  /\ UNCHANGED <<linkVars, dialer, request, started, stopping>>

Shutdown ==
  /\ ~stopping
  /\ stopping' = TRUE
  /\ UNCHANGED <<linkVars, dialer, request, serving, started>>

Next ==
  \/ Dial \/ Handshake \/ Publish \/ Watch \/ Redial
  \/ LoseLink \/ SetDialer \/ CloseOld \/ Serve \/ Leave \/ Shutdown

\* The goroutines run and the timers fire; the faults are the environment's.
Fairness ==
  /\ WF_vars(Dial) /\ WF_vars(Handshake) /\ WF_vars(Publish) /\ WF_vars(Watch)
  /\ WF_vars(Redial) /\ WF_vars(CloseOld) /\ WF_vars(Serve) /\ WF_vars(Leave)

Spec == Init /\ [][Next]_vars

FairSpec == Spec /\ Fairness

-----------------------------------------------------------------------------
\* Sessions are numbered as they are opened, and the bounds on faults and changes
\* bound them; nothing that is not a session is published, served or closed.
TypeOK ==
  /\ run \in {"dial", "handshake", "connect", "watch", "wait", "stopped"}
  /\ made \in 0 .. MaxFaults + MaxChanges + 1 /\ closed \subseteq 1 .. made
  /\ carrier \in [Sessions -> Dialers]
  /\ published \in 0 .. made /\ serving \in 0 .. made
  /\ faults \in 0 .. MaxFaults /\ dialer \in Dialers
  /\ request \in {"none", "close"}
  /\ started \in [Sessions -> Nat] /\ stopping \in BOOLEAN

\* "Keeps exactly one Session alive": no session is opened while another is, on
\* the failure paths of connect and while the operator swaps radios.
OneSession == \A s, t \in (1 .. made) \ closed : s = t

\* A supervisor that has returned leaves no session behind it, open or published.
StoppedClean == run = "stopped" => published = 0 /\ (1 .. made) \subseteq closed

\* meshLoop sets each session up once, although a dead one stays published until
\* the supervisor notices: rooms are not logged in to twice.
ServedOnce == \A s \in Sessions : started[s] <= 1

\* A session is published again after any run of failures and changes of radio.
LinkReturns == (published = 0) ~> (published # 0 \/ stopping)

\* A published session is set up, unless it ends or the bridge does first.
SessionServed ==
  \A s \in Sessions : (published = s) ~> (started[s] > 0 \/ s \in closed \/ stopping)

\* Once the request that changed the radio has returned, no published session is
\* carried by the old one.
NewRadioInUse ==
  request = "none" /\ Alive(published) => carrier[published] = dialer

=============================================================================

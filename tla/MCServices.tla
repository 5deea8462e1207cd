---------------------------- MODULE MCServices ----------------------------
(***************************************************************************)
(* Five parts that the bridge is built on, one at a time: which of them    *)
(* moves is chosen at the start, and the others stay as they begin.  Each  *)
(* meets the others only through what it assumes of them: the command port *)
(* and its contract, a Gateway that comes and goes, requests that succeed  *)
(* or fail.                                                                *)
(***************************************************************************)
EXTENDS ContactCache, HeardWatch, RemoteCLI, Gateway, RestLimiter

VARIABLE part

meshVars == <<contactVars, heardVars, cliVars>>
discordVars == <<gatewayVars, restVars>>

Init ==
  /\ part \in {"contacts", "heard", "cli", "gateway", "rest"}
  /\ ContactInit /\ HeardInit /\ CLIInit /\ GatewayInit /\ RestInit
  /\ part # "contacts" => onNode = Empty
  /\ \A j, k \in Keys : onNode[j] = onNode[k]   \* the node knows nobody, or everybody
  /\ part # "rest" => budget = [b \in Buckets |-> Limit]

Next ==
  /\ UNCHANGED part
  /\ \/ part = "contacts" /\ ContactNext /\ UNCHANGED <<heardVars, cliVars, discordVars>>
     \/ part = "heard" /\ HeardNext /\ UNCHANGED <<contactVars, cliVars, discordVars>>
     \/ part = "cli" /\ CLINext /\ UNCHANGED <<contactVars, heardVars, discordVars>>
     \/ part = "gateway" /\ GatewayNext /\ UNCHANGED <<meshVars, restVars>>
     \/ part = "rest" /\ RestNext /\ UNCHANGED <<meshVars, gatewayVars>>

\* The fairness of each part, for the part that moves.  Sending and the windows, of
\* which no step repeats for ever, need less: that one goes on while any can.
Fairness ==
  /\ SF_contactVars(part = "contacts" /\ BeginListing("housekeeping"))
  /\ \A r \in Refreshers : WF_contactVars(part = "contacts" /\ RefreshStep(r))
  /\ SF_contactVars(part = "contacts" /\ EditStep)
  /\ WF_heardVars(part = "heard" /\ (Transmit \/ \E w \in Watches : WindowStep(w)))
  /\ WF_heardVars(part = "heard" /\ NoteStep)
  /\ \A r \in Runners : WF_cliVars(part = "cli" /\ Runs(r))
  /\ WF_cliVars(part = "cli" /\ ExpireRoomLogin)
  /\ WF_gatewayVars(part = "gateway" /\ (Connect \/ Identify \/ FatalCleared))
  /\ WF_gatewayVars(part = "gateway" /\ Tick)
  /\ WF_gatewayVars(part = "gateway" /\ ServerAnswers)
  /\ WF_gatewayVars(part = "gateway" /\ Beat)
  /\ WF_gatewayVars(part = "gateway" /\ ReaderStops)
  /\ WF_gatewayVars(part = "gateway" /\ Read)
  /\ \A c \in Callers : WF_restVars(part = "rest" /\ CallStep(c))
  /\ \A b \in Buckets : WF_restVars(part = "rest" /\ WindowEnds(b))
  /\ WF_restVars(part = "rest" /\ GlobalOver)

Spec == Init /\ [][Next]_<<part, meshVars, discordVars>> /\ Fairness

\* CacheConverges, where the contact list is the part that moves.
ContactsConverge == <>[](part = "contacts" => Converged)

\* AllAnswered, where the repeat listener is the part that moves.
OriginalAnswered == <>[](part = "heard" => AllTold \/ stopping)

\* GatewayReturns, where the Gateway is the part that moves.
GatewayComesBack == <>[](part = "gateway" => Connected)
=============================================================================

------------------------------ MODULE Delivery ------------------------------
(***************************************************************************)
(* One Discord message on its way to an acknowledging route (a direct      *)
(* message or a room post), from the first transmission to the last        *)
(* verdict: sendToMesh, transmitChunk, addPending, handleConfirmation,     *)
(* correctLateDelivery, expirePending, abandonRest and                     *)
(* resolveStrandedSends of internal/bridge/outbound.go.                    *)
(*                                                                         *)
(* Four goroutines step here.  The sender holds txMu and puts the pieces   *)
(* on the air one by one.  meshLoop takes the confirmations the node       *)
(* pushes, and sweeps; housekeeping sweeps too, so expirePending runs on   *)
(* two goroutines.  setup answers, after each Gateway READY, the rows left *)
(* pending.  A worker takes a send out of the maps under pendMu and works  *)
(* through its effects after the unlock, one step per database write or    *)
(* Discord verdict, so the others step in between.                         *)
(*                                                                         *)
(* A crash loses every map, channel and group; rows, echoes and markers    *)
(* are in SQLite and on Discord and stay.                                  *)
(*                                                                         *)
(* A send is <<attempt, piece>>: it stands for the acknowledgement handle  *)
(* the node issues for it.  Attempt 1 is the typed message, the later ones *)
(* are resends asked for with a reaction.                                  *)
(***************************************************************************)
EXTENDS Integers, FiniteSets, ChunkGroup

CONSTANTS
  NPieces,      \* transmissions the text is split into
  MaxAttempts,  \* bound: the message and its resends
  MaxRestarts,  \* bound: crashes of the bridge
  Faults        \* what may go wrong in this instance, a subset of FaultKinds

\* The radio refuses a send; accepts one it can give no handle for; Discord
\* refuses an echo; SQLite an insert; a confirmation is dropped; the Gateway
\* identifies again in mid-run.
FaultKinds == {"reject", "noack", "echo", "db", "lost", "reidentify"}

ASSUME PiecesAssumption == NPieces \in Nat \ {0}
ASSUME AttemptsAssumption == MaxAttempts \in Nat
ASSUME RestartsAssumption == MaxRestarts \in Nat
ASSUME FaultsAssumption == Faults \subseteq FaultKinds

Pieces   == 1 .. NPieces
Attempts == 1 .. MaxAttempts
Sends    == Attempts \X Pieces

Att(s)   == s[1]
Piece(s) == s[2]

\* Discord messages: the typed one, and the echo posted for a send.
Parent   == <<0, 0>>
NoMsg    == <<0, 1>>
Messages == Sends \cup {Parent}

\* A message that fits in one transmission has no group (a nil *chunkGroup).
Split == NPieces > 1

MeshLoop == "meshLoop"
House    == "housekeeping"
Setup    == "setup"
Workers  == {MeshLoop, House, Setup}

Markers   == {"wait", "ok", "fail", "sent"}
RowStates == {"none", "pending", "transmitted", "delivered", "failed"}
Kinds     == {"idle", "confirm", "late", "expire", "strand"}
Steps     == {"row", "mark", "resolve", "settle", "correct", "parent", "end"}
SenderPCs == {"idle", "loop", "transmit", "register", "await", "abandon", "cross"}

VARIABLES
  spc,       \* where the sender is
  attempt,   \* attempts started so far
  piece,     \* the piece the sender is at
  reuse,     \* previousChunks: piece -> the send whose echo is reused
  skip,      \* pieces recorded as delivered when previousChunks was read
  onAir,     \* sends the radio accepted with an acknowledgement handle
  unackable, \* sends the radio accepted without one
  acked,     \* sends whose acknowledgement reached our node
  confirms,  \* confirmations pushed to the bridge and not yet taken
  pending,   \* Bridge.pending, by handle
  failed,    \* Bridge.failed, by handle
  overdue,   \* pending sends whose deadline has passed
  settled,   \* send -> what its settled channel was told
  row,       \* send -> delivery column of its row; "none": not inserted
  latest,    \* piece -> the last send of it whose row names an echo
  echo,      \* send -> the Discord message that carries its marker
  marks,     \* Discord message -> the bridge's own markers on it
  group,     \* attempt -> its chunkGroup
  queue,     \* worker -> expired sends it still has to answer
  job,       \* worker -> the send it is answering, and how far it is
  orphaned,  \* setup still has to cross the original of stranded pieces
  restarts   \* crashes so far

senderVars == <<spc, attempt, piece, reuse, skip>>
radioVars  == <<onAir, unackable, acked, confirms>>
mapVars    == <<pending, failed, overdue>>
rowVars    == <<row, latest>>
workVars   == <<queue, job, orphaned, restarts>>
vars == <<senderVars, radioVars, mapVars, settled, rowVars, echo, marks, group, workVars>>

NoJob == [kind |-> "idle", send |-> NoMsg, step |-> "end", verdict |-> "none"]

Init ==
  /\ spc = "idle" /\ attempt = 0 /\ piece = 1
  /\ reuse = [i \in Pieces |-> NoMsg] /\ skip = {}
  /\ onAir = {} /\ unackable = {} /\ acked = {} /\ confirms = {}
  /\ pending = {} /\ failed = {} /\ overdue = {}
  /\ settled = [s \in Sends |-> "none"]
  /\ row = [s \in Sends |-> "none"]
  /\ latest = [i \in Pieces |-> NoMsg]
  /\ echo = [s \in Sends |-> NoMsg]
  /\ marks = [m \in Messages |-> {}]
  /\ group = [a \in Attempts |-> NewGroup]
  /\ queue = [w \in Workers |-> {}]
  /\ job = [w \in Workers |-> NoJob]
  /\ orphaned = FALSE /\ restarts = 0

-----------------------------------------------------------------------------
(* Markers.                                                                *)

\* reactVerdict: takes the hourglass off, nothing else.
ReactVerdict(ms, m, v) ==
  IF m = NoMsg THEN ms ELSE [ms EXCEPT ![m] = (@ \ {"wait"}) \cup {v}]

\* setVerdict: one marker, and whatever contradicts it comes off.
SetVerdict(ms, m, v) ==
  IF m = NoMsg \/ v = "none" THEN ms ELSE [ms EXCEPT ![m] = {v}]

\* settleChunk: counts the outcome and answers the original if that was the last.
SettleChunk(a, outcome) ==
  IF ~Split THEN UNCHANGED <<group, marks>>
  ELSE /\ group' = [group EXCEPT ![a] = Settle(@, outcome, NPieces)]
       /\ marks' = SetVerdict(marks, Parent, SettleVerdict(group[a], outcome, NPieces))

\* SetDelivery on the row of a send; there is none if the insert failed.
SetRow(s, state) ==
  row' = [row EXCEPT ![s] = IF @ = "none" THEN @ ELSE state]

-----------------------------------------------------------------------------
(* The sender.                                                             *)

Current == <<attempt, piece>>

\* InsertMessage for the current send; its error is ignored.
InsertRow(state) ==
  \/ /\ row' = [row EXCEPT ![Current] = state]
     /\ latest' = IF echo[Current] \in {NoMsg, Parent} THEN latest
                  ELSE [latest EXCEPT ![piece] = Current]
  \/ "db" \in Faults /\ UNCHANGED <<row, latest>>

\* previousChunks offers the echoes only when there is one for every piece.
LinesUp == Split /\ \A i \in Pieces : latest[i] # NoMsg

\* A typed message, or a resend: the old verdict comes off the message, the
\* hourglass goes on, and sendToMesh takes txMu and looks for earlier pieces.
StartAttempt ==
  /\ spc = "idle" /\ attempt < MaxAttempts
  /\ attempt' = attempt + 1 /\ piece' = 1 /\ spc' = "loop"
  /\ marks' = [marks EXCEPT ![Parent] = {"wait"}]
  /\ reuse' = [i \in Pieces |-> IF LinesUp THEN latest[i] ELSE NoMsg]
  /\ skip' = IF LinesUp THEN {i \in Pieces : row[latest[i]] = "delivered"} ELSE {}
  /\ UNCHANGED <<radioVars, mapVars, settled, rowVars, echo, group, workVars>>

\* Mutant of NextPiece: the loop runs once too often.
NextPieceTooFar ==
  IF piece <= NPieces THEN piece' = piece + 1 /\ spc' = "loop"
                      ELSE piece' = piece /\ spc' = "idle"

\* On to the next piece, or out of sendToMesh after the last.
NextPiece ==
  IF piece < NPieces THEN piece' = piece + 1 /\ spc' = "loop"
                     ELSE piece' = piece /\ spc' = "idle"

\* A piece that landed on an earlier attempt is not sent again.
SkipDelivered ==
  /\ spc = "loop" /\ piece \in skip
  /\ SettleChunk(attempt, "delivered")
  /\ NextPiece
  /\ UNCHANGED <<attempt, reuse, skip, radioVars, mapVars, settled, rowVars, echo, workVars>>

\* The Discord message that will carry this piece's marker: the typed message
\* itself, the echo of last time cleared of its verdict, a fresh echo, or none.
EchoPiece ==
  /\ spc = "loop" /\ piece \notin skip
  /\ LET s == Current IN
     \/ /\ ~Split
        /\ echo' = [echo EXCEPT ![s] = Parent]
        /\ UNCHANGED marks
     \/ /\ Split /\ reuse[piece] # NoMsg
        /\ echo' = [echo EXCEPT ![s] = echo[reuse[piece]]]
        /\ marks' = [marks EXCEPT ![echo[reuse[piece]]] = {"wait"}]
     \/ /\ Split /\ (reuse[piece] = NoMsg \/ "echo" \in Faults)
        /\ echo' = [echo EXCEPT ![s] = s]
        /\ marks' = [marks EXCEPT ![s] = {"wait"}]
     \/ /\ Split /\ "echo" \in Faults
        /\ UNCHANGED <<echo, marks>>
  /\ spc' = "transmit"
  /\ UNCHANGED <<attempt, piece, reuse, skip, radioVars, mapVars, settled, rowVars, group, workVars>>

\* SendDMAttempt: the radio refuses, the row and the marker say so, and the
\* rest of a split is abandoned.
TransmitRejected ==
  /\ spc = "transmit" /\ "reject" \in Faults
  /\ InsertRow("failed")
  /\ marks' = ReactVerdict(marks, echo[Current], "fail")
  /\ spc' = IF Split THEN "abandon" ELSE "idle"
  /\ UNCHANGED <<attempt, piece, reuse, skip, radioVars, mapVars, settled, echo, group, workVars>>

\* SendDMAttempt: accepted, but no acknowledgement can ever come.
TransmitUnackable ==
  /\ spc = "transmit" /\ "noack" \in Faults
  /\ unackable' = unackable \cup {Current}
  /\ InsertRow("transmitted")
  /\ LET ms == ReactVerdict(marks, echo[Current], "sent")
         v  == SettleVerdict(group[attempt], "unknown", NPieces)
     IN IF Split
        THEN /\ marks' = SetVerdict(ms, Parent, v)
             /\ group' = [group EXCEPT ![attempt] = Settle(@, "unknown", NPieces)]
        ELSE marks' = ms /\ UNCHANGED group
  /\ NextPiece
  /\ UNCHANGED <<attempt, reuse, skip, onAir, acked, confirms, mapVars, settled, echo, workVars>>

\* SendDMAttempt: accepted with a handle.  The send is on the air before the
\* bridge has written its row or registered it.
TransmitAccepted ==
  /\ spc = "transmit"
  /\ onAir' = onAir \cup {Current}
  /\ spc' = "register"
  /\ UNCHANGED <<attempt, piece, reuse, skip, unackable, acked, confirms, mapVars,
                 settled, rowVars, echo, marks, group, workVars>>

\* InsertMessage, then addPending.  A message in one piece is waited for by
\* nobody; the sender of a split waits for each piece.
Register ==
  /\ spc = "register"
  /\ InsertRow("pending")
  /\ pending' = pending \cup {Current}
  /\ spc' = IF Split THEN "await" ELSE "idle"
  /\ UNCHANGED <<attempt, piece, reuse, skip, radioVars, failed, overdue,
                 settled, echo, marks, group, workVars>>

\* Mutant of AwaitSettled: the outcome is not looked at.
AwaitAnyOutcome ==
  /\ spc = "await"
  /\ settled[Current] # "none" /\ NextPiece
  /\ UNCHANGED <<attempt, reuse, skip, radioVars, mapVars, settled, rowVars, echo, marks, group, workVars>>

\* <-settled.
AwaitSettled ==
  /\ spc = "await"
  /\ \/ settled[Current] = "true" /\ NextPiece
     \/ settled[Current] = "false" /\ spc' = "abandon" /\ UNCHANGED piece
  /\ UNCHANGED <<attempt, reuse, skip, radioVars, mapVars, settled, rowVars, echo, marks, group, workVars>>

\* abandonRest: the group falls silent ...
AbandonGroup ==
  /\ spc = "abandon"
  /\ group' = [group EXCEPT ![attempt] = Abandon(@)]
  /\ spc' = "cross"
  /\ UNCHANGED <<attempt, piece, reuse, skip, radioVars, mapVars, settled, rowVars, echo, marks, workVars>>

\* Mutant of CrossRest: the original is forgotten.
CrossEchoesOnly ==
  /\ spc = "cross"
  /\ LET crossed == {echo[reuse[i]] : i \in {j \in piece + 1 .. NPieces : reuse[j] # NoMsg}}
     IN marks' = [m \in Messages |-> IF m \in crossed THEN {"fail"} ELSE marks[m]]
  /\ spc' = "idle"
  /\ UNCHANGED <<attempt, piece, reuse, skip, radioVars, mapVars, settled, rowVars, echo, group, workVars>>

\* ... then the echoes of the pieces not attempted, and the original, are crossed.
CrossRest ==
  /\ spc = "cross"
  /\ LET crossed == {echo[reuse[i]] : i \in {j \in piece + 1 .. NPieces : reuse[j] # NoMsg}}
                      \cup {Parent}
     IN marks' = [m \in Messages |-> IF m \in crossed THEN {"fail"} ELSE marks[m]]
  /\ spc' = "idle"
  /\ UNCHANGED <<attempt, piece, reuse, skip, radioVars, mapVars, settled, rowVars, echo, group, workVars>>

Sender ==
  \/ StartAttempt \/ SkipDelivered \/ EchoPiece
  \/ TransmitRejected \/ TransmitUnackable \/ TransmitAccepted
  \/ Register \/ AwaitSettled \/ AbandonGroup \/ CrossRest

-----------------------------------------------------------------------------
(* The mesh and the clock.                                                 *)

\* The recipient's acknowledgement reaches our node, which pushes it.  The
\* push is dropped when the bridge's channel is full or the link is down.
Acknowledge(s) ==
  /\ s \in onAir \ acked
  /\ acked' = acked \cup {s}
  /\ \/ confirms' = confirms \cup {s}
     \/ "lost" \in Faults /\ UNCHANGED confirms
  /\ UNCHANGED <<senderVars, onAir, unackable, mapVars, settled, rowVars, echo, marks, group, workVars>>

DeadlinePasses(s) ==
  /\ s \in pending \ overdue
  /\ overdue' = overdue \cup {s}
  /\ UNCHANGED <<senderVars, radioVars, pending, failed, settled, rowVars, echo, marks, group, workVars>>

-----------------------------------------------------------------------------
(* The workers.                                                            *)

Free(w) == job[w].kind = "idle" /\ queue[w] = {}

StartJob(w, kind, s) ==
  job' = [job EXCEPT ![w] = [kind |-> kind, send |-> s, step |-> "row", verdict |-> "none"]]

\* handleConfirmation and correctLateDelivery, their part under pendMu.
TakeConfirmation ==
  /\ Free(MeshLoop)
  /\ \E s \in confirms :
       /\ confirms' = confirms \ {s}
       /\ \/ /\ s \in pending
             /\ pending' = pending \ {s}
             /\ StartJob(MeshLoop, "confirm", s)
             /\ UNCHANGED failed
          \/ /\ s \in failed \ pending
             /\ failed' = failed \ {s}
             /\ StartJob(MeshLoop, "late", s)
             /\ UNCHANGED pending
          \/ /\ s \notin pending \cup failed   \* matched no outstanding message
             /\ UNCHANGED <<pending, failed, job>>
  /\ UNCHANGED <<senderVars, onAir, unackable, acked, overdue, settled, rowVars, echo, marks, group,
                 queue, orphaned, restarts>>

\* Mutant of Sweep: an expired send is copied to failed and not deleted.
SweepKeepsPending(w) ==
  /\ w # Setup /\ Free(w)
  /\ \E old \in SUBSET failed :
       LET expired == pending \cap overdue IN
       /\ expired \cup old # {}
       /\ failed' = (failed \ old) \cup expired
       /\ queue' = [queue EXCEPT ![w] = expired]
  /\ UNCHANGED <<senderVars, radioVars, pending, overdue, settled, rowVars, echo, marks, group,
                 job, orphaned, restarts>>

\* expirePending, its part under pendMu: what is overdue moves to failed, and
\* what has been there longer than lateAckGrace is forgotten.
Sweep(w) ==
  /\ w # Setup /\ Free(w)
  /\ \E old \in SUBSET failed :
       LET expired == pending \cap overdue IN
       /\ expired \cup old # {}
       /\ pending' = pending \ expired
       /\ failed' = (failed \ old) \cup expired
       /\ queue' = [queue EXCEPT ![w] = expired]
  /\ UNCHANGED <<senderVars, radioVars, overdue, settled, rowVars, echo, marks, group,
                 job, orphaned, restarts>>

\* onReady starts setup, one at a time: it lists the rows left pending.
Ready ==
  /\ restarts > 0 \/ "reidentify" \in Faults
  /\ Free(Setup) /\ ~orphaned
  /\ LET stranded == {s \in Sends : row[s] = "pending" /\ echo[s] # NoMsg} IN
       /\ stranded # {}
       /\ queue' = [queue EXCEPT ![Setup] = stranded]
  /\ orphaned' = Split
  /\ UNCHANGED <<senderVars, radioVars, mapVars, settled, rowVars, echo, marks, group, job, restarts>>

\* The loops of expirePending and resolveStrandedSends over what they took.
NextExpired(w) ==
  /\ job[w].kind = "idle"
  /\ \E s \in queue[w] :
       /\ queue' = [queue EXCEPT ![w] = @ \ {s}]
       /\ StartJob(w, IF w = Setup THEN "strand" ELSE "expire", s)
  /\ UNCHANGED <<senderVars, radioVars, mapVars, settled, rowVars, echo, marks, group, orphaned, restarts>>

\* resolveStrandedSends answers the original once, after its pieces.
CrossOrphan ==
  /\ Free(Setup) /\ orphaned
  /\ orphaned' = FALSE
  /\ marks' = SetVerdict(marks, Parent, "fail")
  /\ UNCHANGED <<senderVars, radioVars, mapVars, settled, rowVars, echo, group, queue, job, restarts>>

\* The order of the effects in handleConfirmation, correctLateDelivery,
\* expirePending and resolveStrandedSends.
After(kind, step) ==
  CASE step = "row"     -> IF kind = "confirm" THEN "resolve" ELSE "mark"
    [] step = "mark"    -> CASE kind = "late"   -> "correct"
                             [] kind = "expire" -> "resolve"
                             [] OTHER           -> "end"
    [] step = "resolve" -> "settle"
    [] step = "settle"  -> "parent"
    [] step = "correct" -> "parent"
    [] step = "parent"  -> IF kind = "confirm" THEN "mark" ELSE "end"
    [] OTHER            -> "end"

\* Worker w is at this step of an answer; it moves on with verdict v in hand.
At(w, step) == job[w].kind # "idle" /\ job[w].step = step
Advance(w, v) ==
  LET next == After(job[w].kind, job[w].step)
  IN job' = [job EXCEPT ![w] = IF next = "end" THEN NoJob
                               ELSE [@ EXCEPT !.step = next, !.verdict = v]]

\* Mutant of WriteRow: resolveStrandedSends crosses the message and leaves its row.
WriteRowUnlessStranded(w) ==
  /\ At(w, "row")
  /\ IF job[w].kind = "strand" THEN UNCHANGED row
     ELSE SetRow(job[w].send, IF job[w].kind = "expire" THEN "failed" ELSE "delivered")
  /\ Advance(w, "none")
  /\ UNCHANGED <<senderVars, radioVars, mapVars, settled, latest, echo, marks, group,
                 queue, orphaned, restarts>>

WriteRow(w) ==
  /\ At(w, "row")
  /\ SetRow(job[w].send, IF job[w].kind \in {"expire", "strand"} THEN "failed" ELSE "delivered")
  /\ Advance(w, "none")
  /\ UNCHANGED <<senderVars, radioVars, mapVars, settled, latest, echo, marks, group,
                 queue, orphaned, restarts>>

\* A late acknowledgement and a stranded send set their marker alone; the
\* others only take the hourglass off.
MarkMessage(w) ==
  /\ At(w, "mark")
  /\ LET m == echo[job[w].send] IN
     marks' = CASE job[w].kind = "confirm" -> ReactVerdict(marks, m, "ok")
                [] job[w].kind = "late"    -> SetVerdict(marks, m, "ok")
                [] job[w].kind = "strand"  -> SetVerdict(marks, m, "fail")
                [] OTHER                   -> ReactVerdict(marks, m, "fail")
  /\ Advance(w, "none")
  /\ UNCHANGED <<senderVars, radioVars, mapVars, settled, rowVars, echo, group, queue, orphaned, restarts>>

\* Mutant of ResolveSend: an expired send releases nobody.
ResolveConfirmedOnly(w) ==
  /\ At(w, "resolve")
  /\ settled' = IF job[w].kind = "confirm"
                THEN [settled EXCEPT ![job[w].send] = "true"] ELSE settled
  /\ Advance(w, "none")
  /\ UNCHANGED <<senderVars, radioVars, mapVars, rowVars, echo, marks, group, queue, orphaned, restarts>>

\* resolve: told once, never blocks.
ResolveSend(w) ==
  /\ At(w, "resolve")
  /\ settled' = [settled EXCEPT ![job[w].send] =
                   IF @ # "none" THEN @
                   ELSE IF job[w].kind = "confirm" THEN "true" ELSE "false"]
  /\ Advance(w, "none")
  /\ UNCHANGED <<senderVars, radioVars, mapVars, rowVars, echo, marks, group, queue, orphaned, restarts>>

SettleGroup(w) ==
  /\ At(w, "settle")
  /\ LET a == Att(job[w].send)
         outcome == IF job[w].kind = "confirm" THEN "delivered" ELSE "failed"
     IN IF Split
        THEN /\ group' = [group EXCEPT ![a] = Settle(@, outcome, NPieces)]
             /\ Advance(w, SettleVerdict(group[a], outcome, NPieces))
        ELSE Advance(w, "none") /\ UNCHANGED group
  /\ UNCHANGED <<senderVars, radioVars, mapVars, settled, rowVars, echo, marks, queue, orphaned, restarts>>

CorrectGroup(w) ==
  /\ At(w, "correct")
  /\ LET a == Att(job[w].send) IN
     IF Split
     THEN /\ group' = [group EXCEPT ![a] = Correct(@)]
          /\ Advance(w, Verdict(Correct(group[a]), NPieces))
     ELSE Advance(w, "none") /\ UNCHANGED group
  /\ UNCHANGED <<senderVars, radioVars, mapVars, settled, rowVars, echo, marks, queue, orphaned, restarts>>

AnswerParent(w) ==
  /\ At(w, "parent")
  /\ marks' = SetVerdict(marks, Parent, job[w].verdict)
  /\ Advance(w, "none")
  /\ UNCHANGED <<senderVars, radioVars, mapVars, settled, rowVars, echo, group, queue, orphaned, restarts>>

Work(w) ==
  \/ NextExpired(w) \/ WriteRow(w) \/ MarkMessage(w) \/ ResolveSend(w)
  \/ SettleGroup(w) \/ CorrectGroup(w) \/ AnswerParent(w)

-----------------------------------------------------------------------------

\* The process stops and is started again.
Crash ==
  /\ restarts < MaxRestarts
  /\ restarts' = restarts + 1
  /\ spc' = "idle" /\ piece' = 1 /\ reuse' = [i \in Pieces |-> NoMsg] /\ skip' = {}
  /\ confirms' = {} /\ pending' = {} /\ failed' = {} /\ overdue' = {}
  /\ settled' = [s \in Sends |-> "none"]
  /\ group' = [a \in Attempts |-> NewGroup]
  /\ queue' = [w \in Workers |-> {}]
  /\ job' = [w \in Workers |-> NoJob]
  /\ orphaned' = FALSE
  /\ UNCHANGED <<attempt, onAir, unackable, acked, rowVars, echo, marks>>

Next ==
  \/ Sender
  \/ \E s \in Sends : Acknowledge(s) \/ DeadlinePasses(s)
  \/ TakeConfirmation \/ Ready \/ CrossOrphan \/ Crash
  \/ \E w \in Workers : Sweep(w) \/ Work(w)

Spec == Init /\ [][Next]_vars

-----------------------------------------------------------------------------
(* Type invariant.                                                         *)

Jobs == [kind : Kinds, send : Sends \cup {NoMsg}, step : Steps, verdict : Verdicts]

\* Every variable holds what its Go counterpart can hold.
TypeOK ==
  /\ spc \in SenderPCs /\ attempt \in 0 .. MaxAttempts /\ piece \in Pieces
  /\ reuse \in [Pieces -> Sends \cup {NoMsg}] /\ skip \subseteq Pieces
  /\ onAir \subseteq Sends /\ unackable \subseteq Sends
  /\ acked \subseteq Sends /\ confirms \subseteq Sends
  /\ pending \subseteq Sends /\ failed \subseteq Sends /\ overdue \subseteq Sends
  /\ settled \in [Sends -> {"none", "true", "false"}]
  /\ row \in [Sends -> RowStates]
  /\ latest \in [Pieces -> Sends \cup {NoMsg}]
  /\ echo \in [Sends -> Messages \cup {NoMsg}]
  /\ marks \in [Messages -> SUBSET Markers]
  /\ group \in [Attempts -> Groups]
  /\ queue \in [Workers -> SUBSET Sends]
  /\ job \in [Workers -> Jobs]

-----------------------------------------------------------------------------
(* Safety.                                                                 *)

\* A piece has reached the far end, or nobody can say: it was acknowledged, could
\* not be, or landed on an earlier attempt.
Reached(s) ==
  \/ s \in acked \cup unackable
  \/ \E b \in 1 .. Att(s) - 1 : <<b, Piece(s)>> \in acked

\* A piece of a split is on the air only if every earlier piece of the same
\* attempt has reached the far end: it never gets a message with a hole in it.
PiecesInOrder ==
  \A s \in onAir \cup unackable : \A i \in 1 .. Piece(s) - 1 : Reached(<<Att(s), i>>)

\* A tick is earned: the message that wears it was acknowledged, or, for the
\* original of a split, every piece of it was on some attempt.
TickIsEarned ==
  /\ \A m \in Sends : "ok" \in marks[m] => \E s \in acked : echo[s] = m
  /\ "ok" \in marks[Parent] =>
       \A i \in Pieces : \E a \in Attempts : <<a, i>> \in acked

\* Whoever takes a send out of the table has it alone: it is in one of the two
\* maps at most, and two goroutines answer the same send only when one is still
\* crossing it while the other corrects its late acknowledgement.
Held(w) == queue[w] \cup {job[w].send : k \in {job[w].kind} \ {"idle"}}
OneOwner ==
  /\ pending \cap failed = {}
  /\ \A w \in {MeshLoop, House} :
       job[w].send \notin queue[w] /\ Held(w) \cap pending = {}
  /\ Held(MeshLoop) \cap Held(House) # {} =>
       job[MeshLoop].kind = "late" /\ Held(MeshLoop) \cap Held(House) = {job[MeshLoop].send}

\* No transmission is counted twice, by two sweeps or by a late acknowledgement
\* after a sweep (outbound.go:1074): the group of the present attempt accounts for no
\* more pieces than it skipped or put on the air.  What an older attempt skipped is
\* not kept, so that its group, which late answers still reach, is only held to the
\* pieces of the message.
NoDoubleCount ==
  \A a \in Attempts :
    Accounted(group[a]) <=
      Cardinality({i \in Pieces : <<a, i>> \in onAir \cup unackable})
        + (IF a = attempt THEN Cardinality(skip)
           ELSE NPieces - Cardinality({i \in Pieces : <<a, i>> \in onAir \cup unackable}))

\* A resend of a split puts only the missing pieces back on the air: a piece
\* recorded as delivered on any earlier attempt is skipped.
ResendPicksOnlyMissing ==
  [][(Split /\ attempt' = attempt + 1) =>
       {i \in Pieces : \E b \in 1 .. attempt : row[<<b, i>>] = "delivered"} \subseteq skip']_vars

\* What is known to have landed is not crossed afterwards.
LandedStaysLanded ==
  [][\A s \in Sends : row[s] = "delivered" => row'[s] = "delivered"]_vars

\* setup only fails sends that nothing is waiting on any more.
OrphansOnly ==
  [][\A s \in Sends :
       (row[s] # "failed" /\ row'[s] = "failed" /\ job[Setup].send = s)
         => s \notin pending]_vars

-----------------------------------------------------------------------------
(* Liveness.                                                               *)

Fairness ==
  /\ WF_vars(Sender /\ spc # "idle")
  /\ \A s \in Sends : WF_vars(DeadlinePasses(s))
  /\ WF_vars(TakeConfirmation)
  /\ WF_vars(Sweep(House))
  /\ \A w \in Workers : WF_vars(Work(w))
  /\ WF_vars(Ready) /\ WF_vars(CrossOrphan)

FairSpec == Spec /\ Fairness

\* txMu is always given back: no send waits for ever on a piece.
SenderReturns == spc # "idle" ~> spc = "idle"

\* A send that wears a marker on Discord never stays pending in the history: it
\* is answered, after a restart too.
RowsAnswered ==
  \A s \in Sends : (row[s] = "pending" /\ echo[s] # NoMsg) ~> row[s] # "pending"

\* While the process lives, every hourglass comes off.
HourglassAnswered ==
  \A m \in Messages : "wait" \in marks[m] ~> ("wait" \notin marks[m] \/ restarts > 0)

=============================================================================

--------------------------- MODULE DeliveryProofs ---------------------------
(***************************************************************************)
(* Theorems about Delivery, for every number of pieces, attempts and       *)
(* restarts and every set of faults: type correctness, the pieces of a     *)
(* split go on the air in order, a send has one owner, no transmission is  *)
(* counted twice, and a tick is earned.  Each theorem ends its part; the   *)
(* later invariants contain the earlier ones.                              *)
(***************************************************************************)
EXTENDS Delivery, FiniteSetTheorems, TLAPS

\* The send the sender is at is a send whenever it has started an attempt.
LEMMA CurrentIsSend ==
  ASSUME TypeOK, attempt # 0
  PROVE  Current \in Sends
BY PiecesAssumption, AttemptsAssumption DEF TypeOK, Current, Sends, Attempts, Pieces

\* Neither the original nor the absent message is a send.
LEMMA NotSends == Parent \notin Sends /\ NoMsg \notin Sends /\ Parent # NoMsg
BY DEF Parent, NoMsg, Sends, Attempts, Pieces

\* The operations on a tally yield tallies and verdicts.
LEMMA GroupTypes ==
  ASSUME NEW g \in Groups, NEW total \in Nat, NEW outcome \in Outcomes
  PROVE  /\ Count(g, outcome) \in Groups
         /\ Settle(g, outcome, total) \in Groups
         /\ SettleVerdict(g, outcome, total) \in Verdicts
         /\ Correct(g) \in Groups
         /\ Abandon(g) \in Groups
         /\ Verdict(g, total) \in Verdicts
<1>1. Count(g, outcome) \in Groups
  BY DEF Count, Groups, Outcomes
<1>2. Settle(g, outcome, total) \in Groups
  BY <1>1 DEF Settle, Groups, Verdict
<1>3. SettleVerdict(g, outcome, total) \in Verdicts
  BY DEF SettleVerdict, Verdict, Verdicts
<1>4. Correct(g) \in Groups
  <2>1. g.failed \in Nat /\ g.delivered + 1 \in Nat
    BY DEF Groups
  <2>2. g.failed > 0 => g.failed - 1 \in Nat
    BY <2>1
  <2> QED BY <2>1, <2>2 DEF Correct, Groups
<1>5. Abandon(g) \in Groups /\ Verdict(g, total) \in Verdicts
  BY DEF Abandon, Groups, Verdict, Verdicts
<1> QED BY <1>1, <1>2, <1>3, <1>4, <1>5

\* Changing the markers of a message leaves a marking.
LEMMA MarkTypes ==
  ASSUME NEW ms \in [Messages -> SUBSET Markers], NEW m \in Messages \cup {NoMsg},
         NEW v \in Verdicts
  PROVE  /\ SetVerdict(ms, m, v) \in [Messages -> SUBSET Markers]
         /\ v # "none" => ReactVerdict(ms, m, v) \in [Messages -> SUBSET Markers]
BY DEF SetVerdict, ReactVerdict, Markers, Verdicts

-----------------------------------------------------------------------------
(* Type correctness.  TypeOK is not inductive alone: an action that uses    *)
(* the current send, or the send of a job, needs that there is one.         *)

Started  == spc # "idle" => attempt # 0
JobsReal == \A w \in Workers : job[w].kind # "idle" => job[w].send \in Sends

TypeInv == TypeOK /\ Started /\ JobsReal

\* A verdict given by a tally of some attempt is a verdict, and the tally it leaves
\* is a tally.
LEMMA SettleChunkTypes ==
  ASSUME TypeOK, NEW a \in Attempts, NEW outcome \in Outcomes
  PROVE  /\ Settle(group[a], outcome, NPieces) \in Groups
         /\ SettleVerdict(group[a], outcome, NPieces) \in Verdicts
         /\ Correct(group[a]) \in Groups
         /\ Abandon(group[a]) \in Groups
         /\ Verdict(Correct(group[a]), NPieces) \in Verdicts
<1>1. group[a] \in Groups /\ NPieces \in Nat
  BY PiecesAssumption DEF TypeOK
<1> QED BY <1>1, GroupTypes

\* Moving a job on with a verdict leaves a job, or none.
LEMMA AdvanceTypes ==
  ASSUME TypeInv, NEW w \in Workers, NEW v \in Verdicts, Advance(w, v)
  PROVE  job' \in [Workers -> Jobs] /\ JobsReal'
<1>1. job[w] \in Jobs /\ NoJob \in Jobs
  BY DEF TypeInv, TypeOK, Jobs, NoJob, Kinds, Steps, Verdicts
<1>2. After(job[w].kind, job[w].step) \in Steps
  BY DEF After, Steps
<1>3. [job[w] EXCEPT !.step = After(job[w].kind, job[w].step), !.verdict = v] \in Jobs
  BY <1>1, <1>2 DEF Jobs
<1>4. job' \in [Workers -> Jobs]
  BY <1>1, <1>3 DEF Advance, TypeInv, TypeOK
<1>5. JobsReal'
  BY <1>1 DEF Advance, TypeInv, TypeOK, JobsReal, NoJob, Jobs
<1> QED BY <1>4, <1>5

\* The loop over the pieces stays within them.
LEMMA NextPieceTypes ==
  ASSUME TypeOK, NextPiece
  PROVE  piece' \in Pieces /\ spc' \in SenderPCs
BY PiecesAssumption DEF TypeOK, NextPiece, Pieces, SenderPCs

\* Inserting a row keeps the history well typed.
LEMMA InsertTypes ==
  ASSUME TypeOK, NEW state \in RowStates, Current \in Sends, InsertRow(state)
  PROVE  row' \in [Sends -> RowStates] /\ latest' \in [Pieces -> Sends \cup {NoMsg}]
BY DEF TypeOK, InsertRow

\* The initial state is well typed.
LEMMA TypeInit == Init => TypeInv
<1>1. ASSUME Init PROVE TypeOK
  <2>1. NewGroup \in Groups /\ NoJob \in Jobs
    BY DEF NewGroup, Groups, NoJob, Jobs, Kinds, Steps, Verdicts
  <2>2. 0 \in 0 .. MaxAttempts /\ 1 \in Pieces
    BY PiecesAssumption, AttemptsAssumption DEF Pieces
  <2> QED BY <1>1, <2>1, <2>2 DEF Init, TypeOK, SenderPCs, RowStates
<1>2. Init => Started /\ JobsReal
  BY DEF Init, Started, JobsReal, NoJob
<1> QED BY <1>1, <1>2 DEF TypeInv

\* What the sender does keeps the types.
LEMMA TypeSender ==
  ASSUME TypeInv, Sender
  PROVE  TypeInv'
<1> USE DEF TypeInv, Started
<1>1. CASE StartAttempt
  <2>1. attempt + 1 \in 0 .. MaxAttempts /\ attempt + 1 # 0 /\ 1 \in Pieces
    BY <1>1, PiecesAssumption, AttemptsAssumption DEF StartAttempt, TypeOK, Pieces
  <2>2. reuse' \in [Pieces -> Sends \cup {NoMsg}] /\ skip' \subseteq Pieces
    BY <1>1 DEF StartAttempt, TypeOK
  <2>3. marks' \in [Messages -> SUBSET Markers]
    BY <1>1 DEF StartAttempt, TypeOK, Markers
  <2> QED BY <1>1, <2>1, <2>2, <2>3
    DEF StartAttempt, TypeOK, SenderPCs, JobsReal, radioVars, mapVars, rowVars, workVars
<1>2. CASE SkipDelivered
  <2>1. attempt \in Attempts
    BY <1>2, AttemptsAssumption DEF SkipDelivered, TypeOK, Attempts
  <2>2. Settle(group[attempt], "delivered", NPieces) \in Groups
        /\ SettleVerdict(group[attempt], "delivered", NPieces) \in Verdicts
    BY <2>1, SettleChunkTypes DEF Outcomes
  <2>3. SetVerdict(marks, Parent, SettleVerdict(group[attempt], "delivered", NPieces))
          \in [Messages -> SUBSET Markers]
    BY <2>2, MarkTypes DEF TypeOK, Messages
  <2>4. group' \in [Attempts -> Groups] /\ marks' \in [Messages -> SUBSET Markers]
    BY <1>2, <2>2, <2>3 DEF SkipDelivered, SettleChunk, TypeOK
  <2> QED BY <1>2, <2>4, NextPieceTypes
    DEF SkipDelivered, TypeOK, JobsReal, radioVars, mapVars, rowVars, workVars
<1>3. CASE EchoPiece
  <2>1. echo' \in [Sends -> Messages \cup {NoMsg}]
    BY <1>3, CurrentIsSend DEF EchoPiece, TypeOK, Messages
  <2>2. marks' \in [Messages -> SUBSET Markers]
    BY <1>3 DEF EchoPiece, TypeOK, Markers
  <2> QED BY <1>3, <2>1, <2>2
    DEF EchoPiece, TypeOK, SenderPCs, JobsReal, radioVars, mapVars, rowVars, workVars
<1>4. CASE TransmitRejected
  <2>1. Current \in Sends /\ echo[Current] \in Messages \cup {NoMsg}
    BY <1>4, CurrentIsSend DEF TransmitRejected, TypeOK
  <2>2. row' \in [Sends -> RowStates] /\ latest' \in [Pieces -> Sends \cup {NoMsg}]
    BY <1>4, <2>1, InsertTypes DEF TransmitRejected, RowStates
  <2>3. marks' \in [Messages -> SUBSET Markers]
    BY <1>4, <2>1, MarkTypes DEF TransmitRejected, TypeOK, Verdicts
  <2> QED BY <1>4, <2>2, <2>3
    DEF TransmitRejected, TypeOK, SenderPCs, JobsReal, radioVars, mapVars, workVars
<1>5. CASE TransmitUnackable
  <2>1. Current \in Sends /\ echo[Current] \in Messages \cup {NoMsg} /\ attempt \in Attempts
    BY <1>5, CurrentIsSend, AttemptsAssumption DEF TransmitUnackable, TypeOK, Attempts
  <2>2. row' \in [Sends -> RowStates] /\ latest' \in [Pieces -> Sends \cup {NoMsg}]
    BY <1>5, <2>1, InsertTypes DEF TransmitUnackable, RowStates
  <2>3. ReactVerdict(marks, echo[Current], "sent") \in [Messages -> SUBSET Markers]
    BY <2>1, MarkTypes DEF TypeOK, Verdicts
  <2>4. Settle(group[attempt], "unknown", NPieces) \in Groups
        /\ SettleVerdict(group[attempt], "unknown", NPieces) \in Verdicts
    BY <2>1, SettleChunkTypes DEF Outcomes
  <2>5. marks' \in [Messages -> SUBSET Markers]
    <3>1. SetVerdict(ReactVerdict(marks, echo[Current], "sent"), Parent,
                     SettleVerdict(group[attempt], "unknown", NPieces))
            \in [Messages -> SUBSET Markers]
      BY <2>3, <2>4, MarkTypes DEF Messages
    <3> QED BY <1>5, <2>3, <3>1 DEF TransmitUnackable
  <2>6. group' \in [Attempts -> Groups]
    BY <1>5, <2>4 DEF TransmitUnackable, TypeOK
  <2> QED BY <1>5, <2>1, <2>2, <2>5, <2>6, NextPieceTypes
    DEF TransmitUnackable, TypeOK, JobsReal, mapVars, workVars
<1>6. CASE TransmitAccepted
  BY <1>6, CurrentIsSend
  DEF TransmitAccepted, TypeOK, SenderPCs, JobsReal, mapVars, rowVars, workVars
<1>7. CASE Register
  <2>1. Current \in Sends
    BY <1>7, CurrentIsSend DEF Register
  <2>2. row' \in [Sends -> RowStates] /\ latest' \in [Pieces -> Sends \cup {NoMsg}]
    BY <1>7, <2>1, InsertTypes DEF Register, RowStates
  <2> QED BY <1>7, <2>1, <2>2
    DEF Register, TypeOK, SenderPCs, JobsReal, radioVars, workVars
<1>8. CASE AwaitSettled
  <2>1. piece' \in Pieces /\ spc' \in SenderPCs
    BY <1>8, NextPieceTypes DEF AwaitSettled, TypeOK, SenderPCs
  <2> QED BY <1>8, <2>1
    DEF AwaitSettled, TypeOK, JobsReal, radioVars, mapVars, rowVars, workVars
<1>9. CASE AbandonGroup
  <2>1. attempt \in Attempts
    BY <1>9, AttemptsAssumption DEF AbandonGroup, TypeOK, Attempts
  <2>2. Abandon(group[attempt]) \in Groups
    BY <2>1, SettleChunkTypes DEF Outcomes
  <2> QED BY <1>9, <2>2
    DEF AbandonGroup, TypeOK, SenderPCs, JobsReal, radioVars, mapVars, rowVars, workVars
<1>10. CASE CrossRest
  <2>1. marks' \in [Messages -> SUBSET Markers]
    BY <1>10 DEF CrossRest, TypeOK, Markers
  <2> QED BY <1>10, <2>1
    DEF CrossRest, TypeOK, SenderPCs, JobsReal, radioVars, mapVars, rowVars, workVars
<1> QED
  BY <1>1, <1>2, <1>3, <1>4, <1>5, <1>6, <1>7, <1>8, <1>9, <1>10 DEF Sender
\* What the mesh, the clock and a crash do keeps the types.
LEMMA TypeWorld ==
  ASSUME TypeInv, (\E s \in Sends : Acknowledge(s) \/ DeadlinePasses(s)) \/ Crash
  PROVE  TypeInv'
<1>1. ASSUME NEW s \in Sends, Acknowledge(s)
      PROVE  TypeInv'
  BY <1>1 DEF Acknowledge, TypeInv, TypeOK, Started, JobsReal,
              senderVars, mapVars, rowVars, workVars
<1>2. ASSUME NEW s \in Sends, DeadlinePasses(s)
      PROVE  TypeInv'
  BY <1>2 DEF DeadlinePasses, TypeInv, TypeOK, Started, JobsReal,
              senderVars, radioVars, rowVars, workVars
<1>3. CASE Crash
  <2>1. NewGroup \in Groups /\ NoJob \in Jobs /\ NoJob.kind = "idle"
    BY DEF NewGroup, Groups, NoJob, Jobs, Kinds, Steps, Verdicts
  <2>2. 1 \in Pieces
    BY PiecesAssumption DEF Pieces
  <2> QED BY <1>3, <2>1, <2>2
    DEF Crash, TypeInv, TypeOK, Started, JobsReal, SenderPCs, rowVars
<1> QED BY <1>1, <1>2, <1>3

\* Taking up a send gives a worker a job that is well typed.
LEMMA StartJobTypes ==
  ASSUME TypeInv, NEW w \in Workers, NEW kind \in Kinds, NEW s \in Sends,
         StartJob(w, kind, s)
  PROVE  job' \in [Workers -> Jobs] /\ JobsReal'
<1>1. [kind |-> kind, send |-> s, step |-> "row", verdict |-> "none"] \in Jobs
  BY DEF Jobs, Steps, Verdicts
<1> QED BY <1>1 DEF StartJob, TypeInv, TypeOK, JobsReal

\* Taking a confirmation, a sweep, a READY and the last cross of setup keep the types.
LEMMA TypeTake ==
  ASSUME TypeInv, TakeConfirmation \/ Ready \/ CrossOrphan
                    \/ \E w \in Workers : Sweep(w) \/ NextExpired(w)
  PROVE  TypeInv'
<1> USE DEF TypeInv, Started
<1>1. CASE TakeConfirmation
  <2>1. PICK s \in confirms :
          \/ StartJob(MeshLoop, "confirm", s) /\ pending' = pending \ {s} /\ UNCHANGED failed
          \/ StartJob(MeshLoop, "late", s) /\ failed' = failed \ {s} /\ UNCHANGED pending
          \/ UNCHANGED <<pending, failed, job>>
    BY <1>1 DEF TakeConfirmation
  <2>2. s \in Sends /\ MeshLoop \in Workers /\ {"confirm", "late"} \subseteq Kinds
    BY DEF TypeOK, Workers, Kinds
  <2>3. job' \in [Workers -> Jobs] /\ JobsReal'
    BY <2>1, <2>2, StartJobTypes DEF TypeOK, JobsReal
  <2>4. pending' \subseteq Sends /\ failed' \subseteq Sends /\ confirms' \subseteq Sends
    BY <1>1, <2>1 DEF TakeConfirmation, TypeOK
  <2> QED BY <1>1, <2>3, <2>4 DEF TakeConfirmation, TypeOK, senderVars, rowVars
<1>2. CASE Ready
  BY <1>2 DEF Ready, TypeOK, JobsReal, senderVars, radioVars, mapVars, rowVars
<1>3. CASE CrossOrphan
  <2>1. marks' \in [Messages -> SUBSET Markers]
    BY <1>3, MarkTypes DEF CrossOrphan, TypeOK, Messages, Verdicts
  <2> QED BY <1>3, <2>1 DEF CrossOrphan, TypeOK, JobsReal, senderVars, radioVars, mapVars, rowVars
<1>4. ASSUME NEW w \in Workers, Sweep(w)
      PROVE  TypeInv'
  BY <1>4 DEF Sweep, TypeOK, JobsReal, senderVars, radioVars, rowVars
<1>5. ASSUME NEW w \in Workers, NextExpired(w)
      PROVE  TypeInv'
  <2>1. PICK s \in queue[w] :
          /\ queue' = [queue EXCEPT ![w] = @ \ {s}]
          /\ StartJob(w, IF w = Setup THEN "strand" ELSE "expire", s)
    BY <1>5 DEF NextExpired
  <2>2. s \in Sends /\ (IF w = Setup THEN "strand" ELSE "expire") \in Kinds
    BY DEF TypeOK, Kinds
  <2>3. job' \in [Workers -> Jobs] /\ JobsReal'
    BY <2>1, <2>2, StartJobTypes
  <2> QED BY <1>5, <2>1, <2>3
    DEF NextExpired, TypeOK, senderVars, radioVars, mapVars, rowVars
<1> QED BY <1>1, <1>2, <1>3, <1>4, <1>5

\* Each effect of an answer keeps the types.
LEMMA TypeEffects ==
  ASSUME TypeInv, NEW w \in Workers,
         \/ WriteRow(w) \/ MarkMessage(w) \/ ResolveSend(w)
         \/ SettleGroup(w) \/ CorrectGroup(w) \/ AnswerParent(w)
  PROVE  TypeInv'
<1> DEFINE s == job[w].send
<1> USE DEF TypeInv, Started
<1>1. s \in Sends /\ job[w].verdict \in Verdicts
  BY DEF WriteRow, MarkMessage, ResolveSend, SettleGroup, CorrectGroup, AnswerParent,
         At, JobsReal, TypeOK, Jobs
<1>2. Att(s) \in Attempts /\ echo[s] \in Messages \cup {NoMsg}
  BY <1>1 DEF Att, Sends, TypeOK
<1>3. {"none", "ok", "fail", "sent"} \subseteq Verdicts
  BY DEF Verdicts
<1>4. CASE WriteRow(w)
  <2>1. job' \in [Workers -> Jobs] /\ JobsReal'
    BY <1>4, <1>3, AdvanceTypes DEF WriteRow
  <2>2. row' \in [Sends -> RowStates]
    BY <1>4 DEF WriteRow, SetRow, TypeOK, RowStates
  <2> QED BY <1>4, <2>1, <2>2 DEF WriteRow, TypeOK, senderVars, radioVars, mapVars
<1>5. CASE MarkMessage(w)
  <2>1. job' \in [Workers -> Jobs] /\ JobsReal'
    BY <1>5, <1>3, AdvanceTypes DEF MarkMessage
  <2>2. marks' \in [Messages -> SUBSET Markers]
    <3>1. \A v \in {"ok", "fail"} :
            /\ SetVerdict(marks, echo[s], v) \in [Messages -> SUBSET Markers]
            /\ ReactVerdict(marks, echo[s], v) \in [Messages -> SUBSET Markers]
      BY <1>2, <1>3, MarkTypes DEF TypeOK
    <3> QED BY <1>5, <3>1 DEF MarkMessage
  <2> QED BY <1>5, <2>1, <2>2 DEF MarkMessage, TypeOK, senderVars, radioVars, mapVars, rowVars
<1>6. CASE ResolveSend(w)
  <2>1. job' \in [Workers -> Jobs] /\ JobsReal'
    BY <1>6, <1>3, AdvanceTypes DEF ResolveSend
  <2>2. settled' \in [Sends -> {"none", "true", "false"}]
    BY <1>6 DEF ResolveSend, TypeOK
  <2> QED BY <1>6, <2>1, <2>2 DEF ResolveSend, TypeOK, senderVars, radioVars, mapVars, rowVars
<1>7. CASE SettleGroup(w)
  <2> DEFINE outcome == IF job[w].kind = "confirm" THEN "delivered" ELSE "failed"
  <2>1. outcome \in Outcomes
    BY DEF Outcomes
  <2>2. Settle(group[Att(s)], outcome, NPieces) \in Groups
        /\ SettleVerdict(group[Att(s)], outcome, NPieces) \in Verdicts
    BY <1>2, <2>1, SettleChunkTypes
  <2>3. job' \in [Workers -> Jobs] /\ JobsReal'
    BY <1>7, <1>3, <2>2, AdvanceTypes DEF SettleGroup
  <2>4. group' \in [Attempts -> Groups]
    BY <1>7, <2>2 DEF SettleGroup, TypeOK
  <2> QED BY <1>7, <2>3, <2>4 DEF SettleGroup, TypeOK, senderVars, radioVars, mapVars, rowVars
<1>8. CASE CorrectGroup(w)
  <2>1. Correct(group[Att(s)]) \in Groups
        /\ Verdict(Correct(group[Att(s)]), NPieces) \in Verdicts
    BY <1>2, SettleChunkTypes DEF Outcomes
  <2>2. job' \in [Workers -> Jobs] /\ JobsReal'
    BY <1>8, <1>3, <2>1, AdvanceTypes DEF CorrectGroup
  <2>3. group' \in [Attempts -> Groups]
    BY <1>8, <2>1 DEF CorrectGroup, TypeOK
  <2> QED BY <1>8, <2>2, <2>3 DEF CorrectGroup, TypeOK, senderVars, radioVars, mapVars, rowVars
<1>9. CASE AnswerParent(w)
  <2>1. job' \in [Workers -> Jobs] /\ JobsReal'
    BY <1>9, <1>3, AdvanceTypes DEF AnswerParent
  <2>2. marks' \in [Messages -> SUBSET Markers]
    BY <1>1, <1>9, MarkTypes DEF AnswerParent, TypeOK, Messages
  <2> QED BY <1>9, <2>1, <2>2 DEF AnswerParent, TypeOK, senderVars, radioVars, mapVars, rowVars
<1> QED BY <1>4, <1>5, <1>6, <1>7, <1>8, <1>9

\* Every step keeps the types.
LEMMA TypeStep == TypeInv /\ [Next]_vars => TypeInv'
<1> SUFFICES ASSUME TypeInv, [Next]_vars PROVE TypeInv'
  OBVIOUS
<1>1. CASE Sender
  BY <1>1, TypeSender
<1>2. CASE \E s \in Sends : Acknowledge(s) \/ DeadlinePasses(s)
  BY <1>2, TypeWorld
<1>3. CASE TakeConfirmation \/ Ready \/ CrossOrphan
             \/ \E w \in Workers : Sweep(w) \/ NextExpired(w)
  BY <1>3, TypeTake
<1>4. CASE Crash
  BY <1>4, TypeWorld
<1>5. CASE \E w \in Workers : WriteRow(w) \/ MarkMessage(w) \/ ResolveSend(w)
             \/ SettleGroup(w) \/ CorrectGroup(w) \/ AnswerParent(w)
  BY <1>5, TypeEffects
<1>6. CASE UNCHANGED vars
  BY <1>6 DEF vars, senderVars, radioVars, mapVars, rowVars, workVars,
              TypeInv, TypeOK, Started, JobsReal
<1> QED BY <1>1, <1>2, <1>3, <1>4, <1>5, <1>6 DEF Next, Work

\* Type correctness: in every state the program can reach, each variable holds
\* what its Go counterpart can hold, and every job is about a real send.
THEOREM TypeCorrect == Spec => []TypeOK
<1>1. Spec => []TypeInv
  BY TypeInit, TypeStep, PTL DEF Spec
<1>2. TypeInv => TypeOK
  BY DEF TypeInv
<1> QED BY <1>1, <1>2, PTL

-----------------------------------------------------------------------------
(* The pieces of a split go out in order.  PiecesInOrder is about what is   *)
(* on the air; what carries it through a step is that the sender only moves *)
(* past a piece that reached the far end, and that every record it trusts   *)
(* for that (the settled channel, a row marked delivered, the pieces found  *)
(* delivered on an earlier attempt) goes back to an acknowledgement.        *)

AcksAreReal ==
  /\ confirms \subseteq acked
  /\ \A w \in Workers : job[w].kind \in {"confirm", "late"} => job[w].send \in acked
  /\ \A s \in Sends : row[s] = "delivered" => s \in acked
  /\ \A s \in Sends : settled[s] = "true" => s \in acked

LatestIsPast ==
  \A i \in Pieces : latest[i] # NoMsg => Piece(latest[i]) = i /\ Att(latest[i]) \leq attempt

SkipLanded == \A i \in skip : \E b \in 1 .. attempt - 1 : <<b, i>> \in acked

EarlierReached ==
  spc \in {"loop", "transmit", "register", "await"} =>
    \A i \in 1 .. piece - 1 : Reached(<<attempt, i>>)

OrderInv == TypeInv /\ AcksAreReal /\ LatestIsPast /\ SkipLanded /\ EarlierReached /\ PiecesInOrder
\* The far end never takes back an acknowledgement.
LEMMA RecordsGrow ==
  ASSUME [Next]_vars
  PROVE  acked \subseteq acked' /\ unackable \subseteq unackable'
BY DEF Next, Sender, Work, StartAttempt, SkipDelivered, EchoPiece, TransmitRejected,
       TransmitUnackable, TransmitAccepted, Register, AwaitSettled, AbandonGroup, CrossRest,
       Acknowledge, DeadlinePasses, TakeConfirmation, Ready, CrossOrphan, Crash, Sweep,
       NextExpired, WriteRow, MarkMessage, ResolveSend, SettleGroup, CorrectGroup,
       AnswerParent, vars, radioVars

\* So a piece that reached the far end stays so.
LEMMA ReachedStays ==
  ASSUME acked \subseteq acked', unackable \subseteq unackable', NEW s, Reached(s)
  PROVE  Reached(s)'
BY DEF Reached

LEMMA OrderInit == Init => OrderInv
<1> SUFFICES ASSUME Init PROVE OrderInv
  OBVIOUS
<1>1. TypeInv
  BY TypeInit
<1>2. AcksAreReal /\ LatestIsPast /\ SkipLanded /\ PiecesInOrder
  BY DEF Init, AcksAreReal, LatestIsPast, SkipLanded, PiecesInOrder, NoJob
<1>3. EarlierReached
  BY DEF Init, EarlierReached
<1> QED BY <1>1, <1>2, <1>3 DEF OrderInv

\* Every record of a delivery goes back to an acknowledgement.
LEMMA AcksStep ==
  ASSUME TypeInv, AcksAreReal, [Next]_vars
  PROVE  AcksAreReal'
<1> USE DEF AcksAreReal
<1>0. acked \subseteq acked'
  BY RecordsGrow
<1>1. CASE UNCHANGED <<confirms, job, row, settled>>
  BY <1>0, <1>1
<1>2. CASE TransmitRejected \/ TransmitUnackable \/ Register
  <2>1. PICK state \in {"failed", "transmitted", "pending"} : InsertRow(state)
    BY <1>2 DEF TransmitRejected, TransmitUnackable, Register
  <2>2. \A s \in Sends : row'[s] = "delivered" => row[s] = "delivered"
    BY <2>1 DEF InsertRow, TypeInv, TypeOK
  <2>3. UNCHANGED <<confirms, job, settled>>
    BY <1>2 DEF TransmitRejected, TransmitUnackable, Register, radioVars, workVars
  <2> QED BY <1>0, <2>2, <2>3
<1>3. ASSUME NEW s \in Sends, Acknowledge(s)
      PROVE  AcksAreReal'
  BY <1>3 DEF Acknowledge, workVars, rowVars
<1>4. CASE TakeConfirmation
  BY <1>4, <1>0 DEF TakeConfirmation, StartJob, rowVars, TypeInv, TypeOK
<1>5. ASSUME NEW w \in Workers, NextExpired(w)
      PROVE  AcksAreReal'
  BY <1>0, <1>5 DEF NextExpired, StartJob, radioVars, rowVars, TypeInv, TypeOK
<1>6. ASSUME NEW w \in Workers,
             \/ WriteRow(w) \/ MarkMessage(w) \/ ResolveSend(w)
             \/ SettleGroup(w) \/ CorrectGroup(w) \/ AnswerParent(w)
      PROVE  AcksAreReal'
  <2>1. \A x \in Workers : /\ job'[x].kind # "idle" => /\ job'[x].kind = job[x].kind
                                                     /\ job'[x].send = job[x].send
    <3>1. PICK v : Advance(w, v)
      BY <1>6 DEF WriteRow, MarkMessage, ResolveSend, SettleGroup, CorrectGroup, AnswerParent
    <3>2. job[w] \in Jobs /\ job \in [Workers -> Jobs]
      BY DEF TypeInv, TypeOK
    <3> QED BY <3>1, <3>2 DEF Advance, NoJob, Jobs
  <2>2. \A x \in Workers : job'[x].kind \in {"confirm", "late"} => job'[x].send \in acked'
    BY <1>0, <2>1
  <2>3. UNCHANGED confirms
    BY <1>6 DEF WriteRow, MarkMessage, ResolveSend, SettleGroup, CorrectGroup, AnswerParent,
                radioVars
  <2>4. \A s \in Sends : row'[s] = "delivered" => s \in acked'
    BY <1>0, <1>6 DEF WriteRow, MarkMessage, ResolveSend, SettleGroup, CorrectGroup,
                      AnswerParent, SetRow, rowVars, At, TypeInv, TypeOK, Jobs, Kinds
  <2>5. \A s \in Sends : settled'[s] = "true" => s \in acked'
    BY <1>0, <1>6 DEF WriteRow, MarkMessage, ResolveSend, SettleGroup, CorrectGroup,
                      AnswerParent, TypeInv, TypeOK
  <2> QED BY <1>0, <2>2, <2>3, <2>4, <2>5
<1>7. CASE Crash
  BY <1>0, <1>7 DEF Crash, NoJob, rowVars
<1>8. CASE StartAttempt \/ SkipDelivered \/ EchoPiece \/ TransmitAccepted \/ AwaitSettled
             \/ AbandonGroup \/ CrossRest \/ Ready \/ CrossOrphan
             \/ (\E s \in Sends : DeadlinePasses(s)) \/ (\E w \in Workers : Sweep(w))
             \/ UNCHANGED vars
  BY <1>1, <1>8 DEF StartAttempt, SkipDelivered, EchoPiece, TransmitAccepted, AwaitSettled,
        AbandonGroup, CrossRest, Ready, CrossOrphan, DeadlinePasses, Sweep, vars,
        radioVars, rowVars, workVars
<1> QED BY <1>2, <1>3, <1>4, <1>5, <1>6, <1>7, <1>8 DEF Next, Sender, Work

\* What previousChunks reads lies in the past, so a piece it skips has landed.
LEMMA PastStep ==
  ASSUME TypeInv, AcksAreReal, LatestIsPast, SkipLanded, [Next]_vars
  PROVE  LatestIsPast' /\ SkipLanded'
<1> USE DEF LatestIsPast, SkipLanded
<1>0. acked \subseteq acked'
  BY RecordsGrow
<1>1. CASE StartAttempt
  <2>1. LatestIsPast'
    <3>1. \A i \in Pieces : latest[i] # NoMsg => Att(latest[i]) \in Nat
      BY DEF TypeInv, TypeOK, Sends, Attempts, Att
    <3>2. UNCHANGED latest /\ attempt' = attempt + 1 /\ attempt \in Nat
      BY <1>1 DEF StartAttempt, rowVars, TypeInv, TypeOK
    <3> QED BY <3>1, <3>2
  <2>2. ASSUME NEW i \in skip'
        PROVE  \E b \in 1 .. attempt' - 1 : <<b, i>> \in acked'
    <3>1. i \in Pieces /\ latest[i] # NoMsg /\ row[latest[i]] = "delivered"
      BY <1>1, <2>2 DEF StartAttempt, LinesUp
    <3>2. latest[i] \in Sends
      BY <3>1 DEF TypeInv, TypeOK
    <3>3. latest[i] = <<Att(latest[i]), i>> /\ Att(latest[i]) \in 1 .. attempt
      BY <3>1, <3>2 DEF Sends, Att, Piece, Attempts
    <3>4. latest[i] \in acked
      BY <3>1, <3>2 DEF AcksAreReal
    <3>5. attempt' - 1 = attempt /\ acked' = acked
      BY <1>1 DEF StartAttempt, radioVars, TypeInv, TypeOK
    <3> QED BY <3>3, <3>4, <3>5
  <2> QED BY <2>1, <2>2
<1>2. CASE TransmitRejected \/ TransmitUnackable \/ Register
  <2>1. UNCHANGED <<skip, attempt>>
    BY <1>2 DEF TransmitRejected, TransmitUnackable, Register
  <2>2. PICK state : InsertRow(state)
    BY <1>2 DEF TransmitRejected, TransmitUnackable, Register
  <2>3. Piece(Current) = piece /\ Att(Current) = attempt
    BY DEF Piece, Att, Current
  <2>4. LatestIsPast'
    BY <2>1, <2>2, <2>3 DEF InsertRow, TypeInv, TypeOK
  <2> QED BY <1>0, <2>1, <2>4
<1>3. CASE UNCHANGED <<latest, skip, attempt>>
  BY <1>0, <1>3
<1>4. CASE Crash
  BY <1>4 DEF Crash, rowVars
<1>5. CASE \/ SkipDelivered \/ EchoPiece \/ TransmitAccepted \/ AwaitSettled
           \/ AbandonGroup \/ CrossRest \/ TakeConfirmation \/ Ready \/ CrossOrphan
           \/ \E s \in Sends : Acknowledge(s) \/ DeadlinePasses(s)
           \/ \E w \in Workers : Sweep(w) \/ Work(w)
           \/ UNCHANGED vars
  BY <1>3, <1>5 DEF SkipDelivered, EchoPiece, TransmitAccepted, AwaitSettled,
        AbandonGroup, CrossRest, TakeConfirmation, Ready, CrossOrphan, Acknowledge,
        DeadlinePasses, Sweep, Work, NextExpired, WriteRow, MarkMessage, ResolveSend,
        SettleGroup, CorrectGroup, AnswerParent, vars, senderVars, rowVars
<1> QED BY <1>1, <1>2, <1>4, <1>5 DEF Next, Sender

\* The sender leaves a piece behind only when it has reached the far end.
LEMMA EarlierStep ==
  ASSUME OrderInv, [Next]_vars
  PROVE  EarlierReached'
<1> USE DEF OrderInv, EarlierReached
<1>0. acked \subseteq acked' /\ unackable \subseteq unackable'
  BY RecordsGrow
<1>1. CASE UNCHANGED <<attempt, piece>> /\ (spc' \in {"loop", "transmit", "register", "await"}
                                             => spc \in {"loop", "transmit", "register", "await"})
  BY <1>0, <1>1, ReachedStays
<1>2. CASE StartAttempt \/ Crash
  BY <1>2 DEF StartAttempt, Crash
<1>3. CASE SkipDelivered \/ TransmitUnackable \/ AwaitSettled
  <2>1. UNCHANGED attempt /\ spc \in {"loop", "transmit", "await"}
    BY <1>3 DEF SkipDelivered, TransmitUnackable, AwaitSettled
  <2>2. \A i \in 1 .. piece - 1 : Reached(<<attempt, i>>)'
    BY <1>0, <2>1, ReachedStays
  <2>3. CASE NextPiece
    <3>1. ASSUME NEW i, i = piece
          PROVE  Reached(<<attempt, i>>)'
      <4>1. CASE SkipDelivered
        <5>1. \E b \in 1 .. attempt - 1 : <<b, i>> \in acked'
          BY <1>0, <3>1, <4>1 DEF SkipDelivered, SkipLanded
        <5> QED BY <2>1, <5>1 DEF Reached, Att, Piece
      <4>2. CASE TransmitUnackable
        BY <2>1, <3>1, <4>2 DEF TransmitUnackable, Reached, Current
      <4>3. CASE AwaitSettled
        <5>1. <<attempt, i>> \in Sends
          BY <3>1, <4>3, CurrentIsSend DEF AwaitSettled, TypeInv, Started, Current
        <5>2. settled[<<attempt, i>>] = "true"
          BY <2>3, <3>1, <4>3 DEF AwaitSettled, NextPiece, Current
        <5>3. <<attempt, i>> \in acked'
          BY <1>0, <5>1, <5>2 DEF AcksAreReal
        <5> QED BY <2>1, <5>3 DEF Reached
      <4> QED BY <1>3, <4>1, <4>2, <4>3
    <3>2. piece' \in {piece, piece + 1} /\ piece \in Nat
      BY <2>3 DEF NextPiece, TypeInv, TypeOK, Pieces
    <3>3. ASSUME NEW p \in Nat, NEW q \in {p, p + 1}, NEW i \in 1 .. q - 1
          PROVE  i \in 1 .. p - 1 \/ i = p
      BY <3>3
    <3>4. ASSUME NEW i \in 1 .. piece' - 1
          PROVE  Reached(<<attempt, i>>)'
      <4>1. CASE i \in 1 .. piece - 1
        BY <2>2, <4>1
      <4>2. CASE i = piece
        BY <3>1, <4>2
      <4> QED BY <3>2, <3>3, <4>1, <4>2
    <3> QED BY <3>4
  <2>4. CASE ~NextPiece
    BY <1>3, <2>4 DEF SkipDelivered, TransmitUnackable, AwaitSettled
  <2> QED BY <2>3, <2>4
<1>4. CASE \/ EchoPiece \/ TransmitRejected \/ TransmitAccepted \/ Register
           \/ AbandonGroup \/ CrossRest \/ TakeConfirmation \/ Ready \/ CrossOrphan
           \/ \E s \in Sends : Acknowledge(s) \/ DeadlinePasses(s)
           \/ \E w \in Workers : Sweep(w) \/ Work(w)
           \/ UNCHANGED vars
  BY <1>1, <1>4 DEF EchoPiece, TransmitRejected, TransmitAccepted, Register,
        AbandonGroup, CrossRest, TakeConfirmation, Ready, CrossOrphan, Acknowledge,
        DeadlinePasses, Sweep, Work, NextExpired, WriteRow, MarkMessage, ResolveSend,
        SettleGroup, CorrectGroup, AnswerParent, vars, senderVars
<1> QED BY <1>2, <1>3, <1>4 DEF Next, Sender

\* Only the sender puts a piece on the air, and only after the earlier ones.
LEMMA InOrderStep ==
  ASSUME OrderInv, [Next]_vars
  PROVE  PiecesInOrder'
<1> USE DEF OrderInv, PiecesInOrder
<1>0. acked \subseteq acked' /\ unackable \subseteq unackable'
  BY RecordsGrow
<1>1. ASSUME NEW s \in onAir \cup unackable, NEW i \in 1 .. Piece(s) - 1
      PROVE  Reached(<<Att(s), i>>)'
  BY <1>0, <1>1, ReachedStays
<1>2. CASE UNCHANGED <<onAir, unackable>>
  BY <1>1, <1>2
<1>3. CASE TransmitUnackable \/ TransmitAccepted
  <2>1. onAir' \cup unackable' \subseteq onAir \cup unackable \cup {Current}
    BY <1>3 DEF TransmitUnackable, TransmitAccepted
  <2>2. Piece(Current) = piece /\ Att(Current) = attempt /\ UNCHANGED attempt
    BY <1>3 DEF TransmitUnackable, TransmitAccepted, Piece, Att, Current
  <2>3. \A i \in 1 .. piece - 1 : Reached(<<attempt, i>>)'
    BY <1>0, <1>3, ReachedStays DEF TransmitUnackable, TransmitAccepted, EarlierReached
  <2> QED BY <1>1, <2>1, <2>2, <2>3
<1>4. CASE \/ StartAttempt \/ SkipDelivered \/ EchoPiece \/ TransmitRejected \/ Register
           \/ AwaitSettled \/ AbandonGroup \/ CrossRest \/ TakeConfirmation \/ Ready
           \/ CrossOrphan \/ Crash
           \/ \E s \in Sends : Acknowledge(s) \/ DeadlinePasses(s)
           \/ \E w \in Workers : Sweep(w) \/ Work(w)
           \/ UNCHANGED vars
  BY <1>2, <1>4 DEF StartAttempt, SkipDelivered, EchoPiece, TransmitRejected, Register,
        AwaitSettled, AbandonGroup, CrossRest, TakeConfirmation, Ready, CrossOrphan, Crash,
        Acknowledge, DeadlinePasses, Sweep, Work, NextExpired, WriteRow, MarkMessage,
        ResolveSend, SettleGroup, CorrectGroup, AnswerParent, vars, radioVars
<1> QED BY <1>3, <1>4 DEF Next, Sender

\* A recipient never gets a split message with a hole in it: whatever refusals,
\* losses, expiries, resends and crashes happen, a piece goes on the air only if
\* every earlier piece of the message has reached the far end (or cannot be known).
THEOREM InOrder == Spec => []PiecesInOrder
<1>1. OrderInv /\ [Next]_vars => OrderInv'
  BY TypeStep, AcksStep, PastStep, EarlierStep, InOrderStep DEF OrderInv
<1>2. Spec => []OrderInv
  BY OrderInit, <1>1, PTL DEF Spec
<1>3. OrderInv => PiecesInOrder
  BY DEF OrderInv
<1> QED BY <1>2, <1>3, PTL

-----------------------------------------------------------------------------
(***************************************************************************)
(* Who has a send.  Pending, failed, the two sweepers' lists and the jobs  *)
(* hand it on under pendMu; what keeps a fresh send apart from them is     *)
(* that whatever they hold lies behind the sender.                         *)
(***************************************************************************)

Sweepers == {MeshLoop, House}

\* The sender has left this send behind, or is at it and past these places.
Past(s, before) ==
  \/ Att(s) < attempt
  \/ /\ Att(s) = attempt
     /\ \/ spc = "idle"
        \/ Piece(s) < piece
        \/ Piece(s) = piece /\ spc \notin before

Unsent == {"loop", "transmit"}
Unregistered == {"loop", "transmit", "register"}

Tracked == pending \cup failed \cup Held(MeshLoop) \cup Held(House)
TrackedPast == \A s \in Tracked : Past(s, Unregistered)

AirPast == \A s \in onAir \cup unackable \cup acked : Past(s, Unsent)

\* What each worker does, and where its answers go.
Roles ==
  \A w \in Workers :
    /\ job[w].kind = "idle" => job[w].send = NoMsg
    /\ job[w].kind \in {"confirm", "late"} => w = MeshLoop
    /\ job[w].kind # "idle" => (job[w].kind = "strand" <=> w = Setup)
    /\ job[w].kind \in {"late", "strand"} => job[w].step \notin {"resolve", "settle"}
    /\ job[w].kind \in {"confirm", "expire", "strand"} => job[w].step # "correct"

OwnerInv == TypeInv /\ Roles /\ TrackedPast /\ AirPast /\ OneOwner

LEMMA NamesApart == MeshLoop # House /\ MeshLoop # Setup /\ House # Setup
BY DEF MeshLoop, House, Setup

LEMMA HeldIs ==
  ASSUME NEW w, NEW s
  PROVE  s \in Held(w) <=> s \in queue[w] \/ (job[w].kind # "idle" /\ s = job[w].send)
BY DEF Held

LEMMA HeldIsNext ==
  ASSUME NEW w, NEW s
  PROVE  s \in Held(w)' <=> s \in queue'[w] \/ (job'[w].kind # "idle" /\ s = job'[w].send)
BY DEF Held

\* Where the sender goes in one step.
LEMMA SenderMoves ==
  ASSUME Sender, ~StartAttempt
  PROVE  /\ attempt' = attempt /\ skip' = skip /\ spc # "idle"
         /\ \/ piece' = piece + 1 /\ spc' = "loop" /\ spc \in {"loop", "transmit", "await"}
            \/ piece' = piece /\ spc' = "idle"
            \/ /\ piece' = piece
               /\ \/ spc = "loop" /\ spc' = "transmit"
                  \/ spc = "transmit" /\ spc' \in {"register", "abandon"}
                  \/ spc = "register" /\ spc' = "await"
                  \/ spc = "await" /\ spc' = "abandon"
                  \/ spc = "abandon" /\ spc' = "cross"
BY DEF Sender, SkipDelivered, EchoPiece, TransmitRejected, TransmitUnackable,
       TransmitAccepted, Register, AwaitSettled, AbandonGroup, CrossRest, NextPiece

\* Nobody else moves it, but for a crash.
LEMMA OthersLeaveSender ==
  ASSUME [Next]_vars, ~Sender, ~Crash
  PROVE  UNCHANGED senderVars
BY DEF Next, Work, Acknowledge, DeadlinePasses, TakeConfirmation, Ready, CrossOrphan, Sweep,
       NextExpired, WriteRow, MarkMessage, ResolveSend, SettleGroup, CorrectGroup,
       AnswerParent, vars

\* What lies behind the sender stays there.
LEMMA PastStays ==
  ASSUME TypeInv, [Next]_vars, NEW s \in Sends, NEW before \in {Unsent, Unregistered},
         Past(s, before)
  PROVE  Past(s, before)'
<1>1. Att(s) \in Nat /\ Piece(s) \in Nat /\ attempt \in Nat /\ piece \in Nat
  BY DEF Sends, Attempts, Pieces, Att, Piece, TypeInv, TypeOK
<1>2. CASE StartAttempt
  <2>1. Att(s) <= attempt
    BY <1>1 DEF Past
  <2> QED
    BY <1>1, <1>2, <2>1 DEF Past, StartAttempt
<1>3. CASE Crash
  BY <1>1, <1>3 DEF Past, Crash
<1>4. CASE Sender /\ ~StartAttempt
  <2>1. spc # "idle" /\ attempt' = attempt
    BY <1>4, SenderMoves
  <2>2. CASE piece' = piece + 1
    BY <1>1, <2>1, <2>2 DEF Past
  <2>3. CASE piece' = piece /\ spc' = "idle"
    BY <1>1, <2>1, <2>3 DEF Past
  <2>4. CASE piece' = piece /\ (spc \notin before => spc' \notin before)
    BY <1>1, <2>1, <2>4 DEF Past
  <2> QED
    BY <1>4, <2>2, <2>3, <2>4, SenderMoves DEF Unsent, Unregistered
<1>5. CASE ~Sender /\ ~Crash
  <2>1. UNCHANGED <<attempt, piece, spc>>
    BY <1>5, OthersLeaveSender DEF senderVars
  <2> QED
    BY <2>1 DEF Past
<1> QED
  BY <1>2, <1>3, <1>4, <1>5

\* The send the sender is at is not behind it.
LEMMA CurrentAhead ==
  ASSUME TypeInv, NEW before, spc # "idle", spc \in before
  PROVE  ~Past(Current, before)
<1>1. Att(Current) = attempt /\ Piece(Current) = piece
  BY DEF Current, Att, Piece
<1>2. attempt \in Nat /\ piece \in Nat
  BY DEF TypeInv, TypeOK, Pieces
<1> QED
  BY <1>1, <1>2 DEF Past

\* What a job becomes.
LEMMA AdvanceGoes ==
  ASSUME TypeInv, NEW w \in Workers, NEW v \in Verdicts, Advance(w, v)
  PROVE  /\ \A x \in Workers \ {w} : job'[x] = job[x]
         /\ \/ /\ After(job[w].kind, job[w].step) = "end"
               /\ job'[w] = NoJob
            \/ /\ After(job[w].kind, job[w].step) # "end"
               /\ job'[w].kind = job[w].kind /\ job'[w].send = job[w].send
               /\ job'[w].step = After(job[w].kind, job[w].step)
               /\ job'[w].verdict = v
<1>1. job \in [Workers -> Jobs] /\ job[w] \in Jobs
  BY DEF TypeInv, TypeOK
<1> QED
  BY <1>1 DEF Advance, Jobs

\* An effect of an answer moves its worker's job on.
LEMMA EffectAdvances ==
  ASSUME TypeInv, NEW w \in Workers,
         \/ WriteRow(w) \/ MarkMessage(w) \/ ResolveSend(w)
         \/ SettleGroup(w) \/ CorrectGroup(w) \/ AnswerParent(w)
  PROVE  /\ job[w].kind # "idle"
         /\ \E v \in Verdicts : Advance(w, v)
         /\ UNCHANGED <<senderVars, radioVars, mapVars, queue, orphaned, restarts>>
<1>1. "none" \in Verdicts
  BY DEF Verdicts
<1>2. CASE WriteRow(w) \/ MarkMessage(w) \/ ResolveSend(w) \/ AnswerParent(w)
  BY <1>1, <1>2 DEF WriteRow, MarkMessage, ResolveSend, AnswerParent, At
<1>3. ASSUME SettleGroup(w) \/ CorrectGroup(w)
      PROVE  job[w].kind # "idle" /\ Att(job[w].send) \in Attempts
  BY <1>3 DEF SettleGroup, CorrectGroup, At, TypeInv, JobsReal, Sends, Att
<1>4. CASE SettleGroup(w)
  <2>1. \A outcome \in {"delivered", "failed"} :
          SettleVerdict(group[Att(job[w].send)], outcome, NPieces) \in Verdicts
    BY <1>3, <1>4, SettleChunkTypes DEF TypeInv, Outcomes
  <2> QED
    BY <1>1, <1>3, <1>4, <2>1 DEF SettleGroup
<1>5. CASE CorrectGroup(w)
  <2>1. Verdict(Correct(group[Att(job[w].send)]), NPieces) \in Verdicts
    BY <1>3, <1>5, SettleChunkTypes DEF TypeInv, Outcomes
  <2> QED
    BY <1>1, <1>3, <1>5, <2>1 DEF CorrectGroup
<1> QED
  BY <1>2, <1>4, <1>5

LEMMA OwnerInit == Init => OwnerInv
<1> SUFFICES ASSUME Init
             PROVE  OwnerInv
  OBVIOUS
<1>1. TypeInv
  BY TypeInit
<1>2. \A w \in Workers : queue[w] = {} /\ job[w] = NoJob
  BY DEF Init
<1>3. MeshLoop \in Workers /\ House \in Workers
  BY DEF Workers
<1>4. Held(MeshLoop) = {} /\ Held(House) = {}
  BY <1>2, <1>3 DEF Held, NoJob
<1>5. Roles
  BY <1>2 DEF Roles, NoJob
<1>6. TrackedPast /\ AirPast
  BY <1>4 DEF Init, TrackedPast, AirPast, Tracked
<1>7. OneOwner
  BY <1>2, <1>3, <1>4 DEF Init, OneOwner
<1> QED
  BY <1>1, <1>5, <1>6, <1>7 DEF OwnerInv

\* An answer goes the way its kind goes.
LEMMA RolesStep ==
  ASSUME TypeInv, Roles, [Next]_vars
  PROVE  Roles'
<1> USE DEF Roles
<1>1. CASE UNCHANGED job
  BY <1>1
<1>2. CASE Crash
  BY <1>2 DEF Crash, NoJob
<1>3. ASSUME NEW w \in Workers, NEW kind, NEW s, StartJob(w, kind, s),
             kind \in {"confirm", "late", "expire", "strand"},
             kind \in {"confirm", "late"} => w = MeshLoop,
             kind = "strand" <=> w = Setup
      PROVE  Roles'
  <2>1. /\ job'[w].kind = kind /\ job'[w].step = "row"
        /\ \A x \in Workers \ {w} : job'[x] = job[x]
    BY <1>3 DEF StartJob, TypeInv, TypeOK
  <2> QED
    BY <1>3, <2>1
<1>4. CASE TakeConfirmation
  <2>1. \/ \E s : StartJob(MeshLoop, "confirm", s) \/ StartJob(MeshLoop, "late", s)
        \/ UNCHANGED job
    BY <1>4 DEF TakeConfirmation
  <2>2. MeshLoop \in Workers
    BY DEF Workers
  <2> QED
    BY <1>1, <1>3, <2>1, <2>2, NamesApart
<1>5. ASSUME NEW w \in Workers, NextExpired(w)
      PROVE  Roles'
  <2>1. \E s : StartJob(w, IF w = Setup THEN "strand" ELSE "expire", s)
    BY <1>5 DEF NextExpired
  <2> QED
    BY <1>3, <2>1
<1>6. ASSUME NEW w \in Workers,
             \/ WriteRow(w) \/ MarkMessage(w) \/ ResolveSend(w)
             \/ SettleGroup(w) \/ CorrectGroup(w) \/ AnswerParent(w)
      PROVE  Roles'
  <2>1. PICK v \in Verdicts : Advance(w, v)
    BY <1>6, EffectAdvances
  <2>2. \A x \in Workers \ {w} : job'[x] = job[x]
    BY <2>1, AdvanceGoes
  <2>3. CASE job'[w] = NoJob
    BY <2>2, <2>3 DEF NoJob
  <2>4. CASE /\ job'[w].kind = job[w].kind /\ job'[w].send = job[w].send
             /\ job'[w].step = After(job[w].kind, job[w].step)
    <3>1. /\ job[w].kind \in {"late", "strand"} =>
               After(job[w].kind, job[w].step) \notin {"resolve", "settle"}
          /\ job[w].kind \in {"confirm", "expire", "strand"} =>
               After(job[w].kind, job[w].step) # "correct"
      BY DEF After
    <3> QED
      BY <2>2, <2>4, <3>1
  <2> QED
    BY <2>1, <2>3, <2>4, AdvanceGoes
<1>7. CASE \/ Sender \/ Ready \/ CrossOrphan
           \/ \E s \in Sends : Acknowledge(s) \/ DeadlinePasses(s)
           \/ \E w \in Workers : Sweep(w)
           \/ UNCHANGED vars
  BY <1>1, <1>7 DEF Sender, StartAttempt, SkipDelivered, EchoPiece, TransmitRejected,
     TransmitUnackable, TransmitAccepted, Register, AwaitSettled, AbandonGroup, CrossRest,
     Ready, CrossOrphan, Acknowledge, DeadlinePasses, Sweep, vars, workVars
<1> QED
  BY <1>2, <1>4, <1>5, <1>6, <1>7 DEF Next, Work

\* What one step does to the holders of sends.
LEMMA Handover ==
  ASSUME TypeInv, [Next]_vars
  PROVE  \/ UNCHANGED <<pending, failed, queue, job>>
         \/ Crash
         \/ Register
         \/ TakeConfirmation
         \/ Ready
         \/ \E w \in Sweepers : Sweep(w)
         \/ \E w \in Workers : NextExpired(w)
         \/ \E w \in Workers :
              /\ job[w].kind # "idle"
              /\ \E v \in Verdicts : Advance(w, v)
              /\ UNCHANGED <<pending, failed, queue>>
<1>1. CASE \E w \in Workers : WriteRow(w) \/ MarkMessage(w) \/ ResolveSend(w)
             \/ SettleGroup(w) \/ CorrectGroup(w) \/ AnswerParent(w)
  BY <1>1, EffectAdvances DEF mapVars
<1>2. CASE \E w \in Workers : Sweep(w)
  <2>1. PICK w \in Workers : Sweep(w)
    BY <1>2
  <2>2. w \in Sweepers
    BY <2>1 DEF Sweep, Sweepers, Workers
  <2> QED
    BY <2>1, <2>2
<1>3. CASE (Sender /\ ~Register) \/ CrossOrphan
           \/ (\E s \in Sends : Acknowledge(s) \/ DeadlinePasses(s))
           \/ UNCHANGED vars
  BY <1>3 DEF Sender, StartAttempt, SkipDelivered, EchoPiece, TransmitRejected,
     TransmitUnackable, TransmitAccepted, AwaitSettled, AbandonGroup, CrossRest,
     CrossOrphan, Acknowledge, DeadlinePasses, vars, mapVars, workVars
<1> QED
  BY <1>1, <1>2, <1>3 DEF Next, Work

\* Only Register brings a new send in.
LEMMA TrackedStep ==
  ASSUME TypeInv, [Next]_vars, NEW s \in Tracked'
  PROVE  s \in Tracked \/ (Register /\ s = Current)
<1> DEFINE Has(w) == s \in queue[w] \/ (job[w].kind # "idle" /\ s = job[w].send)
           HasNext(w) == s \in queue'[w] \/ (job'[w].kind # "idle" /\ s = job'[w].send)
<1>1. s \in Tracked <=> s \in pending \/ s \in failed \/ Has(MeshLoop) \/ Has(House)
  BY HeldIs DEF Tracked
<1>2. s \in pending' \/ s \in failed' \/ HasNext(MeshLoop) \/ HasNext(House)
  BY HeldIsNext DEF Tracked
<1>3. /\ MeshLoop \in Workers /\ House \in Workers /\ Setup \in Workers
      /\ queue \in [Workers -> SUBSET Sends] /\ job \in [Workers -> Jobs]
  BY DEF Workers, TypeInv, TypeOK
<1> HIDE DEF Has, HasNext
<1>4. CASE UNCHANGED <<pending, failed, queue, job>>
  BY <1>1, <1>2, <1>4 DEF Has, HasNext
<1>5. CASE Crash
  BY <1>2, <1>3, <1>5 DEF Crash, HasNext, NoJob
<1>6. CASE Register
  BY <1>1, <1>2, <1>6 DEF Register, workVars, Has, HasNext
<1>7. CASE TakeConfirmation
  BY <1>1, <1>2, <1>3, <1>7 DEF TakeConfirmation, StartJob, Has, HasNext
<1>8. CASE Ready
  BY <1>1, <1>2, <1>3, <1>8, NamesApart DEF Ready, mapVars, Has, HasNext
<1>9. ASSUME NEW w \in Sweepers, Sweep(w)
      PROVE  s \in Tracked
  BY <1>1, <1>2, <1>3, <1>9 DEF Sweep, Sweepers, Has, HasNext
<1>10. ASSUME NEW w \in Workers, NextExpired(w)
       PROVE  s \in Tracked
  <2>1. PICK t \in queue[w] :
          /\ queue' = [queue EXCEPT ![w] = @ \ {t}]
          /\ job' = [job EXCEPT ![w] = [kind |-> IF w = Setup THEN "strand" ELSE "expire",
                                        send |-> t, step |-> "row", verdict |-> "none"]]
          /\ UNCHANGED <<pending, failed>>
    BY <1>10 DEF NextExpired, StartJob, mapVars
  <2>2. \A x \in Workers : HasNext(x) => Has(x)
    BY <1>3, <2>1 DEF Has, HasNext
  <2> QED
    BY <1>1, <1>2, <1>3, <2>1, <2>2
<1>11. ASSUME NEW w \in Workers, job[w].kind # "idle",
              \E v \in Verdicts : Advance(w, v), UNCHANGED <<pending, failed, queue>>
       PROVE  s \in Tracked
  <2>1. \A x \in Workers : HasNext(x) => Has(x)
    BY <1>11, AdvanceGoes DEF Has, HasNext, NoJob
  <2> QED
    BY <1>1, <1>2, <1>3, <1>11, <2>1
<1> QED
  BY <1>4, <1>5, <1>6, <1>7, <1>8, <1>9, <1>10, <1>11, Handover

LEMMA TrackedPastStep ==
  ASSUME OwnerInv, [Next]_vars
  PROVE  TrackedPast'
<1> USE DEF OwnerInv
<1> SUFFICES ASSUME NEW s \in Tracked'
             PROVE  Past(s, Unregistered)'
  BY DEF TrackedPast
<1>1. CASE s \in Tracked
  <2>1. s \in Sends
    <3>1. MeshLoop \in Workers /\ House \in Workers
      BY DEF Workers
    <3> QED
      BY <1>1, <3>1, HeldIs DEF Tracked, TypeInv, TypeOK, JobsReal
  <2> QED
    BY <1>1, <2>1, PastStays DEF TrackedPast
<1>2. CASE Register /\ s = Current
  <2>1. /\ attempt' = attempt /\ piece' = piece /\ spc' \in {"await", "idle"}
    BY <1>2 DEF Register
  <2> QED
    BY <1>2, <2>1 DEF Past, Att, Piece, Current, Unregistered
<1> QED
  BY <1>1, <1>2, TrackedStep

LEMMA AirStep ==
  ASSUME OwnerInv, [Next]_vars
  PROVE  AirPast'
<1> USE DEF OwnerInv
<1> SUFFICES ASSUME NEW s \in onAir' \cup unackable' \cup acked'
             PROVE  Past(s, Unsent)'
  BY DEF AirPast
<1>1. CASE s \in onAir \cup unackable \cup acked
  <2>1. s \in Sends
    BY <1>1 DEF TypeInv, TypeOK
  <2> QED
    BY <1>1, <2>1, PastStays DEF AirPast
<1>2. CASE (TransmitAccepted \/ TransmitUnackable) /\ s = Current
  <2>1. /\ Att(s) = attempt /\ Piece(s) = piece /\ attempt' = attempt /\ piece \in Nat
    BY <1>2 DEF Att, Piece, Current, TransmitAccepted, TransmitUnackable, TypeInv, TypeOK, Pieces
  <2>2. \/ piece' = piece /\ spc' \in {"register", "idle"}
        \/ piece' = piece + 1
    BY <1>2 DEF TransmitAccepted, TransmitUnackable, NextPiece
  <2> QED
    BY <2>1, <2>2 DEF Past, Unsent
<1>3. \/ s \in onAir \cup unackable \cup acked
      \/ (TransmitAccepted \/ TransmitUnackable) /\ s = Current
  BY DEF Next, Sender, Work, StartAttempt, SkipDelivered, EchoPiece, TransmitRejected,
       TransmitUnackable, TransmitAccepted, Register, AwaitSettled, AbandonGroup, CrossRest,
       Acknowledge, DeadlinePasses, TakeConfirmation, Ready, CrossOrphan, Crash, Sweep,
       NextExpired, WriteRow, MarkMessage, ResolveSend, SettleGroup, CorrectGroup,
       AnswerParent, vars, radioVars
<1> QED
  BY <1>1, <1>2, <1>3

\* OneOwner over members, for the two states of a step.
OwnedOnce ==
  /\ \A s \in pending : s \notin failed
  /\ \A w \in Sweepers :
       /\ job[w].send \notin queue[w]
       /\ \A s \in Held(w) : s \notin pending
  /\ \A s \in Held(MeshLoop) \cap Held(House) :
       job[MeshLoop].kind = "late" /\ s = job[MeshLoop].send

LEMMA OwnedOnceIs == OneOwner <=> OwnedOnce
<1>1. OneOwner => OwnedOnce
  BY DEF OneOwner, OwnedOnce, Sweepers
<1>2. ASSUME OwnedOnce
      PROVE  OneOwner
  <2>1. pending \cap failed = {}
    BY <1>2 DEF OwnedOnce
  <2>2. \A w \in {MeshLoop, House} : job[w].send \notin queue[w] /\ Held(w) \cap pending = {}
    BY <1>2 DEF OwnedOnce, Sweepers
  <2>3. ASSUME Held(MeshLoop) \cap Held(House) # {}
        PROVE  /\ job[MeshLoop].kind = "late"
               /\ Held(MeshLoop) \cap Held(House) = {job[MeshLoop].send}
    BY <1>2, <2>3 DEF OwnedOnce
  <2> QED
    BY <2>1, <2>2, <2>3 DEF OneOwner
<1> QED
  BY <1>1, <1>2

LEMMA OwnedOnceNext == OwnedOnce' => OneOwner'
BY OwnedOnceIs, PTL

\* When the holders only let go of sends, and answer what they answered, a send
\* that had one owner has one.
LEMMA LetGo ==
  ASSUME TypeInv, OwnedOnce,
         pending' \subseteq pending, failed' \subseteq failed,
         \A w \in Sweepers : queue'[w] \subseteq queue[w],
         \A w \in Sweepers : job'[w] = job[w] \/ job'[w] = NoJob
                               \/ (job'[w].kind = job[w].kind /\ job'[w].send = job[w].send)
  PROVE  OwnedOnce'
<1>1. \A w \in Sweepers : \A s \in Held(w)' : s \in Held(w)
  BY HeldIs, HeldIsNext DEF NoJob
<1>2. \A w \in Sweepers : w \in Workers
  BY DEF Sweepers, Workers
<1>3. \A w \in Sweepers : job'[w].send \notin queue'[w]
  <2>1. \A w \in Sweepers : NoMsg \notin queue[w]
    BY <1>2, NotSends DEF TypeInv, TypeOK
  <2> QED
    BY <2>1 DEF OwnedOnce, NoJob
<1>4. MeshLoop \in Sweepers /\ House \in Sweepers
  BY DEF Sweepers
<1>5. ASSUME NEW s \in Held(MeshLoop)' \cap Held(House)'
      PROVE  job'[MeshLoop].kind = "late" /\ s = job'[MeshLoop].send
  <2>1. s \in Held(MeshLoop) \cap Held(House)
    BY <1>1, <1>4, <1>5
  <2>2. job[MeshLoop].kind = "late" /\ s = job[MeshLoop].send
    BY <2>1 DEF OwnedOnce
  <2>3. s \notin queue'[MeshLoop]
    BY <1>4, <2>2 DEF OwnedOnce
  <2>4. job'[MeshLoop].kind # "idle" /\ s = job'[MeshLoop].send
    BY <1>5, <2>3, HeldIsNext
  <2>5. job'[MeshLoop] # NoJob
    BY <2>4 DEF NoJob
  <2> QED
    BY <1>4, <2>2, <2>4, <2>5
<1> QED
  BY <1>1, <1>3, <1>5 DEF OwnedOnce

LEMMA OneOwnerStep ==
  ASSUME OwnerInv, [Next]_vars
  PROVE  OneOwner'
<1> USE DEF OwnerInv
<1>0. /\ MeshLoop \in Workers /\ House \in Workers /\ Setup \in Workers
      /\ MeshLoop \in Sweepers /\ House \in Sweepers
      /\ \A w \in Sweepers : w = MeshLoop \/ w = House
      /\ \A w \in Sweepers : w \in Workers /\ w # Setup
      /\ queue \in [Workers -> SUBSET Sends] /\ job \in [Workers -> Jobs]
  BY NamesApart DEF Workers, Sweepers, TypeInv, TypeOK
<1>a. OwnedOnce
  BY OwnedOnceIs
<1> SUFFICES OwnedOnce'
  BY OwnedOnceNext
<1>1. CASE UNCHANGED <<pending, failed, queue, job>>
  BY <1>1, <1>a, LetGo
<1>2. CASE Crash
  BY <1>0, <1>2, <1>a, LetGo DEF Crash
<1>3. CASE Register
  <2>1. Current \notin Tracked
    BY <1>3, CurrentAhead DEF Register, TrackedPast, Unregistered
  <2>2. pending' = pending \cup {Current} /\ UNCHANGED <<failed, queue, job>>
    BY <1>3 DEF Register, workVars
  <2>3. Held(MeshLoop)' = Held(MeshLoop) /\ Held(House)' = Held(House)
    BY <2>2 DEF Held
  <2> QED
    BY <1>0, <1>a, <2>1, <2>2, <2>3 DEF OwnedOnce, Tracked
<1>4. CASE TakeConfirmation
  <2>1. job[MeshLoop].kind = "idle" /\ queue[MeshLoop] = {} /\ queue' = queue
    BY <1>4 DEF TakeConfirmation, Free
  <2>2. PICK s \in confirms :
          \/ /\ s \in pending
             /\ pending' = pending \ {s}
             /\ StartJob(MeshLoop, "confirm", s)
             /\ UNCHANGED failed
          \/ /\ s \in failed \ pending
             /\ failed' = failed \ {s}
             /\ StartJob(MeshLoop, "late", s)
             /\ UNCHANGED pending
          \/ UNCHANGED <<pending, failed, job>>
    BY <1>4 DEF TakeConfirmation
  <2>3. CASE UNCHANGED <<pending, failed, job>>
    BY <1>1, <2>1, <2>3
  <2>4. ASSUME NEW kind \in {"confirm", "late"}, StartJob(MeshLoop, kind, s),
               s \notin pending', kind = "confirm" => s \notin Held(House),
               pending' \subseteq pending, failed' \subseteq failed
        PROVE  OwnedOnce'
    <3>1. /\ job'[MeshLoop].kind = kind /\ job'[MeshLoop].send = s
          /\ job'[House] = job[House]
      BY <1>0, <2>4, NamesApart DEF StartJob
    <3>2. \A t \in Held(MeshLoop)' : t = s
      BY <2>1, <3>1, HeldIsNext
    <3>3. \A t \in Held(House)' : t \in Held(House)
      BY <2>1, <3>1, HeldIs, HeldIsNext
    <3> QED
      BY <1>0, <1>a, <2>1, <2>4, <3>1, <3>2, <3>3 DEF OwnedOnce
  <2> QED
    BY <1>0, <1>a, <2>2, <2>3, <2>4 DEF OwnedOnce
<1>5. CASE Ready
  <2>1. \A w \in Sweepers : queue'[w] = queue[w] /\ job' = job
    BY <1>0, <1>5 DEF Ready
  <2> QED
    BY <1>0, <1>5, <1>a, <2>1, LetGo DEF Ready, mapVars
<1>6. ASSUME NEW w \in Sweepers, Sweep(w)
      PROVE  OwnedOnce'
  <2>1. PICK old \in SUBSET failed :
          /\ pending' = pending \ (pending \cap overdue)
          /\ failed' = (failed \ old) \cup (pending \cap overdue)
          /\ queue' = [queue EXCEPT ![w] = pending \cap overdue]
    BY <1>6 DEF Sweep
  <2>2. job[w].kind = "idle" /\ queue[w] = {} /\ job' = job
    BY <1>6 DEF Sweep, Free
  <2>3. \A s \in Held(w)' : s \in pending /\ s \in overdue
    BY <1>0, <2>1, <2>2, HeldIsNext
  <2>4. \A x \in Sweepers \ {w} : queue'[x] = queue[x] /\ \A s \in Held(x)' : s \in Held(x)
    BY <1>0, <2>1, <2>2, HeldIs, HeldIsNext
  <2>5. job[w].send \notin queue'[w]
    <3>1. job[w].send = NoMsg
      BY <1>0, <2>2 DEF Roles
    <3> QED
      BY <1>0, <2>1, <3>1, NotSends DEF TypeInv, TypeOK
  <2>6. \A s \in Held(MeshLoop)' : s \notin Held(House)'
    BY <1>0, <1>a, <2>3, <2>4, NamesApart DEF OwnedOnce
  <2> QED
    BY <1>a, <2>1, <2>2, <2>3, <2>4, <2>5, <2>6 DEF OwnedOnce
<1>7. ASSUME NEW w \in Workers, NextExpired(w)
      PROVE  OwnedOnce'
  <2>1. PICK t \in queue[w] :
          /\ queue' = [queue EXCEPT ![w] = @ \ {t}]
          /\ job' = [job EXCEPT ![w] = [kind |-> IF w = Setup THEN "strand" ELSE "expire",
                                        send |-> t, step |-> "row", verdict |-> "none"]]
          /\ UNCHANGED <<pending, failed>>
    BY <1>7 DEF NextExpired, StartJob, mapVars
  <2>2. CASE w = Setup
    BY <1>0, <1>a, <2>1, <2>2, LetGo
  <2>3. CASE w \in Sweepers
    <3>1. job[w].kind = "idle"
      BY <1>7 DEF NextExpired
    <3>2. \A x \in Sweepers : \A s : s \in Held(x)' <=> s \in Held(x)
      BY <1>0, <2>1, <3>1, HeldIs, HeldIsNext
    <3>3. \A x \in Sweepers : job'[x].send \notin queue'[x]
      BY <1>0, <1>a, <2>1 DEF OwnedOnce
    <3>4. /\ w = MeshLoop => job[MeshLoop].kind # "late"
          /\ w # MeshLoop => job'[MeshLoop] = job[MeshLoop]
      BY <1>0, <2>1, <3>1
    <3> QED
      BY <1>0, <1>a, <2>1, <3>2, <3>3, <3>4 DEF OwnedOnce
  <2> QED
    BY <2>2, <2>3 DEF Workers, Sweepers
<1>8. ASSUME NEW w \in Workers, job[w].kind # "idle",
             \E v \in Verdicts : Advance(w, v), UNCHANGED <<pending, failed, queue>>
      PROVE  OwnedOnce'
  <2>1. \A x \in Workers : job'[x] = job[x] \/ job'[x] = NoJob
                             \/ (job'[x].kind = job[x].kind /\ job'[x].send = job[x].send)
    BY <1>8, AdvanceGoes
  <2> QED
    BY <1>0, <1>8, <1>a, <2>1, LetGo
<1> QED
  BY <1>1, <1>2, <1>3, <1>4, <1>5, <1>6, <1>7, <1>8, Handover

LEMMA OwnerStep == OwnerInv /\ [Next]_vars => OwnerInv'
BY TypeStep, RolesStep, TrackedPastStep, AirStep, OneOwnerStep DEF OwnerInv

\* A send is answered by one goroutine at a time: it is in one of the two maps at
\* most, the sweeps and the confirmations never take the same one, and the only
\* two that ever hold one together are the sweep still crossing it and the late
\* acknowledgement correcting it.
THEOREM OneOwnerEach == Spec => []OneOwner
<1>1. Spec => []OwnerInv
  BY OwnerInit, OwnerStep, PTL DEF Spec
<1>2. OwnerInv => OneOwner
  BY DEF OwnerInv
<1> QED
  BY <1>1, <1>2, PTL

-----------------------------------------------------------------------------
(***************************************************************************)
(* Counting.  A group accounts for no more pieces than the attempt skipped *)
(* or put on the air, less those whose outcome is still on its way.        *)
(***************************************************************************)

\* An answer that has not reached the group yet.
Unsettled(j) ==
  \/ j.kind = "confirm" /\ j.step \in {"row", "resolve", "settle"}
  \/ j.kind = "expire" /\ j.step \in {"row", "mark", "resolve", "settle"}

\* Sends whose outcome is still to be counted.
Owed(s) ==
  \/ s \in pending
  \/ \E w \in Sweepers : s \in queue[w] \/ (Unsettled(job[w]) /\ s = job[w].send)
  \/ spc = "register" /\ s = Current

Taken(a) ==
  IF a > attempt THEN {}
  ELSE IF a < attempt THEN Pieces
  ELSE {i \in Pieces : <<a, i>> \in onAir \cup unackable}
         \cup {i \in skip : i < piece \/ (i = piece /\ spc = "idle")}

Done(a) == {i \in Taken(a) : ~Owed(<<a, i>>)}

Counted == \A a \in Attempts : Accounted(group[a]) <= Cardinality(Done(a))

\* What is in hand has been on the air.
TrackedOnAir ==
  /\ Tracked \subseteq onAir
  /\ spc = "register" => Current \in onAir

CountInv == OwnerInv /\ TrackedOnAir /\ Counted

LEMMA PiecesFinite == IsFiniteSet(Pieces) /\ Cardinality(Pieces) = NPieces
BY PiecesAssumption, FS_Interval DEF Pieces

\* Numbers of pieces.
LEMMA PieceSets ==
  ASSUME NEW S \in SUBSET Pieces, NEW T \in SUBSET Pieces, S \subseteq T
  PROVE  /\ Cardinality(S) \in Nat /\ Cardinality(S) <= Cardinality(T)
         /\ Cardinality(T) <= NPieces
         /\ (\E x \in T : x \notin S) => Cardinality(S) + 1 <= Cardinality(T)
<1>1. IsFiniteSet(S) /\ IsFiniteSet(T) /\ Cardinality(T) <= NPieces
  BY PiecesFinite, FS_Subset
<1>2. Cardinality(S) \in Nat /\ Cardinality(T) \in Nat
  BY <1>1, FS_CardinalityType
<1>3. Cardinality(S) <= Cardinality(T) /\ (Cardinality(S) = Cardinality(T) => S = T)
  BY <1>1, FS_Subset
<1> QED
  BY <1>1, <1>2, <1>3

\* What the methods of a group do to its tally.
LEMMA TallySteps ==
  ASSUME NEW g \in Groups, NEW total \in Nat
  PROVE  /\ Accounted(g) \in Nat
         /\ \A outcome \in Outcomes : Accounted(Settle(g, outcome, total)) = Accounted(g) + 1
         /\ Accounted(Correct(g)) = Accounted(g)
         /\ Accounted(Abandon(g)) = Accounted(g)
         /\ Accounted(NewGroup) = 0
<1>1. g.delivered \in Nat /\ g.failed \in Nat /\ g.unknown \in Nat
  BY DEF Groups
<1>2. ASSUME NEW outcome \in Outcomes
      PROVE  Accounted(Settle(g, outcome, total)) = Accounted(g) + 1
  <2> DEFINE h == Settle(g, outcome, total)
  <2>1. /\ h.delivered = Count(g, outcome).delivered /\ h.failed = Count(g, outcome).failed
        /\ h.unknown = Count(g, outcome).unknown
    BY DEF Settle, Count, Groups
  <2>2. CASE outcome = "delivered"
    BY <1>1, <2>1, <2>2 DEF Accounted, Count, Groups
  <2>3. CASE outcome = "failed"
    BY <1>1, <2>1, <2>3 DEF Accounted, Count, Groups
  <2>4. CASE outcome = "unknown"
    BY <1>1, <2>1, <2>4 DEF Accounted, Count, Groups
  <2> QED
    BY <1>2, <2>2, <2>3, <2>4 DEF Outcomes
<1>3. Accounted(Correct(g)) = Accounted(g)
  BY <1>1 DEF Accounted, Correct, Groups
<1>4. Accounted(Abandon(g)) = Accounted(g) /\ Accounted(NewGroup) = 0
  BY <1>1 DEF Accounted, Abandon, NewGroup, Groups
<1> QED
  BY <1>1, <1>2, <1>3, <1>4 DEF Accounted

\* A send is owed from the moment it is on the air until its group knows.
LEMMA OwedStep ==
  ASSUME OwnerInv, [Next]_vars, NEW s, Owed(s)'
  PROVE  Owed(s) \/ (TransmitAccepted /\ s = Current)
<1> USE DEF OwnerInv
<1>0. /\ MeshLoop \in Workers /\ House \in Workers /\ Setup \in Workers
      /\ \A w \in Sweepers : w = MeshLoop \/ w = House
      /\ \A w \in Sweepers : w \in Workers /\ w # Setup
      /\ queue \in [Workers -> SUBSET Sends] /\ job \in [Workers -> Jobs]
  BY NamesApart DEF Workers, Sweepers, TypeInv, TypeOK
<1> DEFINE Has(w) == s \in queue[w] \/ (Unsettled(job[w]) /\ s = job[w].send)
           HasNext(w) == s \in queue'[w] \/ (Unsettled(job'[w]) /\ s = job'[w].send)
<1>1. Owed(s) <=> s \in pending \/ (\E w \in Sweepers : Has(w)) \/ (spc = "register" /\ s = Current)
  BY DEF Owed
<1>2. s \in pending' \/ (\E w \in Sweepers : HasNext(w)) \/ (spc' = "register" /\ s = Current')
  BY DEF Owed, Sweepers, Unsettled
<1> HIDE DEF Has, HasNext
<1>3. CASE spc' = "register" /\ s = Current' /\ ~Crash
  <2>1. CASE Sender
    <3>1. spc = "transmit" /\ UNCHANGED <<attempt, piece>> /\ ~StartAttempt
      BY <1>3, <2>1, SenderMoves DEF StartAttempt
    <3>2. TransmitAccepted
      BY <1>3, <2>1, <3>1 DEF Sender, SkipDelivered, EchoPiece, TransmitRejected,
         TransmitUnackable, Register, AwaitSettled, AbandonGroup, CrossRest, NextPiece
    <3> QED
      BY <1>3, <3>1, <3>2 DEF Current
  <2>2. CASE ~Sender
    <3>1. UNCHANGED senderVars
      BY <1>3, <2>2, OthersLeaveSender
    <3> QED
      BY <1>1, <1>3, <3>1 DEF senderVars, Current
  <2> QED
    BY <2>1, <2>2
<1>4. CASE Crash
  BY <1>0, <1>2, <1>4 DEF Crash, HasNext, NoJob, Unsettled
<1>5. CASE s \in pending' \/ \E w \in Sweepers : HasNext(w)
  <2>1. CASE UNCHANGED <<pending, failed, queue, job>>
    BY <1>1, <1>5, <2>1 DEF Has, HasNext
  <2>2. CASE Register
    BY <1>1, <1>5, <2>2 DEF Register, workVars, Has, HasNext
  <2>3. CASE TakeConfirmation
    BY <1>0, <1>1, <1>5, <2>3, NamesApart DEF TakeConfirmation, StartJob, Has, HasNext, Unsettled
  <2>4. CASE Ready
    BY <1>0, <1>1, <1>5, <2>4 DEF Ready, mapVars, Has, HasNext
  <2>5. ASSUME NEW w \in Sweepers, Sweep(w)
        PROVE  Owed(s)
    <3>1. pending' \subseteq pending /\ queue' = [queue EXCEPT ![w] = pending \cap overdue]
          /\ job' = job
      BY <2>5 DEF Sweep
    <3>2. \A x \in Sweepers : HasNext(x) => Has(x) \/ s \in pending
      BY <1>0, <3>1 DEF Has, HasNext
    <3> QED
      BY <1>1, <1>5, <3>1, <3>2
  <2>6. ASSUME NEW w \in Workers, NextExpired(w)
        PROVE  Owed(s)
    <3>1. PICK t \in queue[w] :
            /\ queue' = [queue EXCEPT ![w] = @ \ {t}]
            /\ job' = [job EXCEPT ![w] = [kind |-> IF w = Setup THEN "strand" ELSE "expire",
                                          send |-> t, step |-> "row", verdict |-> "none"]]
            /\ UNCHANGED <<pending, failed>>
      BY <2>6 DEF NextExpired, StartJob, mapVars
    <3>2. \A x \in Sweepers : HasNext(x) => Has(x)
      BY <1>0, <3>1 DEF Has, HasNext
    <3> QED
      BY <1>1, <1>5, <3>1, <3>2
  <2>7. ASSUME NEW w \in Workers, job[w].kind # "idle",
               \E v \in Verdicts : Advance(w, v), UNCHANGED <<pending, failed, queue>>
        PROVE  Owed(s)
    <3>1. PICK v \in Verdicts : Advance(w, v)
      BY <2>7
    <3>2. \A x \in Workers \ {w} : job'[x] = job[x]
      BY <3>1, AdvanceGoes
    <3>3. Unsettled(job'[w]) => Unsettled(job[w]) /\ job'[w].send = job[w].send
      <4>1. CASE job'[w] = NoJob
        BY <4>1 DEF NoJob, Unsettled
      <4>2. CASE /\ job'[w].kind = job[w].kind /\ job'[w].send = job[w].send
                 /\ job'[w].step = After(job[w].kind, job[w].step)
        <5>1. job[w].step \in Steps
          BY <1>0 DEF Jobs
        <5> QED
          BY <4>2, <5>1 DEF Unsettled, After, Steps
      <4> QED
        BY <3>1, <4>1, <4>2, AdvanceGoes
    <3>4. \A x \in Sweepers : HasNext(x) => Has(x)
      BY <1>0, <2>7, <3>2, <3>3 DEF Has, HasNext
    <3> QED
      BY <1>1, <1>5, <2>7, <3>4
  <2> QED
    BY <1>4, <2>1, <2>2, <2>3, <2>4, <2>5, <2>6, <2>7, Handover
<1> QED
  BY <1>2, <1>3, <1>4, <1>5

\* What is owed is in hand, or about to be.
LEMMA OwedTracked ==
  ASSUME NEW s, Owed(s)
  PROVE  s \in Tracked \/ (spc = "register" /\ s = Current)
BY HeldIs DEF Owed, Tracked, Sweepers, Unsettled

\* A piece taken stays so, until a crash forgets the groups.
LEMMA TakenStep ==
  ASSUME TypeInv, [Next]_vars, ~Crash, NEW a \in Attempts, NEW i \in Taken(a)
  PROVE  i \in Taken(a)'
<1>a. a \in Nat /\ attempt \in Nat /\ piece \in Nat /\ Pieces \subseteq Nat
  BY DEF Attempts, Pieces, TypeInv, TypeOK
<1>b. i \in Pieces
  BY DEF TypeInv, TypeOK, Taken
<1>1. a \in Nat /\ attempt \in Nat /\ piece \in Nat /\ i \in Pieces /\ Pieces \subseteq Nat
  BY <1>a, <1>b
<1>2. onAir \subseteq onAir' /\ unackable \subseteq unackable'
  BY DEF Next, Sender, Work, StartAttempt, SkipDelivered, EchoPiece, TransmitRejected,
       TransmitUnackable, TransmitAccepted, Register, AwaitSettled, AbandonGroup, CrossRest,
       Acknowledge, DeadlinePasses, TakeConfirmation, Ready, CrossOrphan, Crash, Sweep,
       NextExpired, WriteRow, MarkMessage, ResolveSend, SettleGroup, CorrectGroup,
       AnswerParent, vars, radioVars
<1>3. CASE StartAttempt
  <2>1. a <= attempt
    BY <1>1 DEF Taken
  <2>2. attempt' = attempt + 1
    BY <1>3 DEF StartAttempt
  <2> QED
    BY <1>1, <2>1, <2>2 DEF Taken
<1>4. CASE Sender /\ ~StartAttempt
  <2>1. /\ attempt' = attempt /\ skip' = skip /\ spc # "idle"
        /\ piece' = piece + 1 \/ piece' = piece
    BY <1>4, SenderMoves
  <2> QED
    BY <1>1, <1>2, <2>1 DEF Taken
<1>5. CASE ~Sender
  <2>1. UNCHANGED <<attempt, piece, skip, spc>>
    BY <1>5, OthersLeaveSender DEF senderVars
  <2> QED
    BY <1>1, <1>2, <2>1 DEF Taken
<1> QED
  BY <1>3, <1>4, <1>5

\* So the pieces done only grow.
LEMMA DoneStep ==
  ASSUME OwnerInv, [Next]_vars, ~Crash, NEW a \in Attempts
  PROVE  Done(a) \subseteq Done(a)'
<1> SUFFICES ASSUME NEW i \in Done(a)
             PROVE  i \in Done(a)'
  OBVIOUS
<1>1. i \in Taken(a)'
  BY TakenStep DEF OwnerInv, Done
<1>2. ASSUME Owed(<<a, i>>)'
      PROVE  FALSE
  <2>1. TransmitAccepted /\ <<a, i>> = Current
    BY <1>2, OwedStep DEF Done
  <2>2. a = attempt /\ i = piece /\ spc = "transmit"
    BY <2>1 DEF Current, TransmitAccepted
  <2>3. <<a, i>> \notin onAir \cup unackable
    BY <2>1, <2>2, CurrentAhead DEF OwnerInv, AirPast, Unsent
  <2>4. i \in Taken(a) /\ piece \in Nat /\ attempt \in Nat
    BY DEF Done, OwnerInv, TypeInv, TypeOK, Pieces
  <2> QED
    BY <2>2, <2>3, <2>4 DEF Taken
<1>3. \A j : j \in Taken(a)' /\ ~Owed(<<a, j>>)' => j \in Done(a)'
  BY DEF Done
<1> QED
  BY <1>1, <1>2, <1>3

\* A step that tells no group anything keeps the count; one that tells a group of
\* one outcome keeps it when a piece of that attempt is done with it.
LEMMA CountKept ==
  ASSUME CountInv, TypeInv', [Next]_vars, ~Crash, NEW a \in Attempts,
         \/ Accounted(group'[a]) = Accounted(group[a])
         \/ /\ Accounted(group'[a]) = Accounted(group[a]) + 1
            /\ \E i \in Done(a)' : i \notin Done(a)
  PROVE  Accounted(group'[a]) <= Cardinality(Done(a)')
<1>1. Done(a) \subseteq Done(a)'
  BY DoneStep DEF CountInv
<1>2. Done(a) \in SUBSET Pieces
  BY DEF Done, Taken, CountInv, OwnerInv, TypeInv, TypeOK
<1>3. Done(a)' \in SUBSET Pieces
  BY DEF Done, Taken, TypeInv, TypeOK
<1>4. /\ Cardinality(Done(a)) \in Nat /\ Cardinality(Done(a)) <= Cardinality(Done(a)')
      /\ (\E i \in Done(a)' : i \notin Done(a)) =>
           Cardinality(Done(a)) + 1 <= Cardinality(Done(a)')
  BY <1>1, <1>2, <1>3, PieceSets
<1>5. Cardinality(Done(a)') \in Nat
  BY <1>3, PieceSets
<1>6. Accounted(group[a]) <= Cardinality(Done(a)) /\ Accounted(group[a]) \in Nat
  <2>1. group[a] \in Groups /\ NPieces \in Nat
    BY PiecesAssumption DEF CountInv, OwnerInv, TypeInv, TypeOK
  <2> QED
    BY <2>1, TallySteps DEF CountInv, Counted
<1> HIDE DEF Done, Accounted
<1> QED
  BY <1>4, <1>5, <1>6

\* The sender counts the piece it is at when it passes it without a handle.
LEMMA SenderCounts ==
  ASSUME CountInv, [Next]_vars, (SkipDelivered /\ piece \in skip) \/ TransmitUnackable
  PROVE  piece \in Done(attempt)' /\ piece \notin Done(attempt)
<1> USE DEF CountInv, OwnerInv
<1>1. /\ spc \in {"loop", "transmit"} /\ attempt' = attempt /\ piece \in Pieces
      /\ attempt \in Nat /\ piece \in Nat
      /\ piece' = piece + 1 \/ (piece' = piece /\ spc' = "idle")
      /\ skip' = skip /\ ~TransmitAccepted
  BY DEF SkipDelivered, TransmitUnackable, TransmitAccepted, NextPiece, TypeInv, TypeOK, Pieces
<1>2. Current = <<attempt, piece>>
  BY DEF Current
<1>3. Current \notin onAir \cup unackable /\ ~Past(Current, Unregistered)
  BY <1>1, CurrentAhead DEF AirPast, Unsent, Unregistered
<1>4. piece \notin Done(attempt)
  BY <1>1, <1>2, <1>3 DEF Done, Taken
<1>5. piece \in Taken(attempt)'
  <2>1. CASE SkipDelivered /\ piece \in skip
    BY <1>1, <2>1 DEF Taken
  <2>2. CASE TransmitUnackable
    BY <1>1, <1>2, <2>2 DEF Taken, TransmitUnackable
  <2> QED
    BY <2>1, <2>2
<1>6. ~Owed(Current)
  <2>1. Current \notin Tracked
    BY <1>3 DEF TrackedPast
  <2> QED
    BY <1>1, <2>1, OwedTracked
<1>7. ASSUME NEW a, NEW i, a = attempt, i = piece
      PROVE  i \in Taken(a)' => i \in Done(a)'
  <2>1. ~Owed(<<a, i>>)'
    BY <1>1, <1>2, <1>6, <1>7, OwedStep
  <2> QED
    BY <2>1 DEF Done
<1>8. PICK a : a = attempt
  OBVIOUS
<1>9. PICK i : i = piece
  OBVIOUS
<1>10. i \in Taken(a)'
  BY <1>1, <1>5, <1>8, <1>9
<1>11. i \in Done(a)'
  BY <1>7, <1>8, <1>9, <1>10
<1> QED
  BY <1>1, <1>4, <1>8, <1>9, <1>11

\* A worker counts the send it answers, which nobody else is left to count.
LEMMA WorkerCounts ==
  ASSUME CountInv, [Next]_vars, NEW w \in Workers, SettleGroup(w),
         NEW a, NEW i, job[w].send = <<a, i>>
  PROVE  /\ a \in Attempts /\ i \in Pieces
         /\ job[w].kind \in {"confirm", "expire"}
         /\ i \in Done(a)' /\ i \notin Done(a)
<1> USE DEF CountInv, OwnerInv
<1> DEFINE s == <<a, i>>
<1>1. /\ job[w].kind # "idle" /\ job[w].step = "settle" /\ job[w].kind \in Kinds
      /\ s \in Sends
  BY DEF SettleGroup, At, TypeInv, TypeOK, JobsReal, Jobs
<1>2. a \in Attempts /\ i \in Pieces
  BY <1>1 DEF Sends
<1>3. job[w].kind \in {"confirm", "expire"} /\ w # Setup
  BY <1>1 DEF Roles, Kinds
<1>4. w \in Sweepers /\ w \in {MeshLoop, House}
  BY <1>3 DEF Sweepers, Workers
<1>5. Owed(s)
  BY <1>1, <1>3, <1>4 DEF Owed, Unsettled
<1>6. i \notin Done(a)
  BY <1>5 DEF Done
<1>7. s \in Held(w)
  BY <1>1, HeldIs
<1>8. s \in Tracked
  BY <1>4, <1>7 DEF Tracked
<1>9. Past(s, Unregistered) /\ s \in onAir
  BY <1>8 DEF TrackedPast, TrackedOnAir
<1>10. OwnedOnce
  BY OwnedOnceIs
<1>11. s \notin pending /\ s \notin queue[w]
  BY <1>4, <1>7, <1>10 DEF OwnedOnce, Sweepers
<1>12. ASSUME NEW x \in Sweepers \ {w}
       PROVE  s \notin queue[x] /\ ~(Unsettled(job[x]) /\ s = job[x].send)
  <2>1. ASSUME s \in Held(x)
        PROVE  x = MeshLoop /\ job[x].kind = "late" /\ s = job[x].send
    <3>1. s \in Held(MeshLoop) \cap Held(House) /\ {w, x} = {MeshLoop, House}
      BY <1>4, <1>7, <1>12, <2>1, NamesApart DEF Sweepers
    <3>2. job[MeshLoop].kind = "late" /\ s = job[MeshLoop].send
      BY <1>10, <3>1 DEF OwnedOnce
    <3> QED
      BY <1>3, <3>1, <3>2
  <2>2. s \in queue[x] => s = job[x].send
    BY <2>1, HeldIs
  <2>3. job[x].send \notin queue[x]
    BY <1>10, <1>12 DEF OwnedOnce
  <2>4. Unsettled(job[x]) /\ s = job[x].send => s \in Held(x)
    BY HeldIs DEF Unsettled
  <2> QED
    BY <2>1, <2>2, <2>3, <2>4 DEF Unsettled
<1>13. ~(spc = "register" /\ s = Current)
  BY <1>9, CurrentAhead DEF Unregistered
<1>14. \E v \in Verdicts : Advance(w, v)
  BY EffectAdvances
<1>15. UNCHANGED <<senderVars, radioVars, mapVars, queue>>
  BY EffectAdvances
<1>16. \A x \in Workers \ {w} : job'[x] = job[x]
  BY <1>14, AdvanceGoes
<1>17. ~Unsettled(job'[w])
  <2>1. After(job[w].kind, job[w].step) = "parent"
    BY <1>1 DEF After
  <2>2. job'[w].step = "parent" \/ job'[w].kind = "idle"
    BY <1>14, <2>1, AdvanceGoes DEF NoJob
  <2> QED
    BY <2>2 DEF Unsettled
<1>18. ~Owed(s)'
  <2>1. Owed(s)' <=> \/ s \in pending'
                     \/ \E x \in Sweepers : s \in queue'[x] \/ (Unsettled(job'[x]) /\ s = job'[x].send)
                     \/ spc' = "register" /\ s = Current'
    BY DEF Owed, Unsettled, Sweepers
  <2>2. UNCHANGED <<pending, queue, spc, Current>>
    BY <1>15 DEF mapVars, senderVars, Current
  <2>3. \A x \in Sweepers : x = w \/ (x \in Sweepers \ {w} /\ x \in Workers \ {w})
    BY DEF Sweepers, Workers
  <2> QED
    BY <1>11, <1>12, <1>13, <1>16, <1>17, <2>1, <2>2, <2>3
<1>19. i \in Taken(a)'
  <2>1. a <= attempt /\ a \in Nat /\ attempt \in Nat
    BY <1>2, <1>9 DEF Past, Att, TypeInv, TypeOK, Attempts
  <2>2. UNCHANGED <<attempt, onAir, unackable, piece, skip, spc>>
    BY <1>15 DEF senderVars, radioVars
  <2> QED
    BY <1>2, <1>9, <2>1, <2>2 DEF Taken
<1>20. i \in Done(a)'
  BY <1>18, <1>19 DEF Done
<1> QED
  BY <1>2, <1>3, <1>6, <1>20

\* What each step tells the groups.
LEMMA GroupTold ==
  ASSUME TypeInv, [Next]_vars, ~Crash
  PROVE  \/ group' = group
         \/ /\ SkipDelivered /\ Split
            /\ group' = [group EXCEPT ![attempt] = Settle(@, "delivered", NPieces)]
         \/ /\ TransmitUnackable /\ Split
            /\ group' = [group EXCEPT ![attempt] = Settle(@, "unknown", NPieces)]
         \/ AbandonGroup /\ group' = [group EXCEPT ![attempt] = Abandon(@)]
         \/ \E w \in Workers :
              /\ SettleGroup(w) /\ Split
              /\ group' = [group EXCEPT ![Att(job[w].send)] =
                   Settle(@, IF job[w].kind = "confirm" THEN "delivered" ELSE "failed", NPieces)]
         \/ \E w \in Workers :
              /\ CorrectGroup(w) /\ Split
              /\ group' = [group EXCEPT ![Att(job[w].send)] = Correct(@)]
<1>1. CASE SkipDelivered
  BY <1>1 DEF SkipDelivered, SettleChunk
<1>2. CASE TransmitUnackable
  BY <1>2 DEF TransmitUnackable
<1>3. CASE AbandonGroup
  BY <1>3 DEF AbandonGroup
<1>4. ASSUME NEW w \in Workers, SettleGroup(w)
      PROVE  \/ group' = group
             \/ /\ SettleGroup(w) /\ Split
                /\ group' = [group EXCEPT ![Att(job[w].send)] =
                     Settle(@, IF job[w].kind = "confirm" THEN "delivered" ELSE "failed", NPieces)]
  BY <1>4 DEF SettleGroup
<1>5. ASSUME NEW w \in Workers, CorrectGroup(w)
      PROVE  \/ group' = group
             \/ /\ CorrectGroup(w) /\ Split
                /\ group' = [group EXCEPT ![Att(job[w].send)] = Correct(@)]
  BY <1>5 DEF CorrectGroup
<1>6. CASE \/ StartAttempt \/ EchoPiece \/ TransmitRejected \/ TransmitAccepted \/ Register
           \/ AwaitSettled \/ CrossRest \/ TakeConfirmation \/ Ready \/ CrossOrphan
           \/ \E s \in Sends : Acknowledge(s) \/ DeadlinePasses(s)
           \/ \E w \in Workers : Sweep(w) \/ NextExpired(w) \/ WriteRow(w) \/ MarkMessage(w)
                                   \/ ResolveSend(w) \/ AnswerParent(w)
           \/ UNCHANGED vars
  BY <1>6 DEF StartAttempt, EchoPiece, TransmitRejected, TransmitAccepted, Register,
     AwaitSettled, CrossRest, TakeConfirmation, Ready, CrossOrphan, Acknowledge,
     DeadlinePasses, Sweep, NextExpired, WriteRow, MarkMessage, ResolveSend, AnswerParent, vars
<1> QED
  BY <1>1, <1>2, <1>3, <1>4, <1>5, <1>6 DEF Next, Sender, Work

LEMMA CountedStep ==
  ASSUME CountInv, [Next]_vars
  PROVE  Counted'
<1>0. /\ TypeInv /\ TypeInv' /\ group \in [Attempts -> Groups]
      /\ NPieces \in Nat
  BY TypeStep, PiecesAssumption DEF CountInv, OwnerInv, TypeInv, TypeOK
<1> SUFFICES ASSUME NEW a \in Attempts
             PROVE  Accounted(group'[a]) <= Cardinality(Done(a)')
  BY DEF Counted, Accounted
<1>1. CASE Crash
  <2>1. Accounted(group'[a]) = 0
    BY <1>1 DEF Crash, NewGroup, Accounted
  <2>2. Done(a)' \in SUBSET Pieces
    BY <1>0 DEF Done, Taken, TypeInv, TypeOK
  <2>3. Cardinality(Done(a)') \in Nat
    BY <2>2, PieceSets
  <2> QED
    BY <2>1, <2>3
<1>2. CASE group'[a] = group[a] /\ ~Crash
  BY <1>0, <1>2, CountKept
<1>3. ASSUME NEW outcome \in Outcomes, group'[a] = Settle(group[a], outcome, NPieces), ~Crash,
             \E i \in Done(a)' : i \notin Done(a)
      PROVE  Accounted(group'[a]) <= Cardinality(Done(a)')
  <2>1. Accounted(group'[a]) = Accounted(group[a]) + 1
    BY <1>0, <1>3, TallySteps
  <2> QED
    BY <1>0, <1>3, <2>1, CountKept
<1>4. CASE (SkipDelivered \/ TransmitUnackable) /\ a = attempt /\ ~Crash
           /\ \E outcome \in Outcomes : group'[a] = Settle(group[a], outcome, NPieces)
  <2>1. piece \in Done(attempt)' /\ piece \notin Done(attempt) /\ attempt' = attempt
    BY <1>4, SenderCounts DEF SkipDelivered, TransmitUnackable
  <2> QED
    BY <1>3, <1>4, <2>1
<1>5. ASSUME NEW w \in Workers, SettleGroup(w), a = Att(job[w].send), ~Crash,
             \E outcome \in Outcomes : group'[a] = Settle(group[a], outcome, NPieces)
      PROVE  Accounted(group'[a]) <= Cardinality(Done(a)')
  <2>1. job[w].send \in Sends
    BY <1>0, <1>5 DEF SettleGroup, At, TypeInv, JobsReal
  <2>2. PICK i : job[w].send = <<a, i>>
    BY <1>5, <2>1 DEF Sends, Att
  <2>3. i \in Done(a)' /\ i \notin Done(a)
    BY <1>5, <2>2, WorkerCounts
  <2> QED
    BY <1>3, <1>5, <2>3
<1>6. CASE group'[a] = Abandon(group[a]) /\ ~Crash
  BY <1>0, <1>6, TallySteps, CountKept
<1>7. CASE group'[a] = Correct(group[a]) /\ ~Crash
  BY <1>0, <1>7, TallySteps, CountKept
<1>8. {"delivered", "failed", "unknown"} \subseteq Outcomes
  BY DEF Outcomes
<1> QED
  BY <1>0, <1>1, <1>2, <1>4, <1>5, <1>6, <1>7, <1>8, GroupTold

LEMMA OnAirStep ==
  ASSUME CountInv, [Next]_vars
  PROVE  TrackedOnAir'
<1> USE DEF CountInv, OwnerInv
<1>1. onAir \subseteq onAir' /\ (TransmitAccepted => Current \in onAir')
  BY DEF Next, Sender, Work, StartAttempt, SkipDelivered, EchoPiece, TransmitRejected,
       TransmitUnackable, TransmitAccepted, Register, AwaitSettled, AbandonGroup, CrossRest,
       Acknowledge, DeadlinePasses, TakeConfirmation, Ready, CrossOrphan, Crash, Sweep,
       NextExpired, WriteRow, MarkMessage, ResolveSend, SettleGroup, CorrectGroup,
       AnswerParent, vars, radioVars
<1>2. ASSUME NEW s \in Tracked'
      PROVE  s \in onAir'
  <2>1. Register => Current \in onAir
    BY DEF Register, TrackedOnAir
  <2> QED
    BY <1>1, <1>2, <2>1, TrackedStep DEF TrackedOnAir
<1>3. ASSUME spc' = "register"
      PROVE  Current' \in onAir'
  <2>1. CASE Sender
    <3>1. TransmitAccepted
      BY <1>3, <2>1 DEF Sender, StartAttempt, SkipDelivered, EchoPiece, TransmitRejected,
         TransmitUnackable, Register, AwaitSettled, AbandonGroup, CrossRest, NextPiece
    <3> QED
      BY <1>1, <3>1 DEF TransmitAccepted, Current
  <2>2. CASE Crash
    BY <1>3, <2>2 DEF Crash
  <2>3. CASE ~Sender /\ ~Crash
    BY <1>1, <1>3, <2>3, OthersLeaveSender DEF senderVars, Current, TrackedOnAir
  <2> QED
    BY <2>1, <2>2, <2>3
<1> QED
  BY <1>2, <1>3 DEF TrackedOnAir

LEMMA CountInit == Init => CountInv
<1> SUFFICES ASSUME Init
             PROVE  CountInv
  OBVIOUS
<1>1. OwnerInv
  BY OwnerInit
<1>2. \A w \in Workers : queue[w] = {} /\ job[w] = NoJob
  BY DEF Init
<1>3. Held(MeshLoop) = {} /\ Held(House) = {}
  BY <1>2 DEF Held, NoJob, Workers
<1>4. TrackedOnAir
  BY <1>3 DEF Init, TrackedOnAir, Tracked
<1>5. ASSUME NEW a \in Attempts
      PROVE  Accounted(group[a]) <= Cardinality(Done(a))
  <2>1. Accounted(group[a]) = 0
    BY DEF Init, NewGroup, Accounted
  <2>2. Done(a) \in SUBSET Pieces
    BY <1>1 DEF Done, Taken, OwnerInv, TypeInv, TypeOK
  <2> QED
    BY <2>1, <2>2, PieceSets
<1> QED
  BY <1>1, <1>4, <1>5 DEF CountInv, Counted

LEMMA CountStep == CountInv /\ [Next]_vars => CountInv'
BY OwnerStep, OnAirStep, CountedStep DEF CountInv

\* No transmission is counted twice: neither a sweep and a confirmation, nor two
\* sweeps, nor a late acknowledgement make the group of the present attempt account for
\* more pieces than it skipped or put on the air, or an older one for more than there are.
THEOREM NothingCountedTwice == Spec => []NoDoubleCount
<1>1. Spec => []CountInv
  BY CountInit, CountStep, PTL DEF Spec
<1>2. ASSUME CountInv
      PROVE  NoDoubleCount
  <2> SUFFICES ASSUME NEW a \in Attempts
               PROVE  LET sent == {i \in Pieces : <<a, i>> \in onAir \cup unackable}
                      IN  Accounted(group[a]) <= Cardinality(sent)
                            + (IF a = attempt THEN Cardinality(skip)
                               ELSE NPieces - Cardinality(sent))
    BY DEF NoDoubleCount
  <2> DEFINE sent == {i \in Pieces : <<a, i>> \in onAir \cup unackable}
  <2>1. /\ sent \in SUBSET Pieces /\ skip \in SUBSET Pieces
        /\ Done(a) \in SUBSET Pieces /\ group[a] \in Groups /\ NPieces \in Nat
    BY <1>2, PiecesAssumption DEF CountInv, OwnerInv, TypeInv, TypeOK, Done, Taken
  <2>2. IsFiniteSet(sent) /\ IsFiniteSet(skip)
    BY <2>1, PiecesFinite, FS_Subset
  <2>3. /\ Cardinality(sent) \in Nat /\ Cardinality(skip) \in Nat
        /\ Cardinality(Done(a)) \in Nat /\ Cardinality(Done(a)) <= NPieces
    BY <2>1, PieceSets
  <2>4. Accounted(group[a]) <= Cardinality(Done(a)) /\ Accounted(group[a]) \in Nat
    BY <1>2, <2>1, TallySteps DEF CountInv, Counted
  <2>5. ASSUME a = attempt
        PROVE  Cardinality(Done(a)) <= Cardinality(sent) + Cardinality(skip)
    <3>1. attempt \in Nat
      BY <1>2 DEF CountInv, OwnerInv, TypeInv, TypeOK
    <3>2. Done(a) \subseteq sent \cup skip
      BY <2>5, <3>1 DEF Done, Taken
    <3>3. sent \cup skip \in SUBSET Pieces /\ sent \cap skip \in SUBSET Pieces
      BY <2>1
    <3>4. Cardinality(Done(a)) <= Cardinality(sent \cup skip)
      BY <2>1, <3>2, <3>3, PieceSets
    <3>5. Cardinality(sent \cup skip) =
            Cardinality(sent) + Cardinality(skip) - Cardinality(sent \cap skip)
      BY <2>2, FS_Union
    <3>6. Cardinality(sent \cap skip) \in Nat
      BY <3>3, PieceSets
    <3> HIDE DEF sent
    <3> QED
      BY <2>3, <3>4, <3>5, <3>6
  <2> HIDE DEF sent, Done, Accounted
  <2>6. Accounted(group[a]) <= Cardinality(sent)
          + (IF a = attempt THEN Cardinality(skip) ELSE NPieces - Cardinality(sent))
    BY <2>1, <2>3, <2>4, <2>5
  <2> QED
    BY <2>6 DEF sent
<1> QED
  BY <1>1, <1>2, PTL

-----------------------------------------------------------------------------
(***************************************************************************)
(* Ticks.  A group that says all its pieces were delivered has counted     *)
(* each of them once, on an acknowledgement of this attempt or an earlier  *)
(* one; a worker carries that verdict to the original after the unlock.    *)
(***************************************************************************)

\* An answer that may still tell the group of a delivery.
Correctable(j) ==
  \/ j.kind = "confirm" /\ j.step \in {"row", "resolve", "settle"}
  \/ j.kind = "late" /\ j.step \in {"row", "mark", "correct"}

MayDeliver(s) ==
  s \in pending \cup failed \/ (Correctable(job[MeshLoop]) /\ s = job[MeshLoop].send)

\* The pieces whose delivery the group of attempt a has counted, if ever it will.
Came(a) ==
  {i \in Pieces : /\ \E b \in 1 .. a : <<b, i>> \in acked
                  /\ Past(<<a, i>>, Unregistered)
                  /\ ~MayDeliver(<<a, i>>)}

DeliveredCounted == \A a \in Attempts : group[a].delivered <= Cardinality(Came(a))

\* What meshLoop answers as acknowledged is no longer among the failed.
TakenOut ==
  job[MeshLoop].kind \in {"confirm", "late"} => job[MeshLoop].send \notin failed

EchoesOwn == Split => \A s \in Sends : echo[s] # Parent

AllLanded == \A i \in Pieces : \E a \in Attempts : <<a, i>> \in acked
TicksKnown == \A w \in Workers : job[w].verdict = "ok" => AllLanded

TickInv ==
  /\ OwnerInv /\ OrderInv /\ TakenOut /\ EchoesOwn
  /\ DeliveredCounted /\ TicksKnown /\ TickIsEarned

LEMMA OrderStep == OrderInv /\ [Next]_vars => OrderInv'
BY TypeStep, AcksStep, PastStep, EarlierStep, InOrderStep DEF OrderInv

LEMMA MayDeliverTracked ==
  ASSUME NEW s, MayDeliver(s)
  PROVE  s \in Tracked
BY HeldIs DEF MayDeliver, Correctable, Tracked

\* A send may be delivered from its registration until its group knows.
LEMMA MayDeliverStep ==
  ASSUME OwnerInv, [Next]_vars, NEW s, MayDeliver(s)'
  PROVE  MayDeliver(s) \/ (Register /\ s = Current)
<1> USE DEF OwnerInv
<1>0. /\ MeshLoop \in Workers /\ House \in Workers /\ Setup \in Workers
      /\ job \in [Workers -> Jobs] /\ MeshLoop # Setup
  BY NamesApart DEF Workers, TypeInv, TypeOK
<1>1. CASE UNCHANGED <<pending, failed, job>>
  BY <1>1 DEF MayDeliver, Correctable
<1>2. CASE Crash
  BY <1>0, <1>2 DEF Crash, MayDeliver, Correctable, NoJob
<1>3. CASE Register
  BY <1>3 DEF Register, MayDeliver, Correctable, workVars
<1>4. CASE TakeConfirmation
  BY <1>0, <1>4 DEF TakeConfirmation, StartJob, MayDeliver, Correctable
<1>5. CASE Ready \/ \E w \in Sweepers : Sweep(w)
  <2>1. /\ \A t : t \in pending' \cup failed' => t \in pending \cup failed
        /\ job' = job
    BY <1>5 DEF Ready, Sweep, mapVars
  <2> QED
    BY <2>1 DEF MayDeliver, Correctable
<1>6. ASSUME NEW w \in Workers, NextExpired(w)
      PROVE  MayDeliver(s)
  <2>1. PICK t \in queue[w] :
          /\ job' = [job EXCEPT ![w] = [kind |-> IF w = Setup THEN "strand" ELSE "expire",
                                        send |-> t, step |-> "row", verdict |-> "none"]]
          /\ UNCHANGED <<pending, failed>>
    BY <1>6 DEF NextExpired, StartJob, mapVars
  <2>2. Correctable(job'[MeshLoop]) => job'[MeshLoop] = job[MeshLoop]
    BY <1>0, <2>1 DEF Correctable
  <2> QED
    BY <2>1, <2>2 DEF MayDeliver, Correctable
<1>7. ASSUME NEW w \in Workers, job[w].kind # "idle",
             \E v \in Verdicts : Advance(w, v), UNCHANGED <<pending, failed, queue>>
      PROVE  MayDeliver(s)
  <2>1. Correctable(job'[w]) => Correctable(job[w]) /\ job'[w].send = job[w].send
    <3>1. CASE job'[w] = NoJob
      BY <3>1 DEF NoJob, Correctable
    <3>2. CASE /\ job'[w].kind = job[w].kind /\ job'[w].send = job[w].send
               /\ job'[w].step = After(job[w].kind, job[w].step)
      <4>1. job[w].step \in Steps
        BY <1>0 DEF Jobs
      <4> QED
        BY <3>2, <4>1 DEF Correctable, After, Steps
    <3> QED
      BY <1>7, <3>1, <3>2, AdvanceGoes
  <2>2. w # MeshLoop => job'[MeshLoop] = job[MeshLoop]
    BY <1>0, <1>7, AdvanceGoes
  <2> QED
    BY <1>7, <2>1, <2>2 DEF MayDeliver, Correctable
<1> QED
  BY <1>1, <1>2, <1>3, <1>4, <1>5, <1>6, <1>7, Handover

\* So a piece that came stays so, even through a crash.
LEMMA CameStep ==
  ASSUME OwnerInv, [Next]_vars, NEW a \in Attempts
  PROVE  Came(a) \subseteq Came(a)'
<1> SUFFICES ASSUME NEW i \in Came(a)
             PROVE  i \in Came(a)'
  OBVIOUS
<1> USE DEF OwnerInv
<1>1. /\ i \in Pieces /\ <<a, i>> \in Sends /\ Past(<<a, i>>, Unregistered)
      /\ ~MayDeliver(<<a, i>>) /\ \E b \in 1 .. a : <<b, i>> \in acked
  BY DEF Came, Sends
<1>2. Past(<<a, i>>, Unregistered)'
  BY <1>1, PastStays
<1>3. \E b \in 1 .. a : <<b, i>> \in acked'
  BY <1>1, RecordsGrow
<1>4. ~MayDeliver(<<a, i>>)'
  <2>1. Register => <<a, i>> # Current
    BY <1>1, CurrentAhead DEF Register, Unregistered
  <2> QED
    BY <1>1, <2>1, MayDeliverStep
<1> QED
  BY <1>1, <1>2, <1>3, <1>4 DEF Came

\* A step keeps the count of deliveries of an attempt when it adds none, or one
\* for a piece that came with it.
LEMMA DeliveriesKept ==
  ASSUME OwnerInv, DeliveredCounted, [Next]_vars, NEW a \in Attempts,
         \/ group'[a].delivered = group[a].delivered
         \/ /\ group'[a].delivered = group[a].delivered + 1
            /\ \E i \in Came(a)' : i \notin Came(a)
  PROVE  group'[a].delivered <= Cardinality(Came(a)')
<1>1. Came(a) \in SUBSET Pieces /\ Came(a)' \in SUBSET Pieces
  BY DEF Came
<1>2. /\ Cardinality(Came(a)) \in Nat /\ Cardinality(Came(a)) <= Cardinality(Came(a)')
      /\ (\E i \in Came(a)' : i \notin Came(a)) =>
           Cardinality(Came(a)) + 1 <= Cardinality(Came(a)')
  BY <1>1, CameStep, PieceSets
<1>3. Cardinality(Came(a)') \in Nat
  BY <1>1, PieceSets
<1>4. group[a].delivered \in Nat /\ group[a].delivered <= Cardinality(Came(a))
  BY DEF OwnerInv, TypeInv, TypeOK, Groups, DeliveredCounted
<1> HIDE DEF Came
<1> QED
  BY <1>2, <1>3, <1>4

\* A skipped piece had come on an earlier attempt.
LEMMA SkippedCame ==
  ASSUME OwnerInv, SkipLanded, [Next]_vars, SkipDelivered,
         NEW a, NEW i, a = attempt, i = piece
  PROVE  i \in Came(a)' /\ i \notin Came(a)
<1> USE DEF OwnerInv
<1>1. /\ spc = "loop" /\ attempt' = attempt /\ i \in skip /\ i \in Pieces
      /\ attempt \in Nat /\ piece \in Nat /\ ~Register
      /\ piece' = piece + 1 \/ (piece' = piece /\ spc' = "idle")
      /\ acked' = acked
  BY DEF SkipDelivered, Register, NextPiece, TypeInv, TypeOK, Pieces, radioVars
<1>2. Current = <<a, i>>
  BY DEF Current
<1>3. ~Past(<<a, i>>, Unregistered)
  BY <1>1, <1>2, CurrentAhead DEF Unregistered
<1>4. Past(<<a, i>>, Unregistered)'
  BY <1>1 DEF Past, Att, Piece
<1>5. \E b \in 1 .. a : <<b, i>> \in acked'
  <2>1. PICK b \in 1 .. attempt - 1 : <<b, i>> \in acked
    BY <1>1 DEF SkipLanded
  <2>2. b \in 1 .. a
    BY <1>1, <2>1
  <2> QED
    BY <1>1, <2>1, <2>2
<1>6. ~MayDeliver(<<a, i>>)'
  <2>1. ~MayDeliver(<<a, i>>)
    BY <1>3, MayDeliverTracked DEF TrackedPast
  <2> QED
    BY <1>1, <2>1, MayDeliverStep
<1>7. i \notin Came(a)
  BY <1>3 DEF Came
<1> QED
  BY <1>1, <1>4, <1>5, <1>6, <1>7 DEF Came

\* meshLoop tells a group of a delivery once for each acknowledged piece.
LEMMA AnsweredCame ==
  ASSUME OwnerInv, AcksAreReal, TakenOut, [Next]_vars, NEW w \in Workers,
         (SettleGroup(w) /\ job[w].kind = "confirm") \/ CorrectGroup(w),
         NEW a, NEW i, job[w].send = <<a, i>>
  PROVE  i \in Came(a)' /\ i \notin Came(a)
<1> USE DEF OwnerInv
<1> DEFINE s == <<a, i>>
<1>1. /\ job[w].kind # "idle" /\ job[w].kind \in Kinds /\ s \in Sends
      /\ SettleGroup(w) => job[w].step = "settle"
      /\ CorrectGroup(w) => job[w].step = "correct"
  BY DEF SettleGroup, CorrectGroup, At, TypeInv, TypeOK, JobsReal, Jobs
<1>2. /\ w = MeshLoop
      /\ \/ job[w].kind = "confirm" /\ job[w].step = "settle"
         \/ job[w].kind = "late" /\ job[w].step = "correct"
  BY <1>1 DEF Roles, Kinds
<1>3. a \in Attempts /\ i \in Pieces /\ s \in acked
  BY <1>1, <1>2 DEF Sends, AcksAreReal
<1>4. MayDeliver(s)
  BY <1>2 DEF MayDeliver, Correctable
<1>5. i \notin Came(a)
  BY <1>4 DEF Came
<1>6. Past(s, Unregistered)
  BY <1>4, MayDeliverTracked DEF TrackedPast
<1>7. s \notin pending /\ s \notin failed
  <2>1. s \in Held(w)
    BY <1>1, HeldIs
  <2> QED
    BY <1>2, <2>1 DEF OneOwner, TakenOut
<1>8. /\ UNCHANGED <<pending, failed, acked, attempt, piece, spc>>
      /\ \E v \in Verdicts : Advance(w, v)
  BY EffectAdvances DEF mapVars, radioVars, senderVars
<1>9. ~Correctable(job'[MeshLoop])
  <2>1. After(job[w].kind, job[w].step) = "parent"
    BY <1>2 DEF After
  <2>2. job'[w].step = "parent" \/ job'[w].kind = "idle"
    BY <1>8, <2>1, AdvanceGoes DEF NoJob
  <2> QED
    BY <1>2, <2>2 DEF Correctable
<1>10. ~MayDeliver(s)'
  BY <1>7, <1>8, <1>9 DEF MayDeliver, Correctable
<1>11. Past(s, Unregistered)'
  BY <1>6, <1>8 DEF Past
<1>12. \E b \in 1 .. a : <<b, i>> \in acked'
  BY <1>3, <1>8 DEF Attempts
<1> QED
  BY <1>3, <1>5, <1>10, <1>11, <1>12 DEF Came

\* What the methods of a group do to its deliveries.
LEMMA DeliverySteps ==
  ASSUME NEW g \in Groups, NEW total \in Nat
  PROVE  /\ Settle(g, "delivered", total).delivered = g.delivered + 1
         /\ Settle(g, "failed", total).delivered = g.delivered
         /\ Settle(g, "unknown", total).delivered = g.delivered
         /\ Correct(g).delivered = g.delivered \/ Correct(g).delivered = g.delivered + 1
         /\ Abandon(g).delivered = g.delivered
         /\ NewGroup.delivered = 0
BY DEF Settle, Count, Correct, Abandon, NewGroup, Groups

LEMMA DeliveredStep ==
  ASSUME TickInv, [Next]_vars
  PROVE  DeliveredCounted'
<1> USE DEF TickInv
<1>0. /\ TypeInv /\ group \in [Attempts -> Groups] /\ NPieces \in Nat
      /\ SkipLanded /\ AcksAreReal
  BY PiecesAssumption DEF OwnerInv, OrderInv, TypeInv, TypeOK
<1> SUFFICES ASSUME NEW a \in Attempts
             PROVE  group'[a].delivered <= Cardinality(Came(a)')
  BY DEF DeliveredCounted
<1>1. CASE Crash
  <2>1. group'[a].delivered = 0
    BY <1>1 DEF Crash, NewGroup
  <2>2. Came(a)' \in SUBSET Pieces
    BY DEF Came
  <2>3. Cardinality(Came(a)') \in Nat
    BY <2>2, PieceSets
  <2> QED
    BY <2>1, <2>3
<1>2. CASE group'[a].delivered = group[a].delivered
  BY <1>2, DeliveriesKept
<1>3. CASE SkipDelivered /\ a = attempt /\ group'[a] = Settle(group[a], "delivered", NPieces)
  <2>1. PICK i : i = piece
    OBVIOUS
  <2>2. i \in Came(a)' /\ i \notin Came(a)
    BY <1>0, <1>3, <2>1, SkippedCame
  <2> QED
    BY <1>0, <1>3, <2>2, DeliverySteps, DeliveriesKept
<1>4. ASSUME NEW w \in Workers, a = Att(job[w].send),
             \/ /\ SettleGroup(w) /\ job[w].kind = "confirm"
                /\ group'[a] = Settle(group[a], "delivered", NPieces)
             \/ CorrectGroup(w) /\ group'[a] = Correct(group[a])
      PROVE  group'[a].delivered <= Cardinality(Came(a)')
  <2>1. job[w].send \in Sends
    BY <1>0, <1>4 DEF SettleGroup, CorrectGroup, At, TypeInv, JobsReal
  <2>2. PICK i : job[w].send = <<a, i>>
    BY <1>4, <2>1 DEF Sends, Att
  <2>3. i \in Came(a)' /\ i \notin Came(a)
    BY <1>0, <1>4, <2>2, AnsweredCame
  <2> QED
    BY <1>0, <1>4, <2>3, DeliverySteps, DeliveriesKept
<1>5. ASSUME ~Crash
      PROVE  group'[a].delivered <= Cardinality(Came(a)')
  <2>1. CASE group' = group
    BY <1>2, <2>1
  <2>2. CASE SkipDelivered /\ group' = [group EXCEPT ![attempt] = Settle(@, "delivered", NPieces)]
    BY <1>0, <1>2, <1>3, <2>2
  <2>3. CASE group' = [group EXCEPT ![attempt] = Settle(@, "unknown", NPieces)]
    BY <1>0, <1>2, <2>3, DeliverySteps
  <2>4. CASE group' = [group EXCEPT ![attempt] = Abandon(@)]
    BY <1>0, <1>2, <2>4, DeliverySteps
  <2>5. ASSUME NEW w \in Workers, SettleGroup(w),
               group' = [group EXCEPT ![Att(job[w].send)] =
                 Settle(@, IF job[w].kind = "confirm" THEN "delivered" ELSE "failed", NPieces)]
        PROVE  group'[a].delivered <= Cardinality(Came(a)')
    <3>1. CASE a # Att(job[w].send)
      BY <1>0, <1>2, <2>5, <3>1
    <3>2. CASE a = Att(job[w].send) /\ job[w].kind = "confirm"
      BY <1>0, <1>4, <2>5, <3>2
    <3>3. CASE a = Att(job[w].send) /\ job[w].kind # "confirm"
      BY <1>0, <1>2, <2>5, <3>3, DeliverySteps
    <3> QED
      BY <3>1, <3>2, <3>3
  <2>6. ASSUME NEW w \in Workers, CorrectGroup(w),
               group' = [group EXCEPT ![Att(job[w].send)] = Correct(@)]
        PROVE  group'[a].delivered <= Cardinality(Came(a)')
    <3>1. CASE a # Att(job[w].send)
      BY <1>0, <1>2, <2>6, <3>1
    <3>2. CASE a = Att(job[w].send)
      BY <1>0, <1>4, <2>6, <3>2
    <3> QED
      BY <3>1, <3>2
  <2> QED
    BY <1>0, <1>5, <2>1, <2>2, <2>3, <2>4, <2>5, <2>6, GroupTold
<1> QED
  BY <1>1, <1>5

LEMMA TakenOutStep ==
  ASSUME OwnerInv, TakenOut, [Next]_vars
  PROVE  TakenOut'
<1> USE DEF OwnerInv, TakenOut
<1>0. /\ MeshLoop \in Workers /\ job \in [Workers -> Jobs]
  BY DEF Workers, TypeInv, TypeOK
<1>1. CASE UNCHANGED <<failed, job>>
  BY <1>1
<1>2. CASE Crash
  BY <1>0, <1>2 DEF Crash
<1>3. CASE Register \/ Ready
  BY <1>1, <1>3 DEF Register, Ready, workVars, mapVars
<1>4. CASE TakeConfirmation
  <2>1. pending \cap failed = {}
    BY DEF OneOwner
  <2> QED
    BY <1>0, <1>4, <2>1 DEF TakeConfirmation, StartJob
<1>5. ASSUME NEW w \in Sweepers, Sweep(w)
      PROVE  TakenOut'
  <2>1. job' = job /\ \A s \in failed' : s \in failed \/ s \in pending
    BY <1>5 DEF Sweep
  <2>2. job[MeshLoop].kind # "idle" => job[MeshLoop].send \notin pending
    BY HeldIs DEF OneOwner
  <2> QED
    BY <2>1, <2>2
<1>6. ASSUME NEW w \in Workers, NextExpired(w)
      PROVE  TakenOut'
  <2>1. PICK t \in queue[w] :
          /\ job' = [job EXCEPT ![w] = [kind |-> IF w = Setup THEN "strand" ELSE "expire",
                                        send |-> t, step |-> "row", verdict |-> "none"]]
          /\ UNCHANGED failed
    BY <1>6 DEF NextExpired, StartJob, mapVars
  <2> QED
    BY <1>0, <2>1
<1>7. ASSUME NEW w \in Workers, job[w].kind # "idle",
             \E v \in Verdicts : Advance(w, v), UNCHANGED <<pending, failed, queue>>
      PROVE  TakenOut'
  <2>1. \/ job'[MeshLoop] = job[MeshLoop]
        \/ job'[MeshLoop] = NoJob
        \/ job'[MeshLoop].kind = job[MeshLoop].kind /\ job'[MeshLoop].send = job[MeshLoop].send
    BY <1>0, <1>7, AdvanceGoes
  <2> QED
    BY <1>7, <2>1 DEF NoJob
<1> QED
  BY <1>1, <1>2, <1>3, <1>4, <1>5, <1>6, <1>7, Handover

\* Only EchoPiece says which message carries a marker, and for a send that is new.
LEMMA EchoStep ==
  ASSUME [Next]_vars, ~EchoPiece
  PROVE  echo' = echo
BY DEF Next, Sender, Work, StartAttempt, SkipDelivered, TransmitRejected,
       TransmitUnackable, TransmitAccepted, Register, AwaitSettled, AbandonGroup, CrossRest,
       Acknowledge, DeadlinePasses, TakeConfirmation, Ready, CrossOrphan, Crash, Sweep,
       NextExpired, WriteRow, MarkMessage, ResolveSend, SettleGroup, CorrectGroup,
       AnswerParent, vars

LEMMA EchoesOwnStep ==
  ASSUME TypeInv, EchoesOwn, [Next]_vars
  PROVE  EchoesOwn'
<1>1. CASE EchoPiece /\ Split
  <2>1. \/ reuse[piece] # NoMsg /\ echo' = [echo EXCEPT ![Current] = echo[reuse[piece]]]
        \/ echo' = [echo EXCEPT ![Current] = Current]
        \/ echo' = echo
    BY <1>1 DEF EchoPiece
  <2>2. Current \in Sends
    BY <1>1, CurrentIsSend DEF EchoPiece, TypeInv, Started
  <2>3. reuse[piece] # NoMsg => reuse[piece] \in Sends
    BY DEF TypeInv, TypeOK
  <2> QED
    BY <1>1, <2>1, <2>2, <2>3, NotSends DEF EchoesOwn, TypeInv, TypeOK
<1>2. CASE ~EchoPiece
  BY <1>2, EchoStep DEF EchoesOwn
<1>3. CASE ~Split
  BY <1>3 DEF EchoesOwn, Split
<1> QED
  BY <1>1, <1>2, <1>3

\* An "ok" means that every piece was counted as delivered.
LEMMA OkMeansDelivered ==
  ASSUME NEW g \in Groups, NEW total \in Nat
  PROVE  /\ Verdict(g, total) = "ok" => g.delivered >= total
         /\ \A outcome \in Outcomes :
              SettleVerdict(g, outcome, total) = "ok" => Settle(g, outcome, total).delivered >= total
<1>1. ASSUME NEW h \in Groups, Verdict(h, total) = "ok"
      PROVE  h.delivered >= total
  <2>1. h.delivered \in Nat /\ h.failed \in Nat /\ h.unknown \in Nat
    BY DEF Groups
  <2>2. ~(Accounted(h) < total) /\ ~(h.failed > 0) /\ ~(h.unknown > 0)
    BY <1>1 DEF Verdict
  <2> QED
    BY <2>1, <2>2 DEF Accounted
<1>2. ASSUME NEW outcome \in Outcomes, SettleVerdict(g, outcome, total) = "ok"
      PROVE  Settle(g, outcome, total).delivered >= total
  <2>1. Count(g, outcome) \in Groups /\ Verdict(Count(g, outcome), total) = "ok"
    BY <1>2, GroupTypes DEF SettleVerdict
  <2>2. Settle(g, outcome, total).delivered = Count(g, outcome).delivered
    BY <2>1 DEF Settle, Groups
  <2> QED
    BY <1>1, <2>1, <2>2
<1> QED
  BY <1>1, <1>2

\* And so that every piece was acknowledged.
LEMMA DeliveredMeansLanded ==
  ASSUME DeliveredCounted', NEW a \in Attempts, group'[a] \in Groups,
         group'[a].delivered >= NPieces
  PROVE  AllLanded'
<1>1. Came(a)' \in SUBSET Pieces
  BY DEF Came
<1>2. /\ Cardinality(Came(a)') \in Nat /\ Cardinality(Came(a)') <= NPieces
      /\ group'[a].delivered <= Cardinality(Came(a)') /\ group'[a].delivered \in Nat
      /\ NPieces \in Nat
  BY <1>1, PieceSets, PiecesAssumption DEF DeliveredCounted, Groups
<1>a. \A i \in Came(a)' : \E b \in 1 .. a : <<b, i>> \in acked'
  BY DEF Came
<1> HIDE DEF Came
<1>3. Cardinality(Came(a)') = Cardinality(Pieces)
  BY <1>2, PiecesFinite
<1>4. Came(a)' = Pieces
  BY <1>1, <1>3, PiecesFinite, FS_Subset
<1>5. \A b \in 1 .. a : b \in Attempts
  BY AttemptsAssumption DEF Attempts
<1> QED
  BY <1>a, <1>4, <1>5 DEF AllLanded

\* Whoever reads "ok" off a group after telling it something reads the truth.
LEMMA VerdictKnown ==
  ASSUME TickInv, DeliveredCounted', [Next]_vars, NEW a \in Attempts,
         \/ \E outcome \in Outcomes :
              /\ group'[a] = Settle(group[a], outcome, NPieces)
              /\ SettleVerdict(group[a], outcome, NPieces) = "ok"
         \/ /\ group'[a] = Correct(group[a])
            /\ Verdict(Correct(group[a]), NPieces) = "ok"
  PROVE  AllLanded'
<1>1. group[a] \in Groups /\ NPieces \in Nat
  BY PiecesAssumption DEF TickInv, OwnerInv, TypeInv, TypeOK
<1>2. group'[a] \in Groups /\ group'[a].delivered >= NPieces
  BY <1>1, GroupTypes, OkMeansDelivered DEF Outcomes
<1> QED
  BY <1>2, DeliveredMeansLanded

\* What came is not taken back.
LEMMA LandedStays ==
  ASSUME AllLanded, [Next]_vars
  PROVE  AllLanded'
BY RecordsGrow DEF AllLanded

LEMMA TicksKnownStep ==
  ASSUME TickInv, DeliveredCounted', [Next]_vars
  PROVE  TicksKnown'
<1> USE DEF TickInv, OwnerInv
<1>0. /\ job \in [Workers -> Jobs] /\ group \in [Attempts -> Groups] /\ NPieces \in Nat
  BY PiecesAssumption DEF TypeInv, TypeOK
<1>1. ASSUME \A x \in Workers : job'[x].verdict = "ok" => job[x].verdict = "ok"
      PROVE  TicksKnown'
  BY <1>1, LandedStays DEF TicksKnown, AllLanded
<1>2. ASSUME NEW w \in Workers, NEW v \in Verdicts, Advance(w, v), v = "ok" => AllLanded'
      PROVE  TicksKnown'
  <2>1. /\ \A x \in Workers \ {w} : job'[x] = job[x]
        /\ job'[w].verdict = "ok" => v = "ok"
    BY <1>2, AdvanceGoes DEF NoJob
  <2> QED
    BY <1>2, <2>1, LandedStays DEF TicksKnown, AllLanded
<1>3. ASSUME NEW w \in Workers, WriteRow(w) \/ MarkMessage(w) \/ ResolveSend(w) \/ AnswerParent(w)
      PROVE  TicksKnown'
  <2>1. Advance(w, "none") /\ "none" \in Verdicts
    BY <1>3 DEF WriteRow, MarkMessage, ResolveSend, AnswerParent, Verdicts
  <2> QED
    BY <1>2, <2>1
<1>4. ASSUME NEW w \in Workers, SettleGroup(w) \/ CorrectGroup(w)
      PROVE  TicksKnown'
  <2>1. PICK a \in Attempts : a = Att(job[w].send)
    BY <1>4 DEF SettleGroup, CorrectGroup, At, TypeInv, JobsReal, Sends, Att
  <2>2. CASE Advance(w, "none")
    BY <1>2, <2>2 DEF Verdicts
  <2>3. CASE SettleGroup(w) /\ Split
    <3>1. PICK outcome \in Outcomes :
            /\ group'[a] = Settle(group[a], outcome, NPieces)
            /\ Advance(w, SettleVerdict(group[a], outcome, NPieces))
      BY <1>0, <2>1, <2>3 DEF SettleGroup, Outcomes
    <3>2. SettleVerdict(group[a], outcome, NPieces) \in Verdicts
      BY <1>0, GroupTypes
    <3> QED
      BY <1>2, <3>1, <3>2, VerdictKnown
  <2>4. CASE CorrectGroup(w) /\ Split
    <3>1. /\ group'[a] = Correct(group[a])
          /\ Advance(w, Verdict(Correct(group[a]), NPieces))
      BY <1>0, <2>1, <2>4 DEF CorrectGroup
    <3>2. Verdict(Correct(group[a]), NPieces) \in Verdicts
      BY DEF Verdict, Verdicts
    <3> QED
      BY <1>2, <3>1, <3>2, VerdictKnown
  <2> QED
    BY <1>4, <2>2, <2>3, <2>4 DEF SettleGroup, CorrectGroup
<1>5. CASE Crash
  BY <1>1, <1>5 DEF Crash, NoJob
<1>6. CASE TakeConfirmation \/ \E w \in Workers : NextExpired(w)
  <2>1. UNCHANGED job \/ \E x \in Workers : \E kind, s : StartJob(x, kind, s)
    BY <1>6 DEF TakeConfirmation, NextExpired, Workers
  <2> QED
    BY <1>0, <1>1, <2>1 DEF StartJob
<1>7. CASE \/ Sender \/ Ready \/ CrossOrphan
           \/ \E s \in Sends : Acknowledge(s) \/ DeadlinePasses(s)
           \/ \E w \in Workers : Sweep(w)
           \/ UNCHANGED vars
  <2>1. UNCHANGED job
    BY <1>7 DEF Sender, StartAttempt, SkipDelivered, EchoPiece, TransmitRejected,
     TransmitUnackable, TransmitAccepted, Register, AwaitSettled, AbandonGroup, CrossRest,
     Ready, CrossOrphan, Acknowledge, DeadlinePasses, Sweep, vars, workVars
  <2> QED
    BY <1>1, <2>1
<1> QED
  BY <1>3, <1>4, <1>5, <1>6, <1>7 DEF Next, Work

\* A marker comes from its verdict.
LEMMA TickComes ==
  ASSUME NEW ms \in [Messages -> SUBSET Markers], NEW x \in Messages, NEW m, NEW v
  PROVE  /\ "ok" \in SetVerdict(ms, m, v)[x] => "ok" \in ms[x] \/ (x = m /\ v = "ok")
         /\ "ok" \in ReactVerdict(ms, m, v)[x] => "ok" \in ms[x] \/ (x = m /\ v = "ok")
BY DEF SetVerdict, ReactVerdict

\* Where a new tick comes from.
LEMMA TickSource ==
  ASSUME TickInv, DeliveredCounted', [Next]_vars, NEW x \in Messages, "ok" \in marks'[x]
  PROVE  \/ "ok" \in marks[x]
         \/ x = Parent /\ AllLanded'
         \/ \E s \in acked : echo[s] = x /\ ~EchoPiece
<1> USE DEF TickInv, OwnerInv
<1>0. /\ marks \in [Messages -> SUBSET Markers] /\ group \in [Attempts -> Groups]
      /\ NPieces \in Nat /\ job \in [Workers -> Jobs]
  BY PiecesAssumption DEF TypeInv, TypeOK
<1>1. CASE UNCHANGED marks
  BY <1>1
<1>2. CASE StartAttempt \/ EchoPiece \/ CrossRest
  BY <1>0, <1>2 DEF StartAttempt, EchoPiece, CrossRest
<1>3. CASE SkipDelivered
  <2>1. attempt \in Attempts
    BY <1>3, AttemptsAssumption DEF SkipDelivered, TypeInv, TypeOK, Started, Attempts
  <2>2. CASE Split
    <3>1. /\ group'[attempt] = Settle(group[attempt], "delivered", NPieces)
          /\ marks' = SetVerdict(marks, Parent, SettleVerdict(group[attempt], "delivered", NPieces))
      BY <1>0, <1>3, <2>1, <2>2 DEF SkipDelivered, SettleChunk
    <3>2. PICK a \in Attempts : a = attempt
      BY <2>1
    <3>3. SettleVerdict(group[a], "delivered", NPieces) = "ok" => AllLanded'
      BY <3>1, <3>2, VerdictKnown DEF Outcomes
    <3> QED
      BY <1>0, <3>1, <3>2, <3>3, TickComes
  <2> QED
    BY <1>1, <1>3, <2>2 DEF SkipDelivered, SettleChunk
<1>4. CASE TransmitRejected
  BY <1>0, <1>4, TickComes DEF TransmitRejected
<1>5. CASE TransmitUnackable
  <2> DEFINE ms == ReactVerdict(marks, echo[Current], "sent")
  <2>1. attempt \in Attempts /\ Current \in Sends
    BY <1>5, AttemptsAssumption, CurrentIsSend
       DEF TransmitUnackable, TypeInv, TypeOK, Started, Attempts
  <2>2. ms \in [Messages -> SUBSET Markers] /\ ("ok" \in ms[x] => "ok" \in marks[x])
    BY <1>0, <2>1, TickComes, MarkTypes DEF Verdicts, TypeInv, TypeOK
  <2>3. CASE ~Split
    BY <1>5, <2>2, <2>3 DEF TransmitUnackable
  <2>4. CASE Split
    <3>1. /\ group'[attempt] = Settle(group[attempt], "unknown", NPieces)
          /\ marks' = SetVerdict(ms, Parent, SettleVerdict(group[attempt], "unknown", NPieces))
      BY <1>0, <1>5, <2>1, <2>4 DEF TransmitUnackable
    <3>2. PICK a \in Attempts : a = attempt
      BY <2>1
    <3>3. SettleVerdict(group[a], "unknown", NPieces) = "ok" => AllLanded'
      BY <3>1, <3>2, VerdictKnown DEF Outcomes
    <3> HIDE DEF ms
    <3> QED
      BY <2>2, <3>1, <3>2, <3>3, TickComes
  <2> QED
    BY <2>3, <2>4
<1>6. CASE CrossOrphan
  BY <1>0, <1>6, TickComes DEF CrossOrphan
<1>7. ASSUME NEW w \in Workers, MarkMessage(w)
      PROVE  \/ "ok" \in marks[x]
             \/ \E s \in acked : echo[s] = x /\ ~EchoPiece
  <2>1. job[w].kind # "idle" /\ job[w].send \in Sends /\ echo' = echo
    BY <1>7 DEF MarkMessage, At, TypeInv, JobsReal
  <2>2. CASE job[w].kind \in {"confirm", "late"}
    <3>1. job[w].send \in acked
      BY <2>2 DEF OrderInv, AcksAreReal
    <3>2. \/ marks' = ReactVerdict(marks, echo[job[w].send], "ok")
          \/ marks' = SetVerdict(marks, echo[job[w].send], "ok")
      BY <1>7, <2>2 DEF MarkMessage
    <3>3. ~EchoPiece \/ "ok" \in marks[x]
      BY <1>0 DEF EchoPiece
    <3> QED
      BY <1>0, <3>1, <3>2, <3>3, TickComes
  <2>3. CASE job[w].kind \notin {"confirm", "late"}
    <3>1. \/ marks' = ReactVerdict(marks, echo[job[w].send], "fail")
          \/ marks' = SetVerdict(marks, echo[job[w].send], "fail")
      BY <1>7, <2>3 DEF MarkMessage
    <3> QED
      BY <1>0, <3>1, TickComes
  <2> QED
    BY <2>2, <2>3
<1>8. ASSUME NEW w \in Workers, AnswerParent(w)
      PROVE  "ok" \in marks[x] \/ (x = Parent /\ AllLanded')
  <2>1. marks' = SetVerdict(marks, Parent, job[w].verdict)
    BY <1>8 DEF AnswerParent
  <2>2. job[w].verdict = "ok" => AllLanded'
    BY LandedStays DEF TicksKnown
  <2> QED
    BY <1>0, <2>1, <2>2, TickComes
<1>9. CASE \/ TransmitAccepted \/ Register \/ AwaitSettled \/ AbandonGroup
           \/ TakeConfirmation \/ Ready \/ Crash
           \/ \E s \in Sends : Acknowledge(s) \/ DeadlinePasses(s)
           \/ \E w \in Workers : Sweep(w) \/ NextExpired(w) \/ WriteRow(w) \/ ResolveSend(w)
                                   \/ SettleGroup(w) \/ CorrectGroup(w)
           \/ UNCHANGED vars
  BY <1>1, <1>9 DEF TransmitAccepted, Register, AwaitSettled, AbandonGroup, TakeConfirmation,
     Ready, Crash, Acknowledge, DeadlinePasses, Sweep, NextExpired, WriteRow, ResolveSend,
     SettleGroup, CorrectGroup, vars
<1> QED
  BY <1>2, <1>3, <1>4, <1>5, <1>6, <1>7, <1>8, <1>9 DEF Next, Sender, Work

LEMMA TickEarnedStep ==
  ASSUME TickInv, DeliveredCounted', [Next]_vars
  PROVE  TickIsEarned'
<1> USE DEF TickInv, OwnerInv
<1>0. acked \subseteq Sends /\ acked \subseteq acked' /\ Parent \in Messages /\ Sends \subseteq Messages
  BY RecordsGrow DEF TypeInv, TypeOK, Messages
<1>1. ASSUME NEW m \in Sends, "ok" \in marks'[m]
      PROVE  \E s \in acked' : echo'[s] = m
  <2>1. m \in Messages /\ m # Parent
    BY <1>1, NotSends DEF Messages
  <2>2. PICK s \in acked : echo[s] = m
    BY <1>1, <2>1, TickSource DEF TickIsEarned
  <2>3. CASE EchoPiece
    <3>1. ~Past(Current, Unsent)
      BY <2>3, CurrentAhead DEF EchoPiece, Unsent
    <3>2. s # Current
      BY <2>2, <3>1 DEF AirPast
    <3> QED
      BY <1>0, <2>2, <2>3, <3>2 DEF EchoPiece, TypeInv, TypeOK
  <2>4. CASE ~EchoPiece
    BY <1>0, <2>2, <2>4, EchoStep
  <2> QED
    BY <2>3, <2>4
<1>2. ASSUME "ok" \in marks'[Parent]
      PROVE  AllLanded'
  <2>1. CASE "ok" \in marks[Parent]
    BY <2>1, LandedStays DEF TickIsEarned, AllLanded
  <2>2. ASSUME NEW s \in acked, echo[s] = Parent
        PROVE  AllLanded'
    <3>1. s \in Sends /\ ~Split
      BY <1>0, <2>2 DEF EchoesOwn
    <3>2. PICK a \in Attempts, i \in Pieces : s = <<a, i>>
      BY <3>1 DEF Sends
    <3>3. \A j \in Pieces : j = i
      BY <3>1, PiecesAssumption DEF Split, Pieces
    <3>4. AllLanded
      BY <2>2, <3>2, <3>3 DEF AllLanded
    <3> QED
      BY <3>4, LandedStays
  <2> QED
    BY <1>0, <1>2, <2>1, <2>2, TickSource
<1> QED
  BY <1>1, <1>2 DEF TickIsEarned, AllLanded

LEMMA TickInit == Init => TickInv
<1> SUFFICES ASSUME Init
             PROVE  TickInv
  OBVIOUS
<1>1. OwnerInv /\ OrderInv
  BY OwnerInit, OrderInit
<1>2. TakenOut /\ EchoesOwn /\ TicksKnown
  BY NotSends DEF Init, TakenOut, EchoesOwn, TicksKnown, NoJob, Workers
<1>3. DeliveredCounted
  <2> SUFFICES ASSUME NEW a \in Attempts
               PROVE  group[a].delivered <= Cardinality(Came(a))
    BY DEF DeliveredCounted
  <2>1. group[a].delivered = 0
    BY DEF Init, NewGroup
  <2>2. Cardinality(Came(a)) \in Nat
    BY PieceSets DEF Came
  <2> QED
    BY <2>1, <2>2
<1>4. TickIsEarned
  BY DEF Init, TickIsEarned, Messages
<1> QED
  BY <1>1, <1>2, <1>3, <1>4 DEF TickInv

LEMMA TickStep == TickInv /\ [Next]_vars => TickInv'
<1> SUFFICES ASSUME TickInv, [Next]_vars
             PROVE  TickInv'
  OBVIOUS
<1>1. OwnerInv' /\ OrderInv'
  BY OwnerStep, OrderStep DEF TickInv
<1>2. TakenOut' /\ EchoesOwn'
  BY TakenOutStep, EchoesOwnStep DEF TickInv, OwnerInv
<1>3. DeliveredCounted'
  BY DeliveredStep
<1>4. TicksKnown' /\ TickIsEarned'
  BY <1>3, TicksKnownStep, TickEarnedStep
<1> QED
  BY <1>1, <1>2, <1>3, <1>4 DEF TickInv

\* A tick is earned, whatever is rejected, lost, late or dropped in a restart: the
\* message that wears one has an acknowledged send, and the original of a split
\* wears one only when each of its pieces landed on some attempt.
THEOREM TicksAreEarned == Spec => []TickIsEarned
<1>1. Spec => []TickInv
  BY TickInit, TickStep, PTL DEF Spec
<1>2. TickInv => TickIsEarned
  BY DEF TickInv
<1> QED
  BY <1>1, <1>2, PTL
=============================================================================

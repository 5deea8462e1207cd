----------------------------- MODULE HeardWatch -----------------------------
(***************************************************************************)
(* Listening for the mesh to repeat a channel message (bridge/heard.go):   *)
(* the sender that puts the pieces of a split message on the air, once or, *)
(* when the message is resent, again; the goroutine that closes each       *)
(* window; the one that reads the packets the radio hears.                 *)
(*                                                                         *)
(* A resend is of the whole message: it has a group of its own, which      *)
(* answers the same original, and puts its pieces under the messages       *)
(* posted for them last time where it can.  A message that needs no split  *)
(* is its own only piece: the steps are those of one piece, and there is   *)
(* no group.  What is decided under a lock is written, row, marker and     *)
(* group, after it.                                                        *)
(***************************************************************************)
EXTENDS ChunkGroup, FiniteSets

CONSTANTS
  NParts,       \* pieces of the message
  MaxTries,     \* attempts at it
  Repeaters     \* routes a repeat can come back by

ASSUME HeardAssumption == NParts \in Nat \ {0} /\ MaxTries \in Nat \ {0}

VARIABLES
  run, next,  \* the latest attempt, and the piece the sender comes to in it
  reuse,      \* what previousChunks found for that attempt
  echo,       \* the attempt that posted the Discord message each piece is under
  watch,      \* the heardWatch of each piece of each attempt
  noting,     \* the packet in the hands of noteRawPacket
  closing,    \* what closeWatch still has to do for each watch
  delivery,   \* the row of each piece of each attempt
  marker,     \* the marker on each Discord message posted for a piece
  tally,      \* the group of each attempt
  original,   \* the marker on the message that was split
  answers,    \* verdicts given for each piece of each attempt
  overtaken,  \* pairs: the first was listening on the message of the second
  stopping    \* the context has ended

heardVars == <<run, next, reuse, echo, watch, noting, closing, delivery, marker, tally,
               original, answers, overtaken, stopping>>
senderVars == <<run, next, reuse, echo>>

Parts == 1 .. NParts
Tries == 1 .. MaxTries
Watches == Parts \X Tries
Part(w) == w[1]
Try(w) == w[2]
NoWatch == <<0, 0>>

\* The Discord message a piece is under is named by its piece and the attempt
\* that posted it; attempt 0 stands for none.
Message(w) == <<Part(w), echo[w]>>

NotYet == [listed |-> FALSE, paths |-> {}, done |-> FALSE, closed |-> FALSE]
Resting == [at |-> "idle", watch |-> NoWatch, path |-> "none"]

\* The message has just been typed, and wears its hourglass.
HeardInit ==
  /\ run = 1 /\ next = 1
  /\ reuse = [p \in Parts |-> 0]
  /\ echo = [w \in Watches |-> 0]
  /\ watch = [w \in Watches |-> NotYet]
  /\ noting = Resting
  /\ closing = [w \in Watches |-> "idle"]
  /\ delivery = [w \in Watches |-> "none"]
  /\ marker = [m \in Watches |-> "none"]
  /\ tally = [n \in Tries |-> NewGroup]
  /\ original = "wait"
  /\ answers = [w \in Watches |-> 0]
  /\ overtaken = {}
  /\ stopping = FALSE

\* settleChunk, for the group of the attempt.
SettlePart(w, outcome) ==
  LET g == tally[Try(w)]
      verdict == SettleVerdict(g, outcome, NParts)
  IN  /\ tally' = [tally EXCEPT ![Try(w)] = Settle(g, outcome, NParts)]
      /\ original' = IF verdict = "none" THEN original ELSE verdict

Answer(w) == answers' = [answers EXCEPT ![w] = @ + 1]
-----------------------------------------------------------------------------
(***************************************************************************)
(* The sender.                                                             *)
(***************************************************************************)

\* ChunkEchoes: the latest message posted for a piece.
LatestEcho(p) ==
  LET posted == {n \in Tries : echo[<<p, n>>] # 0}
  IN  IF posted = {} THEN 0
      ELSE echo[<<p, CHOOSE n \in posted : \A m \in posted : m <= n>>]

\* previousChunks: all of them, or none.
PreviousChunks ==
  [p \in Parts |-> IF \E q \in Parts : LatestEcho(q) = 0 THEN 0 ELSE LatestEcho(p)]

\* resendMessage, once nothing is being sent; or there is no link to send it over.
Resend ==
  /\ ~stopping
  /\ next > NParts
  /\ \/ /\ run < MaxTries
        /\ run' = run + 1 /\ next' = 1
        /\ reuse' = PreviousChunks
        /\ original' = "wait"
     \/ original' = "fail" /\ UNCHANGED <<run, next, reuse>>
  /\ UNCHANGED <<echo, watch, noting, closing, delivery, marker, tally, answers,
                 overtaken, stopping>>

\* The piece the sender comes to, and the watches open on a message.
Piece == <<next, run>>
OpenOn(m) == {o \in Watches : watch[o].listed /\ Message(o) = m}

\* The piece is put under a message: that of last time, a new one, or none.
Place(k) ==
  /\ echo' = [echo EXCEPT ![Piece] = k]
  /\ overtaken' = overtaken \union
       {<<o, Piece>> : o \in {o \in OpenOn(<<next, k>>) : watch[o].paths = {}}}
  /\ UNCHANGED <<run, reuse, noting, closing, stopping>>

\* The node refuses it.  The rest is abandoned, and what is left of last time crossed.
Refuse(k) ==
  /\ Place(k)
  /\ next' = NParts + 1
  /\ delivery' = [delivery EXCEPT ![Piece] = "failed"]
  /\ marker' = [m \in Watches |->
       IF m = <<next, k>> \/ (Part(m) > next /\ Try(m) = reuse[Part(m)]) THEN "fail"
       ELSE marker[m]]
  /\ tally' = [tally EXCEPT ![run] = Abandon(@)]
  /\ original' = "fail"
  /\ Answer(Piece)
  /\ UNCHANGED watch

\* On the air, but with no fingerprint or no message there is nothing to listen for.
SendUnheard(k) ==
  /\ Place(k)
  /\ next' = next + 1
  /\ delivery' = [delivery EXCEPT ![Piece] = "transmitted"]
  /\ marker' = [m \in Watches |-> IF m = <<next, k>> THEN "sent" ELSE marker[m]]
  /\ SettlePart(Piece, "unknown")
  /\ Answer(Piece)
  /\ UNCHANGED watch

\* Mutant of Supersede: the older watch is only taken off the list.
SupersedeDropsOnly(w, older) ==
  [o \in Watches |-> IF o = w THEN [NotYet EXCEPT !.listed = TRUE]
                     ELSE IF o \in older THEN [watch[o] EXCEPT !.listed = FALSE]
                     ELSE watch[o]]

\* The new watch joins the list, and the older ones of its message leave it.
Supersede(w, older) ==
  [o \in Watches |-> IF o = w THEN [NotYet EXCEPT !.listed = TRUE]
                     ELSE IF o \in older
                     THEN [watch[o] EXCEPT !.listed = FALSE, !.done = TRUE, !.closed = TRUE]
                     ELSE watch[o]]

\* On the air, and the mesh has not spoken yet.
SendWatched(k) ==
  /\ k # 0
  /\ Place(k)
  /\ next' = next + 1
  /\ delivery' = [delivery EXCEPT ![Piece] = "transmitted"]
  /\ marker' = [marker EXCEPT ![<<next, k>>] = "wait"]
  /\ watch' = Supersede(Piece, OpenOn(<<next, k>>))
  /\ UNCHANGED <<tally, original, answers>>

\* One turn of the loop of sendToMesh, with transmitChunk and watchForRepeats.
Transmit ==
  /\ ~stopping
  /\ next <= NParts
  /\ \E k \in {reuse[next], run, 0} : Refuse(k) \/ SendUnheard(k) \/ SendWatched(k)
-----------------------------------------------------------------------------
(***************************************************************************)
(* The packets and the windows.                                            *)
(***************************************************************************)

\* A repeat of an outstanding message is heard: found on the list, not yet noted.
HearRepeat ==
  /\ noting = Resting
  /\ \E w \in Watches, r \in Repeaters :
       /\ watch[w].listed
       /\ noting' = [at |-> "note", watch |-> w, path |-> r]
  /\ UNCHANGED <<senderVars, watch, closing, delivery, marker, tally, original, answers,
                 overtaken, stopping>>

\* Mutant of Note: a watch that has closed still takes the packet.
NoteAfterClose ==
  /\ noting.at = "note"
  /\ LET w == noting.watch IN
       /\ watch' = [watch EXCEPT ![w].paths = @ \union {noting.path}]
       /\ noting' = IF watch[w].paths = {} THEN [noting EXCEPT !.at = "row"] ELSE Resting
  /\ UNCHANGED <<senderVars, closing, delivery, marker, tally, original, answers,
                 overtaken, stopping>>

\* note, under the watch's mutex: only the first repeat is a verdict.
Note ==
  /\ noting.at = "note"
  /\ LET w == noting.watch IN
       IF watch[w].closed THEN noting' = Resting /\ UNCHANGED watch
       ELSE /\ watch' = [watch EXCEPT ![w].paths = @ \union {noting.path}]
            /\ noting' = IF watch[w].paths = {} THEN [noting EXCEPT !.at = "row"] ELSE Resting
  /\ UNCHANGED <<senderVars, closing, delivery, marker, tally, original, answers,
                 overtaken, stopping>>

\* The tick: the row, the marker, the group.
TickRow ==
  /\ noting.at = "row"
  /\ delivery' = [delivery EXCEPT ![noting.watch] = "heard"]
  /\ noting' = [noting EXCEPT !.at = "mark"]
  /\ UNCHANGED <<senderVars, watch, closing, marker, tally, original, answers, overtaken, stopping>>

TickMark ==
  /\ noting.at = "mark"
  /\ marker' = [marker EXCEPT ![Message(noting.watch)] = "ok"]
  /\ Answer(noting.watch)
  /\ noting' = [noting EXCEPT !.at = "settle"]
  /\ UNCHANGED <<senderVars, watch, closing, delivery, tally, original, overtaken, stopping>>

TickSettle ==
  /\ noting.at = "settle"
  /\ SettlePart(noting.watch, "delivered")
  /\ noting' = Resting
  /\ UNCHANGED <<senderVars, watch, closing, delivery, marker, answers, overtaken, stopping>>

\* The window ends: what was heard is read and the watch closed under its mutex.
CloseWatch(w) ==
  /\ closing[w] = "idle"
  /\ watch[w] # NotYet
  /\ watch' = [watch EXCEPT ![w].closed = TRUE, ![w].done = TRUE, ![w].listed = FALSE]
  /\ closing' = [closing EXCEPT ![w] =
                   IF watch[w].paths # {} \/ watch[w].done THEN "over" ELSE "mark"]
  /\ UNCHANGED <<senderVars, noting, delivery, marker, tally, original, answers,
                 overtaken, stopping>>

\* The satellite: the marker, then the group.
SilenceMark(w) ==
  /\ closing[w] = "mark"
  /\ marker' = [marker EXCEPT ![Message(w)] = "sent"]
  /\ Answer(w)
  /\ closing' = [closing EXCEPT ![w] = "settle"]
  /\ UNCHANGED <<senderVars, watch, noting, delivery, tally, original, overtaken, stopping>>

\* Mutant of SilenceSettle: silence is not reported to the group.
SilenceUnsettled(w) ==
  /\ closing[w] = "settle"
  /\ closing' = [closing EXCEPT ![w] = "over"]
  /\ UNCHANGED <<senderVars, watch, noting, delivery, marker, tally, original, answers,
                 overtaken, stopping>>

SilenceSettle(w) ==
  /\ closing[w] = "settle"
  /\ SettlePart(w, "unknown")
  /\ closing' = [closing EXCEPT ![w] = "over"]
  /\ UNCHANGED <<senderVars, watch, noting, delivery, marker, answers, overtaken, stopping>>

\* The context ends: no verdict reaches Discord any more, the windows are forgotten
\* unanswered, and the watches and the groups go with the process.
Stop ==
  /\ ~stopping
  /\ stopping' = TRUE
  /\ watch' = [w \in Watches |-> NotYet]
  /\ noting' = Resting
  /\ closing' = [w \in Watches |-> "idle"]
  /\ tally' = [n \in Tries |-> NewGroup]
  /\ UNCHANGED <<senderVars, delivery, marker, original, answers, overtaken>>

NoteStep == Note \/ TickRow \/ TickMark \/ TickSettle

WindowStep(w) == CloseWatch(w) \/ SilenceMark(w) \/ SilenceSettle(w)

HeardNext ==
  \/ Resend \/ Transmit
  \/ HearRepeat \/ NoteStep \/ Stop
  \/ \E w \in Watches : WindowStep(w)

\* The sender goes on by itself, a window is a timer, and packets are read as they
\* come.  The radio need not hear anything, nor the user resend.
HeardFairness ==
  /\ WF_heardVars(Transmit)
  /\ WF_heardVars(NoteStep)
  /\ \A w \in Watches : WF_heardVars(WindowStep(w))

HeardSpec == HeardInit /\ [][HeardNext]_heardVars /\ HeardFairness
-----------------------------------------------------------------------------
(***************************************************************************)
(* Properties.                                                             *)
(***************************************************************************)

\* A piece of an attempt gets one verdict, however the packet and the end of the
\* window race (heard.go:176), and the group of the attempt counts it once.
OneVerdict ==
  /\ \A w \in Watches : answers[w] <= 1
  /\ \A n \in Tries : Accounted(tally[n]) <= NParts

\* A piece that was still listened for when a later attempt began to listen on the
\* same message says nothing any more, not from its window and not from a packet
\* already matched (heard.go:98); nor does its group, which lacks it, answer the
\* original over the later one.  This is all that the code silences: a later piece
\* that the node refused, or that has no fingerprint, leaves the older one talking
\* (heard.go:77), and one that had heard something still writes its tick (heard.go:168).
SupersededSilent ==
  \A pair \in overtaken :
    LET older == pair[1]
        newer == pair[2]
    IN  watch[newer] # NotYet =>
          /\ answers[older] = 0 /\ delivery[older] # "heard"
          /\ Accounted(tally[Try(older)]) < NParts

\* What heard.go:94 sets out to prevent: that the older attempt resolves later and
\* "overwrite[s] the new attempt's verdict with the old one's".
NewVerdictStands ==
  \A pair \in overtaken : answers[pair[2]] > 0 => answers[pair[1]] = 0

\* The original and every message under it wear a verdict.
AllTold ==
  /\ original # "wait"
  /\ \A w \in Watches : echo[w] # 0 => marker[Message(w)] # "wait"

\* However often the message was resent, whatever was refused, superseded or posted
\* anew, no hourglass waits in the end for a watch that was closed without a word
\* (heard.go:101), unless the bridge stops.
AllAnswered == <>[](AllTold \/ stopping)
=============================================================================

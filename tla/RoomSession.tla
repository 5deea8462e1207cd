----------------------------- MODULE RoomSession -----------------------------
(***************************************************************************)
(* The session with one room server: posts typed while it is not logged in *)
(* are held, a login is sent, and the room's verdict, or its silence,      *)
(* decides what becomes of them.  roomSession and its functions in         *)
(* internal/bridge/outbound.go.                                            *)
(*                                                                         *)
(* The record is shared, under roomMu, by six goroutines: discordLoop      *)
(* (posts), meshLoop (verdicts), housekeeping (timeouts and the            *)
(* keep-alive), loginAllRooms after a reconnect, repathRoom after a run of *)
(* silence, and the popup a password is typed into.  A critical section is *)
(* one action; what a caller does between two of them is a stage of it.    *)
(*                                                                         *)
(* Posts are numbered in the order they are typed and fit in one           *)
(* transmission each; what happens after one is on the air is Delivery.    *)
(***************************************************************************)
EXTENDS Naturals, Sequences, SequencesExt

CONSTANTS
  NPosts,     \* bound: posts typed
  QueueMax,   \* roomQueueMax
  MaxLogins,  \* maxRoomLoginAttempts
  PostLimit,  \* roomPostFailedLimit
  MaxAir,     \* bound: logins the room may still answer
  MaxDrops,   \* bound: times the link goes down
  MaxPopups,  \* bound: passwords typed
  Faults      \* a subset of FaultKinds

\* The room rejects the password or grants no posting; does not answer; the radio
\* refuses a command; does not know the room; a post is not acknowledged; the
\* password is forgotten.
FaultKinds == {"rejected", "guest", "silent", "refuse", "stranger", "unacked", "forget"}

ASSUME SizesAssumption ==
  /\ NPosts \in Nat /\ MaxAir \in Nat /\ MaxDrops \in Nat /\ MaxPopups \in Nat
  /\ QueueMax \in Nat \ {0} /\ MaxLogins \in Nat \ {0} /\ PostLimit \in Nat \ {0}
ASSUME FaultsAssumption == Faults \subseteq FaultKinds

Posts    == 1 .. NPosts
Verdicts == {"ok", "guest", "rejected"}

\* The goroutines that may be inside tryRoomLogin.  The background is loginAllRooms
\* after a reconnect and repathRoom after a run of silence: one of them at a time
\* here.
Callers == {"discord", "house", "background", "popup"}

VARIABLES
  typed,      \* posts typed so far
  hand,       \* what discordLoop does with the last of them
  mark,       \* post -> its markers: the hourglass, the cross
  aired,      \* posts put on the air, in order
  judged,     \* aired post -> what is known of it
  link,       \* a session is published
  drops,      \* times it went away
  password,   \* one is stored
  popups,     \* passwords typed
  session,    \* loggedIn and its trust window: out, stale (past the window) or in
  inFlight,   \* loginInFlight: a login awaits its verdict
  cooling,    \* the last attempt is less than 30 seconds old
  attempts, failedPosts, pending,
  stage,      \* caller -> where it is around tryRoomLogin
  air,        \* logins whose verdict may still come
  verdict, mine, \* the result meshLoop is handling, and the posts it took
  flushes,    \* queues of running flushRoomQueue goroutines
  recorded,   \* the last recorded login was accepted, within the trust window
  evicted     \* history: the session was dropped for silence, and no sign of life since

postVars    == <<typed, hand, mark, aired, judged>>
worldVars   == <<link, drops, password, popups>>
sessionVars == <<session, inFlight, cooling, attempts, failedPosts, pending>>
resultVars  == <<air, verdict, mine>>
vars == <<postVars, worldVars, sessionVars, stage, resultVars, flushes, recorded, evicted>>

Init ==
  /\ typed = 0 /\ hand = "idle" /\ mark = [p \in Posts |-> {}] /\ aired = <<>>
  /\ judged = [p \in Posts |-> "no"]
  /\ link = TRUE /\ drops = 0 /\ password \in BOOLEAN /\ popups = 0
  /\ session = "out" /\ inFlight = FALSE /\ cooling = FALSE
  /\ attempts = 0 /\ failedPosts = 0 /\ pending = <<>>
  /\ stage = [c \in Callers |-> IF c = "background" THEN "reset" ELSE "none"]
  /\ air = 0 /\ verdict = "none" /\ mine = <<>>
  /\ flushes = {} /\ recorded \in BOOLEAN /\ evicted = FALSE

-----------------------------------------------------------------------------
(* Helpers.                                                                *)

\* roomLoggedIn.
Trusted == session = "in"

\* reactVerdict with a cross, for every post of a queue.
Crossed(posts) == [p \in Posts |-> IF p \in ToSet(posts) THEN {"fail"} ELSE mark[p]]

Goto(c, s) == stage' = [stage EXCEPT ![c] = s]

\* sendToMesh puts a post on the air, or the radio refuses it and it is crossed.
Transmit(p) ==
  \/ link /\ aired' = Append(aired, p) /\ UNCHANGED mark
  \/ (~link \/ drops > 0 \/ "refuse" \in Faults)
       /\ mark' = Crossed(<<p>>) /\ UNCHANGED aired

-----------------------------------------------------------------------------
(* discordLoop.                                                            *)

\* handleRoutedMessage up to the point where it has decided: no link and no
\* password are crosses, a trusted session sends, another holds.
Receive ==
  /\ hand = "idle" /\ stage["discord"] = "none" /\ typed < NPosts
  /\ typed' = typed + 1
  /\ \/ /\ ~link \/ (~Trusted /\ ~password)
        /\ mark' = [mark EXCEPT ![typed + 1] = {"fail"}]
        /\ UNCHANGED hand
     \/ /\ link /\ Trusted
        /\ mark' = [mark EXCEPT ![typed + 1] = {"wait"}]
        /\ hand' = "send"
     \/ /\ link /\ ~Trusted /\ password
        /\ hand' = "hold"
        /\ UNCHANGED mark
  /\ UNCHANGED <<aired, judged, worldVars, sessionVars, stage, resultVars, flushes, recorded, evicted>>

SendPost ==
  /\ hand = "send" /\ Transmit(typed)
  /\ hand' = "idle"
  /\ UNCHANGED <<typed, judged, worldVars, sessionVars, stage, resultVars, flushes, recorded, evicted>>

\* Mutant of HoldPost: the cap is off by one.
HoldOneMore ==
  /\ hand = "hold"
  /\ \/ /\ Len(pending) > QueueMax
        /\ mark' = Crossed(<<typed>>) /\ hand' = "idle"
        /\ UNCHANGED sessionVars
     \/ /\ Len(pending) <= QueueMax
        /\ pending' = Append(pending, typed)
        /\ attempts' = IF pending = <<>> /\ ~inFlight THEN 0 ELSE attempts
        /\ hand' = "queued"
        /\ UNCHANGED <<mark, session, inFlight, cooling, failedPosts>>
  /\ UNCHANGED <<typed, aired, judged, worldVars, stage, resultVars, flushes, recorded, evicted>>

\* holdRoomPost under the lock: the queue is full, or the post joins it.
HoldPost ==
  /\ hand = "hold"
  /\ \/ /\ Len(pending) >= QueueMax
        /\ mark' = Crossed(<<typed>>) /\ hand' = "idle"
        /\ UNCHANGED sessionVars
     \/ /\ Len(pending) < QueueMax
        /\ pending' = Append(pending, typed)
        /\ attempts' = IF pending = <<>> /\ ~inFlight THEN 0 ELSE attempts
        /\ hand' = "queued"
        /\ UNCHANGED <<mark, session, inFlight, cooling, failedPosts>>
  /\ UNCHANGED <<typed, aired, judged, worldVars, stage, resultVars, flushes, recorded, evicted>>

\* After the unlock: the hourglass goes on, and a login is tried.
ShowWaiting ==
  /\ hand = "queued"
  /\ mark' = [mark EXCEPT ![typed] = @ \cup {"wait"}]
  /\ hand' = "idle"
  /\ Goto("discord", "try")
  /\ UNCHANGED <<typed, aired, judged, worldVars, sessionVars, resultVars, flushes, recorded, evicted>>

-----------------------------------------------------------------------------
(* tryRoomLogin, tryRoomLoginNow and giveUpOnRoom.                         *)

\* The attempt counter is only ever compared with the cap, and saturates at it.
TryLogin(c) ==
  /\ stage[c] = "try"
  /\ IF password /\ link /\ ~inFlight /\ ~cooling
     THEN /\ inFlight' = TRUE /\ cooling' = TRUE
          /\ attempts' = IF attempts < MaxLogins THEN attempts + 1 ELSE attempts
          /\ Goto(c, "send")
     ELSE Goto(c, "none") /\ UNCHANGED <<inFlight, cooling, attempts>>
  /\ UNCHANGED <<postVars, worldVars, session, failedPosts, pending, resultVars,
                 flushes, recorded, evicted>>

\* The popup: no anti-storm delay, and a fresh cycle.
TryLoginNow ==
  /\ popups < MaxPopups /\ stage["popup"] = "none"
  /\ popups' = popups + 1 /\ password' = TRUE
  /\ IF link
     THEN /\ inFlight' = TRUE /\ cooling' = TRUE /\ attempts' = 1
          /\ Goto("popup", "send")
     ELSE UNCHANGED <<inFlight, cooling, attempts, stage>>
  /\ UNCHANGED <<postVars, link, drops, session, failedPosts, pending, resultVars,
                 flushes, recorded, evicted>>

\* sendRoomLogin: on the air, refused, or not a contact of the radio.
SendLogin(c) ==
  /\ stage[c] = "send"
  /\ \/ /\ link
        /\ air' = IF air < MaxAir THEN air + 1 ELSE air
        /\ Goto(c, "none")
        /\ UNCHANGED inFlight
     \/ /\ ~link \/ drops > 0 \/ "refuse" \in Faults
        /\ inFlight' = FALSE
        /\ Goto(c, "none")
        /\ UNCHANGED air
     \/ /\ "stranger" \in Faults
        /\ inFlight' = FALSE
        /\ Goto(c, IF c = "popup" THEN "none" ELSE "giveup")
        /\ UNCHANGED air
  /\ UNCHANGED <<postVars, worldVars, session, cooling, attempts, failedPosts,
                 pending, verdict, mine, flushes, recorded, evicted>>

\* Mutant of GiveUp: the queue is crossed and kept.
GiveUpKeepsQueue(c) ==
  /\ stage[c] \in {"exhausted", "giveup"}
  /\ recorded' = (recorded /\ stage[c] = "giveup")
  /\ mark' = Crossed(pending)
  /\ attempts' = 0
  /\ Goto(c, "none")
  /\ UNCHANGED <<typed, hand, aired, judged, worldVars, session, inFlight, cooling,
                 failedPosts, pending, resultVars, flushes, evicted>>

\* giveUpOnRoom: whatever is held by now is crossed.  Attempts that ran out are
\* recorded first, as a room that did not answer.
GiveUp(c) ==
  /\ stage[c] \in {"exhausted", "giveup"}
  /\ recorded' = (recorded /\ stage[c] = "giveup")
  /\ mark' = Crossed(pending) /\ pending' = <<>>
  /\ attempts' = 0
  /\ Goto(c, "none")
  /\ UNCHANGED <<typed, hand, aired, judged, worldVars, session, inFlight, cooling,
                 failedPosts, resultVars, flushes, evicted>>

-----------------------------------------------------------------------------
(* housekeeping.                                                           *)

\* Mutant of ExpireLogins: only rooms in mid-login are looked at.
ExpireInFlightOnly ==
  /\ stage["house"] = "none" /\ inFlight /\ ~cooling
  /\ inFlight' = FALSE
  /\ Goto("house", IF attempts < MaxLogins THEN "try" ELSE "exhausted")
  /\ UNCHANGED <<postVars, worldVars, session, cooling, attempts, failedPosts,
                 pending, resultVars, flushes, recorded, evicted>>

\* expireRoomLogins: a login unanswered for too long, or posts held with no login
\* working for them, are tried again until the attempts are used up.
ExpireLogins ==
  /\ stage["house"] = "none"
  /\ (inFlight /\ ~cooling) \/ (~inFlight /\ pending # <<>>)
  /\ inFlight' = FALSE
  /\ Goto("house", IF attempts < MaxLogins THEN "try" ELSE "exhausted")
  /\ UNCHANGED <<postVars, worldVars, session, cooling, attempts, failedPosts,
                 pending, resultVars, flushes, recorded, evicted>>

\* refreshRoomSessions: the keep-alive interval is up and nobody is busy with the room.
Refresh ==
  /\ stage["house"] = "none" /\ link /\ password
  /\ ~inFlight /\ pending = <<>> /\ ~cooling
  /\ attempts' = 0
  /\ Goto("house", "try")
  /\ UNCHANGED <<postVars, worldVars, session, inFlight, cooling, failedPosts,
                 pending, resultVars, flushes, recorded, evicted>>

-----------------------------------------------------------------------------
(* The link: onMeshDisconnect, and loginAllRooms on a fresh session.       *)

Disconnect ==
  /\ link /\ drops < MaxDrops
  /\ link' = FALSE /\ drops' = drops + 1
  /\ inFlight' = FALSE
  /\ UNCHANGED <<postVars, password, popups, session, cooling, attempts,
                 failedPosts, pending, stage, air, verdict, mine, flushes, recorded, evicted>>

Connect ==
  /\ ~link /\ stage["background"] = "none"
  /\ link' = TRUE
  /\ Goto("background", "reset")
  /\ UNCHANGED <<postVars, drops, password, popups, sessionVars, resultVars, flushes, recorded, evicted>>

\* The state of the old link goes, and a session is restored from the last
\* recorded login; a room with nothing usable on file is logged in to.
RestoreSession ==
  /\ stage["background"] = "reset"
  /\ inFlight' = FALSE /\ attempts' = 0
  /\ session' = IF session = "out" /\ recorded THEN "in" ELSE session
  /\ Goto("background", IF password /\ session' # "in" THEN "try" ELSE "none")
  /\ UNCHANGED <<postVars, worldVars, cooling, failedPosts, pending, resultVars,
                 flushes, recorded, evicted>>

-----------------------------------------------------------------------------
(* meshLoop: handleLoginResult.                                            *)

TakeResult ==
  /\ verdict = "none" /\ air > 0 /\ link
  /\ air' = air - 1
  /\ verdict' \in {"ok"} \cup (Verdicts \cap Faults)
  /\ session' = IF verdict' = "rejected" THEN "out" ELSE "in"
  /\ inFlight' = FALSE
  /\ mine' = pending /\ pending' = <<>>
  /\ IF verdict' = "rejected" THEN UNCHANGED <<attempts, evicted>>
     ELSE attempts' = 0 /\ evicted' = FALSE
  /\ UNCHANGED <<postVars, worldVars, cooling, failedPosts, stage, flushes, recorded>>

\* Mutant of FinishResult: a guest's posts are dropped without a word.
FinishForgetsGuest ==
  /\ verdict # "none"
  /\ recorded' = (verdict # "rejected")
  /\ \/ /\ verdict \in {"rejected", "guest"}
        /\ mark' = Crossed(pending) /\ pending' = <<>> /\ attempts' = 0
        /\ UNCHANGED flushes
     \/ /\ verdict = "ok"
        /\ flushes' = IF mine = <<>> THEN flushes ELSE flushes \cup {mine}
        /\ UNCHANGED <<mark, pending, attempts>>
  /\ verdict' = "none" /\ mine' = <<>>
  /\ UNCHANGED <<typed, hand, aired, judged, worldVars, session, inFlight, cooling,
                 failedPosts, stage, air, evicted>>

\* After the unlock: the verdict is recorded; a rejection gives up on the room, a
\* guest's posts are crossed, and an accepted login sends what was held.
FinishResult ==
  /\ verdict # "none"
  /\ recorded' = (verdict # "rejected")
  /\ \/ /\ verdict = "rejected"
        /\ mark' = Crossed(pending) /\ pending' = <<>> /\ attempts' = 0
        /\ UNCHANGED flushes
     \/ /\ verdict = "guest"
        /\ mark' = Crossed(mine)
        /\ UNCHANGED <<pending, attempts, flushes>>
     \/ /\ verdict = "ok"
        /\ flushes' = IF mine = <<>> THEN flushes ELSE flushes \cup {mine}
        /\ UNCHANGED <<mark, pending, attempts>>
  /\ verdict' = "none" /\ mine' = <<>>
  /\ UNCHANGED <<typed, hand, aired, judged, worldVars, session, inFlight, cooling,
                 failedPosts, stage, air, evicted>>

\* Mutant of Flush: a queue whose link went away is dropped without a word.
FlushNeedsLink ==
  /\ \E q \in flushes :
       IF link
       THEN /\ Transmit(Head(q))
            /\ flushes' = (flushes \ {q}) \cup (IF Len(q) > 1 THEN {Tail(q)} ELSE {})
       ELSE flushes' = flushes \ {q} /\ UNCHANGED <<aired, mark>>
  /\ UNCHANGED <<typed, hand, judged, worldVars, sessionVars, stage, resultVars, recorded, evicted>>

\* flushRoomQueue sends what it was given, in order.
Flush ==
  /\ \E q \in flushes :
       /\ Transmit(Head(q))
       /\ flushes' = (flushes \ {q}) \cup (IF Len(q) > 1 THEN {Tail(q)} ELSE {})
  /\ UNCHANGED <<typed, hand, judged, worldVars, sessionVars, stage, resultVars, recorded, evicted>>

-----------------------------------------------------------------------------
(* The room, the clock and the user.                                       *)

\* A login or its answer is lost.
Silence ==
  /\ air > 0 /\ ("silent" \in Faults \/ ~link)
  /\ air' = air - 1
  /\ UNCHANGED <<postVars, worldVars, sessionVars, stage, verdict, mine, flushes,
                 recorded, evicted>>

CoolDown ==
  /\ cooling
  /\ cooling' = FALSE
  /\ UNCHANGED <<postVars, worldVars, session, inFlight, attempts, failedPosts,
                 pending, stage, resultVars, flushes, recorded, evicted>>

\* The trust window passes, of the recorded login alone or of the session too,
\* which is never the older of the two.
WindowPasses ==
  /\ session = "in" \/ recorded
  /\ session' \in {session, IF session = "in" THEN "stale" ELSE session}
  /\ recorded' = FALSE
  /\ UNCHANGED <<postVars, worldVars, inFlight, cooling, attempts, failedPosts,
                 pending, stage, resultVars, flushes, evicted>>

\* roomPostDelivered: the room acknowledges a post in time, which only matters
\* where some are not.
PostAcked(p) ==
  /\ "unacked" \in Faults
  /\ p \in ToSet(aired) /\ judged[p] = "no"
  /\ judged' = [judged EXCEPT ![p] = "acked"]
  /\ failedPosts' = 0 /\ evicted' = FALSE
  /\ UNCHANGED <<typed, hand, mark, aired, worldVars, session, inFlight, cooling,
                 attempts, pending, stage, resultVars, flushes, recorded>>

\* roomPostFailed: a run of silence drops the session and starts repathRoom.
PostUnacked(p) ==
  /\ "unacked" \in Faults
  /\ p \in ToSet(aired) /\ judged[p] = "no"
  /\ judged' = [judged EXCEPT ![p] = "unacked"]
  /\ IF failedPosts + 1 < PostLimit
     THEN failedPosts' = failedPosts + 1 /\ UNCHANGED <<session, evicted, stage>>
     ELSE /\ failedPosts' = 0 /\ session' = "out" /\ evicted' = TRUE
          /\ stage["background"] = "none"
          /\ Goto("background", IF link /\ password THEN "try" ELSE "none")
  /\ UNCHANGED <<typed, hand, mark, aired, worldVars, inFlight, cooling, attempts,
                 pending, resultVars, flushes, recorded>>

\* noteRoomAlive: the acknowledgement of a post comes after its deadline.
PostAckedLate(p) ==
  /\ judged[p] = "unacked"
  /\ judged' = [judged EXCEPT ![p] = "acked"]
  /\ session' = (IF session = "out" THEN "in" ELSE session) /\ evicted' = FALSE
  /\ UNCHANGED <<typed, hand, mark, aired, worldVars, inFlight, cooling, attempts,
                 failedPosts, pending, stage, resultVars, flushes, recorded>>

\* SetRoomPassword with nothing deletes the row, and the recorded login with it.
ForgetPassword ==
  /\ "forget" \in Faults /\ password
  /\ password' = FALSE /\ recorded' = FALSE
  /\ UNCHANGED <<postVars, link, drops, popups, sessionVars, stage, resultVars, flushes, evicted>>

Next ==
  \/ Receive \/ SendPost \/ HoldPost \/ ShowWaiting
  \/ \E c \in Callers : TryLogin(c) \/ SendLogin(c) \/ GiveUp(c)
  \/ TryLoginNow \/ ExpireLogins \/ Refresh
  \/ Disconnect \/ Connect \/ RestoreSession
  \/ TakeResult \/ FinishResult \/ Flush
  \/ Silence \/ CoolDown \/ WindowPasses \/ ForgetPassword
  \/ \E p \in Posts : PostAcked(p) \/ PostUnacked(p) \/ PostAckedLate(p)

Spec == Init /\ [][Next]_vars

-----------------------------------------------------------------------------
Queues == UNION {[1 .. n -> Posts] : n \in 0 .. QueueMax}

\* The record, the queues and the markers are well formed; the queue of held
\* posts keeps its cap whoever adds to it.
TypeOK ==
  /\ typed \in 0 .. NPosts /\ hand \in {"idle", "send", "hold", "queued"}
  /\ mark \in [Posts -> SUBSET {"wait", "fail"}]
  /\ aired \in Seq(Posts) /\ judged \in [Posts -> {"no", "acked", "unacked"}]
  /\ link \in BOOLEAN /\ drops \in 0 .. MaxDrops
  /\ password \in BOOLEAN /\ popups \in 0 .. MaxPopups
  /\ session \in {"out", "stale", "in"} /\ inFlight \in BOOLEAN /\ cooling \in BOOLEAN
  /\ attempts \in 0 .. MaxLogins /\ failedPosts \in 0 .. PostLimit - 1
  /\ pending \in Queues /\ mine \in Queues /\ flushes \subseteq Queues
  /\ stage \in [Callers -> {"none", "reset", "try", "send", "giveup", "exhausted"}]
  /\ air \in 0 .. MaxAir /\ verdict \in Verdicts \cup {"none"}
  /\ recorded \in BOOLEAN /\ evicted \in BOOLEAN

Held(p)     == p \in ToSet(pending)
InFlush(p)  == \E q \in flushes : p \in ToSet(q)
InHand(p)   == p = typed /\ hand # "idle"

\* A post that wears the hourglass alone is somebody's: on the air, held, taken by the
\* verdict being handled, being flushed, or in discordLoop's hand.
NoPostForgotten ==
  \A p \in Posts : mark[p] = {"wait"} =>
    p \in ToSet(aired) \/ Held(p) \/ p \in ToSet(mine) \/ InFlush(p) \/ InHand(p)

\* A post has one owner, so it goes on the air once at most, and never after it
\* was crossed.
SentOnce ==
  /\ IsInjective(aired)
  /\ \A p \in Posts :
       p \in ToSet(aired) \/ "fail" \in mark[p] => ~Held(p) /\ ~InFlush(p) /\ p \notin ToSet(mine)

\* A cross replaces the hourglass: a post never wears both.
CrossReplacesHourglass == \A p \in Posts : mark[p] # {"wait", "fail"}

\* A session dropped after a run of silence is not trusted again until the room
\* has shown a sign of life: the next post logs in first.
DroppedStaysDropped == evicted => session = "out"

-----------------------------------------------------------------------------
\* The loops keep running, timers fire and the supervisor brings the link back;
\* nothing is assumed of the room or of the user.
Fairness ==
  /\ WF_vars(SendPost) /\ WF_vars(HoldPost) /\ WF_vars(ShowWaiting)
  /\ \A c \in Callers : WF_vars(TryLogin(c)) /\ WF_vars(SendLogin(c)) /\ WF_vars(GiveUp(c))
  /\ WF_vars(ExpireLogins) /\ WF_vars(Connect) /\ WF_vars(RestoreSession)
  /\ WF_vars(TakeResult) /\ WF_vars(FinishResult) /\ WF_vars(Flush)
  /\ WF_vars(CoolDown)

FairSpec == Spec /\ Fairness

\* A held post does not wait for ever, whatever the room does: it is sent or
\* crossed, unless the password it waits for is forgotten.
HeldAnswered ==
  \A p \in Posts : Held(p) ~> (p \in ToSet(aired) \/ "fail" \in mark[p] \/ ~password)

=============================================================================

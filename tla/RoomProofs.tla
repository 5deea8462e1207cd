----------------------------- MODULE RoomProofs -----------------------------
(***************************************************************************)
(* Theorems about RoomSession, for every number of posts, every size of    *)
(* the queue and every limit: type correctness, a post is sent once at     *)
(* most and never after it was crossed, and none is forgotten unless the   *)
(* room rejects the password.                                              *)
(***************************************************************************)
EXTENDS RoomSession, SequenceTheorems, TLAPS

-----------------------------------------------------------------------------
(* Sequences of posts.                                                     *)

LEMMA QueueIs == \A q : q \in Queues <=> q \in Seq(Posts) /\ Len(q) <= QueueMax
<1>1. ASSUME NEW q \in Queues
      PROVE  q \in Seq(Posts) /\ Len(q) <= QueueMax
  <2>1. PICK n \in 0 .. QueueMax : q \in [1 .. n -> Posts]
    BY DEF Queues
  <2>2. q \in Seq(Posts) /\ Len(q) = n
    BY <2>1, SizesAssumption
  <2> QED
    BY <2>2, SizesAssumption
<1>2. ASSUME NEW q \in Seq(Posts), Len(q) <= QueueMax
      PROVE  q \in Queues
  <2>1. q \in [1 .. Len(q) -> Posts] /\ Len(q) \in 0 .. QueueMax
    BY <1>2, SizesAssumption
  <2> QED
    BY <2>1 DEF Queues
<1> QED
  BY <1>1, <1>2

\* Taking the head off a queue, or joining one.
LEMMA HeadAndTail ==
  ASSUME NEW q \in Seq(Posts), q # <<>>
  PROVE  /\ Head(q) \in Posts /\ Tail(q) \in Seq(Posts) /\ Len(Tail(q)) = Len(q) - 1
         /\ ToSet(q) = {Head(q)} \cup ToSet(Tail(q))
         /\ IsInjective(q) => IsInjective(Tail(q)) /\ Head(q) \notin ToSet(Tail(q))
<1>1. /\ Head(q) \in Posts /\ Tail(q) \in Seq(Posts) /\ Len(Tail(q)) = Len(q) - 1
      /\ Len(q) \in Nat \ {0} /\ Head(q) = q[1]
  OBVIOUS
<1>2. /\ DOMAIN q = 1 .. Len(q) /\ DOMAIN Tail(q) = 1 .. Len(q) - 1
      /\ \A i \in 1 .. Len(q) - 1 : Tail(q)[i] = q[i + 1]
  BY <1>1
<1>3. ToSet(q) = {Head(q)} \cup ToSet(Tail(q))
  <2>1. \A x \in ToSet(q) : x = Head(q) \/ x \in ToSet(Tail(q))
    <3> SUFFICES ASSUME NEW i \in 1 .. Len(q), i # 1
                 PROVE  q[i] \in ToSet(Tail(q))
      BY <1>1, <1>2 DEF ToSet
    <3>1. i - 1 \in 1 .. Len(q) - 1 /\ Tail(q)[i - 1] = q[i]
      BY <1>1, <1>2
    <3> QED
      BY <1>2, <3>1 DEF ToSet
  <2>2. \A x \in ToSet(Tail(q)) : x \in ToSet(q)
    <3> SUFFICES ASSUME NEW i \in 1 .. Len(q) - 1
                 PROVE  q[i + 1] \in ToSet(q)
      BY <1>1, <1>2 DEF ToSet
    <3>1. i + 1 \in 1 .. Len(q)
      BY <1>1
    <3> QED
      BY <1>2, <3>1 DEF ToSet
  <2>3. Head(q) \in ToSet(q)
    BY <1>1, <1>2 DEF ToSet
  <2> QED
    BY <2>1, <2>2, <2>3
<1>4. ASSUME IsInjective(q)
      PROVE  IsInjective(Tail(q)) /\ Head(q) \notin ToSet(Tail(q))
  <2>1. \A i \in 1 .. Len(q) - 1 : i + 1 \in 1 .. Len(q) /\ 1 \in 1 .. Len(q) /\ i + 1 # 1
    BY <1>1
  <2>2. \A i, j \in 1 .. Len(q) - 1 : q[i + 1] = q[j + 1] => i = j
    BY <1>1, <1>2, <1>4, <2>1 DEF IsInjective
  <2>3. \A i \in 1 .. Len(q) - 1 : q[i + 1] # q[1]
    BY <1>1, <1>2, <1>4, <2>1 DEF IsInjective
  <2> QED
    BY <1>1, <1>2, <2>2, <2>3 DEF IsInjective, ToSet
<1> QED
  BY <1>1, <1>3, <1>4

LEMMA Joined ==
  ASSUME NEW q \in Seq(Posts), NEW p \in Posts
  PROVE  /\ Append(q, p) \in Seq(Posts) /\ Len(Append(q, p)) = Len(q) + 1
         /\ ToSet(Append(q, p)) = ToSet(q) \cup {p}
         /\ IsInjective(q) /\ p \notin ToSet(q) => IsInjective(Append(q, p))
<1>1. /\ Append(q, p) \in Seq(Posts) /\ Len(Append(q, p)) = Len(q) + 1 /\ Len(q) \in Nat
      /\ DOMAIN q = 1 .. Len(q) /\ DOMAIN Append(q, p) = 1 .. Len(q) + 1
      /\ \A i \in 1 .. Len(q) : Append(q, p)[i] = q[i]
      /\ Append(q, p)[Len(q) + 1] = p
  OBVIOUS
<1>2. \A i \in 1 .. Len(q) + 1 : i \in 1 .. Len(q) \/ i = Len(q) + 1
  BY <1>1
<1>3. \A i \in 1 .. Len(q) : i \in 1 .. Len(q) + 1 /\ i # Len(q) + 1
  BY <1>1
<1>4. Len(q) + 1 \in 1 .. Len(q) + 1
  BY <1>1
<1>5. ToSet(Append(q, p)) = ToSet(q) \cup {p}
  <2>1. \A x \in ToSet(Append(q, p)) : x \in ToSet(q) \/ x = p
    BY <1>1, <1>2 DEF ToSet
  <2>2. \A x \in ToSet(q) : x \in ToSet(Append(q, p))
    BY <1>1, <1>3 DEF ToSet
  <2>3. p \in ToSet(Append(q, p))
    BY <1>1, <1>4 DEF ToSet
  <2> QED
    BY <2>1, <2>2, <2>3
<1>6. ASSUME IsInjective(q), p \notin ToSet(q)
      PROVE  IsInjective(Append(q, p))
  <2>1. \A i \in 1 .. Len(q) : q[i] # p
    BY <1>1, <1>6 DEF ToSet
  <2>2. \A i, j \in 1 .. Len(q) : q[i] = q[j] => i = j
    BY <1>1, <1>6 DEF IsInjective
  <2> SUFFICES ASSUME NEW i \in 1 .. Len(q) + 1, NEW j \in 1 .. Len(q) + 1,
                      Append(q, p)[i] = Append(q, p)[j]
               PROVE  i = j
    BY <1>1 DEF IsInjective
  <2> QED
    BY <1>1, <1>2, <2>1, <2>2
<1> QED
  BY <1>1, <1>5, <1>6

\* The queue of nothing.
LEMMA NoPosts == ToSet(<<>>) = {} /\ IsInjective(<<>>) /\ <<>> \in Seq(Posts) /\ Len(<<>>) = 0
BY DEF ToSet, IsInjective

LEMMA OnePost ==
  ASSUME NEW p \in Posts
  PROVE  ToSet(<<p>>) = {p}
BY DEF ToSet

-----------------------------------------------------------------------------
(* Type correctness.  discordLoop has a post in its hand only once one was *)
(* typed, and flushRoomQueue is only ever started with something to send.  *)

NoneEmpty == \A q \in flushes : q # <<>>
HandFull == hand # "idle" => typed # 0

FlagTypes ==
  /\ link \in BOOLEAN /\ password \in BOOLEAN /\ inFlight \in BOOLEAN
  /\ cooling \in BOOLEAN /\ recorded \in BOOLEAN /\ evicted \in BOOLEAN
PostTypes ==
  /\ typed \in 0 .. NPosts /\ hand \in {"idle", "send", "hold", "queued"}
  /\ mark \in [Posts -> SUBSET {"wait", "fail"}]
  /\ aired \in Seq(Posts) /\ judged \in [Posts -> {"no", "acked", "unacked"}]
  /\ HandFull
CountTypes ==
  /\ drops \in 0 .. MaxDrops /\ popups \in 0 .. MaxPopups /\ air \in 0 .. MaxAir
  /\ attempts \in 0 .. MaxLogins /\ failedPosts \in 0 .. PostLimit - 1
PlaceTypes ==
  /\ session \in {"out", "stale", "in"} /\ verdict \in Verdicts \cup {"none"}
  /\ stage \in [Callers -> {"none", "reset", "try", "send", "giveup", "exhausted"}]
QueueTypes ==
  pending \in Queues /\ mine \in Queues /\ flushes \subseteq Queues /\ NoneEmpty

TypeInv == FlagTypes /\ PostTypes /\ CountTypes /\ PlaceTypes /\ QueueTypes

LEMMA TypeInvIs == TypeInv <=> TypeOK /\ NoneEmpty /\ HandFull
BY DEF TypeInv, FlagTypes, PostTypes, CountTypes, PlaceTypes, QueueTypes, TypeOK

LEMMA InHandIsPost ==
  ASSUME PostTypes, hand # "idle"
  PROVE  typed \in Posts
BY SizesAssumption DEF PostTypes, HandFull, Posts

LEMMA CrossedTypes ==
  ASSUME PostTypes, NEW q
  PROVE  /\ Crossed(q) \in [Posts -> SUBSET {"wait", "fail"}]
         /\ \A p \in Posts : Crossed(q)[p] = IF p \in ToSet(q) THEN {"fail"} ELSE mark[p]
BY DEF PostTypes, Crossed

LEMMA TransmitTypes ==
  ASSUME PostTypes, NEW p \in Posts, Transmit(p)
  PROVE  mark' \in [Posts -> SUBSET {"wait", "fail"}] /\ aired' \in Seq(Posts)
<1>1. CASE aired' = Append(aired, p) /\ UNCHANGED mark
  BY <1>1, Joined DEF PostTypes
<1>2. CASE mark' = Crossed(<<p>>) /\ UNCHANGED aired
  BY <1>2, CrossedTypes DEF PostTypes
<1> QED
  BY <1>1, <1>2 DEF Transmit

LEMMA NoPostsQueue == <<>> \in Queues
<1>1. <<>> \in Seq(Posts) /\ Len(<<>>) <= QueueMax
  BY SizesAssumption
<1> QED
  BY <1>1, QueueIs

LEMMA TypeInit == Init => TypeInv
<1> SUFFICES ASSUME Init
             PROVE  TypeInv
  OBVIOUS
<1>1. FlagTypes
  BY DEF Init, FlagTypes
<1>2. PostTypes
  BY SizesAssumption DEF Init, PostTypes, HandFull
<1>3. CountTypes
  BY SizesAssumption DEF Init, CountTypes
<1>4. PlaceTypes
  BY DEF Init, PlaceTypes
<1>5. QueueTypes
  BY NoPostsQueue DEF Init, QueueTypes, NoneEmpty
<1> QED
  BY <1>1, <1>2, <1>3, <1>4, <1>5 DEF TypeInv

\* The flags.
LEMMA FlagStep ==
  ASSUME FlagTypes, [Next]_vars
  PROVE  FlagTypes'
<1>1. CASE Receive \/ SendPost \/ HoldPost \/ ShowWaiting
  BY <1>1 DEF Receive, SendPost, HoldPost, ShowWaiting, worldVars, sessionVars, FlagTypes
<1>2. ASSUME NEW c \in Callers, TryLogin(c) \/ SendLogin(c) \/ GiveUp(c)
      PROVE  FlagTypes'
  BY <1>2 DEF TryLogin, SendLogin, GiveUp, worldVars, FlagTypes
<1>3. CASE TryLoginNow \/ ExpireLogins \/ Refresh
  BY <1>3 DEF TryLoginNow, ExpireLogins, Refresh, worldVars, FlagTypes
<1>4. CASE Disconnect \/ Connect \/ RestoreSession
  BY <1>4 DEF Disconnect, Connect, RestoreSession, worldVars, sessionVars, FlagTypes
<1>5. CASE TakeResult \/ FinishResult \/ Flush
  BY <1>5 DEF TakeResult, FinishResult, Flush, worldVars, sessionVars, FlagTypes
<1>6. CASE Silence \/ CoolDown \/ WindowPasses \/ ForgetPassword
  BY <1>6 DEF Silence, CoolDown, WindowPasses, ForgetPassword, worldVars, sessionVars, FlagTypes
<1>7. ASSUME NEW p \in Posts, PostAcked(p) \/ PostUnacked(p) \/ PostAckedLate(p)
      PROVE  FlagTypes'
  BY <1>7 DEF PostAcked, PostUnacked, PostAckedLate, worldVars, FlagTypes
<1>8. CASE UNCHANGED vars
  BY <1>8 DEF vars, worldVars, sessionVars, FlagTypes
<1> QED
  BY <1>1, <1>2, <1>3, <1>4, <1>5, <1>6, <1>7, <1>8 DEF Next

\* The counters, each below its bound.
LEMMA CountStep ==
  ASSUME CountTypes, [Next]_vars
  PROVE  CountTypes'
<1> USE SizesAssumption DEF CountTypes
<1>1. CASE Receive \/ SendPost \/ HoldPost \/ ShowWaiting
  BY <1>1 DEF Receive, SendPost, HoldPost, ShowWaiting, worldVars, sessionVars, resultVars
<1>2. ASSUME NEW c \in Callers, TryLogin(c) \/ SendLogin(c) \/ GiveUp(c)
      PROVE  CountTypes'
  BY <1>2 DEF TryLogin, SendLogin, GiveUp, worldVars, resultVars
<1>3. CASE TryLoginNow \/ ExpireLogins \/ Refresh
  BY <1>3 DEF TryLoginNow, ExpireLogins, Refresh, worldVars, resultVars
<1>4. CASE Disconnect \/ Connect \/ RestoreSession
  BY <1>4 DEF Disconnect, Connect, RestoreSession, worldVars, sessionVars, resultVars
<1>5. CASE TakeResult \/ FinishResult \/ Flush
  BY <1>5 DEF TakeResult, FinishResult, Flush, worldVars, sessionVars, resultVars
<1>6. CASE Silence \/ CoolDown \/ WindowPasses \/ ForgetPassword
  BY <1>6 DEF Silence, CoolDown, WindowPasses, ForgetPassword, worldVars, sessionVars, resultVars
<1>7. ASSUME NEW p \in Posts, PostAcked(p) \/ PostUnacked(p) \/ PostAckedLate(p)
      PROVE  CountTypes'
  BY <1>7 DEF PostAcked, PostUnacked, PostAckedLate, worldVars, resultVars
<1>8. CASE UNCHANGED vars
  BY <1>8 DEF vars, worldVars, sessionVars, resultVars
<1> QED
  BY <1>1, <1>2, <1>3, <1>4, <1>5, <1>6, <1>7, <1>8 DEF Next

\* The session, the verdict under way and the callers of tryRoomLogin.
LEMMA PlaceStep ==
  ASSUME PlaceTypes, [Next]_vars
  PROVE  PlaceTypes'
<1> USE DEF PlaceTypes, Goto, Callers
<1>1. CASE Receive \/ SendPost \/ HoldPost \/ ShowWaiting
  BY <1>1 DEF Receive, SendPost, HoldPost, ShowWaiting, sessionVars, resultVars
<1>2. ASSUME NEW c \in Callers, TryLogin(c) \/ SendLogin(c) \/ GiveUp(c)
      PROVE  PlaceTypes'
  BY <1>2 DEF TryLogin, SendLogin, GiveUp, resultVars
<1>3. CASE TryLoginNow \/ ExpireLogins \/ Refresh
  BY <1>3 DEF TryLoginNow, ExpireLogins, Refresh, resultVars
<1>4. CASE Disconnect \/ Connect \/ RestoreSession
  BY <1>4 DEF Disconnect, Connect, RestoreSession, sessionVars, resultVars
<1>5. CASE TakeResult \/ FinishResult \/ Flush
  BY <1>5 DEF TakeResult, FinishResult, Flush, sessionVars, resultVars, Verdicts
<1>6. CASE Silence \/ CoolDown \/ WindowPasses \/ ForgetPassword
  BY <1>6 DEF Silence, CoolDown, WindowPasses, ForgetPassword, sessionVars, resultVars
<1>7. ASSUME NEW p \in Posts, PostAcked(p) \/ PostUnacked(p) \/ PostAckedLate(p)
      PROVE  PlaceTypes'
  BY <1>7 DEF PostAcked, PostUnacked, PostAckedLate, resultVars
<1>8. CASE UNCHANGED vars
  BY <1>8 DEF vars, sessionVars, resultVars
<1> QED
  BY <1>1, <1>2, <1>3, <1>4, <1>5, <1>6, <1>7, <1>8 DEF Next

\* What flushRoomQueue puts on the air, and what it keeps.
LEMMA FlushTakes ==
  ASSUME QueueTypes, Flush
  PROVE  \E q \in flushes :
           /\ q \in Seq(Posts) /\ q # <<>> /\ Len(q) \in Nat /\ Len(q) <= QueueMax
           /\ Head(q) \in Posts /\ Transmit(Head(q))
           /\ \/ flushes' = (flushes \ {q}) \cup {Tail(q)} /\ Len(q) > 1
              \/ flushes' = flushes \ {q} /\ Tail(q) = <<>>
<1>1. PICK q \in flushes :
        /\ Transmit(Head(q))
        /\ flushes' = (flushes \ {q}) \cup (IF Len(q) > 1 THEN {Tail(q)} ELSE {})
  BY DEF Flush
<1>2. q \in Seq(Posts) /\ Len(q) <= QueueMax /\ q # <<>>
  BY <1>1, QueueIs DEF QueueTypes, NoneEmpty
<1>3. /\ Head(q) \in Posts /\ Tail(q) \in Seq(Posts) /\ Len(Tail(q)) = Len(q) - 1
      /\ Len(q) \in Nat \ {0}
  BY <1>2, HeadAndTail
<1>4. ~(Len(q) > 1) => Tail(q) = <<>>
  BY <1>3
<1> QED
  BY <1>1, <1>2, <1>3, <1>4

LEMMA PostStep ==
  ASSUME PostTypes, QueueTypes, [Next]_vars
  PROVE  PostTypes'
<1>1. CASE Receive \/ ShowWaiting
  BY <1>1, SizesAssumption DEF Receive, ShowWaiting, PostTypes, HandFull, Posts
<1>2. CASE SendPost
  BY <1>2, TransmitTypes, InHandIsPost DEF SendPost, PostTypes, HandFull
<1>3. CASE HoldPost
  BY <1>3, CrossedTypes DEF HoldPost, PostTypes, HandFull
<1>4. ASSUME NEW c \in Callers, GiveUp(c)
      PROVE  PostTypes'
  BY <1>4, CrossedTypes DEF GiveUp, PostTypes, HandFull
<1>5. CASE FinishResult
  BY <1>5, CrossedTypes DEF FinishResult, PostTypes, HandFull
<1>6. CASE Flush
  BY <1>6, FlushTakes, TransmitTypes DEF Flush, PostTypes, HandFull
<1>7. ASSUME NEW p \in Posts, PostAcked(p) \/ PostUnacked(p) \/ PostAckedLate(p)
      PROVE  PostTypes'
  BY <1>7 DEF PostAcked, PostUnacked, PostAckedLate, PostTypes, HandFull
<1>8. CASE UNCHANGED postVars
  BY <1>8 DEF postVars, PostTypes, HandFull
<1>9. CASE \/ \E c \in Callers : TryLogin(c) \/ SendLogin(c)
           \/ TryLoginNow \/ ExpireLogins \/ Refresh
           \/ Disconnect \/ Connect \/ RestoreSession \/ TakeResult
           \/ Silence \/ CoolDown \/ WindowPasses \/ ForgetPassword
           \/ UNCHANGED vars
  BY <1>8, <1>9 DEF TryLogin, SendLogin, TryLoginNow, ExpireLogins, Refresh, Disconnect,
     Connect, RestoreSession, TakeResult, Silence, CoolDown, WindowPasses, ForgetPassword, vars
<1> QED
  BY <1>1, <1>2, <1>3, <1>4, <1>5, <1>6, <1>7, <1>9 DEF Next

\* The steps that touch no post leave these alone.
PostsRest == UNCHANGED <<typed, hand, mark, aired, pending, mine, flushes, verdict>>

LEMMA PostsMove ==
  ASSUME [Next]_vars
  PROVE  \/ Receive \/ SendPost \/ HoldPost \/ ShowWaiting
         \/ TakeResult \/ FinishResult \/ Flush
         \/ \E c \in Callers : GiveUp(c)
         \/ PostsRest
<1>1. ASSUME NEW c \in Callers, TryLogin(c) \/ SendLogin(c)
      PROVE  PostsRest
  BY <1>1 DEF TryLogin, SendLogin, postVars, resultVars, PostsRest
<1>2. CASE \/ TryLoginNow \/ ExpireLogins \/ Refresh
           \/ Disconnect \/ Connect \/ RestoreSession
           \/ Silence \/ CoolDown \/ WindowPasses \/ ForgetPassword
           \/ UNCHANGED vars
  BY <1>2 DEF TryLoginNow, ExpireLogins, Refresh, Disconnect, Connect, RestoreSession, Silence,
     CoolDown, WindowPasses, ForgetPassword, vars, postVars, sessionVars, resultVars, PostsRest
<1>3. ASSUME NEW p \in Posts, PostAcked(p) \/ PostUnacked(p) \/ PostAckedLate(p)
      PROVE  PostsRest
  BY <1>3 DEF PostAcked, PostUnacked, PostAckedLate, resultVars, PostsRest
<1> QED
  BY <1>1, <1>2, <1>3 DEF Next

LEMMA QueueStep ==
  ASSUME PostTypes, QueueTypes, [Next]_vars
  PROVE  QueueTypes'
<1>1. CASE HoldPost
  <2>1. typed \in Posts
    BY <1>1, InHandIsPost DEF HoldPost
  <2>2. UNCHANGED <<mine, flushes>>
    BY <1>1 DEF HoldPost, resultVars
  <2>3. CASE pending' = Append(pending, typed) /\ Len(pending) < QueueMax
    <3>1. pending \in Seq(Posts) /\ Len(pending) \in Nat /\ QueueMax \in Nat
      BY QueueIs, SizesAssumption DEF QueueTypes
    <3>2. pending' \in Seq(Posts) /\ Len(pending') <= QueueMax
      BY <2>1, <2>3, <3>1, Joined
    <3> QED
      BY <2>2, <3>2, QueueIs DEF QueueTypes, NoneEmpty
  <2>4. CASE UNCHANGED pending
    BY <2>2, <2>4 DEF QueueTypes, NoneEmpty
  <2> QED
    BY <1>1, <2>3, <2>4 DEF HoldPost, sessionVars
<1>2. CASE TakeResult
  BY <1>2, NoPostsQueue DEF TakeResult, QueueTypes, NoneEmpty
<1>3. CASE FinishResult
  <2>1. UNCHANGED flushes \/ (mine # <<>> /\ flushes' = flushes \cup {mine})
    BY <1>3 DEF FinishResult
  <2>2. mine' = <<>> /\ pending' \in {pending, <<>>}
    BY <1>3 DEF FinishResult
  <2> QED
    BY <2>1, <2>2, NoPostsQueue DEF QueueTypes, NoneEmpty
<1>4. CASE Flush
  <2>1. PICK q \in flushes :
           /\ q \in Seq(Posts) /\ q # <<>> /\ Len(q) \in Nat /\ Len(q) <= QueueMax
           /\ \/ flushes' = (flushes \ {q}) \cup {Tail(q)} /\ Len(q) > 1
              \/ flushes' = flushes \ {q}
    BY <1>4, FlushTakes
  <2>a. Tail(q) \in Seq(Posts) /\ Len(Tail(q)) = Len(q) - 1
    BY <2>1, HeadAndTail
  <2>b. Len(Tail(q)) <= QueueMax /\ (Len(q) > 1 => Len(Tail(q)) # 0)
    BY <2>1, <2>a, SizesAssumption
  <2>2. Tail(q) \in Seq(Posts) /\ Len(Tail(q)) <= QueueMax /\ (Len(q) > 1 => Tail(q) # <<>>)
    BY <2>a, <2>b, NoPosts
  <2>3. Tail(q) \in Queues
    BY <2>2, QueueIs
  <2>4. UNCHANGED <<pending, mine>>
    BY <1>4 DEF Flush, sessionVars, resultVars
  <2> QED
    BY <2>1, <2>2, <2>3, <2>4 DEF QueueTypes, NoneEmpty
<1>5. ASSUME NEW c \in Callers, GiveUp(c)
      PROVE  QueueTypes'
  BY <1>5, NoPostsQueue DEF GiveUp, resultVars, QueueTypes, NoneEmpty
<1>6. CASE Receive \/ SendPost \/ ShowWaiting \/ PostsRest
  BY <1>6 DEF Receive, SendPost, ShowWaiting, sessionVars, resultVars, PostsRest, QueueTypes,
              NoneEmpty
<1> QED
  BY <1>1, <1>2, <1>3, <1>4, <1>5, <1>6, PostsMove

LEMMA TypeStep == TypeInv /\ [Next]_vars => TypeInv'
BY FlagStep, CountStep, PlaceStep, PostStep, QueueStep DEF TypeInv

\* The record of a room is always well formed, and the queue of held posts keeps
\* its cap whoever adds to it.
THEOREM TypeCorrect == Spec => []TypeOK
<1>1. Spec => []TypeInv
  BY TypeInit, TypeStep, PTL DEF Spec
<1>2. TypeInv => TypeOK
  BY TypeInvIs
<1> QED
  BY <1>1, <1>2, PTL

-----------------------------------------------------------------------------
(* Who has a post.  The queues hand it on under roomMu; discordLoop has it *)
(* alone until it has sent, held or crossed it.                            *)

\* Not typed yet, or not yet dealt with.
Fresh(p) == p > typed \/ (p = typed /\ hand \in {"send", "hold"})
Owned(p) == Held(p) \/ p \in ToSet(mine) \/ InFlush(p)

FreshIsFree ==
  \A p \in Posts : Fresh(p) => p \notin ToSet(aired) /\ "fail" \notin mark[p] /\ ~Owned(p)
Distinct ==
  IsInjective(pending) /\ IsInjective(mine) /\ \A q \in flushes : IsInjective(q)
Apart ==
  /\ ToSet(pending) \cap ToSet(mine) = {}
  /\ \A q \in flushes : ToSet(q) \cap (ToSet(pending) \cup ToSet(mine)) = {}
  /\ \A q, r \in flushes : q # r => ToSet(q) \cap ToSet(r) = {}

OwnerInv == TypeInv /\ FreshIsFree /\ Distinct /\ Apart /\ SentOnce

LEMMA OwnerInit == Init => OwnerInv
BY TypeInit, NoPosts DEF Init, OwnerInv, FreshIsFree, Distinct, Apart, SentOnce, Owned, Held, InFlush

LEMMA OwnerReceive ==
  ASSUME OwnerInv, Receive
  PROVE  FreshIsFree' /\ Distinct' /\ Apart' /\ SentOnce'
<1>1. UNCHANGED <<aired, pending, mine, flushes>>
  BY DEF Receive, sessionVars, resultVars
<1>2. \A p \in Posts : Owned(p)' <=> Owned(p)
  BY <1>1 DEF Owned, Held, InFlush
<1>3. typed \in Nat /\ typed + 1 \in Posts /\ typed' = typed + 1 /\ hand = "idle"
  BY SizesAssumption DEF OwnerInv, TypeInv, PostTypes, Receive, Posts
<1>4. \A p \in Posts : p # typed + 1 => mark'[p] = mark[p]
  BY <1>3 DEF Receive, OwnerInv, TypeInv, PostTypes
<1>7. Fresh(typed + 1)
  BY <1>3 DEF Fresh
<1>5. "fail" \in mark'[typed + 1] => hand' = "idle"
  BY <1>3, <1>7 DEF Receive, OwnerInv, TypeInv, PostTypes, FreshIsFree
<1>8. \A p \in Posts : Fresh(p)' => Fresh(p) /\ (p = typed + 1 => hand' # "idle")
  BY <1>3 DEF Fresh, Posts
<1>9. FreshIsFree'
  BY <1>1, <1>2, <1>4, <1>5, <1>8 DEF OwnerInv, FreshIsFree
<1>10. SentOnce'
  BY <1>1, <1>2, <1>3, <1>4, <1>7 DEF OwnerInv, FreshIsFree, SentOnce, Owned
<1> QED
  BY <1>1, <1>9, <1>10 DEF OwnerInv, Distinct, Apart

\* What a transmission does: the post goes on the air, or it is crossed.
LEMMA TransmitDoes ==
  ASSUME OwnerInv, NEW p \in Posts, Transmit(p), p \notin ToSet(aired)
  PROVE  /\ IsInjective(aired') /\ ToSet(aired') \subseteq ToSet(aired) \cup {p}
         /\ \A r \in Posts : "fail" \in mark'[r] => "fail" \in mark[r] \/ r = p
         /\ p \in ToSet(aired') \/ "fail" \in mark'[p]
         /\ \A r \in Posts : mark'[r] = mark[r] \/ (r = p /\ "fail" \in mark'[r])
         /\ ToSet(aired) \subseteq ToSet(aired')
<1>0. PostTypes /\ aired \in Seq(Posts) /\ IsInjective(aired)
  BY DEF OwnerInv, TypeInv, PostTypes, SentOnce
<1>1. CASE aired' = Append(aired, p) /\ UNCHANGED mark
  BY <1>0, <1>1, Joined
<1>2. CASE mark' = Crossed(<<p>>) /\ UNCHANGED aired
  <2>1. \A r \in Posts : mark'[r] = IF r = p THEN {"fail"} ELSE mark[r]
    BY <1>0, <1>2, CrossedTypes, OnePost
  <2> QED
    BY <1>0, <1>2, <2>1
<1> QED
  BY <1>1, <1>2 DEF Transmit

LEMMA OwnerSend ==
  ASSUME OwnerInv, SendPost
  PROVE  FreshIsFree' /\ Distinct' /\ Apart' /\ SentOnce'
<1>1. UNCHANGED <<typed, pending, mine, flushes>> /\ hand = "send" /\ hand' = "idle"
  BY DEF SendPost, sessionVars, resultVars
<1>2. \A p \in Posts : Owned(p)' <=> Owned(p)
  BY <1>1 DEF Owned, Held, InFlush
<1>3. typed \in Posts /\ typed \in Nat
  BY <1>1, InHandIsPost DEF OwnerInv, TypeInv, Posts
<1>4. Fresh(typed) /\ typed \notin ToSet(aired) /\ ~Owned(typed)
  BY <1>1, <1>3 DEF Fresh, OwnerInv, FreshIsFree
<1>5. /\ IsInjective(aired') /\ ToSet(aired') \subseteq ToSet(aired) \cup {typed}
      /\ \A r \in Posts : "fail" \in mark'[r] => "fail" \in mark[r] \/ r = typed
  BY <1>3, <1>4, TransmitDoes DEF SendPost
<1>6. \A p \in Posts : Fresh(p)' => Fresh(p) /\ p # typed
  BY <1>1, <1>3 DEF Fresh, Posts
<1>7. FreshIsFree'
  BY <1>2, <1>5, <1>6 DEF OwnerInv, FreshIsFree
<1>8. SentOnce'
  BY <1>2, <1>4, <1>5 DEF OwnerInv, SentOnce, Owned
<1> QED
  BY <1>1, <1>7, <1>8 DEF OwnerInv, Distinct, Apart

LEMMA OwnerHold ==
  ASSUME OwnerInv, HoldPost
  PROVE  FreshIsFree' /\ Distinct' /\ Apart' /\ SentOnce'
<1>1. UNCHANGED <<typed, aired, mine, flushes>> /\ hand = "hold" /\ hand' \in {"idle", "queued"}
  BY DEF HoldPost, sessionVars, resultVars
<1>3. typed \in Posts /\ typed \in Nat /\ PostTypes /\ pending \in Seq(Posts)
  BY <1>1, InHandIsPost, QueueIs DEF OwnerInv, TypeInv, Posts, QueueTypes
<1>4. Fresh(typed) /\ typed \notin ToSet(aired) /\ ~Owned(typed) /\ "fail" \notin mark[typed]
  BY <1>1, <1>3 DEF Fresh, OwnerInv, FreshIsFree
<1>6. \A p \in Posts : Fresh(p)' => Fresh(p) /\ p # typed
  BY <1>1, <1>3 DEF Fresh, Posts
<1>7. CASE mark' = Crossed(<<typed>>) /\ UNCHANGED pending
  <2>1. \A p \in Posts : mark'[p] = IF p = typed THEN {"fail"} ELSE mark[p]
    BY <1>3, <1>7, CrossedTypes, OnePost
  <2>2. \A p \in Posts : Owned(p)' <=> Owned(p)
    BY <1>1, <1>7 DEF Owned, Held, InFlush
  <2>3. FreshIsFree'
    BY <1>1, <1>6, <2>1, <2>2 DEF OwnerInv, FreshIsFree
  <2>4. SentOnce'
    BY <1>1, <1>4, <2>1, <2>2 DEF OwnerInv, SentOnce, Owned
  <2> QED
    BY <1>1, <1>7, <2>3, <2>4 DEF OwnerInv, Distinct, Apart
<1>8. CASE pending' = Append(pending, typed) /\ UNCHANGED mark
  <2>1. ToSet(pending') = ToSet(pending) \cup {typed} /\ IsInjective(pending')
    BY <1>3, <1>4, <1>8, Joined DEF OwnerInv, Distinct, Owned, Held
  <2>2. \A p \in Posts : Owned(p)' => Owned(p) \/ p = typed
    BY <1>1, <2>1 DEF Owned, Held, InFlush
  <2>3. FreshIsFree'
    BY <1>1, <1>6, <1>8, <2>2 DEF OwnerInv, FreshIsFree
  <2>4. SentOnce'
    BY <1>1, <1>4, <1>8, <2>2 DEF OwnerInv, SentOnce, Owned
  <2>5. Apart'
    BY <1>1, <1>4, <2>1 DEF OwnerInv, Apart, Owned, InFlush
  <2> QED
    BY <1>1, <2>1, <2>3, <2>4, <2>5 DEF OwnerInv, Distinct
<1> QED
  BY <1>7, <1>8 DEF HoldPost, sessionVars

LEMMA OwnerShow ==
  ASSUME OwnerInv, ShowWaiting
  PROVE  FreshIsFree' /\ Distinct' /\ Apart' /\ SentOnce'
<1>1. /\ UNCHANGED <<typed, aired, pending, mine, flushes>> /\ hand' = "idle"
      /\ mark' = [mark EXCEPT ![typed] = @ \cup {"wait"}]
  BY DEF ShowWaiting, sessionVars, resultVars
<1>2. \A p \in Posts : Owned(p)' <=> Owned(p)
  BY <1>1 DEF Owned, Held, InFlush
<1>3. \A p \in Posts : "fail" \in mark'[p] <=> "fail" \in mark[p]
  BY <1>1 DEF OwnerInv, TypeInv, PostTypes
<1>4. \A p \in Posts : Fresh(p)' => Fresh(p)
  BY <1>1 DEF Fresh
<1>5. FreshIsFree'
  BY <1>1, <1>2, <1>3, <1>4 DEF OwnerInv, FreshIsFree
<1>6. SentOnce'
  BY <1>1, <1>2, <1>3 DEF OwnerInv, SentOnce, Owned
<1> QED
  BY <1>1, <1>5, <1>6 DEF OwnerInv, Distinct, Apart

\* Posts that lose their owner may be crossed.
LEMMA LetGo ==
  ASSUME OwnerInv, UNCHANGED <<typed, hand, aired>>,
         \A p \in Posts : Owned(p)' => Owned(p),
         \A p \in Posts : "fail" \in mark'[p] => "fail" \in mark[p] \/ (Owned(p) /\ ~Owned(p)')
  PROVE  FreshIsFree' /\ SentOnce'
<1>1. \A p \in Posts : Fresh(p)' => Fresh(p)
  BY DEF Fresh
<1>2. FreshIsFree'
  BY <1>1 DEF OwnerInv, FreshIsFree
<1>3. SentOnce'
  BY DEF OwnerInv, SentOnce, Owned
<1> QED
  BY <1>2, <1>3

LEMMA OwnerGiveUp ==
  ASSUME OwnerInv, NEW c \in Callers, GiveUp(c)
  PROVE  FreshIsFree' /\ Distinct' /\ Apart' /\ SentOnce'
<1>1. /\ UNCHANGED <<typed, hand, aired, mine, flushes>> /\ pending' = <<>>
      /\ mark' = Crossed(pending)
  BY DEF GiveUp, resultVars
<1>2. \A p \in Posts : "fail" \in mark'[p] => "fail" \in mark[p] \/ p \in ToSet(pending)
  BY <1>1, CrossedTypes DEF OwnerInv, TypeInv
<1>3. \A p \in Posts : Owned(p)' => Owned(p) /\ p \notin ToSet(pending)
  BY <1>1, NoPosts DEF Owned, Held, InFlush, OwnerInv, Apart
<1>4. \A p \in ToSet(pending) : Owned(p)
  BY DEF Owned, Held
<1> QED
  BY <1>1, <1>2, <1>3, <1>4, LetGo, NoPosts DEF OwnerInv, Distinct, Apart

LEMMA OwnerTake ==
  ASSUME OwnerInv, TakeResult
  PROVE  FreshIsFree' /\ Distinct' /\ Apart' /\ SentOnce'
<1>1. UNCHANGED <<typed, hand, mark, aired, flushes>> /\ pending' = <<>> /\ mine' = pending
  BY DEF TakeResult, postVars
<1>2. \A p \in Posts : Owned(p)' => Owned(p)
  BY <1>1, NoPosts DEF Owned, Held, InFlush
<1> QED
  BY <1>1, <1>2, LetGo, NoPosts DEF OwnerInv, Distinct, Apart

LEMMA OwnerFinish ==
  ASSUME OwnerInv, FinishResult
  PROVE  FreshIsFree' /\ Distinct' /\ Apart' /\ SentOnce'
<1>1. UNCHANGED <<typed, hand, aired>> /\ mine' = <<>>
  BY DEF FinishResult
<1>2. CASE mark' = Crossed(pending) /\ pending' = <<>> /\ UNCHANGED flushes
  <2>1. \A p \in Posts : "fail" \in mark'[p] => "fail" \in mark[p] \/ p \in ToSet(pending)
    BY <1>2, CrossedTypes DEF OwnerInv, TypeInv
  <2>2. \A p \in Posts : Owned(p)' => Owned(p) /\ p \notin ToSet(pending)
    BY <1>1, <1>2, NoPosts DEF Owned, Held, InFlush, OwnerInv, Apart
  <2>3. \A p \in ToSet(pending) : Owned(p)
    BY DEF Owned, Held
  <2> QED
    BY <1>1, <1>2, <2>1, <2>2, <2>3, LetGo, NoPosts DEF OwnerInv, Distinct, Apart
<1>3. CASE mark' = Crossed(mine) /\ UNCHANGED <<pending, flushes>>
  <2>1. \A p \in Posts : "fail" \in mark'[p] => "fail" \in mark[p] \/ p \in ToSet(mine)
    BY <1>3, CrossedTypes DEF OwnerInv, TypeInv
  <2>2. \A p \in Posts : Owned(p)' => Owned(p) /\ p \notin ToSet(mine)
    BY <1>1, <1>3, NoPosts DEF Owned, Held, InFlush, OwnerInv, Apart
  <2>3. \A p \in ToSet(mine) : Owned(p)
    BY DEF Owned
  <2> QED
    BY <1>1, <1>3, <2>1, <2>2, <2>3, LetGo, NoPosts DEF OwnerInv, Distinct, Apart
<1>4. CASE /\ flushes' \in {flushes, flushes \cup {mine}}
           /\ UNCHANGED <<mark, pending>>
  <2>1. \A p \in Posts : Owned(p)' => Owned(p)
    BY <1>1, <1>4, NoPosts DEF Owned, Held, InFlush
  <2>2. Apart'
    BY <1>1, <1>4, NoPosts DEF OwnerInv, Apart
  <2>3. Distinct'
    BY <1>1, <1>4, NoPosts DEF OwnerInv, Distinct
  <2> QED
    BY <1>1, <1>4, <2>1, <2>2, <2>3, LetGo
<1> QED
  BY <1>2, <1>3, <1>4 DEF FinishResult

LEMMA OwnerFlush ==
  ASSUME OwnerInv, Flush
  PROVE  FreshIsFree' /\ Distinct' /\ Apart' /\ SentOnce'
<1>1. UNCHANGED <<typed, hand, pending, mine>>
  BY DEF Flush, sessionVars, resultVars
<1>2. PICK q \in flushes :
        /\ q \in Seq(Posts) /\ q # <<>> /\ Head(q) \in Posts /\ Transmit(Head(q))
        /\ \/ flushes' = (flushes \ {q}) \cup {Tail(q)}
           \/ flushes' = flushes \ {q} /\ Tail(q) = <<>>
  BY FlushTakes DEF OwnerInv, TypeInv
<1>3. /\ ToSet(q) = {Head(q)} \cup ToSet(Tail(q))
      /\ IsInjective(Tail(q)) /\ Head(q) \notin ToSet(Tail(q))
  BY <1>2, HeadAndTail DEF OwnerInv, Distinct
<1>4. PICK h \in Posts : h = Head(q)
  BY <1>2
<1>5. h \in ToSet(q) /\ Owned(h) /\ h \notin ToSet(aired)
  BY <1>2, <1>3, <1>4 DEF OwnerInv, SentOnce, Owned, InFlush
<1>6. /\ IsInjective(aired') /\ ToSet(aired') \subseteq ToSet(aired) \cup {h}
      /\ \A r \in Posts : "fail" \in mark'[r] => "fail" \in mark[r] \/ r = h
  BY <1>2, <1>4, <1>5, TransmitDoes
<1>7. \A r \in flushes' : r \in flushes \ {q} \/ (r = Tail(q) /\ ToSet(r) \subseteq ToSet(q))
  BY <1>2, <1>3
<1>8. ~Owned(h)'
  <2>1. h \notin ToSet(pending) /\ h \notin ToSet(mine)
    BY <1>2, <1>5 DEF OwnerInv, Apart
  <2>2. \A r \in flushes \ {q} : h \notin ToSet(r)
    BY <1>2, <1>5 DEF OwnerInv, Apart
  <2> QED
    BY <1>1, <1>3, <1>4, <1>7, <2>1, <2>2 DEF Owned, Held, InFlush
<1>9. \A p \in Posts : Owned(p)' => Owned(p)
  BY <1>1, <1>2, <1>7 DEF Owned, Held, InFlush
<1>10. \A p \in Posts : Fresh(p)' => Fresh(p)
  BY <1>1 DEF Fresh
<1>11. FreshIsFree'
  BY <1>5, <1>6, <1>9, <1>10 DEF OwnerInv, FreshIsFree
<1>12. SentOnce'
  BY <1>6, <1>8, <1>9 DEF OwnerInv, SentOnce, Owned
<1>13. Distinct'
  BY <1>1, <1>3, <1>7 DEF OwnerInv, Distinct
<1>14. Apart'
  BY <1>1, <1>2, <1>7 DEF OwnerInv, Apart
<1> QED
  BY <1>11, <1>12, <1>13, <1>14

LEMMA OwnerStep == OwnerInv /\ [Next]_vars => OwnerInv'
<1> SUFFICES ASSUME OwnerInv, [Next]_vars
             PROVE  OwnerInv'
  OBVIOUS
<1>1. TypeInv'
  BY TypeStep DEF OwnerInv
<1>2. CASE PostsRest
  BY <1>1, <1>2 DEF PostsRest, OwnerInv, FreshIsFree, Distinct, Apart, SentOnce, Fresh, Owned,
                    Held, InFlush
<1> QED
  BY <1>1, <1>2, PostsMove, OwnerReceive, OwnerSend, OwnerHold, OwnerShow, OwnerGiveUp, OwnerTake,
     OwnerFinish, OwnerFlush DEF OwnerInv

\* A post has one owner, so it is put on the air once at most, and never after it
\* was crossed: a post held, taken by a verdict, being flushed or crossed by a
\* give-up is never two of these.
THEOREM PostsSentOnce == Spec => []SentOnce
<1>1. Spec => []OwnerInv
  BY OwnerInit, OwnerStep, PTL DEF Spec
<1>2. OwnerInv => SentOnce
  BY DEF OwnerInv
<1> QED
  BY <1>1, <1>2, PTL

-----------------------------------------------------------------------------
(* No post is forgotten, where the room rejects no password.               *)

\* The queue of a verdict is empty unless one is being handled.
TakenForVerdict == verdict = "none" => mine = <<>>
NeverRejected == verdict # "rejected"

\* A post is on the air, owned or crossed: what was so stays so.
Placed(p) == p \in ToSet(aired) \/ Owned(p) \/ "fail" \in mark[p]
Remembered ==
  \A p \in Posts :
    mark[p] = {"wait"} \/ (p = typed /\ hand = "queued") =>
      Placed(p) \/ (p = typed /\ hand = "send")

HeldInv == OwnerInv /\ TakenForVerdict /\ NeverRejected /\ Remembered

LEMMA HeldInit == Init => HeldInv
BY OwnerInit, NoPosts DEF Init, HeldInv, TakenForVerdict, NeverRejected, Remembered

LEMMA PlacedStays ==
  ASSUME HeldInv, [Next]_vars, NEW p \in Posts, Placed(p)
  PROVE  Placed(p)'
<1> USE DEF HeldInv
<1>0. PostTypes
  BY DEF OwnerInv, TypeInv
<1>1. CASE Receive
  <2>1. UNCHANGED <<aired, pending, mine, flushes>>
    BY <1>1 DEF Receive, sessionVars, resultVars
  <2>2. typed + 1 \in Posts /\ Fresh(typed + 1)
    BY <1>0, <1>1, SizesAssumption DEF PostTypes, Receive, Posts, Fresh
  <2>3. p # typed + 1
    BY <2>2 DEF Placed, OwnerInv, FreshIsFree
  <2>4. mark'[p] = mark[p]
    BY <1>0, <1>1, <2>3 DEF Receive, PostTypes
  <2> QED
    BY <2>1, <2>4 DEF Placed, Owned, Held, InFlush
<1>2. CASE SendPost
  <2>1. UNCHANGED <<pending, mine, flushes>> /\ typed \in Posts /\ Transmit(typed)
    BY <1>0, <1>2, InHandIsPost DEF SendPost, sessionVars, resultVars
  <2>2. typed \notin ToSet(aired)
    BY <1>2, <2>1 DEF OwnerInv, FreshIsFree, Fresh, SendPost
  <2>3. /\ \A r \in Posts : mark'[r] = mark[r] \/ (r = typed /\ "fail" \in mark'[r])
        /\ ToSet(aired) \subseteq ToSet(aired')
    BY <2>1, <2>2, TransmitDoes
  <2> QED
    BY <2>1, <2>3 DEF Placed, Owned, Held, InFlush
<1>3. CASE HoldPost
  <2>1. UNCHANGED <<aired, mine, flushes>> /\ typed \in Posts /\ pending \in Seq(Posts)
    BY <1>0, <1>3, InHandIsPost, QueueIs DEF HoldPost, resultVars, OwnerInv, TypeInv, QueueTypes
  <2>2. "fail" \in mark[p] => "fail" \in mark'[p]
    BY <1>0, <1>3, CrossedTypes DEF HoldPost
  <2>3. ToSet(pending) \subseteq ToSet(pending')
    BY <1>3, <2>1, Joined DEF HoldPost, sessionVars
  <2> QED
    BY <2>1, <2>2, <2>3 DEF Placed, Owned, Held, InFlush
<1>4. CASE ShowWaiting
  BY <1>0, <1>4 DEF ShowWaiting, sessionVars, resultVars, PostTypes, Placed, Owned, Held, InFlush
<1>5. ASSUME NEW c \in Callers, GiveUp(c)
      PROVE  Placed(p)'
  BY <1>0, <1>5, CrossedTypes DEF GiveUp, resultVars, Placed, Owned, Held, InFlush
<1>6. CASE TakeResult
  <2>1. UNCHANGED <<mark, aired, flushes>> /\ mine' = pending /\ mine = <<>>
    BY <1>6 DEF TakeResult, postVars, TakenForVerdict
  <2> QED
    BY <2>1, NoPosts DEF Placed, Owned, Held, InFlush
<1>7. CASE FinishResult
  <2>1. UNCHANGED aired
    BY <1>7 DEF FinishResult
  <2>2. CASE mark' = Crossed(mine) /\ UNCHANGED <<pending, flushes>>
    BY <1>0, <2>1, <2>2, CrossedTypes DEF Placed, Owned, Held, InFlush
  <2>3. CASE /\ flushes' = IF mine = <<>> THEN flushes ELSE flushes \cup {mine}
             /\ UNCHANGED <<mark, pending>>
    BY <2>1, <2>3, NoPosts DEF Placed, Owned, Held, InFlush
  <2> QED
    BY <1>7, <2>2, <2>3 DEF FinishResult, NeverRejected
<1>8. CASE Flush
  <2>1. UNCHANGED <<pending, mine>>
    BY <1>8 DEF Flush, sessionVars, resultVars
  <2>2. PICK q \in flushes :
          /\ q \in Seq(Posts) /\ q # <<>> /\ Head(q) \in Posts /\ Transmit(Head(q))
          /\ \/ flushes' = (flushes \ {q}) \cup {Tail(q)}
             \/ flushes' = flushes \ {q} /\ Tail(q) = <<>>
    BY <1>8, FlushTakes DEF OwnerInv, TypeInv
  <2>3. ToSet(q) = {Head(q)} \cup ToSet(Tail(q))
    BY <2>2, HeadAndTail
  <2>4. Head(q) \notin ToSet(aired)
    BY <2>2, <2>3 DEF OwnerInv, SentOnce, InFlush
  <2>5. PICK h \in Posts : h = Head(q)
    BY <2>2
  <2>6. /\ h \in ToSet(aired') \/ "fail" \in mark'[h]
        /\ \A r \in Posts : mark'[r] = mark[r] \/ (r = h /\ "fail" \in mark'[r])
        /\ ToSet(aired) \subseteq ToSet(aired')
    BY <2>2, <2>4, <2>5, TransmitDoes
  <2>7. InFlush(p) => InFlush(p)' \/ p = h
    BY <2>2, <2>3, <2>5, NoPosts DEF InFlush
  <2> QED
    BY <2>1, <2>6, <2>7 DEF Placed, Owned, Held
<1>9. CASE PostsRest
  BY <1>9 DEF PostsRest, Placed, Owned, Held, InFlush
<1> QED
  BY <1>1, <1>2, <1>3, <1>4, <1>5, <1>6, <1>7, <1>8, <1>9, PostsMove

LEMMA VerdictStep ==
  ASSUME HeldInv, "rejected" \notin Faults, [Next]_vars
  PROVE  TakenForVerdict' /\ NeverRejected'
<1> USE DEF HeldInv, TakenForVerdict, NeverRejected
<1>1. CASE TakeResult
  BY <1>1 DEF TakeResult, Verdicts
<1>2. CASE FinishResult
  BY <1>2 DEF FinishResult
<1>3. CASE PostsRest
  BY <1>3 DEF PostsRest
<1>4. CASE \/ Receive \/ SendPost \/ HoldPost \/ ShowWaiting \/ Flush
           \/ \E c \in Callers : GiveUp(c)
  BY <1>4 DEF Receive, SendPost, HoldPost, ShowWaiting, Flush, GiveUp, resultVars
<1> QED
  BY <1>1, <1>2, <1>3, <1>4, PostsMove

LEMMA RememberedStep ==
  ASSUME HeldInv, [Next]_vars
  PROVE  Remembered'
<1> USE DEF HeldInv
<1>0. PostTypes
  BY DEF OwnerInv, TypeInv
<1> SUFFICES ASSUME NEW p \in Posts,
                    mark'[p] = {"wait"} \/ (p = typed' /\ hand' = "queued")
             PROVE  Placed(p)' \/ (p = typed' /\ hand' = "send")
  BY DEF Remembered
<1>1. CASE Placed(p)
  BY <1>1, PlacedStays
<1>2. CASE Receive
  <2>1. hand' # "queued"
    BY <1>2 DEF Receive
  <2>2. p = typed + 1 => \/ mark'[p] = mark[p]
                         \/ "fail" \in mark'[p]
                         \/ p = typed' /\ hand' = "send"
    BY <1>0, <1>2 DEF Receive, PostTypes
  <2>3. p # typed + 1 => mark'[p] = mark[p]
    BY <1>0, <1>2 DEF Receive, PostTypes
  <2>4. hand = "idle"
    BY <1>2 DEF Receive
  <2> QED
    BY <1>1, <2>1, <2>2, <2>3, <2>4 DEF Remembered
<1>3. CASE SendPost
  <2>1. typed \in Posts /\ Transmit(typed) /\ hand = "send" /\ hand' = "idle"
    BY <1>0, <1>3, InHandIsPost DEF SendPost
  <2>2. typed \notin ToSet(aired)
    BY <2>1 DEF OwnerInv, FreshIsFree, Fresh
  <2>3. /\ typed \in ToSet(aired') \/ "fail" \in mark'[typed]
        /\ \A r \in Posts : mark'[r] = mark[r] \/ (r = typed /\ "fail" \in mark'[r])
    BY <2>1, <2>2, TransmitDoes
  <2>5. CASE p = typed
    BY <2>3, <2>5 DEF Placed
  <2>6. CASE p # typed
    BY <1>1, <2>1, <2>3, <2>6 DEF Remembered
  <2> QED
    BY <2>5, <2>6
<1>4. CASE HoldPost
  <2>1. typed \in Posts /\ pending \in Seq(Posts) /\ UNCHANGED typed /\ hand = "hold"
    BY <1>0, <1>4, InHandIsPost, QueueIs DEF HoldPost, OwnerInv, TypeInv, QueueTypes
  <2>2. \/ pending' = Append(pending, typed) /\ UNCHANGED mark
        \/ mark' = Crossed(<<typed>>) /\ hand' = "idle"
    BY <1>4 DEF HoldPost
  <2>3. CASE pending' = Append(pending, typed) /\ UNCHANGED mark
    <3>2. CASE p = typed
      BY <2>1, <2>3, <3>2, Joined DEF Placed, Owned, Held
    <3>3. CASE p # typed
      BY <1>1, <2>1, <2>3, <3>3 DEF Remembered
    <3> QED
      BY <3>2, <3>3
  <2>4. CASE mark' = Crossed(<<typed>>) /\ hand' = "idle"
    <3>1. \A r \in Posts : mark'[r] = IF r = typed THEN {"fail"} ELSE mark[r]
      BY <1>0, <2>1, <2>4, CrossedTypes, OnePost
    <3>2. p # typed /\ mark[p] = {"wait"}
      BY <2>1, <2>4, <3>1
    <3> QED
      BY <1>1, <3>2 DEF Remembered
  <2> QED
    BY <2>2, <2>3, <2>4
<1>5. CASE ShowWaiting
  <2>1. hand = "queued" /\ hand' = "idle" /\ mark' = [mark EXCEPT ![typed] = @ \cup {"wait"}]
    BY <1>5 DEF ShowWaiting
  <2>2. p # typed => mark'[p] = mark[p]
    BY <1>0, <2>1 DEF PostTypes
  <2> QED
    BY <1>1, <2>1, <2>2 DEF Remembered
<1>6. CASE \/ TakeResult \/ FinishResult \/ Flush \/ PostsRest
           \/ \E c \in Callers : GiveUp(c)
  <2>1. UNCHANGED <<typed, hand>>
    BY <1>6 DEF TakeResult, FinishResult, Flush, PostsRest, GiveUp, postVars
  <2>2. mark'[p] = mark[p] \/ "fail" \in mark'[p]
    <3>1. CASE TakeResult \/ PostsRest
      BY <3>1 DEF TakeResult, PostsRest, postVars
    <3>2. CASE FinishResult
      BY <1>0, <3>2, CrossedTypes DEF FinishResult
    <3>3. ASSUME NEW c \in Callers, GiveUp(c)
          PROVE  mark'[p] = mark[p] \/ "fail" \in mark'[p]
      BY <1>0, <3>3, CrossedTypes DEF GiveUp
    <3>4. CASE Flush
      <4>1. PICK r \in Posts : Transmit(r)
        BY <3>4, FlushTakes DEF OwnerInv, TypeInv
      <4> QED
        BY <1>0, <4>1, CrossedTypes, OnePost DEF Transmit
    <3> QED
      BY <1>6, <3>1, <3>2, <3>3, <3>4
  <2>3. CASE mark'[p] = mark[p]
    BY <1>1, <2>1, <2>3 DEF Remembered
  <2>4. CASE "fail" \in mark'[p]
    BY <2>4 DEF Placed
  <2> QED
    BY <2>2, <2>3, <2>4
<1> QED
  BY <1>2, <1>3, <1>4, <1>5, <1>6, PostsMove

\* Where the room rejects no password, a post that wears the hourglass alone is on
\* the air, held, taken by a verdict, being flushed or in discordLoop's hand,
\* whatever else goes wrong.  (A rejection loses the posts its verdict took.)
THEOREM PostsRemembered ==
  ASSUME "rejected" \notin Faults
  PROVE  Spec => []NoPostForgotten
<1>1. HeldInv /\ [Next]_vars => HeldInv'
  BY OwnerStep, VerdictStep, RememberedStep DEF HeldInv
<1>2. Spec => []HeldInv
  BY <1>1, HeldInit, PTL DEF Spec
<1>3. HeldInv => NoPostForgotten
  BY DEF HeldInv, Remembered, Placed, Owned, NoPostForgotten, InHand
<1> QED
  BY <1>2, <1>3, PTL
=============================================================================

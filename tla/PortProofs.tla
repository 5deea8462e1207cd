----------------------------- MODULE PortProofs -----------------------------
(***************************************************************************)
(* Theorems about CommandPort, for any number of askers, messages, slots   *)
(* and late answers: the session's state is well formed, a slot never gets *)
(* the name of another, only late answers cost messages, and the port      *)
(* keeps the contract of PortContract with its callers.                    *)
(***************************************************************************)
EXTENDS CommandPort, TLAPS, FiniteSetTheorems, SequenceTheorems

BootKinds == {"self", "device", "time", "clock"}
CommandKinds == AskKinds \union BootKinds \union {"sync"}

\* Frames: any at all, commands as written to the node, what the node pushes, and
\* what waits in the reply queue.
AnyFrame == [code : Codes \union CommandKinds, item : Int, own : BOOLEAN]
Written == [code : CommandKinds, item : Slots \union {Nothing}, own : BOOLEAN]
Pushed ==
  {f \in AnyFrame : /\ f.code \in Codes /\ f.item \in Items
                    /\ f.code = "Waiting" => ~f.own
                    /\ f.code = "Message" => f.item \in Messages}
Replied == {f \in Pushed : f.code # "Waiting"}

\* The answer somebody waits for, and the answers nobody waits for any more.
Mine == {f \in AnyFrame : f.own}
Stray == {f \in AnyFrame : ~f.own /\ f.code # "Waiting"}

Count(frames, kind) == Cardinality({i \in DOMAIN frames : frames[i] \in kind})

AnyCommand == [kind : CommandKinds \union {"none"}, slot : Int]

\* What each caller may ask.
Request(c, q) ==
  \/ c = Boot /\ q.kind \in BootKinds /\ q.slot = Nothing
  \/ c = Drain /\ q.kind = "sync" /\ q.slot = Nothing
  \/ /\ c \in Askers /\ q.kind \in Kinds /\ q.slot \in Slots \union {Nothing}
     /\ q.kind = "channel" <=> q.slot # Nothing

FrameShape ==
  /\ queue \in Seq(Messages) /\ arrived \in Nat
  /\ atNode \in Seq(Written) /\ wire \in Seq(Pushed) /\ replies \in Seq(Replied)
  /\ Len(replies) <= ReplyCap

CallerShape ==
  /\ holder \in Callers \union {Nobody} /\ closed \in BOOLEAN
  /\ command \in [Callers -> AnyCommand]
  /\ \A c \in Callers : Idle(c) \/ Request(c, command[c])
  /\ tries \in [Callers -> 0 .. 2]
  /\ stage \in 1 .. Len(Steps) + 1
  /\ ~Idle(Boot) => stage <= Len(Steps)

RecordShape ==
  /\ channels \in [Slots -> Slots \union {Nothing}]
  /\ lost \subseteq Messages
  /\ late \in Nat

PortShape == FrameShape /\ CallerShape /\ RecordShape

\* The frames that are awaited, and the strays: on their way, and in the queue.
MineOut == Count(atNode, Mine) + Count(wire, Mine)
MineIn == Count(replies, Mine)
StraysOut == Count(atNode, Stray) + Count(wire, Stray)
StraysIn == Count(replies, Stray)

\* At most one answer is awaited, and by the holder of the lock.
Awaited ==
  /\ MineOut + MineIn <= 1
  /\ holder = Nobody => MineOut + MineIn = 0
  /\ closed => MineOut = 0
  /\ holder # Nobody => ~Idle(holder)

\* An answer that fits a command ends it; only a drain is answered by a message.
Fits(f) ==
  /\ Collect(command[holder].kind, command[holder].slot, f) # "skip"
  /\ f.code = "Message" => holder = Drain

\* The awaited answer fits.
Fitting ==
  /\ \A i \in DOMAIN atNode : atNode[i].own =>
       atNode[i].code = command[holder].kind /\ atNode[i].item = command[holder].slot
  /\ \A frames \in {wire, replies} : \A i \in DOMAIN frames : frames[i].own => Fits(frames[i])

StraysLate == ~closed => Strays <= late

PortInv == PortShape /\ Awaited /\ Fitting /\ StraysLate /\ SlotsTellTheTruth

\* What l lost messages have cost and the strays may still cost, o on their way and
\* i in the queue: the message each of them carries and, while one of the m + n
\* awaited answers has yet to come, the answer that finds the queue full of them.
Bill(l, o, i, m, n) == l + 2 * o + i + (IF m + n = 0 THEN 0 ELSE i)

Cost == Bill(Cardinality(lost), StraysOut, StraysIn, MineOut, MineIn)

Paid == ~(closed /\ holder = Nobody) => Cost <= 2 * late
LossInv == Paid /\ LossBounded
-----------------------------------------------------------------------------
(* Counting frames. *)

LEMMA CountType ==
  ASSUME NEW F, NEW s \in Seq(F), NEW T
  PROVE  /\ Count(s, T) \in Nat /\ Count(s, T) <= Len(s)
         /\ Count(s, T) = 0 <=> \A i \in DOMAIN s : s[i] \notin T
<1> DEFINE P == {i \in DOMAIN s : s[i] \in T}
<1>1. DOMAIN s = 1 .. Len(s) /\ Len(s) \in Nat
  OBVIOUS
<1>2. IsFiniteSet(1 .. Len(s)) /\ Cardinality(1 .. Len(s)) = Len(s)
  BY <1>1, FS_Interval
<1>3. P \in SUBSET (1 .. Len(s))
  BY <1>1
<1>4. IsFiniteSet(P) /\ Cardinality(P) <= Len(s)
  BY <1>2, <1>3, FS_Subset
<1>5. Cardinality(P) \in Nat
  BY <1>4, FS_CardinalityType
<1>6. Cardinality(P) = 0 <=> P = {}
  BY <1>4, FS_EmptySet
<1> QED BY <1>4, <1>5, <1>6 DEF Count

LEMMA CountEmpty ==
  ASSUME NEW T
  PROVE  Count(<<>>, T) = 0
<1>1. {i \in DOMAIN <<>> : <<>>[i] \in T} = {}
  OBVIOUS
<1> QED BY <1>1, FS_EmptySet DEF Count

LEMMA CountAppend ==
  ASSUME NEW F, NEW s \in Seq(F), NEW f \in F, NEW T
  PROVE  Count(Append(s, f), T) = Count(s, T) + (IF f \in T THEN 1 ELSE 0)
<1> DEFINE v == Append(s, f)
           P == {i \in DOMAIN s : s[i] \in T}
           Q == {i \in DOMAIN v : v[i] \in T}
<1>1. /\ Len(s) \in Nat /\ DOMAIN s = 1 .. Len(s) /\ DOMAIN v = 1 .. Len(s) + 1
      /\ v[Len(s) + 1] = f /\ \A i \in 1 .. Len(s) : v[i] = s[i]
  OBVIOUS
<1> HIDE DEF v
<1>2. Q = IF f \in T THEN P \union {Len(s) + 1} ELSE P
  BY <1>1
<1>3. IsFiniteSet(1 .. Len(s)) /\ P \in SUBSET (1 .. Len(s)) /\ Len(s) + 1 \notin P
  BY <1>1, FS_Interval
<1>4. IsFiniteSet(P)
  BY <1>3, FS_Subset
<1>5. Cardinality(P \union {Len(s) + 1}) = Cardinality(P) + 1 /\ Cardinality(P) \in Nat
  BY <1>3, <1>4, FS_AddElement, FS_CardinalityType
<1>6. Count(s, T) = Cardinality(P) /\ Count(v, T) = Cardinality(Q)
  BY DEF Count
<1> HIDE DEF P, Q
<1>7. Cardinality(Q) = Cardinality(P) + (IF f \in T THEN 1 ELSE 0)
  BY <1>2, <1>5
<1> QED BY <1>6, <1>7 DEF v

LEMMA CountTail ==
  ASSUME NEW F, NEW s \in Seq(F), s # <<>>, NEW T
  PROVE  Count(s, T) = Count(Tail(s), T) + (IF Head(s) \in T THEN 1 ELSE 0)
<1> DEFINE t == Tail(s)
           P == {i \in DOMAIN s : s[i] \in T}
           Q == {i \in DOMAIN t : t[i] \in T}
           R == P \ {1}
           up == [i \in Q |-> i + 1]
<1>1. /\ Len(s) \in Nat \ {0} /\ DOMAIN s = 1 .. Len(s) /\ DOMAIN t = 1 .. Len(s) - 1
      /\ Head(s) = s[1] /\ \A i \in 1 .. Len(s) - 1 : t[i] = s[i + 1]
  OBVIOUS
<1> HIDE DEF t
<1>2. IsFiniteSet(1 .. Len(s)) /\ P \in SUBSET (1 .. Len(s))
  BY <1>1, FS_Interval
<1>3. IsFiniteSet(P)
  BY <1>2, FS_Subset
<1>4. /\ IsFiniteSet(R) /\ Cardinality(P) \in Nat
      /\ Cardinality(R) = IF 1 \in P THEN Cardinality(P) - 1 ELSE Cardinality(P)
  BY <1>3, FS_RemoveElement, FS_CardinalityType
<1>5. up \in [Q -> R] /\ \A i, j \in Q : up[i] = up[j] => i = j
  BY <1>1
<1>6. ASSUME NEW j \in R PROVE \E i \in Q : up[i] = j
  <2>1. j - 1 \in Q /\ up[j - 1] = j
    BY <1>1
  <2> QED BY <2>1
<1>7. up \in Injection(Q, R) /\ up \in Surjection(Q, R)
  BY <1>5, <1>6 DEF Injection, IsInjective, Surjection
<1>8. IsFiniteSet(Q) /\ Cardinality(Q) = Cardinality(R)
  BY <1>4, <1>7, FS_Injection
<1>9. 1 \in P <=> Head(s) \in T
  BY <1>1
<1>10. Count(s, T) = Cardinality(P) /\ Count(t, T) = Cardinality(Q)
  BY DEF Count
<1> HIDE DEF P, Q, R
<1>11. Cardinality(P) = Cardinality(Q) + (IF Head(s) \in T THEN 1 ELSE 0)
  BY <1>4, <1>8, <1>9
<1> QED BY <1>10, <1>11 DEF t

LEMMA CountOrphan ==
  ASSUME NEW F, F \subseteq AnyFrame, NEW s \in Seq(F),
         \A i \in DOMAIN s : s[i].own => s[i].code # "Waiting"
  PROVE  /\ Count(Orphan(s), Mine) = 0
         /\ Count(Orphan(s), Stray) = Count(s, Stray) + Count(s, Mine)
<1> DEFINE o == Orphan(s)
           M == {i \in DOMAIN s : s[i] \in Mine}
           S == {i \in DOMAIN s : s[i] \in Stray}
<1>0. /\ Len(s) \in Nat /\ DOMAIN s = 1 .. Len(s)
      /\ \A i \in 1 .. Len(s) : s[i] \in AnyFrame
  OBVIOUS
<1>1. /\ Len(s) \in Nat /\ DOMAIN s = 1 .. Len(s) /\ DOMAIN o = 1 .. Len(s)
      /\ \A i \in 1 .. Len(s) : s[i] \in AnyFrame /\ o[i] = [s[i] EXCEPT !.own = FALSE]
  BY <1>0 DEF Orphan
<1> HIDE DEF o
<1>2. \A i \in 1 .. Len(s) : o[i] \in AnyFrame /\ ~o[i].own /\ o[i].code = s[i].code
  BY <1>1 DEF AnyFrame
<1>3. {i \in DOMAIN o : o[i] \in Mine} = {}
  BY <1>1, <1>2 DEF Mine
<1>4. {i \in DOMAIN o : o[i] \in Stray} = S \union M
  BY <1>1, <1>2 DEF Mine, Stray
<1>5. S \intersect M = {}
  BY DEF Mine, Stray
<1>6. IsFiniteSet(1 .. Len(s))
  BY <1>0, FS_Interval
<1>7. IsFiniteSet(S) /\ IsFiniteSet(M)
  <2>1. S \in SUBSET (1 .. Len(s)) /\ M \in SUBSET (1 .. Len(s))
    BY <1>0
  <2> QED BY <1>6, <2>1, FS_Subset
<1>8. Cardinality(S \union M) = Cardinality(S) + Cardinality(M)
  <2>1. /\ Cardinality(S \union M) = Cardinality(S) + Cardinality(M) - Cardinality(S \intersect M)
        /\ Cardinality(S) \in Nat /\ Cardinality(M) \in Nat
    BY <1>7, FS_Union, FS_CardinalityType
  <2>2. Cardinality(S \intersect M) = 0
    BY <1>5, FS_EmptySet
  <2> QED BY <2>1, <2>2
<1> QED BY <1>3, <1>4, <1>8, FS_EmptySet DEF Count, o
-----------------------------------------------------------------------------
(* The shape of the state. *)

LEMMA StepKinds == Len(Steps) = 4 /\ \A i \in 1 .. 4 : Steps[i] \in BootKinds
  BY DEF Steps, BootKinds

LEMMA Apart == Boot \in Callers /\ Drain \in Callers /\ Boot # Drain /\ Nobody \notin Callers
               /\ Boot \notin Askers /\ Drain \notin Askers /\ Askers \subseteq Callers
  BY PortAssumption DEF Callers, Boot, Drain, Nobody

\* A caller that asks something is not idle.
LEMMA RequestNotIdle ==
  ASSUME NEW c, NEW q, Request(c, q)
  PROVE  q # NoCommand
<1>1. q.kind \in AskKinds \union BootKinds \union {"sync"}
  BY PortAssumption DEF Request
<1>2. NoCommand.kind \notin AskKinds \union BootKinds \union {"sync"}
  BY DEF NoCommand, AskKinds, BootKinds
<1> QED BY <1>1, <1>2

LEMMA RequestWritten ==
  ASSUME NEW c, NEW q, Request(c, q)
  PROVE  Frame(q.kind, q.slot, TRUE) \in Written
<1>1. q.kind \in CommandKinds /\ q.slot \in Slots \union {Nothing}
  BY PortAssumption DEF Request, CommandKinds
<1> QED BY <1>1 DEF Frame, Written

LEMMA Subframes == Written \subseteq AnyFrame /\ Pushed \subseteq AnyFrame
                   /\ Replied \subseteq AnyFrame /\ Replied \subseteq Pushed
<1>1. Slots \union {Nothing} \subseteq Int
  BY PortAssumption DEF Slots, Nothing
<1>2. Written \subseteq AnyFrame
  BY <1>1 DEF Written, AnyFrame
<1> QED BY <1>2 DEF Pushed, Replied

\* What the node answers fits what it was asked.
LEMMA AnswerFits ==
  ASSUME NEW c \in Written, queue \in Seq(Messages), NEW f \in AnswersTo(c)
  PROVE  /\ f \in Pushed /\ f.code # "Waiting" /\ f.own = c.own
         /\ Collect(c.code, c.item, f) # "skip"
         /\ f.code = "Message" => c.code = "sync"
<1>1. c.code \in CommandKinds /\ c.item \in Slots \union {Nothing} /\ c.own \in BOOLEAN
  BY DEF Written
<1>2. Items \subseteq Int /\ Nothing \in Items /\ Slots \subseteq Items /\ Messages \subseteq Items
  BY PortAssumption DEF Items, Slots, Messages, Nothing
<1>3. CASE c.code = "sync"
  <2>1. CASE queue = <<>>
    <3>1. f = [code |-> "NoMore", item |-> Nothing, own |-> c.own]
      BY <1>3, <2>1 DEF AnswersTo, Frame
    <3> QED BY <1>1, <1>2, <1>3, <3>1 DEF Pushed, AnyFrame, Codes, Collect, Accepts
  <2>2. CASE queue # <<>>
    <3>1. Head(queue) \in Messages
      BY <2>2, HeadTailProperties
    <3>2. f = [code |-> "Message", item |-> Head(queue), own |-> c.own]
      BY <1>3, <2>2 DEF AnswersTo, Frame
    <3> QED BY <1>1, <1>2, <1>3, <3>1, <3>2 DEF Pushed, AnyFrame, Codes, Collect, Accepts
  <2> QED BY <2>1, <2>2
<1>4. CASE c.code = "channel"
  <2>1. f \in {[code |-> "ChannelInfo", item |-> c.item, own |-> c.own],
               [code |-> "Error", item |-> Nothing, own |-> c.own]}
    BY <1>4 DEF AnswersTo, Frame
  <2> QED BY <1>1, <1>2, <1>4, <2>1 DEF Pushed, AnyFrame, Codes, Collect, Accepts
<1>5. CASE c.code \notin {"sync", "channel"}
  <2>1. f \in {[code |-> Want(c.code), item |-> Nothing, own |-> c.own],
               [code |-> "Error", item |-> Nothing, own |-> c.own]}
    BY <1>5 DEF AnswersTo, Frame
  <2>2. Want(c.code) \in {"SelfInfo", "DeviceInfo", "CurrTime", "Sent", "OK"}
    BY <1>1, <1>5 DEF Want, CommandKinds, AskKinds, BootKinds
  <2>3. /\ f.code \in Codes \ {"Waiting", "Message"} /\ f.code \in {Want(c.code), "Error"}
        /\ f.item = Nothing /\ f.own = c.own /\ f \in AnyFrame
    <3>1. PICK k \in {Want(c.code), "Error"} : f = [code |-> k, item |-> Nothing, own |-> c.own]
      BY <2>1
    <3>2. k \in Codes \ {"Waiting", "Message"}
      BY <2>2, <3>1 DEF Codes
    <3> QED BY <1>1, <1>2, <3>1, <3>2 DEF AnyFrame
  <2>4. Collect(c.code, c.item, f) # "skip"
    BY <1>5, <2>2, <2>3 DEF Collect, Accepts
  <2> QED BY <1>2, <2>3, <2>4 DEF Pushed
<1> QED BY <1>3, <1>4, <1>5

LEMMA OrphanShape ==
  ASSUME NEW F \in {Written, Pushed, Replied}, NEW s \in Seq(F)
  PROVE  Orphan(s) \in Seq(F) /\ Len(Orphan(s)) = Len(s)
<1> DEFINE o == Orphan(s)
<1>1. Len(s) \in Nat /\ DOMAIN s = 1 .. Len(s) /\ \A i \in 1 .. Len(s) : s[i] \in F
  OBVIOUS
<1>2. F \subseteq AnyFrame
  BY Subframes
<1>3. \A i \in 1 .. Len(s) : [s[i] EXCEPT !.own = FALSE] \in F
  <2> TAKE i \in 1 .. Len(s)
  <2>1. s[i] \in F /\ s[i] \in AnyFrame
    BY <1>1, <1>2
  <2> DEFINE g == [s[i] EXCEPT !.own = FALSE]
  <2>2. g \in AnyFrame /\ g.code = s[i].code /\ g.item = s[i].item /\ ~g.own
    BY <2>1 DEF AnyFrame
  <2> HIDE DEF g
  <2>3. CASE F = Written
    <3>1. g.code \in CommandKinds /\ g.item \in Slots \union {Nothing} /\ g.own \in BOOLEAN
      BY <2>1, <2>2, <2>3 DEF Written, AnyFrame
    <3> QED BY <2>2, <2>3, <3>1 DEF Written, AnyFrame, g
  <2>4. CASE F = Pushed
    BY <2>1, <2>2, <2>4 DEF Pushed, g
  <2>5. CASE F = Replied
    BY <2>1, <2>2, <2>5 DEF Pushed, Replied, g
  <2> QED BY <2>3, <2>4, <2>5
<1>4. o = [i \in 1 .. Len(s) |-> [s[i] EXCEPT !.own = FALSE]]
  BY <1>1 DEF Orphan
<1> QED BY <1>1, <1>3, <1>4

LEMMA ShapeInit == PortInit => PortShape
<1> SUFFICES ASSUME PortInit PROVE PortShape
  OBVIOUS
<1>1. command \in [Callers -> AnyCommand] /\ \A c \in Callers : Idle(c) \/ Request(c, command[c])
  <2>1. [kind |-> Steps[1], slot |-> Nothing] \in AnyCommand /\ NoCommand \in AnyCommand
        /\ Steps[1] \in BootKinds
    BY StepKinds DEF AnyCommand, NoCommand, CommandKinds, Nothing
  <2>2. command = [c \in Callers |->
                     IF c = Boot THEN [kind |-> Steps[1], slot |-> Nothing] ELSE NoCommand]
    BY DEF PortInit
  <2> QED BY <2>1, <2>2 DEF Idle, Request
<1>2. /\ queue \in Seq(Messages) /\ arrived \in Nat
      /\ atNode \in Seq(Written) /\ wire \in Seq(Pushed) /\ replies \in Seq(Replied)
      /\ Len(replies) <= ReplyCap /\ closed \in BOOLEAN /\ holder \in Callers \union {Nobody}
  <2>1. <<>> \in Seq(Messages) /\ <<>> \in Seq(Written) /\ <<>> \in Seq(Pushed)
        /\ <<>> \in Seq(Replied) /\ Len(<<>>) = 0
    OBVIOUS
  <2>2. 0 <= ReplyCap
    BY PortAssumption
  <2> QED BY <2>1, <2>2 DEF PortInit
<1>3. tries \in [Callers -> 0 .. 2] /\ stage \in 1 .. Len(Steps) + 1 /\ stage <= Len(Steps)
  BY StepKinds DEF PortInit
<1>4. channels \in [Slots -> Slots \union {Nothing}] /\ lost \subseteq Messages /\ late \in Nat
  BY DEF PortInit
<1> QED BY <1>1, <1>2, <1>3, <1>4 DEF PortShape, FrameShape, CallerShape, RecordShape

\* The messages of a queue of replies.
LEMMA MessagesInReplies ==
  ASSUME NEW s \in Seq(Replied)
  PROVE  MessagesIn(s) \subseteq Messages
<1>1. DOMAIN s = 1 .. Len(s) /\ \A i \in 1 .. Len(s) : s[i] \in Replied
  OBVIOUS
<1> QED BY <1>1 DEF MessagesIn, Replied, Pushed, Items

LEMMA WorldShape ==
  ASSUME PortShape, MessageArrives \/ NodeAnswers \/ NodeIgnores \/ ReadLoop \/ Close
  PROVE  PortShape'
<1> USE DEF PortShape, FrameShape, host, counters
<1>1. Nothing \in Items /\ Items \subseteq Int /\ \A m \in Messages : m \in Items
  BY PortAssumption DEF Items, Slots, Messages, Nothing
<1>2. CASE MessageArrives
  <2>1. Frame("Waiting", Nothing, FALSE) \in Pushed
    BY <1>1 DEF Frame, Pushed, AnyFrame, Codes
  <2>2. arrived + 1 \in Messages
    BY <1>2, PortAssumption DEF MessageArrives, Messages
  <2>3. queue' \in Seq(Messages) /\ wire' \in Seq(Pushed)
    <3>1. queue' = Append(queue, arrived + 1) /\ wire' = Append(wire, Frame("Waiting", Nothing, FALSE))
      BY <1>2 DEF MessageArrives
    <3> QED BY <2>1, <2>2, <3>1, AppendProperties
  <2>4. /\ arrived' \in Nat /\ atNode' \in Seq(Written) /\ replies' \in Seq(Replied)
        /\ Len(replies') <= ReplyCap
    BY <1>2 DEF MessageArrives
  <2>5. FrameShape'
    BY <2>3, <2>4
  <2> QED BY <1>2, <2>5 DEF MessageArrives, CallerShape, RecordShape, Idle
<1>3. CASE NodeAnswers
  <2>1. /\ Head(atNode) \in Written /\ atNode' \in Seq(Written)
        /\ queue' \in Seq(Messages)
    BY <1>3 DEF NodeAnswers
  <2>2. wire' \in Seq(Pushed)
    <3>1. PICK f \in AnswersTo(Head(atNode)) : wire' = Append(wire, f)
      BY <1>3 DEF NodeAnswers
    <3> QED BY <2>1, <3>1, AnswerFits
  <2>3. FrameShape'
    BY <1>3, <2>1, <2>2 DEF NodeAnswers
  <2> QED BY <1>3, <2>3 DEF NodeAnswers, CallerShape, RecordShape, Idle
<1>4. CASE NodeIgnores
  <2>1. FrameShape'
    BY <1>4 DEF NodeIgnores
  <2> QED BY <1>4, <2>1 DEF NodeIgnores, CallerShape, RecordShape, Idle
<1>5. CASE ReadLoop
  <2>1. Head(wire) \in Pushed /\ wire' \in Seq(Pushed)
    BY <1>5 DEF ReadLoop
  <2>2. replies' \in Seq(Replied) /\ Len(replies') <= ReplyCap /\ lost' \subseteq Messages
    <3>1. CASE HandlePush(Head(wire))
      BY <3>1 DEF HandlePush, RecordShape
    <3>2. CASE QueueReply(Head(wire))
      <4>1. Head(wire) \in Replied
        BY <2>1, <3>2 DEF QueueReply, Replied
      <4>2. <<Head(wire)>> \in Seq(Replied) /\ Append(replies, Head(wire)) \in Seq(Replied)
            /\ Len(Append(replies, Head(wire))) = Len(replies) + 1
        BY <4>1
      <4>3. MessagesIn(<<Head(wire)>>) \subseteq Messages
        BY <4>2, MessagesInReplies
      <4>4. lost \subseteq Messages
        BY DEF RecordShape
      <4>5. CASE Len(replies) < ReplyCap
        <5>1. replies' = Append(replies, Head(wire)) /\ lost' = lost
          BY <3>2, <4>5 DEF QueueReply
        <5>2. Len(replies) \in Nat /\ ReplyCap \in Nat
          BY PortAssumption
        <5>3. Len(replies) + 1 <= ReplyCap
          BY <4>5, <5>2
        <5> QED BY <4>2, <4>4, <5>1, <5>3
      <4>6. CASE ~(Len(replies) < ReplyCap)
        BY <3>2, <4>3, <4>4, <4>6 DEF QueueReply
      <4> QED BY <4>5, <4>6
    <3> QED BY <1>5, <3>1, <3>2 DEF ReadLoop
  <2>3. FrameShape'
    BY <1>5, <2>1, <2>2 DEF ReadLoop
  <2> QED BY <1>5, <2>2, <2>3 DEF ReadLoop, CallerShape, RecordShape, Idle
<1>6. CASE Close
  <2>1. FrameShape'
    BY <1>6 DEF Close
  <2> QED BY <1>6, <2>1 DEF Close, CallerShape, RecordShape, Idle
<1> QED BY <1>2, <1>3, <1>4, <1>5, <1>6

\* Replacing a command by another of the same caller, or by none.
LEMMA CommandShape ==
  ASSUME PortShape, NEW c \in Callers, NEW q \in AnyCommand, q = NoCommand \/ Request(c, q),
         command' = [command EXCEPT ![c] = q]
  PROVE  /\ command' \in [Callers -> AnyCommand]
         /\ \A x \in Callers : Idle(x)' \/ Request(x, command'[x])
         /\ \A x \in Callers \ {c} : command'[x] = command[x]
         /\ command'[c] = q
BY DEF PortShape, CallerShape, Idle

LEMMA AfterBootShape ==
  ASSUME PortShape, ~Idle(Boot), NEW ok, AfterBoot(ok)
  PROVE  /\ command' \in [Callers -> AnyCommand]
         /\ \A c \in Callers : Idle(c)' \/ Request(c, command'[c])
         /\ \A c \in Callers \ {Boot} : command'[c] = command[c]
         /\ stage' \in 1 .. Len(Steps) + 1 /\ (~Idle(Boot)' => stage' <= Len(Steps))
         /\ closed' \in BOOLEAN /\ (closed => closed')
<1> DEFINE q == IF stage < Len(Steps) THEN [kind |-> Steps[stage + 1], slot |-> Nothing]
                ELSE NoCommand
<1>1. Len(Steps) = 4 /\ stage \in 1 .. 4 /\ Boot \in Callers /\ closed \in BOOLEAN
  BY StepKinds, Apart DEF PortShape, CallerShape
<1>2. NoCommand \in AnyCommand
  BY DEF NoCommand, AnyCommand, Nothing
<1>3. CASE stage = 1 /\ ~ok
  <2>1. command' = [command EXCEPT ![Boot] = NoCommand] /\ closed' = TRUE /\ stage' = stage
    BY <1>3 DEF AfterBoot
  <2>2. /\ command' \in [Callers -> AnyCommand]
        /\ \A x \in Callers : Idle(x)' \/ Request(x, command'[x])
        /\ \A x \in Callers \ {Boot} : command'[x] = command[x]
    BY <1>1, <1>2, <2>1, CommandShape
  <2> QED BY <1>1, <2>1, <2>2
<1>4. CASE ~(stage = 1 /\ ~ok)
  <2>1. command' = [command EXCEPT ![Boot] = q] /\ closed' = closed /\ stage' = stage + 1
    BY <1>4 DEF AfterBoot
  <2>2. q \in AnyCommand /\ (q = NoCommand \/ Request(Boot, q))
    <3>1. CASE stage < 4
      <4>1. Steps[stage + 1] \in BootKinds
        BY <1>1, <3>1, StepKinds
      <4>2. q = [kind |-> Steps[stage + 1], slot |-> Nothing]
        BY <1>1, <3>1
      <4> QED BY <4>1, <4>2 DEF Request, AnyCommand, CommandKinds, Nothing
    <3>2. CASE ~(stage < 4)
      BY <1>1, <1>2, <3>2
    <3> QED BY <3>1, <3>2
  <2>3. stage = 4 => q = NoCommand
    BY <1>1
  <2> HIDE DEF q
  <2>4. /\ command' \in [Callers -> AnyCommand] /\ command'[Boot] = q
        /\ \A x \in Callers : Idle(x)' \/ Request(x, command'[x])
        /\ \A x \in Callers \ {Boot} : command'[x] = command[x]
    BY <1>1, <2>1, <2>2, CommandShape
  <2>5. ~Idle(Boot)' => stage # 4
    BY <2>3, <2>4 DEF Idle
  <2> QED BY <1>1, <2>1, <2>4, <2>5
<1> QED BY <1>3, <1>4

\* A command that is given up.
LEMMA GiveUpShape ==
  ASSUME PortShape, NEW c \in Callers, ~Idle(c), GiveUp(c)
  PROVE  /\ command' \in [Callers -> AnyCommand]
         /\ \A x \in Callers : Idle(x)' \/ Request(x, command'[x])
         /\ \A x \in Callers \ {c} : command'[x] = command[x]
         /\ stage' \in 1 .. Len(Steps) + 1 /\ (~Idle(Boot)' => stage' <= Len(Steps))
         /\ closed' \in BOOLEAN /\ (closed => closed')
         /\ tries' \in [Callers -> 0 .. 2]
         /\ channels' \in [Slots -> Slots \union {Nothing}]
         /\ \A s \in Slots : channels'[s] \in {channels[s], Nothing}
<1>1. /\ tries \in [Callers -> 0 .. 2] /\ channels \in [Slots -> Slots \union {Nothing}]
      /\ stage \in 1 .. Len(Steps) + 1 /\ closed \in BOOLEAN
      /\ ~Idle(Boot) => stage <= Len(Steps)
      /\ NoCommand \in AnyCommand
  BY DEF PortShape, CallerShape, RecordShape, NoCommand, AnyCommand, Nothing
<1>2. Boot # Drain /\ Boot \in Callers
  BY Apart
<1>3. CASE c = Boot
  <2>1. AfterBoot(FALSE) /\ channels' = channels /\ tries' = tries
    BY <1>2, <1>3 DEF GiveUp
  <2> QED BY <1>1, <1>3, <2>1, AfterBootShape
<1>4. CASE c = Drain
  <2>1. /\ command' = [command EXCEPT ![c] = NoCommand]
        /\ stage' = stage /\ closed' = closed /\ channels' = channels /\ tries' = tries
    BY <1>2, <1>4 DEF GiveUp
  <2>2. /\ command' \in [Callers -> AnyCommand]
        /\ \A x \in Callers : Idle(x)' \/ Request(x, command'[x])
        /\ \A x \in Callers \ {c} : command'[x] = command[x]
    BY <1>1, <2>1, CommandShape
  <2> QED BY <1>1, <1>2, <1>4, <2>1, <2>2 DEF Idle
<1>5. CASE c # Boot /\ c # Drain
  <2>1. CASE command[c].kind = "channel" /\ tries[c] < 2
    <3>1. /\ tries' = [tries EXCEPT ![c] = 2] /\ command' = command /\ channels' = channels
          /\ stage' = stage /\ closed' = closed
      BY <1>5, <2>1 DEF GiveUp
    <3> QED BY <1>1, <3>1 DEF PortShape, CallerShape, Idle
  <2>2. CASE ~(command[c].kind = "channel" /\ tries[c] < 2)
    <3>1. /\ tries' = [tries EXCEPT ![c] = 0] /\ command' = [command EXCEPT ![c] = NoCommand]
          /\ channels' \in {channels, [channels EXCEPT ![command[c].slot] = Nothing]}
          /\ stage' = stage /\ closed' = closed
      BY <1>5, <2>2 DEF GiveUp
    <3>2. /\ command' \in [Callers -> AnyCommand]
          /\ \A x \in Callers : Idle(x)' \/ Request(x, command'[x])
          /\ \A x \in Callers \ {c} : command'[x] = command[x]
      BY <1>1, <3>1, CommandShape
    <3>3. ~Idle(Boot)' => stage' <= Len(Steps)
      BY <1>1, <1>2, <1>5, <3>1, <3>2 DEF Idle
    <3>4. /\ channels' \in [Slots -> Slots \union {Nothing}]
          /\ \A s \in Slots : channels'[s] \in {channels[s], Nothing}
      BY <1>1, <3>1
    <3> QED BY <1>1, <3>1, <3>2, <3>3, <3>4
  <2> QED BY <2>1, <2>2
<1> QED BY <1>3, <1>4, <1>5

LEMMA AskShape ==
  ASSUME PortShape,
         \/ \E c \in Askers, k \in Kinds, s \in Slots \union {Nothing} : Ask(c, k, s)
         \/ StartDrain
  PROVE  PortShape'
<1>1. \A s \in Slots \union {Nothing} : s \in Int
  BY PortAssumption DEF Slots, Nothing
<1>2. CASE \E c \in Askers, k \in Kinds, s \in Slots \union {Nothing} : Ask(c, k, s)
  <2>1. PICK c \in Askers, k \in Kinds, s \in Slots \union {Nothing} : Ask(c, k, s)
    BY <1>2
  <2> DEFINE q == [kind |-> k, slot |-> s]
  <2>2. q \in AnyCommand /\ Request(c, q)
    BY <1>1, <2>1, PortAssumption DEF Ask, Request, AnyCommand, CommandKinds
  <2>3. command' = [command EXCEPT ![c] = q] /\ tries' = [tries EXCEPT ![c] = 1]
    BY <2>1 DEF Ask
  <2> HIDE DEF q
  <2>4. /\ command' \in [Callers -> AnyCommand]
        /\ \A x \in Callers : Idle(x)' \/ Request(x, command'[x])
        /\ \A x \in Callers \ {c} : command'[x] = command[x]
    BY <2>2, <2>3, Apart, CommandShape
  <2>5. UNCHANGED <<queue, arrived, atNode, wire, replies, holder, closed, stage, channels, lost, late>>
    BY <2>1 DEF Ask, host, counters
  <2>6. CallerShape'
    BY <2>3, <2>4, <2>5, Apart DEF PortShape, CallerShape, Idle
  <2> QED BY <2>5, <2>6 DEF PortShape, FrameShape, RecordShape
<1>3. CASE StartDrain
  <2> DEFINE q == [kind |-> "sync", slot |-> Nothing]
  <2>1. q \in AnyCommand /\ Request(Drain, q)
    BY <1>1 DEF Request, AnyCommand, CommandKinds
  <2>2. command' = [command EXCEPT ![Drain] = q]
    BY <1>3 DEF StartDrain
  <2> HIDE DEF q
  <2>3. /\ command' \in [Callers -> AnyCommand]
        /\ \A x \in Callers : Idle(x)' \/ Request(x, command'[x])
        /\ \A x \in Callers \ {Drain} : command'[x] = command[x]
    BY <2>1, <2>2, Apart, CommandShape
  <2>4. UNCHANGED <<queue, arrived, atNode, wire, replies, holder, tries, closed, stage, channels, lost, late>>
    BY <1>3 DEF StartDrain, counters
  <2>5. CallerShape'
    BY <2>2, <2>3, <2>4, Apart DEF PortShape, CallerShape, Idle
  <2> QED BY <2>4, <2>5 DEF PortShape, FrameShape, RecordShape
<1> QED BY <1>2, <1>3

LEMMA TurnShape ==
  ASSUME PortShape, NEW c \in Callers, Begin(c) \/ WriteFails(c)
  PROVE  PortShape'
<1>1. replies' = <<>> /\ lost' = lost \union MessagesIn(replies) /\ ~Idle(c)
  BY DEF Begin, WriteFails, DrainReplies
<1>2. replies' \in Seq(Replied) /\ Len(replies') <= ReplyCap
  BY <1>1, PortAssumption
<1>3. lost' \subseteq Messages
  BY <1>1, MessagesInReplies DEF PortShape, FrameShape, RecordShape
<1>4. CASE Begin(c)
  <2>1. Frame(command[c].kind, command[c].slot, TRUE) \in Written
    BY <1>1, RequestWritten DEF PortShape, CallerShape
  <2>2. atNode' \in Seq(Written)
    <3>1. atNode \in Seq(Written)
      BY DEF PortShape, FrameShape
    <3>2. atNode' = Append(atNode, Frame(command[c].kind, command[c].slot, TRUE))
      BY <1>4 DEF Begin
    <3> QED BY <2>1, <3>1, <3>2, AppendProperties
  <2>3. holder' = c /\ UNCHANGED <<queue, arrived, wire, command, tries, closed, stage, channels, late>>
    BY <1>4 DEF Begin, host, counters
  <2>4. FrameShape'
    BY <1>2, <2>2, <2>3 DEF PortShape, FrameShape
  <2>5. CallerShape'
    BY <2>3 DEF PortShape, CallerShape, Idle
  <2> QED BY <1>3, <2>3, <2>4, <2>5 DEF PortShape, RecordShape
<1>5. CASE WriteFails(c)
  <2>1. GiveUp(c) /\ UNCHANGED <<queue, arrived, atNode, wire, holder, late>>
    BY <1>5 DEF WriteFails
  <2>2. FrameShape'
    BY <1>2, <2>1 DEF PortShape, FrameShape
  <2>3. CallerShape'
    BY <1>1, <2>1, GiveUpShape DEF PortShape, CallerShape
  <2>4. RecordShape'
    BY <1>1, <1>3, <2>1, GiveUpShape DEF PortShape, RecordShape
  <2> QED BY <2>2, <2>3, <2>4 DEF PortShape
<1> QED BY <1>4, <1>5

\* What is left of the frames when a command ends.
LEMMA FinishShape ==
  ASSUME PortShape, NEW c, NEW how, Finish(c, how)
  PROVE  /\ holder' = Nobody /\ ending' = how
         /\ atNode' \in Seq(Written) /\ wire' \in Seq(Pushed)
BY OrphanShape DEF Finish, PortShape, FrameShape

LEMMA TailShape ==
  ASSUME PortShape, replies # <<>>
  PROVE  /\ Head(replies) \in Replied /\ MessagesIn(<<Head(replies)>>) \subseteq Messages
         /\ Tail(replies) \in Seq(Replied) /\ Len(Tail(replies)) <= ReplyCap
         /\ Orphan(Tail(replies)) \in Seq(Replied) /\ Len(Orphan(Tail(replies))) <= ReplyCap
<1>1. replies \in Seq(Replied) /\ Len(replies) <= ReplyCap /\ ReplyCap \in Nat
  BY PortAssumption DEF PortShape, FrameShape
<1>2. /\ Head(replies) \in Replied /\ Tail(replies) \in Seq(Replied)
      /\ Len(Tail(replies)) = Len(replies) - 1 /\ Len(replies) \in Nat
  BY <1>1, HeadTailProperties
<1>3. Orphan(Tail(replies)) \in Seq(Replied) /\ Len(Orphan(Tail(replies))) = Len(Tail(replies))
  BY <1>2, OrphanShape
<1>4. <<Head(replies)>> \in Seq(Replied)
  BY <1>2
<1>5. Len(Tail(replies)) <= ReplyCap
  BY <1>1, <1>2
<1> QED BY <1>2, <1>3, <1>4, <1>5, MessagesInReplies

LEMMA AwaitShape ==
  ASSUME PortShape, NEW c \in Callers, holder # Nobody => ~Idle(holder), Await(c)
  PROVE  PortShape'
<1> USE DEF PortShape
<1>1. NoCommand \in AnyCommand
  BY DEF NoCommand, AnyCommand, Nothing
<1>2. Nobody \notin Callers
  BY Apart
<1>3. CASE Skip(c)
  <2>1. /\ replies' = Tail(replies) /\ replies # <<>>
        /\ lost' = lost \union MessagesIn(<<Head(replies)>>)
        /\ UNCHANGED <<queue, arrived, atNode, wire, holder, command, tries, closed, stage, channels, late>>
    BY <1>3 DEF Skip, host, counters
  <2>2. FrameShape'
    BY <2>1, TailShape DEF FrameShape
  <2>3. CallerShape'
    BY <2>1 DEF CallerShape, Idle
  <2> QED BY <2>1, <2>2, <2>3, TailShape DEF RecordShape
<1>4. CASE TakeReply(c)
  <2> DEFINE f == Head(replies)
             cmd == command[c]
             verdict == Collect(cmd.kind, cmd.slot, f)
  <2>1. /\ c \in Askers /\ replies # <<>> /\ verdict # "skip" /\ Finish(c, Whose(f))
        /\ channels' = IF cmd.kind # "channel" THEN channels
                       ELSE [channels EXCEPT ![cmd.slot] = IF verdict = "accept" THEN f.item ELSE Nothing]
        /\ lost' = lost \union MessagesIn(<<f>>) /\ replies' = Orphan(Tail(replies))
        /\ command' = [command EXCEPT ![c] = NoCommand] /\ tries' = [tries EXCEPT ![c] = 0]
        /\ UNCHANGED <<queue, arrived, stage, closed, late>>
    BY <1>4 DEF TakeReply, counters
  <2>2. FrameShape'
    BY <2>1, TailShape, FinishShape DEF FrameShape
  <2>3. /\ command' \in [Callers -> AnyCommand]
        /\ \A x \in Callers : Idle(x)' \/ Request(x, command'[x])
        /\ \A x \in Callers \ {c} : command'[x] = command[x]
    BY <1>1, <2>1, CommandShape
  <2>4. CallerShape'
    BY <2>1, <2>3, FinishShape, Apart DEF CallerShape, Idle
  <2>5. channels' \in [Slots -> Slots \union {Nothing}]
    <3>1. CASE cmd.kind = "channel" /\ verdict = "accept"
      <4>1. f.item = cmd.slot
        BY <3>1 DEF Collect, Accepts
      <4>2. ~Idle(c) /\ Request(c, cmd)
        BY <1>2, <1>4, <2>1 DEF TakeReply, CallerShape
      <4>3. cmd.slot \in Slots \union {Nothing}
        BY <4>2 DEF Request
      <4> HIDE DEF f, cmd, verdict
      <4> QED BY <2>1, <3>1, <4>1, <4>3 DEF RecordShape
    <3>2. CASE ~(cmd.kind = "channel" /\ verdict = "accept")
      <4> HIDE DEF f, cmd, verdict
      <4> QED BY <2>1, <3>2 DEF RecordShape
    <3> QED BY <3>1, <3>2
  <2> QED BY <2>1, <2>2, <2>4, <2>5, TailShape DEF RecordShape
<1>5. CASE c = Boot /\ HandshakeReply
  <2>1. PICK ok : AfterBoot(ok)
    BY <1>5 DEF HandshakeReply
  <2>2. PICK how : Finish(Boot, how)
    BY <1>5 DEF HandshakeReply
  <2>3. /\ holder = Boot /\ replies # <<>> /\ replies' = Orphan(Tail(replies))
        /\ UNCHANGED <<queue, arrived, tries, channels, lost, late>>
    BY <1>5 DEF HandshakeReply, counters
  <2>4. FrameShape'
    BY <2>2, <2>3, TailShape, FinishShape DEF FrameShape
  <2>5. CallerShape'
    BY <1>2, <1>5, <2>1, <2>2, <2>3, FinishShape, AfterBootShape DEF CallerShape
  <2> QED BY <2>3, <2>4, <2>5 DEF RecordShape
<1>6. CASE c = Drain /\ NextMessage
  <2>1. PICK how : Finish(Drain, how)
    BY <1>6 DEF NextMessage
  <2>2. /\ holder = Drain /\ replies # <<>> /\ replies' = Orphan(Tail(replies))
        /\ command' = [command EXCEPT ![Drain] = IF Head(replies).code = "Message" THEN @ ELSE NoCommand]
        /\ UNCHANGED <<queue, arrived, tries, stage, closed, channels, lost, late>>
    BY <1>6 DEF NextMessage, counters
  <2>3. FrameShape'
    BY <2>1, <2>2, TailShape, FinishShape DEF FrameShape
  <2>4. command' = command \/ command' = [command EXCEPT ![Drain] = NoCommand]
    BY <2>2 DEF CallerShape
  <2>5. /\ command' \in [Callers -> AnyCommand]
        /\ \A x \in Callers : Idle(x)' \/ Request(x, command'[x])
        /\ \A x \in Callers \ {Drain} : command'[x] = command[x]
    BY <1>1, <2>4, Apart, CommandShape DEF CallerShape, Idle
  <2>6. CallerShape'
    BY <2>1, <2>2, <2>5, FinishShape, Apart DEF CallerShape, Idle
  <2> QED BY <2>2, <2>3, <2>6 DEF RecordShape
<1>7. CASE Timeout(c)
  <2>1. /\ holder = c /\ Finish(c, "nothing") /\ GiveUp(c) /\ replies' = Orphan(replies)
        /\ late' \in {late, late + 1} /\ UNCHANGED <<queue, arrived, lost>>
    BY <1>7 DEF Timeout
  <2>2. ~Idle(c)
    BY <1>2, <2>1
  <2>3. FrameShape'
    BY <2>1, OrphanShape, FinishShape DEF FrameShape
  <2>4. CallerShape'
    BY <2>1, <2>2, FinishShape, GiveUpShape DEF CallerShape
  <2>5. RecordShape'
    BY <2>1, <2>2, GiveUpShape DEF RecordShape
  <2> QED BY <2>3, <2>4, <2>5
<1>8. CASE Down(c)
  <2>1. /\ holder' = Nobody /\ replies' = Orphan(replies) /\ tries' = [tries EXCEPT ![c] = 0]
        /\ command' = [command EXCEPT ![c] = NoCommand]
        /\ channels' \in {channels, [channels EXCEPT ![command[c].slot] = Nothing]}
        /\ UNCHANGED <<queue, arrived, atNode, wire, stage, closed, lost, late>>
    BY <1>8 DEF Down, counters
  <2>2. FrameShape'
    BY <2>1, OrphanShape DEF FrameShape
  <2>3. /\ command' \in [Callers -> AnyCommand] /\ command'[c] = NoCommand
        /\ \A x \in Callers : Idle(x)' \/ Request(x, command'[x])
        /\ \A x \in Callers \ {c} : command'[x] = command[x]
    BY <1>1, <2>1, CommandShape
  <2>4. CallerShape'
    <3>1. ~Idle(Boot)' => stage' <= Len(Steps)
      BY <2>1, <2>3, Apart DEF CallerShape, Idle
    <3> QED BY <2>1, <2>3, <3>1 DEF CallerShape
  <2>5. RecordShape'
    BY <2>1 DEF RecordShape
  <2> QED BY <2>2, <2>4, <2>5
<1> QED BY <1>3, <1>4, <1>5, <1>6, <1>7, <1>8 DEF Await
-----------------------------------------------------------------------------
(* What each action does to the numbers of frames. *)

LEMMA CountsTyped ==
  ASSUME PortShape
  PROVE  /\ MineOut \in Nat /\ MineIn \in Nat /\ StraysOut \in Nat /\ StraysIn \in Nat
         /\ Strays = StraysOut + StraysIn
         /\ MineOut = 0 => \A i \in DOMAIN atNode : ~atNode[i].own
         /\ MineOut = 0 => \A i \in DOMAIN wire : ~wire[i].own
         /\ MineIn = 0 => \A i \in DOMAIN replies : ~replies[i].own
<1>1. /\ atNode \in Seq(Written) /\ wire \in Seq(Pushed) /\ replies \in Seq(Replied)
      /\ \A i \in DOMAIN atNode : atNode[i] \in AnyFrame
      /\ \A i \in DOMAIN wire : wire[i] \in AnyFrame
      /\ \A i \in DOMAIN replies : replies[i] \in AnyFrame
  BY Subframes DEF PortShape, FrameShape
<1>2. /\ Count(atNode, Mine) \in Nat /\ Count(wire, Mine) \in Nat /\ Count(replies, Mine) \in Nat
      /\ Count(atNode, Stray) \in Nat /\ Count(wire, Stray) \in Nat
      /\ Count(replies, Stray) \in Nat
      /\ Count(atNode, Mine) = 0 => \A i \in DOMAIN atNode : atNode[i] \notin Mine
      /\ Count(wire, Mine) = 0 => \A i \in DOMAIN wire : wire[i] \notin Mine
      /\ Count(replies, Mine) = 0 => \A i \in DOMAIN replies : replies[i] \notin Mine
  BY <1>1, CountType
<1>3. /\ {i \in DOMAIN atNode : ~atNode[i].own /\ atNode[i].code # "Waiting"}
           = {i \in DOMAIN atNode : atNode[i] \in Stray}
      /\ {i \in DOMAIN wire : ~wire[i].own /\ wire[i].code # "Waiting"}
           = {i \in DOMAIN wire : wire[i] \in Stray}
      /\ {i \in DOMAIN replies : ~replies[i].own /\ replies[i].code # "Waiting"}
           = {i \in DOMAIN replies : replies[i] \in Stray}
  BY <1>1 DEF Stray
<1>4. Strays = Count(atNode, Stray) + Count(wire, Stray) + Count(replies, Stray)
  BY <1>3 DEF Strays, Count
<1>5. /\ MineOut = 0 => Count(atNode, Mine) = 0 /\ Count(wire, Mine) = 0
      /\ MineOut \in Nat /\ MineIn \in Nat /\ StraysOut \in Nat /\ StraysIn \in Nat
      /\ Strays = StraysOut + StraysIn /\ MineIn = Count(replies, Mine)
  BY <1>2, <1>4 DEF MineOut, MineIn, StraysOut, StraysIn
<1>6. /\ MineOut = 0 => \A i \in DOMAIN atNode : atNode[i] \notin Mine
      /\ MineOut = 0 => \A i \in DOMAIN wire : wire[i] \notin Mine
      /\ MineIn = 0 => \A i \in DOMAIN replies : replies[i] \notin Mine
  BY <1>2, <1>5
<1> QED BY <1>1, <1>5, <1>6 DEF Mine

\* A frame other than a wake-up is awaited or a stray, and never both.
LEMMA EitherWay ==
  ASSUME NEW f \in AnyFrame
  PROVE  /\ f \in Mine <=> f.own
         /\ f \in Stray <=> ~f.own /\ f.code # "Waiting"
BY DEF Mine, Stray, AnyFrame

LEMMA AllAreEither ==
  ASSUME NEW s \in Seq(Replied)
  PROVE  Count(s, Mine) + Count(s, Stray) = Len(s)
<1> DEFINE M == {i \in DOMAIN s : s[i] \in Mine}
           S == {i \in DOMAIN s : s[i] \in Stray}
<1>1. /\ Len(s) \in Nat /\ DOMAIN s = 1 .. Len(s)
      /\ \A i \in 1 .. Len(s) : s[i] \in AnyFrame /\ s[i].code # "Waiting"
  BY Subframes DEF Replied
<1>2. M \union S = 1 .. Len(s) /\ M \intersect S = {}
  BY <1>1, EitherWay
<1>3. IsFiniteSet(1 .. Len(s)) /\ Cardinality(1 .. Len(s)) = Len(s)
  <2>1. Len(s) \in Nat
    BY <1>1
  <2> QED BY <2>1, FS_Interval
<1>4. M \in SUBSET (1 .. Len(s)) /\ S \in SUBSET (1 .. Len(s))
  BY <1>1
<1>5. IsFiniteSet(M) /\ IsFiniteSet(S)
  BY <1>3, <1>4, FS_Subset
<1>6. /\ Cardinality(M \union S) = Cardinality(M) + Cardinality(S) - Cardinality(M \intersect S)
      /\ Cardinality(M) \in Nat /\ Cardinality(S) \in Nat
  BY <1>5, FS_Union, FS_CardinalityType
<1>7. Cardinality(M \intersect S) = 0
  BY <1>2, FS_EmptySet
<1>8. Count(s, Mine) = Cardinality(M) /\ Count(s, Stray) = Cardinality(S)
  BY DEF Count
<1>9. Cardinality(M \union S) = Len(s)
  BY <1>2, <1>3
<1> HIDE DEF M, S
<1> QED BY <1>6, <1>7, <1>8, <1>9

\* What the world does to the frames that are not in the queue.
LEMMA ArriveCounts ==
  ASSUME PortShape, MessageArrives
  PROVE  MineOut' = MineOut /\ StraysOut' = StraysOut /\ MineIn' = MineIn /\ StraysIn' = StraysIn
<1> DEFINE f == Frame("Waiting", Nothing, FALSE)
<1>1. f \in Pushed /\ f \notin Mine /\ f \notin Stray
  BY PortAssumption
     DEF Frame, Pushed, AnyFrame, Codes, Items, Slots, Messages, Nothing, Mine, Stray
<1>2. wire' = Append(wire, f) /\ UNCHANGED <<atNode, replies>>
  BY DEF MessageArrives
<1> HIDE DEF f
<1>3. wire \in Seq(Pushed)
  BY DEF PortShape, FrameShape
<1>4. Count(wire', Mine) = Count(wire, Mine) + 0 /\ Count(wire', Stray) = Count(wire, Stray) + 0
  BY <1>1, <1>2, <1>3, CountAppend
<1>5. Count(wire, Mine) \in Nat /\ Count(wire, Stray) \in Nat
  BY <1>3, CountType
<1> QED BY <1>2, <1>4, <1>5 DEF MineOut, MineIn, StraysOut, StraysIn

LEMMA AnswerCounts ==
  ASSUME PortShape, NodeAnswers
  PROVE  MineOut' = MineOut /\ StraysOut' = StraysOut /\ MineIn' = MineIn /\ StraysIn' = StraysIn
<1> DEFINE c == Head(atNode)
<1>1. atNode \in Seq(Written) /\ wire \in Seq(Pushed) /\ queue \in Seq(Messages)
  BY DEF PortShape, FrameShape
<1>2. atNode # <<>> /\ atNode' = Tail(atNode) /\ UNCHANGED replies
  BY DEF NodeAnswers
<1>3. PICK f \in AnswersTo(c) : wire' = Append(wire, f)
  BY DEF NodeAnswers
<1>4. c \in Written
  BY <1>1, <1>2, HeadTailProperties
<1>5. f \in Pushed /\ f.code # "Waiting" /\ f.own = c.own
  BY <1>1, <1>4, AnswerFits
<1>6. c.code # "Waiting"
  BY <1>4 DEF Written, CommandKinds, AskKinds, BootKinds
<1>7. (f \in Mine <=> c \in Mine) /\ (f \in Stray <=> c \in Stray)
  BY <1>4, <1>5, <1>6, Subframes, EitherWay
<1> HIDE DEF c
<1>8. /\ Count(wire', Mine) = Count(wire, Mine) + (IF f \in Mine THEN 1 ELSE 0)
      /\ Count(wire', Stray) = Count(wire, Stray) + (IF f \in Stray THEN 1 ELSE 0)
  BY <1>1, <1>3, <1>5, CountAppend
<1>9. /\ Count(atNode, Mine) = Count(atNode', Mine) + (IF c \in Mine THEN 1 ELSE 0)
      /\ Count(atNode, Stray) = Count(atNode', Stray) + (IF c \in Stray THEN 1 ELSE 0)
  BY <1>1, <1>2, CountTail DEF c
<1>10. atNode' \in Seq(Written)
  BY <1>1, <1>2, HeadTailProperties
<1>11. /\ Count(wire, Mine) \in Nat /\ Count(wire, Stray) \in Nat
       /\ Count(atNode', Mine) \in Nat /\ Count(atNode', Stray) \in Nat
  BY <1>1, <1>10, CountType
<1> QED BY <1>2, <1>7, <1>8, <1>9, <1>11 DEF MineOut, MineIn, StraysOut, StraysIn

\* One frame less outside the queue, awaited or stray.
LEMMA IgnoreCounts ==
  ASSUME PortShape, NodeIgnores
  PROVE  /\ MineIn' = MineIn /\ StraysIn' = StraysIn
         /\ \/ MineOut' = MineOut - 1 /\ StraysOut' = StraysOut
            \/ MineOut' = MineOut /\ StraysOut' = StraysOut - 1
<1> DEFINE c == Head(atNode)
<1>1. atNode \in Seq(Written) /\ wire \in Seq(Pushed)
  BY DEF PortShape, FrameShape
<1>2. atNode # <<>> /\ atNode' = Tail(atNode) /\ UNCHANGED <<wire, replies>>
  BY DEF NodeIgnores
<1>3. c \in Written /\ Tail(atNode) \in Seq(Written)
  BY <1>1, <1>2, HeadTailProperties
<1>4. c.code # "Waiting"
  BY <1>3 DEF Written, CommandKinds, AskKinds, BootKinds
<1>5. c \in Stray <=> c \notin Mine
  BY <1>3, <1>4, Subframes, EitherWay
<1>6. /\ Count(atNode, Mine) = Count(atNode', Mine) + (IF c \in Mine THEN 1 ELSE 0)
      /\ Count(atNode, Stray) = Count(atNode', Stray) + (IF c \in Stray THEN 1 ELSE 0)
  BY <1>1, <1>2, CountTail
<1>7. /\ Count(wire, Mine) \in Nat /\ Count(wire, Stray) \in Nat
      /\ Count(atNode', Mine) \in Nat /\ Count(atNode', Stray) \in Nat
  BY <1>1, <1>2, <1>3, CountType
<1> HIDE DEF c
<1> QED BY <1>2, <1>5, <1>6, <1>7 DEF MineOut, MineIn, StraysOut, StraysIn

\* A wake-up is nobody's answer; a reply enters the queue, or finds it full.
LEMMA ReadCounts ==
  ASSUME PortShape, ReadLoop
  PROVE  \/ /\ Head(wire).code = "Waiting"
            /\ MineOut' = MineOut /\ StraysOut' = StraysOut
            /\ MineIn' = MineIn /\ StraysIn' = StraysIn /\ lost' = lost /\ replies' = replies
         \/ /\ Head(wire) \in Replied /\ Head(wire).own
            /\ MineOut' = MineOut - 1 /\ StraysOut' = StraysOut /\ StraysIn' = StraysIn
            /\ \/ /\ MineIn' = MineIn + 1
                  /\ lost' = lost /\ replies' = Append(replies, Head(wire))
               \/ /\ MineIn' = MineIn /\ MineIn + StraysIn >= 1
                  /\ lost' = lost \union MessagesIn(<<Head(wire)>>) /\ replies' = replies
         \/ /\ Head(wire) \in Replied /\ ~Head(wire).own
            /\ MineOut' = MineOut /\ StraysOut' = StraysOut - 1 /\ MineIn' = MineIn
            /\ \/ /\ StraysIn' = StraysIn + 1
                  /\ lost' = lost /\ replies' = Append(replies, Head(wire))
               \/ /\ StraysIn' = StraysIn
                  /\ lost' = lost \union MessagesIn(<<Head(wire)>>) /\ replies' = replies
<1> DEFINE f == Head(wire)
<1>1. /\ atNode \in Seq(Written) /\ wire \in Seq(Pushed) /\ replies \in Seq(Replied)
      /\ Len(replies) <= ReplyCap
  BY DEF PortShape, FrameShape
<1>2. /\ wire # <<>> /\ wire' = Tail(wire) /\ UNCHANGED atNode
      /\ HandlePush(f) \/ QueueReply(f)
  BY DEF ReadLoop
<1>3. f \in Pushed /\ Tail(wire) \in Seq(Pushed)
  BY <1>1, <1>2, HeadTailProperties
<1>4. /\ Count(wire, Mine) = Count(wire', Mine) + (IF f \in Mine THEN 1 ELSE 0)
      /\ Count(wire, Stray) = Count(wire', Stray) + (IF f \in Stray THEN 1 ELSE 0)
  BY <1>1, <1>2, CountTail
<1>5. /\ Count(wire', Mine) \in Nat /\ Count(wire', Stray) \in Nat
      /\ Count(atNode, Mine) \in Nat /\ Count(atNode, Stray) \in Nat
      /\ Count(replies, Mine) \in Nat /\ Count(replies, Stray) \in Nat
  BY <1>1, <1>2, <1>3, CountType
<1>6. /\ f \in Mine <=> f.own
      /\ f \in Stray <=> ~f.own /\ f.code # "Waiting"
      /\ f.own \in BOOLEAN /\ (f.code = "Waiting" => ~f.own)
  BY <1>3, Subframes, EitherWay DEF Pushed, AnyFrame
<1>7. /\ f \in Mine => MineOut' = MineOut - 1 /\ StraysOut' = StraysOut
      /\ f \in Stray => MineOut' = MineOut /\ StraysOut' = StraysOut - 1
      /\ f \notin Mine /\ f \notin Stray => MineOut' = MineOut /\ StraysOut' = StraysOut
  <2>1. f \in Mine => f \notin Stray
    BY <1>6
  <2> HIDE DEF f
  <2> QED BY <1>2, <1>4, <1>5, <2>1 DEF MineOut, StraysOut
<1>8. CASE HandlePush(f)
  <2>1. f.code = "Waiting" /\ UNCHANGED <<replies, lost>>
    BY <1>8 DEF HandlePush
  <2>2. MineIn' = MineIn /\ StraysIn' = StraysIn
    BY <2>1 DEF MineIn, StraysIn
  <2>3. f \notin Mine /\ f \notin Stray
    BY <1>6, <2>1
  <2> QED BY <1>7, <2>1, <2>2, <2>3
<1>9. CASE QueueReply(f)
  <2>1. f \in Replied /\ f.code # "Waiting"
    BY <1>3, <1>9 DEF QueueReply, Replied
  <2>2. CASE Len(replies) < ReplyCap
    <3>1. replies' = Append(replies, f) /\ lost' = lost
      BY <1>9, <2>2 DEF QueueReply
    <3>2. /\ Count(replies', Mine) = Count(replies, Mine) + (IF f \in Mine THEN 1 ELSE 0)
          /\ Count(replies', Stray) = Count(replies, Stray) + (IF f \in Stray THEN 1 ELSE 0)
      BY <1>1, <2>1, <3>1, CountAppend
    <3>3. /\ f \in Mine => MineIn' = MineIn + 1
          /\ f \notin Mine => MineIn' = MineIn
          /\ f \in Stray => StraysIn' = StraysIn + 1
          /\ f \notin Stray => StraysIn' = StraysIn
      <4> HIDE DEF f
      <4> QED BY <1>5, <3>2 DEF MineIn, StraysIn
    <3>4. \/ f \in Mine /\ f \notin Stray /\ f.own
          \/ f \in Stray /\ f \notin Mine /\ ~f.own
      BY <1>6, <2>1
    <3> HIDE DEF f
    <3> QED BY <1>7, <2>1, <3>1, <3>3, <3>4 DEF f
  <2>3. CASE ~(Len(replies) < ReplyCap)
    <3>1. replies' = replies /\ lost' = lost \union MessagesIn(<<f>>)
      BY <1>9, <2>3 DEF QueueReply
    <3>2. MineIn' = MineIn /\ StraysIn' = StraysIn /\ MineIn + StraysIn >= 1
      <4>1. MineIn + StraysIn = Len(replies) /\ Len(replies) \in Nat
        BY <1>1, AllAreEither DEF MineIn, StraysIn
      <4>2. Len(replies) >= 1
        BY <2>3, <4>1, PortAssumption
      <4> QED BY <3>1, <4>1, <4>2 DEF MineIn, StraysIn
    <3>3. \/ f \in Mine /\ f.own
          \/ f \in Stray /\ ~f.own
      BY <1>6, <2>1
    <3> QED BY <1>7, <2>1, <3>1, <3>2, <3>3
  <2> QED BY <2>2, <2>3
<1> QED BY <1>2, <1>8, <1>9

\* What the callers do to them.
LEMMA BeginCounts ==
  ASSUME PortShape, NEW c \in Callers, Begin(c)
  PROVE  /\ MineOut' = MineOut + 1 /\ StraysOut' = StraysOut
         /\ MineIn' = 0 /\ StraysIn' = 0
<1> DEFINE f == Frame(command[c].kind, command[c].slot, TRUE)
<1>1. atNode \in Seq(Written) /\ wire \in Seq(Pushed)
  BY DEF PortShape, FrameShape
<1>2. /\ atNode' = Append(atNode, f) /\ UNCHANGED wire /\ replies' = <<>> /\ ~Idle(c)
  BY DEF Begin, DrainReplies
<1>3. f \in Written /\ f.own
  BY <1>2, RequestWritten DEF PortShape, CallerShape, Frame
<1>4. f \in Mine /\ f \notin Stray
  BY <1>3, Subframes, EitherWay
<1> HIDE DEF f
<1>5. Count(atNode', Mine) = Count(atNode, Mine) + 1 /\ Count(atNode', Stray) = Count(atNode, Stray) + 0
  BY <1>1, <1>2, <1>3, <1>4, CountAppend
<1>6. Count(replies', Mine) = 0 /\ Count(replies', Stray) = 0
  BY <1>2, CountEmpty
<1>7. /\ Count(atNode, Mine) \in Nat /\ Count(atNode, Stray) \in Nat
      /\ Count(wire, Mine) \in Nat /\ Count(wire, Stray) \in Nat
  BY <1>1, CountType
<1> QED BY <1>2, <1>5, <1>6, <1>7 DEF MineOut, MineIn, StraysOut, StraysIn

LEMMA FinishCounts ==
  ASSUME PortShape, NEW c, NEW how, Finish(c, how)
  PROVE  MineOut' = 0 /\ StraysOut' = StraysOut + MineOut
<1>1. /\ atNode \in Seq(Written) /\ wire \in Seq(Pushed)
      /\ atNode' = Orphan(atNode) /\ wire' = Orphan(wire)
  BY DEF PortShape, FrameShape, Finish
<1>2. /\ \A i \in DOMAIN atNode : atNode[i].own => atNode[i].code # "Waiting"
      /\ \A i \in DOMAIN wire : wire[i].own => wire[i].code # "Waiting"
  <2>1. \A i \in DOMAIN atNode : atNode[i] \in Written
    BY <1>1
  <2>2. \A i \in DOMAIN wire : wire[i] \in Pushed
    BY <1>1
  <2> QED BY <2>1, <2>2 DEF Written, CommandKinds, AskKinds, BootKinds, Pushed
<1>3. /\ Count(atNode', Mine) = 0
      /\ Count(atNode', Stray) = Count(atNode, Stray) + Count(atNode, Mine)
  BY <1>1, <1>2, Subframes, CountOrphan
<1>4. /\ Count(wire', Mine) = 0
      /\ Count(wire', Stray) = Count(wire, Stray) + Count(wire, Mine)
  BY <1>1, <1>2, Subframes, CountOrphan
<1>5. /\ Count(atNode, Mine) \in Nat /\ Count(atNode, Stray) \in Nat
      /\ Count(wire, Mine) \in Nat /\ Count(wire, Stray) \in Nat
  BY <1>1, CountType
<1> QED BY <1>3, <1>4, <1>5 DEF MineOut, StraysOut

LEMMA OrphanReplies ==
  ASSUME NEW s \in Seq(Replied)
  PROVE  /\ Count(Orphan(s), Mine) = 0
         /\ Count(Orphan(s), Stray) = Count(s, Stray) + Count(s, Mine)
<1>1. \A i \in DOMAIN s : s[i] \in Replied
  OBVIOUS
<1>2. \A i \in DOMAIN s : s[i].own => s[i].code # "Waiting"
  BY <1>1 DEF Replied
<1> QED BY <1>2, Subframes, CountOrphan

\* The head of the queue leaves it.
LEMMA HeadCounts ==
  ASSUME PortShape, replies # <<>>
  PROVE  /\ Count(Tail(replies), Mine) \in Nat /\ Count(Tail(replies), Stray) \in Nat
         /\ Head(replies).own => /\ MineIn = Count(Tail(replies), Mine) + 1
                                 /\ StraysIn = Count(Tail(replies), Stray)
         /\ ~Head(replies).own => /\ MineIn = Count(Tail(replies), Mine)
                                  /\ StraysIn = Count(Tail(replies), Stray) + 1
<1> DEFINE f == Head(replies)
<1>1. replies \in Seq(Replied)
  BY DEF PortShape, FrameShape
<1>2. f \in Replied /\ Tail(replies) \in Seq(Replied)
  BY <1>1, HeadTailProperties
<1>3. /\ f \in Mine <=> f.own
      /\ f \in Stray <=> ~f.own
  BY <1>2, Subframes, EitherWay DEF Replied
<1>4. /\ MineIn = Count(Tail(replies), Mine) + (IF f \in Mine THEN 1 ELSE 0)
      /\ StraysIn = Count(Tail(replies), Stray) + (IF f \in Stray THEN 1 ELSE 0)
  BY <1>1, CountTail DEF MineIn, StraysIn
<1>5. Count(Tail(replies), Mine) \in Nat /\ Count(Tail(replies), Stray) \in Nat
  BY <1>2, CountType
<1>6. CASE f.own
  <2>1. f \in Mine /\ f \notin Stray
    BY <1>3, <1>6
  <2> QED BY <1>4, <1>5, <1>6, <2>1
<1>7. CASE ~f.own
  <2>1. f \notin Mine /\ f \in Stray
    BY <1>3, <1>7
  <2> QED BY <1>4, <1>5, <1>7, <2>1
<1> QED BY <1>6, <1>7

LEMMA SkipCounts ==
  ASSUME PortShape, NEW c, Skip(c)
  PROVE  /\ MineOut' = MineOut /\ StraysOut' = StraysOut
         /\ Head(replies).own => MineIn' = MineIn - 1 /\ StraysIn' = StraysIn
         /\ ~Head(replies).own => MineIn' = MineIn /\ StraysIn' = StraysIn - 1
<1>1. replies # <<>> /\ replies' = Tail(replies) /\ UNCHANGED <<atNode, wire>>
  BY DEF Skip
<1>2. MineIn' = Count(Tail(replies), Mine) /\ StraysIn' = Count(Tail(replies), Stray)
  BY <1>1 DEF MineIn, StraysIn
<1> QED BY <1>1, <1>2, HeadCounts DEF MineOut, StraysOut

\* A reply ends the command, and its own answer, if it is another, turns stray.
LEMMA TakeCounts ==
  ASSUME PortShape, NEW c, NEW how, Finish(c, how), replies # <<>>,
         replies' = Orphan(Tail(replies))
  PROVE  /\ MineOut' = 0 /\ MineIn' = 0 /\ StraysOut' = StraysOut + MineOut
         /\ StraysIn' = StraysIn + MineIn - 1
         /\ Head(replies).own => MineIn >= 1
         /\ ~Head(replies).own => StraysIn >= 1
<1>1. replies \in Seq(Replied)
  BY DEF PortShape, FrameShape
<1>2. Tail(replies) \in Seq(Replied)
  BY <1>1, HeadTailProperties
<1>3. /\ MineIn' = 0
      /\ StraysIn' = Count(Tail(replies), Stray) + Count(Tail(replies), Mine)
  BY <1>2, OrphanReplies DEF MineIn, StraysIn
<1>4. MineIn \in Nat /\ StraysIn \in Nat
  BY CountsTyped
<1>5. CASE Head(replies).own
  BY <1>3, <1>4, <1>5, HeadCounts, FinishCounts
<1>6. CASE ~Head(replies).own
  BY <1>3, <1>4, <1>6, HeadCounts, FinishCounts
<1> QED BY <1>5, <1>6

LEMMA TimeoutCounts ==
  ASSUME PortShape, NEW c, Timeout(c)
  PROVE  /\ MineOut' = 0 /\ MineIn' = 0
         /\ StraysOut' = StraysOut + MineOut /\ StraysIn' = StraysIn + MineIn
<1>1. Finish(c, "nothing") /\ replies' = Orphan(replies)
  BY DEF Timeout
<1>2. replies \in Seq(Replied)
  BY DEF PortShape, FrameShape
<1> QED BY <1>1, <1>2, FinishCounts, OrphanReplies DEF MineIn, StraysIn

LEMMA FailCounts ==
  ASSUME PortShape, NEW c, WriteFails(c)
  PROVE  MineOut' = MineOut /\ StraysOut' = StraysOut /\ MineIn' = 0 /\ StraysIn' = 0
<1>1. UNCHANGED <<atNode, wire>> /\ replies' = <<>>
  BY DEF WriteFails, DrainReplies
<1> QED BY <1>1, CountEmpty DEF MineOut, MineIn, StraysOut, StraysIn

LEMMA DownCounts ==
  ASSUME PortShape, NEW c, Down(c)
  PROVE  /\ MineOut' = MineOut /\ StraysOut' = StraysOut
         /\ MineIn' = 0 /\ StraysIn' = StraysIn + MineIn
<1>1. UNCHANGED <<atNode, wire>> /\ replies' = Orphan(replies)
  BY DEF Down
<1>2. replies \in Seq(Replied)
  BY DEF PortShape, FrameShape
<1> QED BY <1>1, <1>2, OrphanReplies DEF MineOut, MineIn, StraysOut, StraysIn

\* An answer is owed while one of the frames is awaited.
LEMMA OwedCounts ==
  ASSUME PortShape
  PROVE  Owed <=> MineOut + MineIn > 0
<1>1. /\ MineOut \in Nat /\ MineIn \in Nat
      /\ \A i \in DOMAIN atNode : atNode[i] \in AnyFrame
      /\ \A i \in DOMAIN wire : wire[i] \in AnyFrame
      /\ \A i \in DOMAIN replies : replies[i] \in AnyFrame
  BY CountsTyped, Subframes DEF PortShape, FrameShape
<1>2. /\ Count(atNode, Mine) \in Nat /\ Count(wire, Mine) \in Nat /\ Count(replies, Mine) \in Nat
      /\ Count(atNode, Mine) = 0 <=> \A i \in DOMAIN atNode : atNode[i] \notin Mine
      /\ Count(wire, Mine) = 0 <=> \A i \in DOMAIN wire : wire[i] \notin Mine
      /\ Count(replies, Mine) = 0 <=> \A i \in DOMAIN replies : replies[i] \notin Mine
  BY CountType DEF PortShape, FrameShape
<1>3. /\ Count(atNode, Mine) = 0 <=> \A i \in DOMAIN atNode : ~atNode[i].own
      /\ Count(wire, Mine) = 0 <=> \A i \in DOMAIN wire : ~wire[i].own
      /\ Count(replies, Mine) = 0 <=> \A i \in DOMAIN replies : ~replies[i].own
  BY <1>1, <1>2 DEF Mine
<1>4. MineOut + MineIn > 0 <=>
        ~(Count(atNode, Mine) = 0 /\ Count(wire, Mine) = 0 /\ Count(replies, Mine) = 0)
  BY <1>2 DEF MineOut, MineIn
<1> QED BY <1>3, <1>4 DEF Owed

LEMMA CloseCounts ==
  ASSUME PortShape, Close
  PROVE  MineOut' = 0 /\ StraysOut' = 0 /\ MineIn' = MineIn /\ StraysIn' = StraysIn
<1>1. atNode' = <<>> /\ wire' = <<>> /\ UNCHANGED replies
  BY DEF Close
<1> QED BY <1>1, CountEmpty DEF MineOut, MineIn, StraysOut, StraysIn

-----------------------------------------------------------------------------
(* One answer is awaited at a time, and it fits. *)

LEMMA ShapeStep ==
  ASSUME PortShape, Awaited, [PortNext]_portVars
  PROVE  PortShape'
<1>1. CASE MessageArrives \/ NodeAnswers \/ NodeIgnores \/ ReadLoop \/ Close
  BY <1>1, WorldShape
<1>2. CASE \/ \E c \in Askers, k \in Kinds, s \in Slots \union {Nothing} : Ask(c, k, s)
           \/ StartDrain
  BY <1>2, AskShape
<1>3. CASE \E c \in Callers : Begin(c) \/ WriteFails(c) \/ Await(c)
  BY <1>3, TurnShape, AwaitShape DEF Awaited
<1>4. CASE UNCHANGED portVars
  BY <1>4 DEF portVars, PortShape, FrameShape, CallerShape, RecordShape, Idle
<1> QED BY <1>1, <1>2, <1>3, <1>4 DEF PortNext

LEMMA HeadFits ==
  ASSUME PortShape, Fitting, replies # <<>>, Head(replies).own
  PROVE  Fits(Head(replies))
<1>1. 1 \in DOMAIN replies /\ Head(replies) = replies[1]
  BY DEF PortShape, FrameShape
<1> QED BY <1>1 DEF Fitting

\* An awaited answer is never skipped.
LEMMA SkipsStrays ==
  ASSUME PortShape, Fitting, NEW c, Skip(c)
  PROVE  ~Head(replies).own
<1>1. /\ holder = c /\ replies # <<>>
      /\ Collect(command[c].kind, command[c].slot, Head(replies)) = "skip"
  BY DEF Skip
<1> QED BY <1>1, HeadFits DEF Fits

LEMMA CountsTypedNext ==
  ASSUME PortShape'
  PROVE  /\ MineOut' \in Nat /\ MineIn' \in Nat /\ StraysOut' \in Nat /\ StraysIn' \in Nat
         /\ Strays' = StraysOut' + StraysIn'
<1>1. /\ atNode' \in Seq(Written) /\ wire' \in Seq(Pushed) /\ replies' \in Seq(Replied)
      /\ \A i \in DOMAIN atNode' : atNode'[i] \in AnyFrame
      /\ \A i \in DOMAIN wire' : wire'[i] \in AnyFrame
      /\ \A i \in DOMAIN replies' : replies'[i] \in AnyFrame
  BY Subframes DEF PortShape, FrameShape
<1>2. /\ Count(atNode', Mine) \in Nat /\ Count(wire', Mine) \in Nat
      /\ Count(replies', Mine) \in Nat
      /\ Count(atNode', Stray) \in Nat /\ Count(wire', Stray) \in Nat
      /\ Count(replies', Stray) \in Nat
  BY <1>1, CountType
<1>3. /\ {i \in DOMAIN atNode' : ~atNode'[i].own /\ atNode'[i].code # "Waiting"}
           = {i \in DOMAIN atNode' : atNode'[i] \in Stray}
      /\ {i \in DOMAIN wire' : ~wire'[i].own /\ wire'[i].code # "Waiting"}
           = {i \in DOMAIN wire' : wire'[i] \in Stray}
      /\ {i \in DOMAIN replies' : ~replies'[i].own /\ replies'[i].code # "Waiting"}
           = {i \in DOMAIN replies' : replies'[i] \in Stray}
  BY <1>1 DEF Stray
<1>4. Strays' = Count(atNode', Stray) + Count(wire', Stray) + Count(replies', Stray)
  BY <1>3 DEF Strays, Count
<1> QED BY <1>2, <1>4 DEF MineOut, MineIn, StraysOut, StraysIn

LEMMA WorldAwaits ==
  ASSUME PortShape, Awaited, PortShape',
         MessageArrives \/ NodeAnswers \/ NodeIgnores \/ ReadLoop \/ Close
  PROVE  Awaited'
<1>1. UNCHANGED <<holder, command>>
  BY DEF MessageArrives, NodeAnswers, NodeIgnores, ReadLoop, Close
<1>2. MineOut \in Nat /\ MineIn \in Nat
  BY CountsTyped
<1>3. MineOut' \in Nat /\ MineIn' \in Nat
  BY CountsTypedNext
<1>4. \/ MineOut' = MineOut /\ MineIn' = MineIn
      \/ MineOut' = 0 /\ MineIn' = MineIn
      \/ MineOut' = MineOut - 1 /\ MineIn' = MineIn
      \/ MineOut' = MineOut - 1 /\ MineIn' = MineIn + 1
  <2>1. CASE MessageArrives
    BY <2>1, ArriveCounts
  <2>2. CASE NodeAnswers
    BY <2>2, AnswerCounts
  <2>3. CASE NodeIgnores
    BY <2>3, IgnoreCounts
  <2>4. CASE ReadLoop
    BY <2>4, ReadCounts
  <2>5. CASE Close
    BY <2>5, CloseCounts
  <2> QED BY <2>1, <2>2, <2>3, <2>4, <2>5
<1>5. MineOut' + MineIn' <= MineOut + MineIn
  BY <1>2, <1>3, <1>4 DEF MineOut, MineIn
<1>6. closed' => MineOut' = 0
  <2>1. CASE Close
    BY <2>1, CloseCounts
  <2>2. CASE MessageArrives \/ NodeAnswers \/ NodeIgnores \/ ReadLoop
    <3>1. ~closed'
      BY <2>2 DEF MessageArrives, NodeAnswers, NodeIgnores, ReadLoop
    <3> QED BY <3>1
  <2> QED BY <2>1, <2>2
<1>7. MineOut + MineIn <= 1 => MineOut' + MineIn' <= 1
  BY <1>2, <1>3, <1>5 DEF MineOut, MineIn
<1>8. MineOut + MineIn = 0 => MineOut' + MineIn' = 0
  BY <1>2, <1>3, <1>5 DEF MineOut, MineIn
<1> QED BY <1>1, <1>6, <1>7, <1>8 DEF Awaited, Idle

LEMMA AskAwaits ==
  ASSUME PortShape, Awaited,
         \/ \E c \in Askers, k \in Kinds, s \in Slots \union {Nothing} : Ask(c, k, s)
         \/ StartDrain
  PROVE  /\ Awaited'
         /\ holder # Nobody => command'[holder] = command[holder]
<1>1. UNCHANGED <<atNode, wire, replies, holder, closed>>
  BY DEF Ask, StartDrain
<1>2. holder # Nobody => ~Idle(holder) /\ holder \in Callers
  BY DEF Awaited, PortShape, CallerShape
<1>3. \A c \in Callers : ~Idle(c) => command'[c] = command[c]
  BY Apart DEF Ask, StartDrain, Idle, PortShape, CallerShape
<1> QED BY <1>1, <1>2, <1>3 DEF Awaited, MineOut, MineIn, Idle

LEMMA TurnAwaits ==
  ASSUME PortShape, Awaited, NEW c \in Callers, Begin(c) \/ WriteFails(c)
  PROVE  Awaited'
<1>1. MineOut \in Nat /\ MineIn \in Nat
  BY CountsTyped
<1>2. MineOut = 0 /\ MineIn = 0
  <2>1. holder = Nobody
    BY DEF Begin, WriteFails
  <2>2. MineOut + MineIn = 0
    BY <2>1 DEF Awaited
  <2> QED BY <1>1, <2>2
<1>3. CASE Begin(c)
  <2>1. holder' = c /\ ~closed' /\ ~Idle(c)'
    BY <1>3 DEF Begin, Idle
  <2> QED BY <1>2, <1>3, <2>1, BeginCounts, Apart DEF Awaited
<1>4. CASE WriteFails(c)
  <2>1. holder' = Nobody
    BY <1>4 DEF WriteFails
  <2> QED BY <1>2, <1>4, <2>1, FailCounts DEF Awaited
<1> QED BY <1>3, <1>4

LEMMA AwaitAwaits ==
  ASSUME PortShape, Awaited, Fitting, NEW c \in Callers, Await(c)
  PROVE  Awaited'
<1>1. MineOut \in Nat /\ MineIn \in Nat
  BY CountsTyped
<1>2. CASE Skip(c)
  <2>1. UNCHANGED <<holder, command, closed>>
    BY <1>2 DEF Skip, host, counters
  <2>2. MineOut' = MineOut /\ MineIn' = MineIn
    BY <1>2, SkipCounts, SkipsStrays
  <2> QED BY <2>1, <2>2 DEF Awaited, Idle
<1>3. CASE TakeReply(c) \/ (c = Boot /\ HandshakeReply) \/ (c = Drain /\ NextMessage)
  <2>1. \E how : Finish(c, how)
    BY <1>3 DEF TakeReply, HandshakeReply, NextMessage
  <2>2. replies # <<>> /\ replies' = Orphan(Tail(replies))
    BY <1>3 DEF TakeReply, HandshakeReply, NextMessage
  <2>3. MineOut' = 0 /\ MineIn' = 0 /\ holder' = Nobody
    BY <2>1, <2>2, TakeCounts, FinishShape
  <2> QED BY <2>3 DEF Awaited
<1>4. CASE Timeout(c)
  <2>1. holder' = Nobody
    BY <1>4 DEF Timeout, Finish
  <2> QED BY <1>4, <2>1, TimeoutCounts DEF Awaited
<1>5. CASE Down(c)
  <2>1. holder' = Nobody /\ closed
    BY <1>5 DEF Down
  <2> QED BY <1>1, <1>5, <2>1, DownCounts DEF Awaited
<1> QED BY <1>2, <1>3, <1>4, <1>5 DEF Await

\* With nothing awaited, nothing has to fit.
LEMMA NoneFits ==
  ASSUME PortShape', MineOut' = 0, MineIn' = 0
  PROVE  Fitting'
<1>1. /\ \A i \in DOMAIN atNode' : atNode'[i] \in AnyFrame
      /\ \A i \in DOMAIN wire' : wire'[i] \in AnyFrame
      /\ \A i \in DOMAIN replies' : replies'[i] \in AnyFrame
  BY Subframes DEF PortShape, FrameShape
<1>2. /\ Count(atNode', Mine) \in Nat /\ Count(wire', Mine) \in Nat
      /\ Count(atNode', Mine) = 0 => \A i \in DOMAIN atNode' : atNode'[i] \notin Mine
      /\ Count(wire', Mine) = 0 => \A i \in DOMAIN wire' : wire'[i] \notin Mine
      /\ Count(replies', Mine) = 0 => \A i \in DOMAIN replies' : replies'[i] \notin Mine
  BY CountType DEF PortShape, FrameShape
<1>3. Count(atNode', Mine) = 0 /\ Count(wire', Mine) = 0 /\ Count(replies', Mine) = 0
  BY <1>2 DEF MineOut, MineIn
<1>4. /\ \A i \in DOMAIN atNode' : ~atNode'[i].own
      /\ \A i \in DOMAIN wire' : ~wire'[i].own
      /\ \A i \in DOMAIN replies' : ~replies'[i].own
  BY <1>1, <1>2, <1>3 DEF Mine
<1> QED BY <1>4 DEF Fitting

\* Only a drain is answered by a message.
LEMMA SyncIsDrain ==
  ASSUME NEW c, NEW q, Request(c, q), q.kind = "sync"
  PROVE  c = Drain
BY PortAssumption DEF Request, BootKinds, AskKinds

LEMMA WorldFits ==
  ASSUME PortShape, Awaited, Fitting, PortShape',
         MessageArrives \/ NodeAnswers \/ NodeIgnores \/ ReadLoop \/ Close
  PROVE  Fitting'
<1> DEFINE FitFrame(f) == f.own => Fits(f)
           FitCommand(f) == f.own => f.code = command[holder].kind /\ f.item = command[holder].slot
<1>1. UNCHANGED <<holder, command>>
  BY DEF MessageArrives, NodeAnswers, NodeIgnores, ReadLoop, Close
<1>2. /\ atNode \in Seq(Written) /\ wire \in Seq(Pushed) /\ replies \in Seq(Replied)
      /\ queue \in Seq(Messages)
  BY DEF PortShape, FrameShape
<1>3. /\ \A i \in DOMAIN atNode : FitCommand(atNode[i])
      /\ \A i \in DOMAIN wire : FitFrame(wire[i])
      /\ \A i \in DOMAIN replies : FitFrame(replies[i])
  BY DEF Fitting
<1>4. SUFFICES /\ \A i \in DOMAIN atNode' : FitCommand(atNode'[i])
               /\ \A i \in DOMAIN wire' : FitFrame(wire'[i])
               /\ \A i \in DOMAIN replies' : FitFrame(replies'[i])
  BY <1>1 DEF Fitting, Fits
<1> HIDE DEF FitFrame, FitCommand
<1>5. atNode # <<>> => \A i \in DOMAIN Tail(atNode) : FitCommand(Tail(atNode)[i])
  BY <1>2, <1>3
<1>6. wire # <<>> => \A i \in DOMAIN Tail(wire) : FitFrame(Tail(wire)[i])
  BY <1>2, <1>3
<1>7. CASE MessageArrives
  <2> DEFINE g == Frame("Waiting", Nothing, FALSE)
  <2>1. wire' = Append(wire, g) /\ UNCHANGED <<atNode, replies>>
    BY <1>7 DEF MessageArrives
  <2>2. FitFrame(g)
    BY DEF FitFrame, Frame
  <2> HIDE DEF g
  <2> QED BY <1>2, <1>3, <2>1, <2>2
<1>8. CASE NodeAnswers
  <2> DEFINE c == Head(atNode)
  <2>1. atNode # <<>> /\ atNode' = Tail(atNode) /\ UNCHANGED replies
    BY <1>8 DEF NodeAnswers
  <2>2. PICK f \in AnswersTo(c) : wire' = Append(wire, f)
    BY <1>8 DEF NodeAnswers
  <2>3. c \in Written /\ 1 \in DOMAIN atNode /\ c = atNode[1]
    BY <1>2, <2>1
  <2>4. /\ f.own = c.own
        /\ Collect(c.code, c.item, f) # "skip"
        /\ f.code = "Message" => c.code = "sync"
    BY <1>2, <2>3, AnswerFits
  <2>5. ASSUME f.own PROVE Fits(f)
    <3>1. c.code = command[holder].kind /\ c.item = command[holder].slot
      BY <1>3, <2>3, <2>4, <2>5 DEF FitCommand
    <3>2. MineOut # 0
      BY <2>3, <2>4, <2>5, CountsTyped
    <3>3. holder \in Callers /\ Request(holder, command[holder])
      BY <3>2, CountsTyped DEF Awaited, PortShape, CallerShape
    <3>4. f.code = "Message" => holder = Drain
      BY <2>4, <3>1, <3>3, SyncIsDrain
    <3> QED BY <2>4, <3>1, <3>4 DEF Fits
  <2>6. FitFrame(f)
    BY <2>5 DEF FitFrame
  <2> QED BY <1>2, <1>3, <1>5, <2>1, <2>2, <2>6
<1>9. CASE NodeIgnores
  <2>1. atNode # <<>> /\ atNode' = Tail(atNode) /\ UNCHANGED <<wire, replies>>
    BY <1>9 DEF NodeIgnores
  <2> QED BY <1>3, <1>5, <2>1
<1>10. CASE ReadLoop
  <2>1. wire # <<>> /\ wire' = Tail(wire) /\ UNCHANGED atNode
    BY <1>10 DEF ReadLoop
  <2>2. replies' = replies \/ replies' = Append(replies, Head(wire))
    BY <1>10 DEF ReadLoop, HandlePush, QueueReply
  <2>3. FitFrame(Head(wire))
    BY <1>2, <1>3, <2>1
  <2>4. \A i \in DOMAIN replies' : FitFrame(replies'[i])
    BY <1>2, <1>3, <2>2, <2>3
  <2> QED BY <1>3, <1>6, <2>1, <2>4
<1>11. CASE Close
  <2>1. atNode' = <<>> /\ wire' = <<>> /\ UNCHANGED replies
    BY <1>11 DEF Close
  <2> QED BY <1>3, <2>1
<1> QED BY <1>7, <1>8, <1>9, <1>10, <1>11

LEMMA CallersFit ==
  ASSUME PortShape, Awaited, Fitting, PortShape',
         \/ \E c \in Askers, k \in Kinds, s \in Slots \union {Nothing} : Ask(c, k, s)
         \/ StartDrain
         \/ \E c \in Callers : Begin(c) \/ WriteFails(c) \/ Await(c)
  PROVE  Fitting'
<1>1. MineOut \in Nat /\ MineIn \in Nat
  BY CountsTyped
<1>2. CASE \/ \E c \in Askers, k \in Kinds, s \in Slots \union {Nothing} : Ask(c, k, s)
           \/ StartDrain
  <2>1. UNCHANGED <<atNode, wire, replies, holder>>
    BY <1>2 DEF Ask, StartDrain
  <2>2. CASE holder = Nobody
    <3>1. MineOut + MineIn = 0
      BY <2>2 DEF Awaited
    <3>2. MineOut = 0 /\ MineIn = 0
      BY <1>1, <3>1
    <3>3. MineOut' = 0 /\ MineIn' = 0
      BY <2>1, <3>2 DEF MineOut, MineIn
    <3> QED BY <3>3, NoneFits
  <2>3. CASE holder # Nobody
    <3>1. command'[holder] = command[holder]
      BY <1>2, <2>3, AskAwaits
    <3> QED BY <2>1, <3>1 DEF Fitting, Fits
  <2> QED BY <2>2, <2>3
<1>3. ASSUME NEW c \in Callers, Begin(c) PROVE Fitting'
  <2> DEFINE f == Frame(command[c].kind, command[c].slot, TRUE)
  <2>1. /\ atNode' = Append(atNode, f) /\ replies' = <<>> /\ holder = Nobody /\ holder' = c
        /\ UNCHANGED <<wire, command>>
    BY <1>3 DEF Begin, DrainReplies
  <2>2. MineOut + MineIn = 0
    BY <2>1 DEF Awaited
  <2>3. MineOut = 0
    BY <1>1, <2>2
  <2>4. /\ \A i \in DOMAIN atNode : ~atNode[i].own
        /\ \A i \in DOMAIN wire : ~wire[i].own
    BY <2>3, CountsTyped
  <2>5. f.code = command[c].kind /\ f.item = command[c].slot
    BY DEF Frame
  <2>6. atNode \in Seq(Written)
    BY DEF PortShape, FrameShape
  <2> HIDE DEF f
  <2>7. \A i \in DOMAIN atNode' : atNode'[i].own => atNode'[i] = f
    BY <2>1, <2>4, <2>6
  <2>8. /\ \A i \in DOMAIN wire' : ~wire'[i].own
        /\ \A i \in DOMAIN replies' : ~replies'[i].own
    BY <2>1, <2>4
  <2> QED BY <2>1, <2>5, <2>7, <2>8 DEF Fitting
<1>4. ASSUME NEW c \in Callers, WriteFails(c) PROVE Fitting'
  <2>1. holder = Nobody
    BY <1>4 DEF WriteFails
  <2>2. MineOut + MineIn = 0
    BY <2>1 DEF Awaited
  <2>3. MineOut = 0
    BY <1>1, <2>2
  <2> QED BY <1>4, <2>3, FailCounts, NoneFits
<1>5. ASSUME NEW c \in Callers, Skip(c) PROVE Fitting'
  <2>1. /\ replies # <<>> /\ replies' = Tail(replies)
        /\ UNCHANGED <<atNode, wire, holder, command>>
    BY <1>5 DEF Skip
  <2>2. replies \in Seq(Replied) /\ \A i \in DOMAIN replies : replies[i].own => Fits(replies[i])
    BY DEF PortShape, FrameShape, Fitting
  <2> DEFINE FitFrame(f) == f.own => Fits(f)
  <2>3. \A i \in DOMAIN replies : FitFrame(replies[i])
    BY <2>2
  <2> HIDE DEF FitFrame
  <2>4. \A i \in DOMAIN replies' : FitFrame(replies'[i])
    BY <2>1, <2>2, <2>3
  <2> QED BY <2>1, <2>4 DEF Fitting, Fits, FitFrame
<1>6. ASSUME NEW c \in Callers,
             TakeReply(c) \/ (c = Boot /\ HandshakeReply) \/ (c = Drain /\ NextMessage)
      PROVE  Fitting'
  <2>1. \E how : Finish(c, how)
    BY <1>6 DEF TakeReply, HandshakeReply, NextMessage
  <2>2. replies # <<>> /\ replies' = Orphan(Tail(replies))
    BY <1>6 DEF TakeReply, HandshakeReply, NextMessage
  <2>3. MineOut' = 0 /\ MineIn' = 0
    BY <2>1, <2>2, TakeCounts
  <2> QED BY <2>3, NoneFits
<1>7. ASSUME NEW c \in Callers, Timeout(c) PROVE Fitting'
  BY <1>7, TimeoutCounts, NoneFits
<1>8. ASSUME NEW c \in Callers, Down(c) PROVE Fitting'
  <2>1. MineOut = 0
    BY <1>8 DEF Down, Awaited
  <2> QED BY <1>8, <2>1, DownCounts, NoneFits
<1> QED BY <1>2, <1>3, <1>4, <1>5, <1>6, <1>7, <1>8 DEF Await

-----------------------------------------------------------------------------
(* How the number of strays changes. *)

LEMMA WorldStrays ==
  ASSUME PortShape, PortShape',
         MessageArrives \/ NodeAnswers \/ NodeIgnores \/ ReadLoop \/ Close
  PROVE  Strays \in Nat /\ Strays' \in Nat /\ Strays' <= Strays
<1>1. /\ StraysOut \in Nat /\ StraysIn \in Nat /\ StraysOut' \in Nat /\ StraysIn' \in Nat
      /\ Strays = StraysOut + StraysIn /\ Strays' = StraysOut' + StraysIn'
  BY CountsTyped, CountsTypedNext
<1>2. \/ StraysOut' = StraysOut /\ StraysIn' = StraysIn
      \/ StraysOut' = StraysOut - 1 /\ StraysIn' = StraysIn
      \/ StraysOut' = StraysOut - 1 /\ StraysIn' = StraysIn + 1
      \/ StraysOut' = 0 /\ StraysIn' = StraysIn
  <2>1. CASE MessageArrives
    BY <2>1, ArriveCounts
  <2>2. CASE NodeAnswers
    BY <2>2, AnswerCounts
  <2>3. CASE NodeIgnores
    BY <2>3, IgnoreCounts
  <2>4. CASE ReadLoop
    BY <2>4, ReadCounts
  <2>5. CASE Close
    BY <2>5, CloseCounts
  <2> QED BY <2>1, <2>2, <2>3, <2>4, <2>5
<1> QED BY <1>1, <1>2 DEF StraysOut, StraysIn

\* The strays that are left over are thrown away before a command is written.
LEMMA TurnStrays ==
  ASSUME PortShape, NEW c \in Callers, Begin(c) \/ WriteFails(c), PortShape'
  PROVE  Strays \in Nat /\ Strays' \in Nat /\ Strays' <= Strays
<1>1. /\ StraysOut \in Nat /\ StraysIn \in Nat
      /\ Strays = StraysOut + StraysIn /\ Strays' = StraysOut' + StraysIn'
  BY CountsTyped, CountsTypedNext
<1>2. StraysOut' = StraysOut /\ StraysIn' = 0
  BY BeginCounts, FailCounts
<1> QED BY <1>1, <1>2 DEF StraysOut, StraysIn

LEMMA SkipStrays ==
  ASSUME PortShape, Fitting, NEW c, Skip(c), PortShape'
  PROVE  Strays \in Nat /\ Strays' \in Nat /\ Strays' = Strays - 1
<1>1. /\ StraysOut \in Nat /\ StraysIn \in Nat /\ StraysOut' \in Nat /\ StraysIn' \in Nat
      /\ Strays = StraysOut + StraysIn /\ Strays' = StraysOut' + StraysIn'
  BY CountsTyped, CountsTypedNext
<1>2. StraysOut' = StraysOut /\ StraysIn' = StraysIn - 1
  BY SkipCounts, SkipsStrays
<1> QED BY <1>1, <1>2 DEF StraysOut, StraysIn

LEMMA TakeStrays ==
  ASSUME PortShape, Awaited, NEW c, NEW how, Finish(c, how), replies # <<>>,
         replies' = Orphan(Tail(replies)), PortShape'
  PROVE  /\ Strays \in Nat /\ Strays' \in Nat
         /\ Head(replies).own => Strays' = Strays
         /\ ~Head(replies).own => Strays > 0 /\ (Strays' = Strays - 1 \/ Strays' = Strays)
<1>1. /\ StraysOut \in Nat /\ StraysIn \in Nat /\ MineOut \in Nat /\ MineIn \in Nat
      /\ StraysOut' \in Nat /\ StraysIn' \in Nat
      /\ Strays = StraysOut + StraysIn /\ Strays' = StraysOut' + StraysIn'
  BY CountsTyped, CountsTypedNext
<1>2. /\ StraysOut' = StraysOut + MineOut /\ StraysIn' = StraysIn + MineIn - 1
      /\ Head(replies).own => MineIn >= 1
      /\ ~Head(replies).own => StraysIn >= 1
  BY TakeCounts
<1>3. MineOut + MineIn <= 1
  BY DEF Awaited
<1>4. Strays' = StraysOut + MineOut + StraysIn + MineIn - 1
  BY <1>1, <1>2 DEF StraysOut, StraysIn, MineOut, MineIn
<1>5. CASE Head(replies).own
  <2>1. MineOut = 0 /\ MineIn = 1
    BY <1>1, <1>2, <1>3, <1>5
  <2>2. Strays' = Strays
    BY <1>1, <1>4, <2>1 DEF StraysOut, StraysIn
  <2>3. Strays \in Nat /\ Strays' \in Nat
    BY <1>1 DEF StraysOut, StraysIn
  <2> QED BY <1>5, <2>2, <2>3
<1>6. CASE ~Head(replies).own
  <2>1. MineOut + MineIn = 0 \/ MineOut + MineIn = 1
    BY <1>1, <1>3
  <2> QED BY <1>1, <1>2, <1>4, <1>6, <2>1
<1> QED BY <1>5, <1>6

LEMMA TimeoutStrays ==
  ASSUME PortShape, Awaited, NEW c, Timeout(c), PortShape'
  PROVE  /\ Strays \in Nat /\ Strays' \in Nat
         /\ Strays' = Strays + (IF Owed THEN 1 ELSE 0)
<1>1. /\ StraysOut \in Nat /\ StraysIn \in Nat /\ MineOut \in Nat /\ MineIn \in Nat
      /\ Strays = StraysOut + StraysIn /\ Strays' = StraysOut' + StraysIn' /\ Strays' \in Nat
  BY CountsTyped, CountsTypedNext DEF StraysOut, StraysIn
<1>2. StraysOut' = StraysOut + MineOut /\ StraysIn' = StraysIn + MineIn
  BY TimeoutCounts
<1>3. Strays' = Strays + (MineOut + MineIn)
  BY <1>1, <1>2
<1>4. MineOut + MineIn = IF Owed THEN 1 ELSE 0
  BY <1>1, OwedCounts DEF Awaited
<1> QED BY <1>1, <1>3, <1>4

LEMMA DownStrays ==
  ASSUME PortShape, Awaited, NEW c, Down(c), PortShape'
  PROVE  /\ Strays \in Nat /\ Strays' \in Nat
         /\ holder = Nobody => Strays' = Strays
         /\ Strays' = Strays \/ Strays' = Strays + 1
<1>1. /\ StraysOut \in Nat /\ StraysIn \in Nat /\ MineOut \in Nat /\ MineIn \in Nat
      /\ Strays = StraysOut + StraysIn /\ Strays' = StraysOut' + StraysIn' /\ Strays' \in Nat
  BY CountsTyped, CountsTypedNext DEF StraysOut, StraysIn
<1>2. StraysOut' = StraysOut /\ StraysIn' = StraysIn + MineIn
  BY DownCounts
<1>3. Strays' = Strays + MineIn
  BY <1>1, <1>2
<1>4. /\ MineIn = 0 \/ MineIn = 1
      /\ holder = Nobody => MineIn = 0
  BY <1>1 DEF Awaited
<1> QED BY <1>1, <1>3, <1>4

\* A closed session stays closed.
LEMMA ClosedStays ==
  ASSUME PortShape, Awaited, [PortNext]_portVars, closed
  PROVE  closed'
<1>1. Nobody \notin Callers
  BY Apart
<1>2. CASE MessageArrives \/ NodeAnswers \/ NodeIgnores \/ ReadLoop \/ Close
  BY <1>2 DEF MessageArrives, NodeAnswers, NodeIgnores, ReadLoop, Close
<1>3. CASE \/ \E c \in Askers, k \in Kinds, s \in Slots \union {Nothing} : Ask(c, k, s)
           \/ StartDrain
  BY <1>3 DEF Ask, StartDrain
<1>4. ASSUME NEW c \in Callers, Begin(c) \/ WriteFails(c) PROVE closed'
  BY <1>4 DEF Begin, WriteFails
<1>5. ASSUME NEW c \in Callers, Await(c) PROVE closed'
  <2>1. CASE Skip(c) \/ TakeReply(c) \/ NextMessage \/ Down(c)
    BY <2>1 DEF Skip, TakeReply, NextMessage, Down
  <2>2. CASE HandshakeReply
    <3>1. PICK ok : AfterBoot(ok)
      BY <2>2 DEF HandshakeReply
    <3> QED BY <3>1 DEF AfterBoot
  <2>3. CASE Timeout(c)
    <3>1. GiveUp(c) /\ ~Idle(c)
      BY <1>1, <2>3 DEF Timeout, Awaited
    <3> QED BY <3>1, GiveUpShape
  <2> QED BY <1>5, <2>1, <2>2, <2>3 DEF Await
<1>6. CASE UNCHANGED portVars
  BY <1>6 DEF portVars
<1> QED BY <1>2, <1>3, <1>4, <1>5, <1>6 DEF PortNext

LEMMA LateStep ==
  ASSUME PortShape, Awaited, Fitting, StraysLate, [PortNext]_portVars, PortShape'
  PROVE  StraysLate'
<1> SUFFICES ASSUME ~closed' PROVE Strays' <= late'
  BY DEF StraysLate
<1>1. ~closed /\ Strays <= late
  BY ClosedStays DEF StraysLate
<1>2. late \in Nat /\ Strays \in Nat /\ Strays' \in Nat
  BY CountsTyped, CountsTypedNext DEF PortShape, RecordShape, StraysOut, StraysIn
<1>3. SUFFICES ASSUME late' # late \/ ~(Strays' <= Strays)
               PROVE  Strays' <= late'
  BY <1>1, <1>2 DEF Strays
<1>4. CASE MessageArrives \/ NodeAnswers \/ NodeIgnores \/ ReadLoop \/ Close
  <2>1. late' = late
    BY <1>4 DEF MessageArrives, NodeAnswers, NodeIgnores, ReadLoop, Close, counters
  <2> QED BY <1>3, <1>4, <2>1, WorldStrays
<1>5. CASE \/ \E c \in Askers, k \in Kinds, s \in Slots \union {Nothing} : Ask(c, k, s)
           \/ StartDrain
  <2>1. UNCHANGED <<atNode, wire, replies, late>>
    BY <1>5 DEF Ask, StartDrain, counters
  <2>2. late' = late /\ Strays' = Strays
    BY <2>1 DEF Strays
  <2> QED BY <1>1, <2>2
<1>6. ASSUME NEW c \in Callers, Begin(c) \/ WriteFails(c) PROVE Strays' <= late'
  <2>1. late' = late
    BY <1>6 DEF Begin, WriteFails, counters
  <2> QED BY <1>3, <1>6, <2>1, TurnStrays
<1>7. ASSUME NEW c \in Callers, Skip(c) PROVE Strays' <= late'
  <2>1. late' = late
    BY <1>7 DEF Skip, counters
  <2>2. Strays' = Strays - 1
    BY <1>7, SkipStrays
  <2> QED BY <1>1, <1>2, <2>1, <2>2
<1>8. ASSUME NEW c \in Callers,
             TakeReply(c) \/ (c = Boot /\ HandshakeReply) \/ (c = Drain /\ NextMessage)
      PROVE  Strays' <= late'
  <2>1. \E how : Finish(c, how)
    BY <1>8 DEF TakeReply, HandshakeReply, NextMessage
  <2>2. replies # <<>> /\ replies' = Orphan(Tail(replies)) /\ late' = late
    BY <1>8 DEF TakeReply, HandshakeReply, NextMessage, counters
  <2>3. Strays' = Strays \/ Strays' = Strays - 1
    BY <2>1, <2>2, TakeStrays
  <2> QED BY <1>1, <1>2, <2>2, <2>3
<1>9. ASSUME NEW c \in Callers, Timeout(c) PROVE Strays' <= late'
  <2>1. late' = late + (IF Owed THEN 1 ELSE 0)
    BY <1>2, <1>9 DEF Timeout
  <2>2. Strays' = Strays + (IF Owed THEN 1 ELSE 0)
    BY <1>9, TimeoutStrays
  <2> QED BY <1>1, <1>2, <2>1, <2>2
<1>10. ASSUME NEW c \in Callers, Down(c) PROVE FALSE
  BY <1>1, <1>10 DEF Down
<1>11. CASE UNCHANGED portVars
  <2>1. UNCHANGED <<atNode, wire, replies, late>>
    BY <1>11 DEF portVars
  <2>2. late' = late /\ Strays' = Strays
    BY <2>1 DEF Strays
  <2> QED BY <1>1, <2>2
<1> QED BY <1>4, <1>5, <1>6, <1>7, <1>8, <1>9, <1>10, <1>11 DEF PortNext, Await

LEMMA SlotsStep ==
  ASSUME PortShape, Awaited, SlotsTellTheTruth, [PortNext]_portVars
  PROVE  SlotsTellTheTruth'
<1>1. /\ \A s \in Slots : channels[s] \in {s, Nothing}
      /\ channels \in [Slots -> Slots \union {Nothing}] /\ Nobody \notin Callers
  BY Apart DEF SlotsTellTheTruth, PortShape, RecordShape
<1>2. SUFFICES ASSUME channels' # channels
               PROVE  \A s \in Slots : channels'[s] \in {s, Nothing}
  BY <1>1 DEF SlotsTellTheTruth
<1>3. CASE MessageArrives \/ NodeAnswers \/ NodeIgnores \/ ReadLoop \/ Close
  BY <1>2, <1>3 DEF MessageArrives, NodeAnswers, NodeIgnores, ReadLoop, Close, host
<1>4. CASE \/ \E c \in Askers, k \in Kinds, s \in Slots \union {Nothing} : Ask(c, k, s)
           \/ StartDrain
  BY <1>2, <1>4 DEF Ask, StartDrain, host
<1>5. ASSUME NEW c \in Callers, Begin(c) \/ Skip(c) \/ HandshakeReply \/ NextMessage PROVE FALSE
  BY <1>2, <1>5 DEF Begin, Skip, HandshakeReply, NextMessage, host
<1>6. ASSUME NEW c \in Callers, WriteFails(c) \/ Timeout(c)
      PROVE  \A s \in Slots : channels'[s] \in {s, Nothing}
  <2>1. GiveUp(c) /\ ~Idle(c)
    BY <1>1, <1>6 DEF WriteFails, Timeout, Awaited
  <2> QED BY <1>1, <2>1, GiveUpShape
<1>7. ASSUME NEW c \in Callers, TakeReply(c)
      PROVE  \A s \in Slots : channels'[s] \in {s, Nothing}
  <2> DEFINE f == Head(replies)
             cmd == command[c]
             verdict == Collect(cmd.kind, cmd.slot, f)
  <2>1. channels' = [channels EXCEPT ![cmd.slot] = IF verdict = "accept" THEN f.item ELSE Nothing]
        /\ cmd.kind = "channel"
    BY <1>2, <1>7 DEF TakeReply
  <2>2. verdict = "accept" => f.item = cmd.slot
    BY <2>1 DEF Collect, Accepts
  <2> HIDE DEF f, cmd, verdict
  <2> QED BY <1>1, <2>1, <2>2
<1>8. ASSUME NEW c \in Callers, Down(c)
      PROVE  \A s \in Slots : channels'[s] \in {s, Nothing}
  <2>1. channels' = [channels EXCEPT ![command[c].slot] = Nothing]
    BY <1>2, <1>8 DEF Down
  <2> QED BY <1>1, <2>1
<1>9. CASE UNCHANGED portVars
  BY <1>2, <1>9 DEF portVars
<1> QED BY <1>3, <1>4, <1>5, <1>6, <1>7, <1>8, <1>9 DEF PortNext, Await

LEMMA InvInit == PortInit => PortInv
<1> SUFFICES ASSUME PortInit PROVE PortInv
  OBVIOUS
<1>1. PortShape
  BY ShapeInit
<1>2. atNode = <<>> /\ wire = <<>> /\ replies = <<>> /\ holder = Nobody /\ late = 0
  BY DEF PortInit
<1>3. MineOut = 0 /\ MineIn = 0 /\ StraysOut = 0 /\ StraysIn = 0
  BY <1>2, CountEmpty DEF MineOut, MineIn, StraysOut, StraysIn
<1>4. Strays = 0
  BY <1>1, <1>3, CountsTyped
<1>5. Awaited /\ StraysLate
  BY <1>2, <1>3, <1>4 DEF Awaited, StraysLate
<1>6. Fitting
  BY <1>2 DEF Fitting
<1>7. SlotsTellTheTruth
  BY DEF PortInit, SlotsTellTheTruth
<1> QED BY <1>1, <1>5, <1>6, <1>7 DEF PortInv

LEMMA InvStep ==
  ASSUME PortInv, [PortNext]_portVars
  PROVE  PortInv'
<1> USE DEF PortInv
<1>1. PortShape'
  BY ShapeStep
<1>2. Awaited'
  <2>1. CASE UNCHANGED portVars
    BY <2>1 DEF portVars, Awaited, MineOut, MineIn, Idle
  <2> QED BY <1>1, <2>1, WorldAwaits, AskAwaits, TurnAwaits, AwaitAwaits DEF PortNext
<1>3. Fitting'
  <2>1. CASE UNCHANGED portVars
    BY <2>1 DEF portVars, Fitting, Fits
  <2> QED BY <1>1, <2>1, WorldFits, CallersFit DEF PortNext
<1>4. StraysLate'
  BY <1>1, LateStep
<1>5. SlotsTellTheTruth'
  BY SlotsStep
<1> QED BY <1>1, <1>2, <1>3, <1>4, <1>5

\* PortInv holds: the state is well formed, one answer at most is awaited, it fits
\* the command of the holder of the lock, and a stray has missed its deadline.
THEOREM PortInvariant == PortSpec => []PortInv
<1>1. PortInit => PortInv
  BY InvInit
<1>2. PortInv /\ [PortNext]_portVars => PortInv'
  BY InvStep
<1> QED BY <1>1, <1>2, PTL DEF PortSpec

\* Every state of the session is well formed, and an open session has no more
\* strays on their way than answers that missed their deadline.
THEOREM PortTypeCorrect == PortSpec => []PortTypeOK
<1>1. PortInv => PortTypeOK
  <2> SUFFICES ASSUME PortInv PROVE PortTypeOK
    OBVIOUS
  <2>1. PortShape /\ StraysLate
    BY DEF PortInv
  <2>2. /\ \A i \in DOMAIN atNode : atNode[i] \in Written
        /\ \A i \in DOMAIN wire : wire[i] \in Pushed
        /\ \A i \in DOMAIN replies : replies[i] \in Replied
    BY <2>1 DEF PortShape, FrameShape
  <2>3. \A f \in Written \union Pushed \union Replied : f.own \in BOOLEAN /\ f.item \in Items
    <3>1. Slots \union {Nothing} \subseteq Items
      BY DEF Items
    <3> QED BY <3>1 DEF Written, Pushed, Replied, AnyFrame
  <2>4. \A frames \in {atNode, wire, replies} : \A i \in DOMAIN frames :
          frames[i].own \in BOOLEAN /\ frames[i].item \in Items
    BY <2>2, <2>3
  <2>5. \A c \in Callers : tries[c] \in 0 .. 2
    BY <2>1 DEF PortShape, CallerShape
  <2>6. /\ Len(replies) <= ReplyCap /\ holder \in Callers \union {Nobody}
        /\ stage \in 1 .. Len(Steps) + 1 /\ (~closed => Strays <= late)
    BY <2>1 DEF PortShape, FrameShape, CallerShape, StraysLate
  <2> QED BY <2>4, <2>5, <2>6 DEF PortTypeOK
<1> QED BY <1>1, PortInvariant, PTL

\* A slot never gets the name of another, whatever timed out before.
THEOREM NoWrongName == PortSpec => []SlotsTellTheTruth
<1>1. PortInv => SlotsTellTheTruth
  BY DEF PortInv
<1> QED BY <1>1, PortInvariant, PTL

-----------------------------------------------------------------------------
(* The port keeps its contract. *)

Asking == {c \in Callers : ~Idle(c)}

\* Nothing the callers can see has changed, but for strays thrown away.
LEMMA Unseen ==
  ASSUME UNCHANGED <<command, holder, ending>>, Strays \in Nat, Strays' \in Nat, Strays' <= Strays
  PROVE  [Contract!ContractNext]_Contract!contractVars
<1>1. Asking' = Asking
  BY DEF Asking, Idle
<1>2. CASE Strays' = Strays
  BY <1>1, <1>2 DEF Contract!contractVars, Asking
<1>3. CASE Strays' # Strays
  <2>1. Strays > 0 /\ Strays' \in 0 .. Strays - 1
    BY <1>3
  <2>2. Contract!Discard
    BY <1>1, <2>1 DEF Contract!Discard, Asking
  <2> QED BY <2>2 DEF Contract!ContractNext
<1> QED BY <1>2, <1>3

\* What one caller does leaves the others asking.
LEMMA OthersAsk ==
  ASSUME NEW c \in Callers, ~Idle(c), \A x \in Callers \ {c} : command'[x] = command[x]
  PROVE  c \in Asking /\ Asking' \in {Asking, Asking \ {c}}
<1>1. Asking' = Asking \/ Asking' = Asking \ {c}
  <2>1. CASE Idle(c)'
    BY <2>1 DEF Asking, Idle
  <2>2. CASE ~Idle(c)'
    BY <2>2 DEF Asking, Idle
  <2> QED BY <2>1, <2>2
<1> QED BY <1>1 DEF Asking

LEMMA EndOfTurn ==
  ASSUME PortInv, NEW c \in Callers, holder = c, holder' = Nobody,
         \A x \in Callers \ {c} : command'[x] = command[x]
  PROVE  Contract!EndTurn(c, ending')
<1>1. ~Idle(c)
  BY Apart DEF PortInv, Awaited
<1>2. Asking' \in {Asking, Asking \ {c}}
  BY <1>1, OthersAsk
<1> QED BY <1>2 DEF Contract!EndTurn, Asking, Nobody

LEMMA AskContract ==
  ASSUME PortInv, NEW c \in Callers, Idle(c), NEW q, Request(c, q),
         command' = [command EXCEPT ![c] = q],
         UNCHANGED <<atNode, wire, replies, holder, ending>>
  PROVE  Contract!ContractNext
<1>1. q # NoCommand
  BY RequestNotIdle
<1>2. command \in [Callers -> AnyCommand]
  BY DEF PortInv, PortShape, CallerShape
<1>3. Asking' = Asking \union {c} /\ c \notin Asking
  BY <1>1, <1>2 DEF Asking, Idle
<1>4. Strays' = Strays
  BY DEF Strays
<1>5. Contract!Ask(c)
  BY <1>3, <1>4 DEF Contract!Ask, Asking
<1> QED BY <1>5 DEF Contract!ContractNext

LEMMA TurnContract ==
  ASSUME PortInv, PortInv', NEW c \in Callers, Begin(c) \/ WriteFails(c)
  PROVE  Contract!ContractNext
<1>1. Strays \in Nat /\ Strays' \in 0 .. Strays
  BY TurnStrays DEF PortInv
<1>2. holder = Nobody /\ ~Idle(c)
  BY DEF Begin, WriteFails
<1>3. CASE Begin(c)
  <2>1. holder' = c /\ ending' = "none" /\ UNCHANGED command
    BY <1>3 DEF Begin
  <2>2. Asking' = Asking /\ c \in Asking
    BY <1>2, <2>1 DEF Asking, Idle
  <2>3. Contract!TakeTurn(c)
    BY <1>1, <1>2, <2>1, <2>2 DEF Contract!TakeTurn, Asking, Nobody
  <2> QED BY <2>3 DEF Contract!ContractNext
<1>4. CASE WriteFails(c)
  <2>1. holder' = holder /\ ending' = "nothing" /\ GiveUp(c)
    BY <1>4 DEF WriteFails
  <2>2. c \in Asking /\ Asking' \in {Asking, Asking \ {c}}
    BY <1>2, <2>1, GiveUpShape, OthersAsk DEF PortInv
  <2>3. Contract!GiveUpAsking(c)
    BY <1>1, <1>2, <2>1, <2>2 DEF Contract!GiveUpAsking, Asking, Nobody
  <2> QED BY <2>3 DEF Contract!ContractNext
<1> QED BY <1>3, <1>4

\* A reply ends the turn: the answer itself, or a stray.
LEMMA TakeContract ==
  ASSUME PortInv, PortInv', NEW c \in Callers, holder = c, replies # <<>>,
         Finish(c, Whose(Head(replies))), replies' = Orphan(Tail(replies)),
         \A x \in Callers \ {c} : command'[x] = command[x]
  PROVE  Contract!ContractNext
<1>1. holder' = Nobody /\ ending' = Whose(Head(replies))
  BY DEF Finish
<1>2. Contract!EndTurn(c, ending')
  BY <1>1, EndOfTurn
<1>3. /\ Strays \in Nat /\ Strays' \in Nat
      /\ Head(replies).own => Strays' = Strays
      /\ ~Head(replies).own => Strays > 0 /\ (Strays' = Strays - 1 \/ Strays' = Strays)
  BY TakeStrays DEF PortInv
<1>4. CASE Head(replies).own
  <2>1. ending' = "own" /\ Strays' = Strays
    BY <1>1, <1>3, <1>4 DEF Whose
  <2>2. Contract!Answered(c)
    BY <1>2, <2>1 DEF Contract!Answered
  <2> QED BY <2>2 DEF Contract!ContractNext
<1>5. CASE ~Head(replies).own
  <2>1. ending' = "late" /\ Strays > 0 /\ Strays' \in {Strays - 1, Strays}
    BY <1>1, <1>3, <1>5 DEF Whose
  <2>2. Contract!AnsweredByStray(c)
    BY <1>2, <2>1 DEF Contract!AnsweredByStray
  <2> QED BY <2>2 DEF Contract!ContractNext
<1> QED BY <1>4, <1>5

LEMMA NoAnswerContract ==
  ASSUME PortInv, NEW c \in Callers, holder = c, holder' = Nobody, ending' = "nothing",
         \A x \in Callers \ {c} : command'[x] = command[x],
         Strays' = Strays \/ Strays' = Strays + 1
  PROVE  Contract!ContractNext
<1>1. Contract!EndTurn(c, "nothing")
  BY EndOfTurn
<1>2. Contract!NotAnswered(c)
  BY <1>1 DEF Contract!NotAnswered
<1> QED BY <1>2 DEF Contract!ContractNext

LEMMA AwaitContract ==
  ASSUME PortInv, PortInv', NEW c \in Callers, Await(c)
  PROVE  [Contract!ContractNext]_Contract!contractVars
<1> USE DEF PortInv
<1>1. command \in [Callers -> AnyCommand] /\ Nobody \notin Callers
  BY Apart DEF PortShape, CallerShape
<1>2. CASE Skip(c)
  <2>1. UNCHANGED <<command, holder, ending>>
    BY <1>2 DEF Skip
  <2>2. Strays \in Nat /\ Strays' \in Nat /\ Strays' <= Strays
    <3>1. Strays \in Nat /\ Strays' \in Nat /\ Strays' = Strays - 1
      BY <1>2, SkipStrays
    <3> QED BY <3>1 DEF Strays
  <2> QED BY <2>1, <2>2, Unseen
<1>3. CASE TakeReply(c)
  <2>1. /\ holder = c /\ replies # <<>> /\ Finish(c, Whose(Head(replies)))
        /\ replies' = Orphan(Tail(replies)) /\ command' = [command EXCEPT ![c] = NoCommand]
    BY <1>3 DEF TakeReply
  <2>2. \A x \in Callers \ {c} : command'[x] = command[x]
    BY <1>1, <2>1
  <2> QED BY <2>1, <2>2, TakeContract
<1>4. CASE c = Boot /\ HandshakeReply
  <2>1. /\ holder = Boot /\ replies # <<>> /\ Finish(Boot, Whose(Head(replies)))
        /\ replies' = Orphan(Tail(replies))
    BY <1>4 DEF HandshakeReply
  <2>2. PICK ok : AfterBoot(ok)
    BY <1>4 DEF HandshakeReply
  <2>3. ~Idle(Boot)
    BY <1>1, <1>4, <2>1 DEF Awaited
  <2>4. \A x \in Callers \ {c} : command'[x] = command[x]
    BY <1>4, <2>2, <2>3, AfterBootShape
  <2> QED BY <1>4, <2>1, <2>4, TakeContract
<1>5. CASE c = Drain /\ NextMessage
  <2>1. /\ holder = Drain /\ replies # <<>> /\ Finish(Drain, Whose(Head(replies)))
        /\ replies' = Orphan(Tail(replies))
        /\ command' = [command EXCEPT ![Drain] = IF Head(replies).code = "Message" THEN @ ELSE NoCommand]
    BY <1>5 DEF NextMessage
  <2>2. \A x \in Callers \ {c} : command'[x] = command[x]
    BY <1>1, <1>5, <2>1
  <2> QED BY <1>5, <2>1, <2>2, TakeContract
<1>6. CASE Timeout(c)
  <2>1. holder = c /\ holder' = Nobody /\ ending' = "nothing" /\ GiveUp(c)
    BY <1>6 DEF Timeout, Finish
  <2>2. ~Idle(c)
    BY <1>1, <2>1 DEF Awaited
  <2>3. \A x \in Callers \ {c} : command'[x] = command[x]
    BY <2>1, <2>2, GiveUpShape
  <2>4. Strays' = Strays \/ Strays' = Strays + 1
    <3>1. Strays \in Nat /\ Strays' = Strays + (IF Owed THEN 1 ELSE 0)
      BY <1>6, TimeoutStrays
    <3> QED BY <3>1
  <2> QED BY <2>1, <2>3, <2>4, NoAnswerContract
<1>7. CASE Down(c)
  <2>1. /\ holder' = Nobody /\ ending' = "nothing" /\ holder \in {c, Nobody} /\ ~Idle(c)
        /\ command' = [command EXCEPT ![c] = NoCommand]
    BY <1>7 DEF Down
  <2>2. \A x \in Callers \ {c} : command'[x] = command[x]
    BY <1>1, <2>1
  <2>3. /\ Strays \in Nat /\ (holder = Nobody => Strays' = Strays)
        /\ Strays' = Strays \/ Strays' = Strays + 1
    BY <1>7, DownStrays
  <2>4. CASE holder = c
    BY <2>1, <2>2, <2>3, <2>4, NoAnswerContract
  <2>5. CASE holder = Nobody
    <3>1. c \in Asking /\ Asking' \in {Asking, Asking \ {c}}
      BY <2>1, <2>2, OthersAsk
    <3>2. Strays' \in 0 .. Strays
      BY <2>3, <2>5
    <3>3. Contract!GiveUpAsking(c)
      BY <2>1, <2>5, <3>1, <3>2 DEF Contract!GiveUpAsking, Asking, Nobody
    <3> QED BY <3>3 DEF Contract!ContractNext
  <2> QED BY <2>1, <2>4, <2>5
<1> QED BY <1>2, <1>3, <1>4, <1>5, <1>6, <1>7 DEF Await

LEMMA ContractStep ==
  ASSUME PortInv, PortInv', [PortNext]_portVars
  PROVE  [Contract!ContractNext]_Contract!contractVars
<1>1. CASE MessageArrives \/ NodeAnswers \/ NodeIgnores \/ ReadLoop \/ Close
  <2>1. UNCHANGED <<command, holder, ending>>
    BY <1>1 DEF MessageArrives, NodeAnswers, NodeIgnores, ReadLoop, Close
  <2> QED BY <1>1, <2>1, WorldStrays, Unseen DEF PortInv
<1>2. CASE \E c \in Askers, k \in Kinds, s \in Slots \union {Nothing} : Ask(c, k, s)
  <2>1. PICK c \in Askers, k \in Kinds, s \in Slots \union {Nothing} : Ask(c, k, s)
    BY <1>2
  <2> DEFINE q == [kind |-> k, slot |-> s]
  <2>2. Request(c, q)
    BY <2>1 DEF Ask, Request
  <2>3. /\ Idle(c) /\ command' = [command EXCEPT ![c] = q]
        /\ UNCHANGED <<atNode, wire, replies, holder, ending>>
    BY <2>1 DEF Ask
  <2> HIDE DEF q
  <2> QED BY <2>2, <2>3, Apart, AskContract
<1>3. CASE StartDrain
  <2> DEFINE q == [kind |-> "sync", slot |-> Nothing]
  <2>1. Request(Drain, q)
    BY DEF Request
  <2>2. /\ Idle(Drain) /\ command' = [command EXCEPT ![Drain] = q]
        /\ UNCHANGED <<atNode, wire, replies, holder, ending>>
    BY <1>3 DEF StartDrain
  <2> HIDE DEF q
  <2> QED BY <2>1, <2>2, Apart, AskContract
<1>4. CASE \E c \in Callers : Begin(c) \/ WriteFails(c)
  BY <1>4, TurnContract
<1>5. CASE \E c \in Callers : Await(c)
  BY <1>5, AwaitContract
<1>6. CASE UNCHANGED portVars
  <2>1. UNCHANGED <<command, holder, ending, atNode, wire, replies>>
    BY <1>6 DEF portVars
  <2>2. Strays' = Strays /\ Asking' = Asking
    BY <2>1 DEF Strays, Asking, Idle
  <2> QED BY <2>1, <2>2 DEF Contract!contractVars, Asking
<1> QED BY <1>1, <1>2, <1>3, <1>4, <1>5, <1>6 DEF PortNext

\* The port implements its contract: callers take turns, every turn ends with one
\* outcome, and an answer meant for somebody else can only be a stray.
THEOREM PortKeepsContract == PortSpec => KeepsContract
<1>1. PortInit => Contract!ContractInit
  <2> SUFFICES ASSUME PortInit PROVE Contract!ContractInit
    OBVIOUS
  <2>1. holder = "none" /\ ending = "none"
    BY DEF PortInit, Nobody
  <2>2. Strays = 0
    BY CountEmpty, InvInit, CountsTyped
       DEF PortInit, PortInv, MineOut, MineIn, StraysOut, StraysIn
  <2> QED BY <2>1, <2>2 DEF Contract!ContractInit
<1>2. PortInv /\ PortInv' /\ [PortNext]_portVars => [Contract!ContractNext]_Contract!contractVars
  BY ContractStep
<1> QED BY <1>1, <1>2, PortInvariant, PTL DEF PortSpec, KeepsContract, Contract!ContractSpec

-----------------------------------------------------------------------------
(* Only late answers cost messages. *)

LEMMA LostTyped ==
  ASSUME PortShape
  PROVE  IsFiniteSet(lost) /\ Cardinality(lost) \in Nat
<1>1. IsFiniteSet(Messages)
  BY PortAssumption, FS_Interval DEF Messages
<1>2. lost \in SUBSET Messages
  BY DEF PortShape, RecordShape
<1> QED BY <1>1, <1>2, FS_Subset, FS_CardinalityType

LEMMA LostTypedNext ==
  ASSUME PortShape'
  PROVE  IsFiniteSet(lost') /\ Cardinality(lost') \in Nat
<1>1. IsFiniteSet(Messages)
  BY PortAssumption, FS_Interval DEF Messages
<1>2. lost' \in SUBSET Messages
  BY DEF PortShape, RecordShape
<1> QED BY <1>1, <1>2, FS_Subset, FS_CardinalityType

\* A queue of replies carries no more messages than it has frames.
LEMMA LostMany ==
  ASSUME PortShape, NEW s \in Seq(Replied)
  PROVE  /\ Cardinality(lost \union MessagesIn(s)) \in Nat
         /\ Cardinality(lost \union MessagesIn(s)) <= Cardinality(lost) + Len(s)
<1> DEFINE J == {j \in DOMAIN s : s[j].code = "Message"}
           M == MessagesIn(s)
           item == [j \in J |-> s[j].item]
<1>1. DOMAIN s = 1 .. Len(s) /\ Len(s) \in Nat
  OBVIOUS
<1>2. J \in SUBSET (1 .. Len(s))
  BY <1>1
<1>3. IsFiniteSet(1 .. Len(s)) /\ Cardinality(1 .. Len(s)) = Len(s)
  BY <1>1, FS_Interval
<1>4. IsFiniteSet(J) /\ Cardinality(J) <= Len(s) /\ Cardinality(J) \in Nat
  BY <1>2, <1>3, FS_Subset, FS_CardinalityType
<1>5. item \in Surjection(J, M)
  BY DEF MessagesIn, Surjection
<1>6. IsFiniteSet(M) /\ Cardinality(M) <= Cardinality(J)
  BY <1>4, <1>5, FS_Surjection
<1>7. IsFiniteSet(lost) /\ Cardinality(lost) \in Nat
  BY LostTyped
<1>8. Cardinality(M) \in Nat
  BY <1>6, FS_CardinalityType
<1> HIDE DEF J, M, item
<1>9. /\ IsFiniteSet(lost \union M)
      /\ Cardinality(lost \union M) = Cardinality(lost) + Cardinality(M) - Cardinality(lost \intersect M)
  BY <1>6, <1>7, FS_Union
<1>10. Cardinality(lost \intersect M) \in Nat /\ Cardinality(lost \union M) \in Nat
  <2>1. lost \intersect M \in SUBSET lost
    OBVIOUS
  <2> QED BY <1>7, <1>9, <2>1, FS_Subset, FS_CardinalityType
<1>11. Cardinality(lost \union M) <= Cardinality(lost) + Len(s)
  BY <1>1, <1>4, <1>6, <1>7, <1>8, <1>9, <1>10
<1> QED BY <1>10, <1>11 DEF M

LEMMA LostOne ==
  ASSUME PortShape, NEW f \in Replied
  PROVE  /\ Cardinality(lost \union MessagesIn(<<f>>)) \in Nat
         /\ Cardinality(lost \union MessagesIn(<<f>>)) <= Cardinality(lost) + 1
         /\ f.code # "Message" => lost \union MessagesIn(<<f>>) = lost
<1>1. <<f>> \in Seq(Replied) /\ Len(<<f>>) = 1
  OBVIOUS
<1>2. f.code # "Message" => MessagesIn(<<f>>) = {}
  BY DEF MessagesIn
<1>3. /\ Cardinality(lost \union MessagesIn(<<f>>)) \in Nat
      /\ Cardinality(lost \union MessagesIn(<<f>>)) <= Cardinality(lost) + 1
  BY <1>1, LostMany
<1> QED BY <1>2, <1>3

LEMMA Bills ==
  ASSUME NEW l \in Nat, NEW o \in Nat, NEW i \in Nat, NEW m \in Nat, NEW n \in Nat,
         NEW k \in Nat, m + n <= 1
  PROVE  /\ l <= Bill(l, o, i, m, n)
         /\ m >= 1 => Bill(l, o, i, m - 1, n) <= Bill(l, o, i, m, n)
         /\ m >= 1 => Bill(l, o, i, m - 1, n + 1) <= Bill(l, o, i, m, n)
         /\ m >= 1 /\ n + i >= 1 /\ k <= l + 1 =>
              Bill(k, o, i, m - 1, n) <= Bill(l, o, i, m, n)
         /\ o >= 1 => Bill(l, o - 1, i, m, n) <= Bill(l, o, i, m, n)
         /\ o >= 1 => Bill(l, o - 1, i + 1, m, n) <= Bill(l, o, i, m, n)
         /\ o >= 1 /\ k <= l + 1 => Bill(k, o - 1, i, m, n) <= Bill(l, o, i, m, n)
         /\ Bill(l, 0, i, 0, n) <= Bill(l, o, i, m, n)
         /\ k <= l + i => Bill(k, o, 0, m + 1, 0) <= Bill(l, o, i, m, n)
         /\ k <= l + i => Bill(k, o, 0, m, 0) <= Bill(l, o, i, m, n)
         /\ i >= 1 /\ k <= l + 1 => Bill(k, o, i - 1, m, n) <= Bill(l, o, i, m, n)
         /\ n + i >= 1 => n >= 1 \/ i >= 1
         /\ n >= 1 => Bill(l, o + m, i + n - 1, 0, 0) <= Bill(l, o, i, m, n)
         /\ i >= 1 => Bill(l, o + m, i + n - 1, 0, 0) <= Bill(l, o, i, m, n)
         /\ m + n = 0 => Bill(l, o + m, i + n, 0, 0) <= Bill(l, o, i, m, n)
         /\ Bill(l, o + m, i + n, 0, 0) <= Bill(l, o, i, m, n) + 2
BY DEF Bill

\* The bill only grows with an answer that misses its deadline.
LEMMA CostTyped ==
  ASSUME PortShape, Awaited
  PROVE  /\ Cardinality(lost) \in Nat /\ StraysOut \in Nat /\ StraysIn \in Nat
         /\ MineOut \in Nat /\ MineIn \in Nat /\ MineOut + MineIn <= 1
         /\ Cost \in Nat /\ Cardinality(lost) <= Cost /\ late \in Nat
<1>1. /\ Cardinality(lost) \in Nat /\ StraysOut \in Nat /\ StraysIn \in Nat
      /\ MineOut \in Nat /\ MineIn \in Nat /\ MineOut + MineIn <= 1 /\ late \in Nat
  BY LostTyped, CountsTyped DEF Awaited, PortShape, RecordShape
<1>2. Cost \in Nat /\ Cardinality(lost) <= Cost
  BY <1>1 DEF Cost, Bill
<1> QED BY <1>1, <1>2

LEMMA WorldCost ==
  ASSUME PortInv, MessageArrives \/ NodeAnswers \/ NodeIgnores \/ ReadLoop \/ Close
  PROVE  Cost' <= Cost
<1> USE DEF PortInv
<1>1. PICK l \in Nat, o \in Nat, i \in Nat, m \in Nat, n \in Nat :
        /\ l = Cardinality(lost) /\ o = StraysOut /\ i = StraysIn
        /\ m = MineOut /\ n = MineIn /\ m + n <= 1
  BY CostTyped
<1>2. Cost = Bill(l, o, i, m, n) /\ Bill(l, o, i, m, n) \in Nat
  BY <1>1 DEF Cost, Bill
<1>3. CASE MessageArrives \/ NodeAnswers
  <2>1. lost' = lost /\ StraysOut' = o /\ StraysIn' = i /\ MineOut' = m /\ MineIn' = n
    BY <1>1, <1>3, ArriveCounts, AnswerCounts DEF MessageArrives, NodeAnswers
  <2>2. Cost' = Bill(l, o, i, m, n)
    BY <1>1, <2>1 DEF Cost
  <2> QED BY <1>2, <2>2
<1>4. CASE NodeIgnores
  <2>1. lost' = lost
    BY <1>4 DEF NodeIgnores
  <2>2. CASE MineOut' = MineOut - 1 /\ StraysOut' = StraysOut
    <3>1. Cost' = Bill(l, o, i, m - 1, n)
      BY <1>1, <1>4, <2>1, <2>2, IgnoreCounts DEF Cost
    <3>2. m >= 1
      BY <1>1, <1>4, <2>2, WorldShape, CountsTypedNext
    <3> QED BY <1>1, <1>2, <3>1, <3>2, Bills
  <2>3. CASE MineOut' = MineOut /\ StraysOut' = StraysOut - 1
    <3>1. Cost' = Bill(l, o - 1, i, m, n)
      BY <1>1, <1>4, <2>1, <2>3, IgnoreCounts DEF Cost
    <3>2. o >= 1
      BY <1>1, <1>4, <2>3, WorldShape, CountsTypedNext
    <3> QED BY <1>1, <1>2, <3>1, <3>2, Bills
  <2> QED BY <1>4, <2>2, <2>3, IgnoreCounts
<1>5. CASE ReadLoop
  <2> DEFINE f == Head(wire)
  <2>1. PortShape'
    BY <1>5, WorldShape
  <2>2. PICK k \in Nat, p \in Nat, q \in Nat : k = Cardinality(lost') /\ p = MineOut' /\ q = StraysOut'
    BY <2>1, LostTypedNext, CountsTypedNext
  <2>3. f \in Replied /\ lost' = lost \union MessagesIn(<<f>>) => k <= l + 1
    BY <1>1, <2>2, LostOne
  <2>4. lost' = lost => k = l
    BY <1>1, <2>2
  <2>5. Cost' = Bill(k, q, StraysIn', p, MineIn')
    BY <2>2 DEF Cost
  <2>6. CASE f.code = "Waiting" /\ p = m /\ q = o /\ MineIn' = n /\ StraysIn' = i /\ lost' = lost
    BY <1>2, <2>4, <2>5, <2>6
  <2>7. CASE p = m - 1 /\ q = o /\ MineIn' = n + 1 /\ StraysIn' = i /\ lost' = lost
    <3>1. Cost' = Bill(l, o, i, m - 1, n + 1) /\ m >= 1
      BY <1>1, <2>2, <2>4, <2>5, <2>7
    <3> QED BY <1>1, <1>2, <3>1, Bills
  <2>8. CASE /\ p = m - 1 /\ q = o /\ MineIn' = n /\ StraysIn' = i /\ n + i >= 1
             /\ f \in Replied /\ lost' = lost \union MessagesIn(<<f>>)
    <3>1. Cost' = Bill(k, o, i, m - 1, n) /\ m >= 1 /\ n + i >= 1 /\ k <= l + 1
      BY <1>1, <2>2, <2>3, <2>5, <2>8
    <3> QED BY <1>1, <1>2, <2>2, <3>1, Bills
  <2>9. CASE p = m /\ q = o - 1 /\ MineIn' = n /\ StraysIn' = i + 1 /\ lost' = lost
    <3>1. Cost' = Bill(l, o - 1, i + 1, m, n) /\ o >= 1
      BY <1>1, <2>2, <2>4, <2>5, <2>9
    <3> QED BY <1>1, <1>2, <3>1, Bills
  <2>10. CASE /\ p = m /\ q = o - 1 /\ MineIn' = n /\ StraysIn' = i
              /\ f \in Replied /\ lost' = lost \union MessagesIn(<<f>>)
    <3>1. Cost' = Bill(k, o - 1, i, m, n) /\ o >= 1 /\ k <= l + 1
      BY <1>1, <2>2, <2>3, <2>5, <2>10
    <3> QED BY <1>1, <1>2, <2>2, <3>1, Bills
  <2> HIDE DEF f
  <2> QED BY <1>1, <1>5, <2>2, <2>6, <2>7, <2>8, <2>9, <2>10, ReadCounts DEF f
<1>6. CASE Close
  <2>1. lost' = lost /\ StraysOut' = 0 /\ StraysIn' = i /\ MineOut' = 0 /\ MineIn' = n
    BY <1>1, <1>6, CloseCounts DEF Close
  <2>2. Cost' = Bill(l, 0, i, 0, n)
    BY <1>1, <2>1 DEF Cost
  <2> QED BY <1>1, <1>2, <2>2, Bills
<1> QED BY <1>3, <1>4, <1>5, <1>6

LEMMA TurnCost ==
  ASSUME PortInv, NEW c \in Callers, Begin(c) \/ WriteFails(c), PortShape'
  PROVE  Cost' <= Cost
<1> USE DEF PortInv
<1>1. PICK l \in Nat, o \in Nat, i \in Nat, m \in Nat, n \in Nat :
        /\ l = Cardinality(lost) /\ o = StraysOut /\ i = StraysIn
        /\ m = MineOut /\ n = MineIn /\ m + n <= 1
  BY CostTyped
<1>2. Cost = Bill(l, o, i, m, n) /\ Bill(l, o, i, m, n) \in Nat
  BY <1>1 DEF Cost, Bill
<1>3. holder = Nobody /\ lost' = lost \union MessagesIn(replies)
  BY DEF Begin, WriteFails, DrainReplies
<1>4. m = 0 /\ n = 0
  BY <1>1, <1>3 DEF Awaited
<1>5. Cardinality(lost') <= l + i /\ Cardinality(lost') \in Nat
  <2>1. replies \in Seq(Replied)
    BY DEF PortShape, FrameShape
  <2>2. n + i = Len(replies) /\ Len(replies) \in Nat
    BY <1>1, <2>1, AllAreEither DEF MineIn, StraysIn
  <2>3. i = Len(replies)
    BY <1>1, <1>4, <2>2
  <2> QED BY <1>1, <1>3, <2>1, <2>3, LostMany
<1>6. PICK k \in Nat : k = Cardinality(lost') /\ k <= l + i
  BY <1>5
<1>7. CASE Begin(c)
  <2>1. StraysOut' = o /\ StraysIn' = 0 /\ MineOut' = m + 1 /\ MineIn' = 0
    BY <1>1, <1>7, BeginCounts
  <2>2. Cost' = Bill(k, o, 0, m + 1, 0)
    BY <1>6, <2>1 DEF Cost
  <2> QED BY <1>1, <1>2, <1>6, <2>2, Bills
<1>8. CASE WriteFails(c)
  <2>1. StraysOut' = o /\ StraysIn' = 0 /\ MineOut' = m /\ MineIn' = 0
    BY <1>1, <1>8, FailCounts
  <2>2. Cost' = Bill(k, o, 0, m, 0)
    BY <1>6, <2>1 DEF Cost
  <2> QED BY <1>1, <1>2, <1>6, <2>2, Bills
<1> QED BY <1>7, <1>8

\* Without a logout, which takes whatever comes first, no asker takes a message.
LEMMA AskersTakeNoMessage ==
  ASSUME PortInv, "any" \notin Kinds, NEW c \in Callers, TakeReply(c)
  PROVE  lost' = lost
<1> DEFINE f == Head(replies)
<1> USE DEF PortInv
<1>1. /\ holder = c /\ c \in Askers /\ replies # <<>>
      /\ Collect(command[c].kind, command[c].slot, f) # "skip"
      /\ lost' = lost \union MessagesIn(<<f>>)
  BY DEF TakeReply
<1>2. f \in Replied
  BY <1>1, TailShape
<1>3. Request(c, command[c])
  BY <1>1, Apart DEF Awaited, PortShape, CallerShape
<1>4. command[c].kind \in Kinds /\ c # Boot /\ c # Drain
  BY <1>1, <1>3, Apart DEF Request
<1>5. command[c].kind \in {"sent", "ok", "channel"}
  BY <1>4, PortAssumption DEF AskKinds
<1>6. f.code # "Message"
  BY <1>1, <1>5 DEF Collect, Accepts, Want
<1> QED BY <1>1, <1>2, <1>6, LostOne

LEMMA AwaitCost ==
  ASSUME PortInv, "any" \notin Kinds, NEW c \in Callers, Await(c), ~Down(c), PortShape'
  PROVE  /\ holder = c /\ late' \in Nat
         /\ Cost' <= Cost + 2 * (late' - late)
<1> USE DEF PortInv
<1>1. PICK l \in Nat, o \in Nat, i \in Nat, m \in Nat, n \in Nat :
        /\ l = Cardinality(lost) /\ o = StraysOut /\ i = StraysIn
        /\ m = MineOut /\ n = MineIn /\ m + n <= 1
  BY CostTyped
<1>2. /\ Cost = Bill(l, o, i, m, n) /\ Bill(l, o, i, m, n) \in Nat /\ late \in Nat
  BY <1>1 DEF Cost, Bill, PortShape, RecordShape
<1>3. CASE Skip(c)
  <2> DEFINE f == Head(replies)
  <2>1. /\ holder = c /\ late' = late /\ replies # <<>>
        /\ lost' = lost \union MessagesIn(<<f>>)
    BY <1>3 DEF Skip, counters
  <2>2. /\ StraysOut' = o /\ StraysIn' = i - 1 /\ MineOut' = m /\ MineIn' = n
    BY <1>1, <1>3, SkipCounts, SkipsStrays
  <2>3. i >= 1
    BY <1>1, <2>2, CountsTypedNext
  <2>4. PICK k \in Nat : k = Cardinality(lost') /\ k <= l + 1
    BY <1>1, <2>1, TailShape, LostOne
  <2>5. Cost' = Bill(k, o, i - 1, m, n)
    BY <2>2, <2>4 DEF Cost
  <2>6. Cost' <= Cost
    BY <1>1, <1>2, <2>3, <2>4, <2>5, Bills
  <2>7. Bill(k, o, i - 1, m, n) \in Int
    BY <1>1, <2>4 DEF Bill
  <2> QED BY <1>2, <2>1, <2>5, <2>6, <2>7
<1>4. CASE TakeReply(c) \/ (c = Boot /\ HandshakeReply) \/ (c = Drain /\ NextMessage)
  <2>1. /\ holder = c /\ late' = late /\ replies # <<>> /\ replies' = Orphan(Tail(replies))
        /\ \E how : Finish(c, how)
    BY <1>4 DEF TakeReply, HandshakeReply, NextMessage, counters
  <2>2. lost' = lost
    BY <1>4, AskersTakeNoMessage DEF HandshakeReply, NextMessage
  <2>3. /\ StraysOut' = o + m /\ StraysIn' = i + n - 1 /\ MineOut' = 0 /\ MineIn' = 0
        /\ n >= 1 \/ i >= 1
    BY <1>1, <2>1, TakeCounts
  <2>4. Cost' = Bill(l, o + m, i + n - 1, 0, 0)
    BY <1>1, <2>2, <2>3 DEF Cost
  <2>5. Cost' <= Cost
    BY <1>1, <1>2, <2>3, <2>4, Bills
  <2>6. Bill(l, o + m, i + n - 1, 0, 0) \in Int
    BY <1>1 DEF Bill
  <2> QED BY <1>2, <2>1, <2>4, <2>5, <2>6
<1>5. CASE Timeout(c)
  <2>1. holder = c /\ lost' = lost /\ late' = late + (IF Owed THEN 1 ELSE 0)
    BY <1>2, <1>5 DEF Timeout
  <2>2. StraysOut' = o + m /\ StraysIn' = i + n /\ MineOut' = 0 /\ MineIn' = 0
    BY <1>1, <1>5, TimeoutCounts
  <2>3. Cost' = Bill(l, o + m, i + n, 0, 0) /\ Bill(l, o + m, i + n, 0, 0) \in Int
    BY <1>1, <2>1, <2>2 DEF Cost, Bill
  <2>4. CASE Owed
    <3>1. Bill(l, o + m, i + n, 0, 0) <= Bill(l, o, i, m, n) + 2
      BY <1>1, Bills
    <3> QED BY <1>2, <2>1, <2>3, <2>4, <3>1
  <2>5. CASE ~Owed
    <3>1. m + n = 0
      BY <1>1, <2>5, OwedCounts
    <3>2. Bill(l, o + m, i + n, 0, 0) <= Bill(l, o, i, m, n)
      BY <1>1, <3>1, Bills
    <3> QED BY <1>2, <2>1, <2>3, <2>5, <3>2
  <2> QED BY <2>4, <2>5
<1> QED BY <1>3, <1>4, <1>5 DEF Await

LEMMA LossStep ==
  ASSUME "any" \notin Kinds, PortInv, LossInv, [PortNext]_portVars, PortInv'
  PROVE  LossInv'
<1> USE DEF PortInv
<1>1. /\ Cost \in Nat /\ Cardinality(lost) \in Nat /\ Cardinality(lost) <= Cost /\ late \in Nat
  BY CostTyped
<1>2. Cost' \in Nat /\ Cardinality(lost') \in Nat /\ Cardinality(lost') <= Cost' /\ late' \in Nat
  <2>1. /\ StraysOut' \in Nat /\ StraysIn' \in Nat /\ MineOut' \in Nat /\ MineIn' \in Nat
        /\ Cardinality(lost') \in Nat
    BY CountsTypedNext, LostTypedNext
  <2>2. late' \in Nat
    BY DEF PortShape, RecordShape
  <2>3. Cost' \in Nat /\ Cardinality(lost') <= Cost'
    BY <2>1 DEF Cost, Bill, StraysOut, StraysIn, MineOut, MineIn
  <2> QED BY <2>1, <2>2, <2>3
<1>3. Cost' <= 2 * late' => LossInv'
  BY <1>2 DEF LossInv, Paid, LossBounded, Cost
<1>4. ASSUME closed', holder' = Nobody, Cardinality(lost') <= 2 * late' PROVE LossInv'
  BY <1>4 DEF LossInv, Paid, LossBounded
<1>5. Nobody \notin Callers /\ (holder = Nobody => Cardinality(lost) <= 2 * late)
  BY Apart DEF LossInv, LossBounded
<1>6. CASE closed /\ holder = Nobody
  <2>1. UNCHANGED <<lost, late, closed, holder>>
    <3>1. ~(MessageArrives \/ NodeAnswers \/ NodeIgnores \/ ReadLoop \/ Close)
      BY <1>6 DEF MessageArrives, NodeAnswers, NodeIgnores, ReadLoop, Close
    <3>2. ~\E c \in Callers : Begin(c) \/ WriteFails(c)
      BY <1>6 DEF Begin, WriteFails
    <3>3. CASE \/ \E c \in Askers, k \in Kinds, s \in Slots \union {Nothing} : Ask(c, k, s)
               \/ StartDrain
      BY <3>3 DEF Ask, StartDrain, counters
    <3>4. ASSUME NEW c \in Callers, Await(c) PROVE UNCHANGED <<lost, late, closed, holder>>
      <4>1. Down(c)
        BY <1>5, <1>6, <3>4
           DEF Await, Skip, TakeReply, HandshakeReply, NextMessage, Timeout, Callers
      <4> QED BY <1>6, <4>1 DEF Down, counters
    <3>5. CASE UNCHANGED portVars
      BY <3>5 DEF portVars
    <3> QED BY <3>1, <3>2, <3>3, <3>4, <3>5 DEF PortNext
  <2> QED BY <1>4, <1>5, <1>6, <2>1
<1>7. CASE ~(closed /\ holder = Nobody)
  <2>1. Cost <= 2 * late
    BY <1>7 DEF LossInv, Paid
  <2>2. CASE MessageArrives \/ NodeAnswers \/ NodeIgnores \/ ReadLoop \/ Close
    <3>1. late' = late
      BY <2>2 DEF MessageArrives, NodeAnswers, NodeIgnores, ReadLoop, Close, counters
    <3>2. Cost' <= Cost
      BY <2>2, WorldCost
    <3> QED BY <1>1, <1>2, <1>3, <2>1, <3>1, <3>2 DEF Cost
  <2>3. CASE \/ \E c \in Askers, k \in Kinds, s \in Slots \union {Nothing} : Ask(c, k, s)
             \/ StartDrain
    <3>1. UNCHANGED <<atNode, wire, replies, lost, late>>
      BY <2>3 DEF Ask, StartDrain, counters
    <3>2. Cost' = Cost /\ late' = late
      BY <3>1 DEF Cost, StraysOut, StraysIn, MineOut, MineIn
    <3> QED BY <1>3, <2>1, <3>2
  <2>4. ASSUME NEW c \in Callers, Begin(c) \/ WriteFails(c) PROVE LossInv'
    <3>1. late' = late
      BY <2>4 DEF Begin, WriteFails, counters
    <3>2. Cost' <= Cost
      BY <2>4, TurnCost
    <3> QED BY <1>1, <1>2, <1>3, <2>1, <3>1, <3>2 DEF Cost
  <2>5. ASSUME NEW c \in Callers, Await(c), ~Down(c) PROVE LossInv'
    <3>1. Cost' <= Cost + 2 * (late' - late)
      BY <2>5, AwaitCost
    <3> QED BY <1>1, <1>2, <1>3, <2>1, <3>1 DEF Cost
  <2>6. ASSUME NEW c \in Callers, Down(c) PROVE LossInv'
    <3>1. closed' /\ holder' = Nobody /\ lost' = lost /\ late' = late
      BY <2>6 DEF Down, counters
    <3>2. Cardinality(lost) <= 2 * late
      BY <1>1, <2>1
    <3> QED BY <1>4, <3>1, <3>2
  <2>7. CASE UNCHANGED portVars
    <3>1. UNCHANGED <<atNode, wire, replies, lost, late>>
      BY <2>7 DEF portVars
    <3>2. Cost' = Cost /\ late' = late
      BY <3>1 DEF Cost, StraysOut, StraysIn, MineOut, MineIn
    <3> QED BY <1>3, <2>1, <3>2
  <2> QED BY <2>2, <2>3, <2>4, <2>5, <2>6, <2>7 DEF PortNext
<1> QED BY <1>6, <1>7

\* Messages are lost only to answers that missed their deadline, two to each at most,
\* in every interleaving of drains, timeouts and the commands that look for a reply of
\* their own; a logout, which takes the first frame that comes, may lose one each time.
THEOREM LossIsBounded ==
  ASSUME "any" \notin Kinds
  PROVE  PortSpec => []LossBounded
<1>1. PortInit => LossInv
  <2> SUFFICES ASSUME PortInit PROVE LossInv
    OBVIOUS
  <2>1. lost = {} /\ late = 0 /\ atNode = <<>> /\ wire = <<>> /\ replies = <<>>
    BY DEF PortInit
  <2>2. Cardinality(lost) = 0
    BY <2>1, FS_EmptySet
  <2>3. MineOut = 0 /\ MineIn = 0 /\ StraysOut = 0 /\ StraysIn = 0
    BY <2>1, CountEmpty DEF MineOut, MineIn, StraysOut, StraysIn
  <2> QED BY <2>1, <2>2, <2>3 DEF LossInv, Paid, LossBounded, Cost, Bill
<1>2. PortInv /\ PortInv' /\ LossInv /\ [PortNext]_portVars => LossInv'
  BY LossStep
<1>3. LossInv => LossBounded
  BY DEF LossInv
<1> QED BY <1>1, <1>2, <1>3, PortInvariant, PTL DEF PortSpec
=============================================================================

----------------------------- MODULE RestProofs -----------------------------
(***************************************************************************)
(* A theorem about RestLimiter, for any number of goroutines, buckets and  *)
(* mishaps: what a request knew of its bucket when it stopped waiting is   *)
(* still true when it is sent.                                             *)
(***************************************************************************)
EXTENDS RestLimiter, TLAPS

Stages == {"idle", "lock", "global", "bucket", "flight", "limited", "failed", "done"}
Inside == {"global", "bucket", "flight", "limited", "failed"}

CallTypes ==
  /\ call \in [Callers -> [at : Stages, bucket : Buckets \union {Nobody}, attempt : Nat]]
  /\ holder \in [Buckets -> Callers \union {Nobody}]

ViewTypes ==
  /\ remaining \in [Buckets -> 0 .. Limit + 1]
  /\ budget \in [Buckets -> 0 .. Limit]
  /\ due \in [Buckets -> BOOLEAN] /\ unseen \in [Buckets -> BOOLEAN]

\* Whoever is past the lock of a bucket holds it.
Locked ==
  \A c \in Callers :
    /\ call[c].at = "lock" => call[c].bucket \in Buckets
    /\ call[c].at \in Inside => call[c].bucket \in Buckets /\ holder[call[c].bucket] = c

\* What the client thinks is left is no more than what is.
Cautious ==
  \A b \in Buckets :
    \/ remaining[b] = Unknown
    \/ unseen[b]
    \/ remaining[b] <= budget[b] /\ (due[b] => budget[b] > 0)

RestInv == CallTypes /\ ViewTypes /\ Locked /\ Cautious /\ PacedOnceKnown

USE RestAssumption

LEMMA RestStarts == RestInit => RestInv
<1> SUFFICES ASSUME RestInit PROVE RestInv
  OBVIOUS
<1> USE DEF RestInit
<1>1. CallTypes
  BY DEF CallTypes, Stages
<1>2. ViewTypes
  BY DEF ViewTypes, Unknown
<1>3. Locked /\ PacedOnceKnown
  BY DEF Locked, Inside, PacedOnceKnown
<1>4. Cautious
  BY DEF Cautious
<1> QED BY <1>1, <1>2, <1>3, <1>4 DEF RestInv

\* A step of one goroutine that puts no request on the wire.
LEMMA OneMoves ==
  ASSUME RestInv, UNCHANGED <<holder, bucketVars>>, CallTypes', NEW c \in Callers,
         \A d \in Callers \ {c} : call'[d] = call[d],
         call'[c].at # "flight",
         call'[c].at \in Inside => call[c].at \in Inside /\ call'[c].bucket = call[c].bucket,
         call'[c].at = "lock" => call'[c].bucket \in Buckets
  PROVE  RestInv'
<1> USE DEF RestInv, bucketVars
<1>1. ViewTypes' /\ Cautious'
  BY DEF ViewTypes, Cautious
<1>2. Locked'
  BY DEF Locked
<1>3. PacedOnceKnown'
  BY DEF PacedOnceKnown
<1> QED BY <1>1, <1>2, <1>3

\* A goroutine that holds its bucket gives it back, or keeps it through a pause;
\* every request still on the wire is of another bucket.
LEMMA Leaving ==
  ASSUME RestInv, NEW c \in Callers, call[c].at \in Inside,
         Finish(c) \/ Repeat(c, "limited") \/ Repeat(c, "failed")
  PROVE  /\ CallTypes' /\ Locked'
         /\ \A d \in Callers : call'[d].at = "flight" =>
              call'[d] = call[d] /\ call[d].bucket \in Buckets \ {call[c].bucket}
<1> USE DEF RestInv
<1>1. call[c].bucket \in Buckets /\ holder[call[c].bucket] = c
  BY DEF Locked
<1>2. CASE Finish(c)
  <2>1. /\ call' = [call EXCEPT ![c].at = "done"]
        /\ holder' = [holder EXCEPT ![call[c].bucket] = Nobody]
    BY <1>2 DEF Finish, Moves
  <2>2. CallTypes'
    BY <1>1, <2>1 DEF CallTypes, Stages
  <2>3. ASSUME NEW d \in Callers, d # c
        PROVE  call'[d] = call[d] /\ (call[d].at \in Inside => call[d].bucket # call[c].bucket)
    BY <1>1, <2>1, <2>3 DEF CallTypes, Locked
  <2>4. Locked'
    BY <1>1, <2>1, <2>3 DEF Locked, CallTypes, Inside
  <2> QED BY <2>1, <2>2, <2>3, <2>4 DEF CallTypes, Locked, Inside
<1>3. CASE \E at \in {"limited", "failed"} : Moves(c, at) /\ UNCHANGED holder
  <2>1. PICK at \in {"limited", "failed"} : call' = [call EXCEPT ![c].at = at] /\ UNCHANGED holder
    BY <1>3 DEF Moves
  <2>2. CallTypes'
    BY <1>1, <2>1 DEF CallTypes, Stages
  <2>3. ASSUME NEW d \in Callers, d # c
        PROVE  call'[d] = call[d] /\ (call[d].at \in Inside => call[d].bucket # call[c].bucket)
    BY <1>1, <2>1, <2>3 DEF CallTypes, Locked
  <2>4. call'[c].at # "flight" /\ call'[c].bucket = call[c].bucket /\ call'[c].at # "lock"
    BY <2>1 DEF CallTypes
  <2>5. Locked'
    BY <1>1, <2>1, <2>3, <2>4 DEF Locked
  <2> QED BY <2>2, <2>3, <2>4, <2>5 DEF Locked, Inside
<1> QED BY <1>2, <1>3 DEF Repeat

\* An answer, or its loss, changes the view of one bucket and what is left in it.
LEMMA Viewing ==
  ASSUME RestInv, NEW b \in Buckets,
         \/ Counted(b) /\ Observe(b, budget[b] - 1)
         \/ budget[b] = 0 /\ Observe(b, 0) /\ UNCHANGED budget
         \/ Counted(b) /\ unseen' = [unseen EXCEPT ![b] = TRUE] /\ UNCHANGED <<remaining, due>>
         \/ UNCHANGED bucketVars
  PROVE  /\ ViewTypes' /\ Cautious'
         /\ \A x \in Buckets \ {b} :
              remaining'[x] = remaining[x] /\ budget'[x] = budget[x] /\ unseen'[x] = unseen[x]
<1> USE DEF RestInv
<1>1. CASE Counted(b) /\ Observe(b, budget[b] - 1)
  BY <1>1 DEF Counted, Observe, ViewTypes, Cautious
<1>2. CASE budget[b] = 0 /\ Observe(b, 0) /\ UNCHANGED budget
  BY <1>2 DEF Observe, ViewTypes, Cautious
<1>3. CASE Counted(b) /\ unseen' = [unseen EXCEPT ![b] = TRUE] /\ UNCHANGED <<remaining, due>>
  BY <1>3 DEF Counted, ViewTypes, Cautious
<1>4. CASE UNCHANGED bucketVars
  BY <1>4 DEF bucketVars, ViewTypes, Cautious
<1> QED BY <1>1, <1>2, <1>3, <1>4

LEMMA AnswerKeeps ==
  ASSUME RestInv, NEW c \in Callers, Answered(c) \/ Cancelled(c)
  PROVE  RestInv'
<1> DEFINE b == call[c].bucket
<1>1. call[c].at \in Inside
  BY DEF Answered, Accepted, Limited, LimitedGlobally, ServerError, Unauthorized, Cancelled, Inside
<1>2. b \in Buckets
  BY <1>1 DEF RestInv, Locked
<1>3. Finish(c) \/ Repeat(c, "limited") \/ Repeat(c, "failed")
  BY DEF Answered, Accepted, Limited, LimitedGlobally, ServerError, Unauthorized, Cancelled
<1>4. \/ Counted(b) /\ Observe(b, budget[b] - 1)
      \/ budget[b] = 0 /\ Observe(b, 0) /\ UNCHANGED budget
      \/ Counted(b) /\ unseen' = [unseen EXCEPT ![b] = TRUE] /\ UNCHANGED <<remaining, due>>
      \/ UNCHANGED bucketVars
  BY DEF Answered, Accepted, Limited, LimitedGlobally, ServerError, Unauthorized, Cancelled
<1>5. /\ CallTypes' /\ Locked'
      /\ \A d \in Callers : call'[d].at = "flight" =>
           call'[d] = call[d] /\ call[d].bucket \in Buckets \ {b}
  BY <1>1, <1>3, Leaving
<1>6. /\ ViewTypes' /\ Cautious'
      /\ \A x \in Buckets \ {b} :
           remaining'[x] = remaining[x] /\ budget'[x] = budget[x] /\ unseen'[x] = unseen[x]
  BY <1>2, <1>4, Viewing
<1>7. PacedOnceKnown'
  BY <1>5, <1>6 DEF RestInv, PacedOnceKnown, Unknown
<1> QED BY <1>5, <1>6, <1>7 DEF RestInv

LEMMA RestKeeps == RestInv /\ [RestNext]_restVars => RestInv'
<1> SUFFICES ASSUME RestInv, [RestNext]_restVars PROVE RestInv'
  OBVIOUS
<1>1. ASSUME NEW b \in Buckets, WindowEnds(b) PROVE RestInv'
  <2> USE <1>1 DEF RestInv, WindowEnds
  <2>1. CallTypes' /\ Locked'
    BY DEF CallTypes, Locked
  <2>2. ViewTypes' /\ Cautious'
    BY DEF ViewTypes, Cautious, Unknown
  <2>3. PacedOnceKnown'
    BY DEF PacedOnceKnown, ViewTypes
  <2> QED BY <2>1, <2>2, <2>3
<1>2. CASE GlobalLimit \/ GlobalOver \/ UNCHANGED restVars
  BY <1>2 DEF GlobalLimit, GlobalOver, restVars, bucketVars, RestInv, CallTypes, ViewTypes,
              Locked, Cautious, PacedOnceKnown
<1>3. ASSUME NEW c \in Callers, NEW b \in Buckets, Start(c, b) PROVE RestInv'
  <2>1. CallTypes'
    BY <1>3 DEF Start, RestInv, CallTypes, Stages
  <2> QED BY <1>3, <2>1, OneMoves DEF Start, RestInv, CallTypes, Inside
<1>4. ASSUME NEW c \in Callers, Lock(c) PROVE RestInv'
  <2> USE <1>4 DEF RestInv, Lock, Moves, bucketVars
  <2>1. call[c].bucket \in Buckets
    BY DEF Locked
  <2>2. CallTypes'
    BY <2>1 DEF CallTypes, Stages
  <2>3. Locked'
    BY <2>1 DEF CallTypes, Locked, Inside
  <2>4. ViewTypes' /\ Cautious'
    BY DEF ViewTypes, Cautious
  <2>5. PacedOnceKnown'
    BY DEF PacedOnceKnown, CallTypes
  <2> QED BY <2>2, <2>3, <2>4, <2>5
<1>5. ASSUME NEW c \in Callers, WaitGlobal(c) PROVE RestInv'
  <2>1. CallTypes'
    BY <1>5 DEF WaitGlobal, Moves, RestInv, CallTypes, Stages
  <2> QED BY <1>5, <2>1, OneMoves DEF WaitGlobal, Moves, RestInv, CallTypes, Inside
<1>6. ASSUME NEW c \in Callers, RetryDue(c) PROVE RestInv'
  <2>1. CallTypes'
    BY <1>6 DEF RetryDue, RestInv, CallTypes, Stages
  <2> QED BY <1>6, <2>1, OneMoves DEF RetryDue, RestInv, CallTypes, Inside
<1>7. ASSUME NEW c \in Callers, WaitBucket(c) PROVE RestInv'
  <2> USE <1>7 DEF RestInv, WaitBucket, Moves, bucketVars
  <2>1. CallTypes'
    BY DEF CallTypes, Stages
  <2>2. Locked'
    BY DEF CallTypes, Locked, Inside
  <2>3. ViewTypes' /\ Cautious'
    BY DEF ViewTypes, Cautious
  <2>4. LET b == call[c].bucket IN budget[b] = 0 => remaining[b] = Unknown \/ unseen[b]
    BY DEF ViewTypes, Cautious, Locked, Inside
  <2>5. PacedOnceKnown'
    BY <2>4 DEF PacedOnceKnown, CallTypes
  <2> QED BY <2>1, <2>2, <2>3, <2>5
<1> QED BY <1>1, <1>2, <1>3, <1>4, <1>5, <1>6, <1>7, AnswerKeeps DEF RestNext, CallStep

\* Once an answer has told the client of a bucket, it sends nothing the bucket has
\* no room for, unless an answer's headers never came (rest.go:209).
THEOREM PacedAlways == RestSpec => []PacedOnceKnown
<1>1. RestInv => PacedOnceKnown
  BY DEF RestInv
<1> QED BY <1>1, RestStarts, RestKeeps, PTL DEF RestSpec
=============================================================================

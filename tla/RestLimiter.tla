---------------------------- MODULE RestLimiter ----------------------------
(***************************************************************************)
(* The REST client (Client.do of discord/rest.go): a request holds the     *)
(* lock of its bucket through every wait and every attempt, waits out a    *)
(* global limit and what the bucket's last answer left, and repeats what   *)
(* was limited or met a server error.  Discord, external, has a budget for *)
(* each bucket, which a passing window restores.  Windows and limits are   *)
(* taken to be shorter than the caps on a wait (30 and 60 seconds).        *)
(***************************************************************************)
EXTENDS Integers

CONSTANTS
  Callers,     \* goroutines, with one request each
  Buckets,     \* what bucketKey makes of the paths
  Limit,       \* requests of one bucket in one window
  MaxAttempts, \* three in the code
  MaxGlitches  \* server errors, lost answers, rejected tokens, cancellations

Nobody == "nobody"

ASSUME RestAssumption ==
  {Limit, MaxAttempts} \subseteq Nat \ {0} /\ MaxGlitches \in Nat /\ Nobody \notin Callers

VARIABLES
  call,        \* where each goroutine is in do, on which bucket and attempt
  holder,      \* who holds the lock of each bucket
  remaining,   \* the client's view of each bucket, or Unknown
  due,         \* is the reset time of that view past?
  budget,      \* what Discord still accepts
  unseen,      \* did Discord count a request whose headers never came?
  globalHeld,  \* is Discord refusing everything; globalUntil is read in PassGlobal
  globalUntil, \* does the client know?
  authFailed,  \* Client.authFailed
  glitches

restVars == <<call, holder, remaining, due, budget, unseen, globalHeld, globalUntil, authFailed,
              glitches>>
bucketVars == <<remaining, due, budget, unseen>>

Unknown == Limit + 1

RestInit ==
  /\ call = [c \in Callers |-> [at |-> "idle", bucket |-> Nobody, attempt |-> 1]]
  /\ holder = [b \in Buckets |-> Nobody]
  /\ remaining = [b \in Buckets |-> Unknown] /\ due = [b \in Buckets |-> FALSE]
  /\ budget \in [Buckets -> {0, Limit}] /\ unseen = [b \in Buckets |-> FALSE]
  /\ globalHeld = FALSE /\ globalUntil = FALSE /\ authFailed = FALSE
  /\ glitches = 0

Glitch == glitches < MaxGlitches /\ glitches' = glitches + 1
Moves(c, at) == call' = [call EXCEPT ![c].at = at]
-----------------------------------------------------------------------------
(***************************************************************************)
(* Discord's clock.                                                        *)
(***************************************************************************)

\* A window ends.  The client's reset time is counted from the answer's arrival.
WindowEnds(b) ==
  /\ budget[b] < Limit
  /\ budget' = [budget EXCEPT ![b] = Limit]
  /\ due' = [due EXCEPT ![b] = TRUE]
  /\ UNCHANGED <<call, holder, remaining, unseen, globalHeld, globalUntil, authFailed, glitches>>

GlobalLimit ==
  /\ ~globalHeld /\ Glitch
  /\ globalHeld' = TRUE
  /\ UNCHANGED <<call, holder, bucketVars, globalUntil, authFailed>>

GlobalOver ==
  /\ globalHeld
  /\ globalHeld' = FALSE /\ globalUntil' = FALSE
  /\ UNCHANGED <<call, holder, bucketVars, authFailed, glitches>>
-----------------------------------------------------------------------------
(***************************************************************************)
(* do.                                                                     *)
(***************************************************************************)

Start(c, b) ==
  /\ call[c].at = "idle"
  /\ call' = [call EXCEPT ![c].at = "lock", ![c].bucket = b]
  /\ UNCHANGED <<holder, bucketVars, globalHeld, globalUntil, authFailed, glitches>>

\* Mutant of Lock: a request does not wait for the one before it.
LockShared(c) ==
  /\ call[c].at = "lock"
  /\ Moves(c, "global")
  /\ UNCHANGED <<holder, bucketVars, globalHeld, globalUntil, authFailed, glitches>>

\* The bucket's mutex, which no context interrupts.
Lock(c) ==
  /\ call[c].at = "lock" /\ holder[call[c].bucket] = Nobody
  /\ holder' = [holder EXCEPT ![call[c].bucket] = c]
  /\ Moves(c, "global")
  /\ UNCHANGED <<bucketVars, globalHeld, globalUntil, authFailed, glitches>>

WaitGlobal(c) ==
  /\ call[c].at = "global" /\ ~globalUntil
  /\ Moves(c, "bucket")
  /\ UNCHANGED <<holder, bucketVars, globalHeld, globalUntil, authFailed, glitches>>

\* bucket.wait: nothing known, something left, or the reset time past.
WaitBucket(c) ==
  /\ call[c].at = "bucket"
  /\ LET b == call[c].bucket IN remaining[b] > 0 \/ due[b]
  /\ Moves(c, "flight")
  /\ UNCHANGED <<holder, bucketVars, globalHeld, globalUntil, authFailed, glitches>>

\* Mutant of Finish: the lock is not given back.
FinishHolding(c) == Moves(c, "done") /\ UNCHANGED holder

Finish(c) ==
  /\ Moves(c, "done")
  /\ holder' = [holder EXCEPT ![call[c].bucket] = Nobody]

\* Limited, or met a server error: once more after a pause, or the error is returned.
Repeat(c, pause) ==
  IF call[c].attempt < MaxAttempts THEN Moves(c, pause) /\ UNCHANGED holder ELSE Finish(c)

\* observe: the headers of an answer, if it has any.
Observe(b, left) ==
  /\ remaining' = [remaining EXCEPT ![b] = left]
  /\ due' = [due EXCEPT ![b] = FALSE]
  /\ unseen' = [unseen EXCEPT ![b] = FALSE]

Counted(b) == budget[b] > 0 /\ ~globalHeld /\ budget' = [budget EXCEPT ![b] = @ - 1]

Accepted(c) ==
  /\ call[c].at = "flight"
  /\ LET b == call[c].bucket IN Counted(b) /\ Observe(b, budget[b] - 1)
  /\ authFailed' = FALSE
  /\ Finish(c)
  /\ UNCHANGED <<globalHeld, globalUntil, glitches>>

\* 429 of the bucket.
Limited(c) ==
  /\ call[c].at = "flight"
  /\ LET b == call[c].bucket IN ~globalHeld /\ budget[b] = 0 /\ Observe(b, 0)
  /\ Repeat(c, "limited")
  /\ UNCHANGED <<budget, globalHeld, globalUntil, authFailed, glitches>>

\* 429 with X-RateLimit-Global: everybody waits.
LimitedGlobally(c) ==
  /\ call[c].at = "flight" /\ globalHeld
  /\ globalUntil' = TRUE
  /\ Repeat(c, "limited")
  /\ UNCHANGED <<bucketVars, globalHeld, authFailed, glitches>>

\* A server error with its headers or without: the request was carried out or not,
\* and is sent again.  An answer that is lost is not asked for again.
ServerError(c) ==
  /\ call[c].at = "flight" /\ Glitch
  /\ LET b == call[c].bucket IN
       /\ Counted(b)
       /\ \/ Observe(b, budget[b] - 1) /\ Repeat(c, "failed")
          \/ /\ unseen' = [unseen EXCEPT ![b] = TRUE]
             /\ UNCHANGED <<remaining, due>>
             /\ Repeat(c, "failed") \/ Finish(c)
  /\ UNCHANGED <<globalHeld, globalUntil, authFailed>>

\* 401: the latch.
Unauthorized(c) ==
  /\ call[c].at = "flight" /\ Glitch
  /\ LET b == call[c].bucket IN Counted(b) /\ Observe(b, budget[b] - 1)
  /\ authFailed' = TRUE
  /\ Finish(c)
  /\ UNCHANGED <<globalHeld, globalUntil>>

\* The pause is over: retry_after, which ends with the limit, or some seconds.
RetryDue(c) ==
  /\ \/ call[c].at = "limited" /\ ~globalHeld /\ budget[call[c].bucket] > 0
     \/ call[c].at = "failed"
  /\ call' = [call EXCEPT ![c].at = "global", ![c].attempt = @ + 1]
  /\ UNCHANGED <<holder, bucketVars, globalHeld, globalUntil, authFailed, glitches>>

\* The caller's context ends while it waits, though not while it waits for the lock.
Cancelled(c) ==
  /\ call[c].at \in {"global", "bucket", "limited", "failed"} /\ Glitch
  /\ Finish(c)
  /\ UNCHANGED <<bucketVars, globalHeld, globalUntil, authFailed>>

Answered(c) ==
  Accepted(c) \/ Limited(c) \/ LimitedGlobally(c) \/ ServerError(c) \/ Unauthorized(c)

CallStep(c) ==
  Lock(c) \/ WaitGlobal(c) \/ WaitBucket(c) \/ Answered(c) \/ RetryDue(c) \/ Cancelled(c)

RestNext ==
  \/ \E b \in Buckets : WindowEnds(b)
  \/ GlobalLimit \/ GlobalOver
  \/ \E c \in Callers : CallStep(c) \/ \E b \in Buckets : Start(c, b)

\* Timers and locks; Discord answers, its windows end.
RestFairness ==
  /\ \A c \in Callers : WF_restVars(CallStep(c))
  /\ \A b \in Buckets : WF_restVars(WindowEnds(b))
  /\ WF_restVars(GlobalOver)

RestSpec == RestInit /\ [][RestNext]_restVars /\ RestFairness
-----------------------------------------------------------------------------
(***************************************************************************)
(* Properties.                                                             *)
(***************************************************************************)

\* Once an answer has told the client of a bucket, it sends nothing that the
\* bucket has no room for, unless an answer's headers never came: "the 429 stops
\* happening at all" (rest.go:209).
PacedOnceKnown ==
  \A c \in Callers :
    (call[c].at = "flight" /\ budget[call[c].bucket] = 0)
    => remaining[call[c].bucket] = Unknown \/ unseen[call[c].bucket]

\* Every request returns, whatever limits, errors and cancellations the requests
\* before it in its bucket met.
RequestsReturn == <>[](\A c \in Callers : call[c].at \in {"idle", "done"})
=============================================================================

---------------------------- MODULE HeardProofs ----------------------------
(***************************************************************************)
(* Theorems about HeardWatch, for any number of pieces, attempts and       *)
(* routes: a piece gives one verdict for each attempt, which the attempt's *)
(* group counts once, and a superseded piece gives none.                   *)
(***************************************************************************)
EXTENDS HeardWatch, TLAPS, FiniteSetTheorems

Listeners ==
  [listed : BOOLEAN, paths : SUBSET Repeaters, done : BOOLEAN, closed : BOOLEAN]

HeardTypes ==
  /\ run \in Tries
  /\ next \in 1 .. NParts + 1
  /\ watch \in [Watches -> Listeners]
  /\ noting \in [at : {"idle", "note", "row", "mark", "settle"},
                 watch : Watches \union {NoWatch}, path : Repeaters \union {"none"}]
  /\ closing \in [Watches -> {"idle", "mark", "settle", "over"}]
  /\ delivery \in [Watches -> {"none", "transmitted", "heard", "failed"}]
  /\ answers \in [Watches -> 0 .. 1]
  /\ tally \in [Tries -> Groups]
  /\ overtaken \subseteq Watches \X Watches

\* The sender has yet to come to the piece in that attempt.
Ahead(w) == Try(w) > run \/ (Try(w) = run /\ Part(w) >= next)

\* Nothing is known of a piece that has not been sent.
Untried ==
  \A w \in Watches : Ahead(w) =>
    /\ watch[w] = NotYet /\ closing[w] = "idle" /\ answers[w] = 0
    /\ \A o \in Watches : <<o, w>> \notin overtaken
    /\ noting.at # "idle" => noting.watch # w

\* A listed watch is open, and silent as long as it has heard nothing; an open
\* watch leaves the list by its window, a resend or the end of the process.
Listening ==
  \A w \in Watches :
    /\ watch[w].listed => closing[w] = "idle" /\ ~watch[w].done /\ ~watch[w].closed
    /\ watch[w].listed /\ watch[w].paths = {} => answers[w] = 0 /\ delivery[w] # "heard"
    /\ closing[w] = "idle" /\ watch[w] # NotYet /\ ~watch[w].done => watch[w].listed

\* The packet being noted: its tick is owed until it is given.
Noted ==
  noting.at # "idle" =>
    LET w == noting.watch IN
      /\ w \in Watches /\ noting.path \in Repeaters
      /\ noting.at = "note" =>
           /\ watch[w].listed \/ watch[w].done
           /\ ~watch[w].closed /\ watch[w].paths = {} => answers[w] = 0
      /\ noting.at \in {"row", "mark"} => answers[w] = 0
      /\ noting.at # "note" => watch[w].paths # {}
      /\ noting.at = "settle" => answers[w] = 1

\* A window that ended in silence: its satellite is owed until it is given.
Closed ==
  \A w \in Watches :
    /\ closing[w] \in {"mark", "settle"} => watch[w].paths = {} /\ watch[w].closed
    /\ closing[w] = "mark" => answers[w] = 0
    /\ closing[w] = "settle" => answers[w] = 1

\* The piece is, or was, listened for.
Joined(w) == watch[w] # NotYet

\* A superseded piece owes nothing.
Silent ==
  \A o, w \in Watches : <<o, w>> \in overtaken /\ Joined(w) =>
    /\ watch[o].closed /\ watch[o].done /\ ~watch[o].listed /\ watch[o].paths = {}
    /\ closing[o] \in {"idle", "over"}
    /\ answers[o] = 0 /\ delivery[o] # "heard"

\* The pieces of an attempt that have given their verdict, to the group too.
Gave(w) ==
  answers[w] = 1 /\ ~(noting.at = "settle" /\ noting.watch = w) /\ closing[w] # "settle"

Settled(n) == {p \in Parts : Gave(<<p, n>>)}

Counted == \A n \in Tries : Accounted(tally[n]) <= Cardinality(Settled(n))

HeardInv ==
  HeardTypes /\ Untried /\ Listening /\ Noted /\ Closed /\ Silent /\ Counted

USE HeardAssumption DEF Parts, Tries, Watches, Part, Try, senderVars

LEMMA OneMore ==
  ASSUME NEW g \in Groups, NEW outcome \in Outcomes
  PROVE  /\ Settle(g, outcome, NParts) \in Groups
         /\ Accounted(Settle(g, outcome, NParts)) = Accounted(g) + 1
<1>1. Count(g, outcome) \in Groups /\ Accounted(Count(g, outcome)) = Accounted(g) + 1
  BY DEF Count, Accounted, Groups, Outcomes
<1> QED BY <1>1 DEF Settle, Groups, Accounted

LEMMA SettledFinite ==
  ASSUME NEW n \in Tries
  PROVE  /\ IsFiniteSet(Settled(n)) /\ Cardinality(Settled(n)) \in Nat
         /\ Cardinality(Settled(n)) <= NParts
<1>1. IsFiniteSet(1 .. NParts) /\ Cardinality(1 .. NParts) = NParts
  BY FS_Interval
<1>2. Settled(n) \subseteq 1 .. NParts
  BY DEF Settled
<1> QED BY <1>1, <1>2, FS_Subset, FS_CardinalityType

\* An attempt that lacks a piece has not counted them all.
LEMMA OneLacks ==
  ASSUME tally \in [Tries -> Groups], Counted, NEW w \in Watches, ~Gave(w)
  PROVE  Accounted(tally[Try(w)]) < NParts
<1>1. PICK n \in Tries, p \in Parts : w = <<p, n>>
  OBVIOUS
<1>2. IsFiniteSet(Parts) /\ Cardinality(Parts) = NParts
  BY FS_Interval
<1>3. IsFiniteSet(Parts \ {p}) /\ Cardinality(Parts \ {p}) = NParts - 1
  <2>1. p \in Parts
    OBVIOUS
  <2> HIDE DEF Parts
  <2> QED BY <1>2, <2>1, FS_RemoveElement
<1>4. Settled(n) \subseteq Parts \ {p}
  BY <1>1 DEF Settled
<1>5. Cardinality(Settled(n)) <= NParts - 1
  BY <1>3, <1>4, FS_Subset
<1>6. Accounted(tally[n]) \in Int
  <2>1. tally[n] \in Groups
    OBVIOUS
  <2>2. tally[n].delivered \in Nat /\ tally[n].failed \in Nat /\ tally[n].unknown \in Nat
    BY ONLY <2>1 DEF Groups
  <2> QED BY ONLY <2>2 DEF Accounted
<1>7. Accounted(tally[n]) <= Cardinality(Settled(n)) /\ Cardinality(Settled(n)) \in Nat
  BY SettledFinite DEF Counted
<1> QED BY <1>1, <1>5, <1>6, <1>7

\* The pieces that have given their verdict stay counted where nothing is settled.
LEMMA SameSettled ==
  ASSUME \A w \in Watches : Gave(w)' <=> Gave(w), UNCHANGED tally, Counted
  PROVE  Counted'
<1>1. \A n \in Tries, p \in Parts : <<p, n>> \in Watches
  OBVIOUS
<1>2. \A n \in Tries : Settled(n)' = Settled(n)
  BY <1>1 DEF Settled
<1> QED BY <1>2 DEF Counted

\* One more piece of an attempt has given its verdict.
LEMMA AddSettled ==
  ASSUME NEW w \in Watches, ~Gave(w), Gave(w)',
         \A x \in Watches \ {w} : Gave(x)' <=> Gave(x)
  PROVE  /\ Part(w) \notin Settled(Try(w))
         /\ Settled(Try(w))' = Settled(Try(w)) \cup {Part(w)}
         /\ \A n \in Tries \ {Try(w)} : Settled(n)' = Settled(n)
<1>1. PICK k \in Tries, q \in Parts : w = <<q, k>>
  OBVIOUS
<1>2. \A n \in Tries, p \in Parts : p # q \/ n # k => <<p, n>> \in Watches \ {w}
  BY <1>1
<1>3. q \notin Settled(k) /\ Settled(k)' = Settled(k) \cup {q}
  BY <1>1, <1>2 DEF Settled
<1>4. \A n \in Tries \ {k} : Settled(n)' = Settled(n)
  BY <1>2 DEF Settled
<1> QED BY <1>1, <1>3, <1>4

\* The group counts a piece of its own when the piece becomes settled.
LEMMA CountsOne ==
  ASSUME tally \in [Tries -> Groups], Counted, NEW w \in Watches,
         NEW outcome \in Outcomes, SettlePart(w, outcome), ~Gave(w), Gave(w)',
         \A x \in Watches \ {w} : Gave(x)' <=> Gave(x)
  PROVE  tally' \in [Tries -> Groups] /\ Counted'
<1>1. PICK k \in Tries, q \in Parts : w = <<q, k>>
  OBVIOUS
<1>2. tally' = [tally EXCEPT ![k] = Settle(tally[k], outcome, NParts)]
  BY <1>1 DEF SettlePart
<1>3. /\ Settle(tally[k], outcome, NParts) \in Groups
      /\ Accounted(Settle(tally[k], outcome, NParts)) = Accounted(tally[k]) + 1
  BY OneMore
<1>4. tally' \in [Tries -> Groups]
  BY <1>2, <1>3
<1>5. Cardinality(Settled(k)') = Cardinality(Settled(k)) + 1
  <2>1. q \notin Settled(k) /\ Settled(k)' = Settled(k) \cup {q}
    BY <1>1, AddSettled
  <2> QED BY <2>1, SettledFinite, FS_AddElement
<1>6. \A n \in Tries \ {k} : Settled(n)' = Settled(n) /\ tally'[n] = tally[n]
  BY <1>1, <1>2, AddSettled
<1>7. Accounted(tally'[k]) <= Cardinality(Settled(k)')
  <2>1. Accounted(tally[k]) \in Int
    <3>1. tally[k] \in Groups
      OBVIOUS
    <3> QED BY ONLY <3>1 DEF Accounted, Groups
  <2>3. Cardinality(Settled(k)) \in Int
    BY SettledFinite
  <2>2. Accounted(tally'[k]) = Accounted(tally[k]) + 1
    BY <1>2, <1>3
  <2> QED BY <1>5, <2>1, <2>2, <2>3 DEF Counted
<1>8. ASSUME NEW n \in Tries \ {k}
      PROVE  Accounted(tally'[n]) <= Cardinality(Settled(n)')
  BY <1>6 DEF Counted
<1>9. \A n \in Tries : (Accounted(tally[n]) <= Cardinality(Settled(n)))'
  BY <1>7, <1>8
<1> QED BY <1>4, <1>9 DEF Counted

\* Abandoned with a piece refused, the group counts nothing.
LEMMA AbandonCounts ==
  ASSUME tally \in [Tries -> Groups], Counted, NEW k \in Tries,
         tally' = [tally EXCEPT ![k] = Abandon(@)],
         \A x \in Watches : Gave(x) => Gave(x)'
  PROVE  tally' \in [Tries -> Groups] /\ Counted'
<1>1. Abandon(tally[k]) \in Groups /\ Accounted(Abandon(tally[k])) = Accounted(tally[k])
  BY DEF Abandon, Groups, Accounted
<1>2. tally' \in [Tries -> Groups]
  BY <1>1
<1>3. ASSUME NEW n \in Tries
      PROVE  (Accounted(tally[n]) <= Cardinality(Settled(n)))'
  <2>0. tally[n] \in Groups
    OBVIOUS
  <2>1. Accounted(tally[n]) \in Int
    BY ONLY <2>0 DEF Accounted, Groups
  <2>6. Accounted(tally'[n]) = Accounted(tally[n])
    BY <1>1
  <2>2. Settled(n) \subseteq Settled(n)' /\ Settled(n)' \subseteq Parts
    BY DEF Settled
  <2>3. IsFiniteSet(Parts)
    BY FS_Interval
  <2>4. IsFiniteSet(Settled(n)') /\ Cardinality(Settled(n)) <= Cardinality(Settled(n)')
    BY <2>2, <2>3, FS_Subset
  <2>5. Cardinality(Settled(n)) \in Int /\ Cardinality(Settled(n)') \in Int
    BY <2>4, SettledFinite, FS_CardinalityType
  <2> QED BY <2>1, <2>4, <2>5, <2>6 DEF Counted
<1> QED BY <1>2, <1>3 DEF Counted

LEMMA HeardStarts == HeardInit => HeardInv
<1> SUFFICES ASSUME HeardInit PROVE HeardInv
  OBVIOUS
<1> USE DEF HeardInit, NotYet, Resting, NoWatch
<1>1. HeardTypes
  BY DEF HeardTypes, NewGroup, Groups, Listeners
<1>2. Untried /\ Noted /\ Closed /\ Silent
  BY DEF Untried, Noted, Closed, Silent
<1>3. Listening
  BY DEF Listening
<1>4. Counted
  BY SettledFinite DEF Counted, NewGroup, Accounted
<1> QED BY <1>1, <1>2, <1>3, <1>4 DEF HeardInv

LEMMA HearRepeatKeeps ==
  ASSUME HeardInv, HearRepeat
  PROVE  HeardInv'
<1> USE DEF HeardInv
<1>1. PICK w \in Watches, r \in Repeaters :
        watch[w].listed /\ noting' = [at |-> "note", watch |-> w, path |-> r]
  BY DEF HearRepeat
<1>2. /\ UNCHANGED <<run, next, watch, closing, delivery, tally, answers, overtaken>>
      /\ noting.at = "idle"
  BY DEF HearRepeat, Resting
<1>3. HeardTypes'
  BY <1>1, <1>2 DEF HeardTypes
<1>4. ~Ahead(w)
  BY <1>1 DEF Untried, NotYet
<1>5. Untried'
  BY <1>1, <1>2, <1>4 DEF Untried, Ahead
<1>6. Listening' /\ Closed' /\ Silent'
  BY <1>2 DEF Listening, Closed, Silent, Joined
<1>7. Noted'
  BY <1>1, <1>2 DEF Noted, Listening
<1>8. \A x \in Watches : Gave(x)' <=> Gave(x)
  BY <1>1, <1>2 DEF Gave
<1> QED BY <1>2, <1>3, <1>5, <1>6, <1>7, <1>8, SameSettled

LEMMA NoteKeeps ==
  ASSUME HeardInv, Note
  PROVE  HeardInv'
<1> DEFINE w == noting.watch
<1> USE DEF HeardInv, Note
<1>1. w \in Watches /\ noting.at = "note"
  BY DEF Noted
<1>2. CASE watch[w].closed
  <2>1. noting' = Resting /\ UNCHANGED watch
    BY <1>2
  <2>2. HeardTypes'
    BY <2>1 DEF HeardTypes, Resting, NoWatch
  <2>3. Untried' /\ Listening' /\ Noted' /\ Closed' /\ Silent'
    BY <2>1 DEF Untried, Ahead, Listening, Noted, Closed, Silent, Joined, Resting
  <2>4. \A x \in Watches : Gave(x)' <=> Gave(x)
    BY <1>1, <2>1 DEF Gave, Resting
  <2> QED BY <2>2, <2>3, <2>4, SameSettled
<1>3. CASE ~watch[w].closed
  <2>1. /\ watch' = [watch EXCEPT ![w].paths = @ \union {noting.path}]
        /\ noting' = IF watch[w].paths = {} THEN [noting EXCEPT !.at = "row"] ELSE Resting
    BY <1>3
  <2>2. noting.path \in Repeaters
    BY <1>1 DEF HeardTypes, Noted
  <2>3. /\ watch' \in [Watches -> Listeners]
        /\ \A x \in Watches \ {w} : watch'[x] = watch[x]
        /\ watch'[w].listed = watch[w].listed /\ watch'[w].done = watch[w].done
        /\ watch'[w].closed = watch[w].closed /\ watch'[w].paths # {}
    <3>1. watch[w] \in Listeners /\ watch \in [Watches -> Listeners]
      BY <1>1 DEF HeardTypes
    <3>2. /\ watch' = [watch EXCEPT ![w] = watch'[w]]
          /\ watch'[w] = [watch[w] EXCEPT !.paths = @ \union {noting.path}]
      BY <1>1, <2>1, <3>1
    <3>3. watch'[w] \in Listeners
      BY ONLY <2>2, <3>1, <3>2 DEF Listeners
    <3> QED BY <1>1, <3>1, <3>2, <3>3 DEF Listeners
  <2>4. /\ noting'.at \in {"idle", "row"}
        /\ noting'.at = "row" =>
             noting'.watch = w /\ noting'.path = noting.path /\ watch[w].paths = {}
    BY <1>1, <2>1 DEF HeardTypes, Resting
  <2>5. HeardTypes'
    BY <1>1, <2>1, <2>3 DEF HeardTypes, Resting, NoWatch
  <2>6. Untried'
    <3>1. \A x \in Watches : Ahead(x) => x # w
      BY <1>1 DEF Untried
    <3>2. \A x \in Watches : Ahead(x)' <=> Ahead(x)
      BY DEF Ahead
    <3> QED BY <2>3, <2>4, <3>1, <3>2 DEF Untried
  <2>7. Listening'
    BY <1>1, <2>3 DEF Listening, Noted, NotYet
  <2>8. Noted'
    BY <1>1, <1>3, <2>2, <2>3, <2>4 DEF Noted
  <2>9. Closed' /\ Silent'
    <3>1. \A x \in Watches \ {w} : watch'[x] = watch[x]
      BY <2>3
    <3>2. closing[w] \notin {"mark", "settle"}
      BY <1>1, <1>3 DEF Closed
    <3>3. Closed'
      BY <3>1, <3>2 DEF Closed
    <3>4. \A x \in Watches : Joined(x)' => Joined(x)
      BY <1>1, <3>1 DEF Joined, Noted, NotYet
    <3>5. ASSUME NEW o \in Watches, NEW x \in Watches, <<o, x>> \in overtaken, Joined(x)'
          PROVE  /\ watch'[o].closed /\ watch'[o].done /\ ~watch'[o].listed
                 /\ watch'[o].paths = {} /\ closing[o] \in {"idle", "over"}
                 /\ answers[o] = 0 /\ delivery[o] # "heard"
      <4>1. Joined(x)
        BY <3>4, <3>5
      <4>2. watch[o].closed /\ o # w
        BY <1>3, <3>5, <4>1 DEF Silent
      <4> QED BY <3>1, <3>5, <4>1, <4>2 DEF Silent
    <3>6. Silent'
      BY <3>5 DEF Silent
    <3> QED BY <3>3, <3>6
  <2>10. \A x \in Watches : Gave(x)' <=> Gave(x)
    BY <1>1, <2>4 DEF Gave
  <2> QED BY <2>5, <2>6, <2>7, <2>8, <2>9, <2>10, SameSettled
<1> QED BY <1>2, <1>3

LEMMA TickRowKeeps ==
  ASSUME HeardInv, TickRow
  PROVE  HeardInv'
<1> USE DEF HeardInv, TickRow
<1>1. HeardTypes'
  BY DEF HeardTypes, Listeners, NoWatch, Noted, Closed
<1>2. Untried'
  BY DEF HeardTypes, Untried, Ahead, Noted, Closed
<1>3. Listening'
  BY DEF HeardTypes, Listening, Noted, Closed
<1>4. Noted'
  BY DEF HeardTypes, Noted, Listening, Closed
<1>5. Closed'
  BY DEF HeardTypes, Closed, Listening, Noted
<1>6. Silent'
  BY DEF HeardTypes, Silent, Joined, Noted, Listening, Closed
<1>7. Counted'
  <2> \A x \in Watches : Gave(x)' <=> Gave(x)
    BY DEF HeardTypes, Gave, Noted, Closed
  <2> QED BY SameSettled
<1> QED BY <1>1, <1>2, <1>3, <1>4, <1>5, <1>6, <1>7

LEMMA TickMarkKeeps ==
  ASSUME HeardInv, TickMark
  PROVE  HeardInv'
<1> USE DEF HeardInv, TickMark, Answer
<1>1. HeardTypes'
  <2>1. noting.watch \in Watches /\ answers[noting.watch] = 0
    BY DEF Noted
  <2>2. answers' \in [Watches -> 0 .. 1] /\ answers' = [answers EXCEPT ![noting.watch] = 1]
    BY <2>1 DEF HeardTypes
  <2>3. noting' = [noting EXCEPT !.at = "settle"]
    OBVIOUS
  <2> QED BY <2>2, <2>3 DEF HeardTypes
<1>2. Untried'
  BY DEF HeardTypes, Untried, Ahead, Noted, Closed
<1>3. Listening'
  BY DEF HeardTypes, Listening, Noted, Closed
<1>4. Noted'
  BY DEF HeardTypes, Noted, Listening, Closed
<1>5. Closed'
  BY DEF HeardTypes, Closed, Listening, Noted
<1>6. Silent'
  BY DEF HeardTypes, Silent, Joined, Noted, Listening, Closed
<1>7. Counted'
  <2> \A x \in Watches : Gave(x)' <=> Gave(x)
    BY DEF HeardTypes, Gave, Noted, Closed
  <2> QED BY SameSettled
<1> QED BY <1>1, <1>2, <1>3, <1>4, <1>5, <1>6, <1>7

LEMMA TickSettleKeeps ==
  ASSUME HeardInv, TickSettle
  PROVE  HeardInv'
<1> USE DEF HeardInv, TickSettle, Resting
<1>1. PICK w \in Watches : w = noting.watch /\ SettlePart(w, "delivered")
  BY DEF Noted
<1>2. ~Gave(w) /\ Gave(w)'
  BY <1>1 DEF Noted, Closed, Gave
<1>3. \A x \in Watches \ {w} : Gave(x)' <=> Gave(x)
  BY <1>1 DEF Gave
<1>4. tally' \in [Tries -> Groups] /\ Counted'
  BY <1>1, <1>2, <1>3, CountsOne DEF HeardTypes, Outcomes
<1>5. HeardTypes'
  BY <1>1, <1>4 DEF HeardTypes, NoWatch
<1>6. Untried' /\ Listening'
  BY DEF Untried, Ahead, Listening, HeardTypes
<1>7. Noted'
  BY DEF Noted
<1>8. Closed'
  BY DEF Closed
<1>9. Silent'
  BY DEF Silent, Joined
<1> QED BY <1>4, <1>5, <1>6, <1>7, <1>8, <1>9

LEMMA CloseWatchKeeps ==
  ASSUME HeardInv, NEW w \in Watches, CloseWatch(w)
  PROVE  HeardInv'
<1> USE DEF HeardInv, CloseWatch
<1>1. /\ watch' \in [Watches -> Listeners]
      /\ \A x \in Watches \ {w} : watch'[x] = watch[x]
      /\ watch'[w].closed /\ watch'[w].done /\ ~watch'[w].listed
      /\ watch'[w].paths = watch[w].paths
  <2>1. watch[w] \in Listeners /\ watch \in [Watches -> Listeners]
    BY DEF HeardTypes
  <2>2. /\ watch' = [watch EXCEPT ![w] = watch'[w]]
        /\ watch'[w] = [watch[w] EXCEPT !.closed = TRUE, !.done = TRUE, !.listed = FALSE]
    BY <2>1
  <2>3. watch'[w] \in Listeners
    BY <2>1, <2>2 DEF Listeners
  <2> QED BY <2>1, <2>2, <2>3 DEF Listeners
<1>2. /\ closing' \in [Watches -> {"idle", "mark", "settle", "over"}]
      /\ \A x \in Watches \ {w} : closing'[x] = closing[x]
      /\ closing'[w] \in {"over", "mark"}
      /\ closing'[w] = "mark" => watch[w].paths = {} /\ ~watch[w].done
  BY DEF HeardTypes
<1>3. closing'[w] = "mark" => answers[w] = 0 /\ delivery[w] # "heard"
  BY <1>2 DEF Listening
<1>4. HeardTypes'
  BY <1>1, <1>2 DEF HeardTypes
<1>5. Untried'
  BY <1>1, <1>2 DEF Untried, Ahead
<1>6. Listening'
  BY <1>1, <1>2 DEF Listening
<1>7. Noted'
  BY <1>1, <1>2 DEF Noted
<1>8. Closed'
  BY <1>1, <1>2, <1>3 DEF Closed
<1>9. Silent'
  <2>1. \A x \in Watches : Joined(x)' => Joined(x)
    BY <1>1, <1>2 DEF Joined
  <2>2. \A x \in Watches : watch[x].closed /\ watch[x].done /\ ~watch[x].listed =>
          /\ watch'[x].closed /\ watch'[x].done /\ ~watch'[x].listed
          /\ watch'[x].paths = watch[x].paths
          /\ closing[x] \in {"idle", "over"} => closing'[x] \in {"idle", "over"}
    BY <1>1, <1>2
  <2> QED BY <2>1, <2>2 DEF Silent
<1>10. \A x \in Watches : Gave(x)' <=> Gave(x)
  BY <1>2 DEF Gave
<1> QED BY <1>4, <1>5, <1>6, <1>7, <1>8, <1>9, <1>10, SameSettled

LEMMA SilenceMarkKeeps ==
  ASSUME HeardInv, NEW w \in Watches, SilenceMark(w)
  PROVE  HeardInv'
<1> USE DEF HeardInv, SilenceMark, Answer
<1>1. HeardTypes'
  BY DEF HeardTypes, Listeners, NoWatch, Noted, Closed
<1>2. Untried'
  BY DEF HeardTypes, Untried, Ahead, Noted, Closed
<1>3. Listening'
  BY DEF HeardTypes, Listening, Noted, Closed
<1>4. Noted'
  BY DEF HeardTypes, Noted, Listening, Closed
<1>5. Closed'
  BY DEF HeardTypes, Closed, Listening, Noted
<1>6. Silent'
  BY DEF HeardTypes, Silent, Joined, Noted, Listening, Closed
<1>7. Counted'
  <2> \A x \in Watches : Gave(x)' <=> Gave(x)
    BY DEF HeardTypes, Gave, Noted, Closed
  <2> QED BY SameSettled
<1> QED BY <1>1, <1>2, <1>3, <1>4, <1>5, <1>6, <1>7

LEMMA SilenceSettleKeeps ==
  ASSUME HeardInv, NEW w \in Watches, SilenceSettle(w)
  PROVE  HeardInv'
<1> USE DEF HeardInv, SilenceSettle
<1>1. /\ w \in Watches /\ ~Gave(w) /\ Gave(w)'
      /\ \A x \in Watches \ {w} : Gave(x)' <=> Gave(x)
  BY DEF HeardTypes, Noted, Closed, Gave
<1>2. tally' \in [Tries -> Groups] /\ Counted'
  BY <1>1, CountsOne DEF HeardTypes, Outcomes
<1>3. HeardTypes'
  BY <1>1, <1>2 DEF HeardTypes, NoWatch
<1>4. Untried' /\ Listening'
  BY DEF Untried, Ahead, Listening, HeardTypes
<1>5. Noted' /\ Closed' /\ Silent'
  BY DEF Noted, Closed, Silent, Joined, HeardTypes
<1> QED BY <1>2, <1>3, <1>4, <1>5

LEMMA StopKeeps ==
  ASSUME HeardInv, Stop
  PROVE  HeardInv'
<1> USE DEF HeardInv, Stop
<1>1. HeardTypes'
  BY DEF HeardTypes, Listeners, NotYet, Resting, NoWatch, Groups, NewGroup
<1>2. Untried'
  <2>1. \A w \in Watches : Ahead(w)' <=> Ahead(w)
    BY DEF Ahead
  <2> QED BY <2>1 DEF Untried, Resting
<1>3. Listening' /\ Closed' /\ Silent'
  BY DEF Listening, Closed, Silent, Joined, NotYet
<1>4. Noted'
  BY DEF Noted, Resting
<1>5. Counted'
  <2>1. ASSUME NEW n \in Tries PROVE (Accounted(tally[n]) <= Cardinality(Settled(n)))'
    <3>1. Accounted(tally'[n]) = 0
      BY DEF Accounted, NewGroup
    <3>2. IsFiniteSet(Parts) /\ Settled(n)' \subseteq Parts
      BY FS_Interval DEF Settled
    <3>3. Cardinality(Settled(n)') \in Nat
      BY <3>2, FS_Subset, FS_CardinalityType
    <3> QED BY <3>1, <3>3
  <2> QED BY <2>1 DEF Counted
<1> QED BY <1>1, <1>2, <1>3, <1>4, <1>5

LEMMA ResendKeeps ==
  ASSUME HeardInv, Resend
  PROVE  HeardInv'
<1> USE DEF HeardInv, Resend
<1>1. run' \in Tries /\ next' \in 1 .. NParts + 1
  BY DEF HeardTypes
<1>2. \A w \in Watches : Ahead(w)' => Ahead(w)
  <2>1. CASE UNCHANGED <<run, next>>
    BY <2>1 DEF Ahead
  <2>2. CASE run' = run + 1
    <3>1. run \in Int /\ \A w \in Watches : w[2] \in Int
      BY DEF HeardTypes
    <3>2. \A w \in Watches : Ahead(w)' => w[2] > run
      BY <2>2, <3>1 DEF Ahead
    <3> QED BY <3>2 DEF Ahead
  <2> QED BY <2>1, <2>2
<1>3. HeardTypes'
  BY <1>1 DEF HeardTypes
<1>4. Untried'
  BY <1>2 DEF Untried
<1>5. Listening' /\ Noted' /\ Closed'
  BY DEF Listening, Noted, Closed
<1>6. Silent'
  BY DEF Silent, Joined
<1>7. \A x \in Watches : Gave(x)' <=> Gave(x)
  BY DEF Gave
<1> QED BY <1>3, <1>4, <1>5, <1>6, <1>7, SameSettled

\* The sender has come to a piece that nothing is known of, and goes past it.
LEMMA PiecePlaced ==
  ASSUME HeardInv, NEW k, next <= NParts, Place(k)
  PROVE  /\ Piece \in Watches /\ Ahead(Piece)
         /\ watch[Piece] = NotYet /\ closing[Piece] = "idle" /\ answers[Piece] = 0
         /\ noting.at # "idle" => noting.watch # Piece
         /\ overtaken' \subseteq Watches \X Watches
         /\ \A o, v \in Watches : <<o, v>> \in overtaken' /\ <<o, v>> \notin overtaken =>
              /\ v = Piece /\ o # Piece
              /\ o \in OpenOn(<<next, k>>) /\ watch[o].listed /\ watch[o].paths = {}
         /\ \A o \in Watches : <<o, Piece>> \notin overtaken
<1> USE DEF HeardInv
<1>1. Piece \in Watches /\ Ahead(Piece)
  BY DEF Piece, Ahead, HeardTypes
<1>2. /\ watch[Piece] = NotYet /\ closing[Piece] = "idle" /\ answers[Piece] = 0
      /\ noting.at # "idle" => noting.watch # Piece
      /\ \A o \in Watches : <<o, Piece>> \notin overtaken
  BY <1>1 DEF Untried
<1>3. \A o \in OpenOn(<<next, k>>) : o \in Watches /\ watch[o].listed /\ o # Piece
  BY <1>2 DEF OpenOn, NotYet
<1>4. overtaken' = overtaken \union
        {<<o, Piece>> : o \in {o \in OpenOn(<<next, k>>) : watch[o].paths = {}}}
  BY DEF Place
<1>5. overtaken' \subseteq Watches \X Watches
  <2>1. \A o \in OpenOn(<<next, k>>) : <<o, Piece>> \in Watches \X Watches
    BY <1>1, <1>3
  <2>2. overtaken \subseteq Watches \X Watches
    BY DEF HeardTypes
  <2> QED BY ONLY <1>4, <2>1, <2>2
<1>6. ASSUME NEW o \in Watches, NEW v \in Watches,
             <<o, v>> \in overtaken', <<o, v>> \notin overtaken
      PROVE  v = Piece /\ o \in OpenOn(<<next, k>>) /\ watch[o].paths = {}
  BY <1>4, <1>6
<1> QED BY <1>1, <1>2, <1>3, <1>5, <1>6

\* Past the piece, what was still ahead of the sender is, and the piece is not.
LEMMA PastPiece ==
  ASSUME HeardTypes, NEW k, Place(k), next <= NParts,
         next' = next + 1 \/ next' = NParts + 1
  PROVE  /\ next' \in 1 .. NParts + 1
         /\ \A x \in Watches : Ahead(x)' => Ahead(x) /\ x # Piece
<1>1. run' = run /\ run \in Tries /\ next \in 1 .. NParts + 1
  BY DEF Place, HeardTypes
<1>2. next' \in 1 .. NParts + 1 /\ next' > next
  BY <1>1
<1> QED BY <1>1, <1>2 DEF Ahead, Piece

\* A piece that is not listened for changes nothing for the others.
LEMMA UnheardKeeps ==
  ASSUME HeardInv, NEW k, next <= NParts, Refuse(k) \/ SendUnheard(k)
  PROVE  HeardInv'
<1> DEFINE w == Piece
<1> USE DEF HeardInv
<1>1. /\ Place(k) /\ UNCHANGED <<run, watch, noting, closing>>
      /\ next' = next + 1 \/ next' = NParts + 1
      /\ answers' = [answers EXCEPT ![w] = @ + 1]
      /\ \/ delivery' = [delivery EXCEPT ![w] = "failed"]
         \/ delivery' = [delivery EXCEPT ![w] = "transmitted"]
  BY DEF Refuse, SendUnheard, Place, Answer
<1>2. PICK c \in Watches : c = w
  BY <1>1, PiecePlaced
<1>3. /\ watch[c] = NotYet /\ closing[c] = "idle" /\ answers[c] = 0
      /\ noting.at # "idle" => noting.watch # c
      /\ overtaken' \subseteq Watches \X Watches
      /\ \A o, v \in Watches : <<o, v>> \in overtaken' /\ <<o, v>> \notin overtaken =>
           v = c /\ o # c
      /\ \A o \in Watches : <<o, c>> \notin overtaken
  BY <1>1, <1>2, PiecePlaced
<1>4. /\ next' \in 1 .. NParts + 1
      /\ \A x \in Watches : Ahead(x)' => Ahead(x) /\ x # c
  BY <1>1, <1>2, PastPiece
<1>5. /\ answers' \in [Watches -> 0 .. 1] /\ answers'[c] = 1
      /\ \A x \in Watches \ {c} : answers'[x] = answers[x]
  BY <1>1, <1>2, <1>3 DEF HeardTypes
<1>6. /\ delivery' \in [Watches -> {"none", "transmitted", "heard", "failed"}]
      /\ delivery'[c] # "heard"
      /\ \A x \in Watches \ {c} : delivery'[x] = delivery[x]
  <2>1. delivery \in [Watches -> {"none", "transmitted", "heard", "failed"}]
    BY DEF HeardTypes
  <2>2. PICK d \in {"failed", "transmitted"} : delivery' = [delivery EXCEPT ![c] = d]
    BY <1>1, <1>2
  <2> QED BY <2>1, <2>2
<1>7. ~Gave(c) /\ Gave(c)' /\ \A x \in Watches \ {c} : Gave(x)' <=> Gave(x)
  BY <1>1, <1>3, <1>5 DEF Gave
<1>8. tally' \in [Tries -> Groups] /\ Counted'
  <2>1. CASE Refuse(k)
    <3>1. tally' = [tally EXCEPT ![run] = Abandon(@)] /\ run \in Tries
      BY <2>1 DEF Refuse, HeardTypes
    <3>2. tally \in [Tries -> Groups] /\ \A x \in Watches : Gave(x) => Gave(x)'
      BY <1>7 DEF HeardTypes
    <3>3. PICK n \in Tries : n = run
      BY <3>1
    <3> QED BY <3>1, <3>2, <3>3, AbandonCounts
  <2>2. CASE SendUnheard(k)
    <3>1. SettlePart(c, "unknown")
      BY <1>2, <2>2 DEF SendUnheard
    <3> QED BY <1>7, <3>1, CountsOne DEF HeardTypes, Outcomes
  <2> QED BY <2>1, <2>2
<1>9. HeardTypes'
  BY <1>1, <1>3, <1>4, <1>5, <1>6, <1>8 DEF HeardTypes
<1>10. Untried'
  <2>1. ASSUME NEW x \in Watches, Ahead(x)'
        PROVE  /\ watch'[x] = NotYet /\ closing'[x] = "idle" /\ answers'[x] = 0
               /\ \A o \in Watches : <<o, x>> \notin overtaken'
               /\ noting'.at # "idle" => noting'.watch # x
    <3>1. Ahead(x) /\ x # c
      BY <1>4, <2>1
    <3> QED BY <1>1, <1>3, <1>5, <3>1 DEF Untried
  <2> QED BY <2>1 DEF Untried
<1>11. Listening'
  BY <1>1, <1>3, <1>5, <1>6 DEF Listening, NotYet
<1>12. Noted'
  BY <1>1, <1>3, <1>5 DEF Noted
<1>13. Closed'
  BY <1>1, <1>3, <1>5 DEF Closed
<1>14. Silent'
  <2>1. \A x \in Watches : Joined(x)' <=> Joined(x)
    BY <1>1 DEF Joined
  <2>2. ~Joined(c)
    BY <1>3 DEF Joined
  <2>3. ASSUME NEW o \in Watches, NEW v \in Watches, <<o, v>> \in overtaken', Joined(v)
        PROVE  /\ <<o, v>> \in overtaken /\ watch[o].closed /\ o # c
    <3>1. <<o, v>> \in overtaken
      BY <1>3, <2>2, <2>3
    <3>2. watch[o].closed
      BY <2>3, <3>1 DEF Silent
    <3> QED BY <1>3, <3>1, <3>2 DEF NotYet
  <2> QED BY <1>1, <1>5, <1>6, <2>1, <2>3 DEF Silent
<1> QED BY <1>8, <1>9, <1>10, <1>11, <1>12, <1>13, <1>14

LEMMA WatchedKeeps ==
  ASSUME HeardInv, NEW k, next <= NParts, SendWatched(k)
  PROVE  HeardInv'
<1> DEFINE older == OpenOn(<<next, k>>)
<1> USE DEF HeardInv
<1>1. /\ Place(k) /\ UNCHANGED <<run, noting, closing, tally, answers>>
      /\ next' = next + 1
      /\ delivery' = [delivery EXCEPT ![Piece] = "transmitted"]
      /\ watch' = Supersede(Piece, older)
  BY DEF SendWatched, Place
<1>2. PICK c \in Watches : c = Piece
  BY <1>1, PiecePlaced
<1>3. /\ watch[c] = NotYet /\ closing[c] = "idle" /\ answers[c] = 0
      /\ noting.at # "idle" => noting.watch # c
      /\ overtaken' \subseteq Watches \X Watches
      /\ \A o, v \in Watches : <<o, v>> \in overtaken' /\ <<o, v>> \notin overtaken =>
           v = c /\ o # c /\ o \in older /\ watch[o].listed /\ watch[o].paths = {}
      /\ \A o \in Watches : <<o, c>> \notin overtaken
  BY <1>1, <1>2, PiecePlaced
<1>4. /\ next' \in 1 .. NParts + 1
      /\ \A x \in Watches : Ahead(x)' => Ahead(x) /\ x # c
  BY <1>1, <1>2, PastPiece
<1>5. /\ delivery' \in [Watches -> {"none", "transmitted", "heard", "failed"}]
      /\ delivery'[c] # "heard"
      /\ \A x \in Watches \ {c} : delivery'[x] = delivery[x]
  BY <1>1, <1>2 DEF HeardTypes
<1>6. /\ \A x \in older : watch[x].listed
      /\ watch'[c] = [NotYet EXCEPT !.listed = TRUE]
      /\ \A x \in Watches : x # c =>
           watch'[x] = IF x \in older
                       THEN [watch[x] EXCEPT !.listed = FALSE, !.done = TRUE, !.closed = TRUE]
                       ELSE watch[x]
  BY <1>1, <1>2 DEF Supersede, OpenOn
<1>7. /\ watch'[c] \in Listeners
      /\ watch'[c].listed /\ ~watch'[c].done /\ ~watch'[c].closed
  BY <1>6 DEF Listeners, NotYet
<1>8. ASSUME NEW x \in Watches, x # c, x \in older
      PROVE  /\ watch[x].listed /\ watch'[x].paths = watch[x].paths
             /\ ~watch'[x].listed /\ watch'[x].done /\ watch'[x].closed
             /\ watch'[x] \in Listeners
  <2>1. watch[x] \in Listeners /\ watch[x].listed
    BY <1>6, <1>8 DEF HeardTypes
  <2>2. watch'[x] = [watch[x] EXCEPT !.listed = FALSE, !.done = TRUE, !.closed = TRUE]
    BY <1>6, <1>8
  <2> QED BY ONLY <2>1, <2>2 DEF Listeners
<1>9. \A x \in Watches : x # c /\ x \notin older => watch'[x] = watch[x]
  BY <1>6
<1>10. HeardTypes'
  <2>1. ASSUME NEW x \in Watches PROVE watch'[x] \in Listeners
    <3>1. CASE x # c /\ x \in older
      BY <1>8, <3>1
    <3>2. CASE x # c /\ x \notin older
      BY <1>9, <3>2 DEF HeardTypes
    <3> QED BY <1>7, <3>1, <3>2
  <2>2. watch' \in [Watches -> Listeners]
    BY <1>1, <2>1 DEF Supersede
  <2> QED BY <1>1, <1>3, <1>4, <1>5, <2>2 DEF HeardTypes
<1>11. Untried'
  <2>1. ASSUME NEW x \in Watches, Ahead(x)'
        PROVE  /\ watch'[x] = NotYet /\ closing'[x] = "idle" /\ answers'[x] = 0
               /\ \A o \in Watches : <<o, x>> \notin overtaken'
               /\ noting'.at # "idle" => noting'.watch # x
    <3>1. Ahead(x) /\ x # c
      BY <1>4, <2>1
    <3>2. x \notin older
      <4>1. ~watch[x].listed
        BY <3>1 DEF Untried, NotYet
      <4> HIDE DEF older
      <4> QED BY <1>6, <4>1
    <3> QED BY <1>1, <1>3, <1>9, <3>1, <3>2 DEF Untried
  <2> QED BY <2>1 DEF Untried
<1>12. Listening'
  BY <1>1, <1>3, <1>5, <1>7, <1>8, <1>9 DEF Listening
<1>13. Noted'
  BY <1>1, <1>3, <1>8, <1>9 DEF Noted
<1>14. Closed'
  BY <1>1, <1>3, <1>8, <1>9 DEF Closed
<1>15. Silent'
  <2>1. ASSUME NEW o \in Watches, NEW v \in Watches, <<o, v>> \in overtaken', Joined(v)'
        PROVE  /\ o # c /\ watch'[o].closed /\ watch'[o].done /\ ~watch'[o].listed
               /\ watch'[o].paths = {} /\ closing[o] \in {"idle", "over"}
               /\ answers[o] = 0 /\ delivery[o] # "heard"
    <3>1. CASE <<o, v>> \in overtaken
      <4>1. v # c
        BY <1>3, <3>1
      <4>2. Joined(v)
        BY <1>1, <1>8, <1>9, <2>1, <4>1 DEF Joined, NotYet
      <4>3. watch[o].closed /\ ~watch[o].listed
        BY <3>1, <4>2 DEF Silent
      <4>4. o # c /\ watch'[o] = watch[o]
        <5>1. o # c
          BY <1>3, <4>3 DEF NotYet
        <5>2. o \notin older
          <6> HIDE DEF older
          <6> QED BY <1>6, <4>3
        <5> QED BY <1>9, <5>1, <5>2
      <4> QED BY <3>1, <4>2, <4>4 DEF Silent
    <3>2. CASE <<o, v>> \notin overtaken
      <4>1. o # c /\ o \in older /\ watch[o].listed /\ watch[o].paths = {}
        BY <1>3, <2>1, <3>2
      <4> QED BY <1>8, <4>1 DEF Listening
    <3> QED BY <3>1, <3>2
  <2> QED BY <1>1, <1>5, <2>1 DEF Silent
<1>16. \A x \in Watches : Gave(x)' <=> Gave(x)
  BY <1>1 DEF Gave
<1> QED BY <1>1, <1>10, <1>11, <1>12, <1>13, <1>14, <1>15, <1>16, SameSettled

LEMMA HeardKeeps == HeardInv /\ [HeardNext]_heardVars => HeardInv'
<1> SUFFICES ASSUME HeardInv, [HeardNext]_heardVars PROVE HeardInv'
  OBVIOUS
<1>1. CASE UNCHANGED heardVars
  <2>1. UNCHANGED <<run, next, watch, noting, closing, delivery, tally, answers, overtaken>>
    BY <1>1 DEF heardVars
  <2>2. HeardTypes' /\ Untried' /\ Listening'
    BY <2>1 DEF HeardInv, HeardTypes, Untried, Ahead, Listening
  <2>4. Noted' /\ Closed' /\ Silent'
    BY <2>1 DEF HeardInv, Noted, Closed, Silent, Joined
  <2>3. Counted'
    BY <2>1, SameSettled DEF Gave, HeardInv
  <2> QED BY <2>2, <2>3, <2>4 DEF HeardInv
<1>2. CASE HearRepeat \/ NoteStep
  BY <1>2, HearRepeatKeeps, NoteKeeps, TickRowKeeps, TickMarkKeeps, TickSettleKeeps DEF NoteStep
<1>3. CASE \E w \in Watches : WindowStep(w)
  BY <1>3, CloseWatchKeeps, SilenceMarkKeeps, SilenceSettleKeeps DEF WindowStep
<1>4. CASE Transmit
  BY <1>4, UnheardKeeps, WatchedKeeps DEF Transmit
<1> QED BY <1>1, <1>2, <1>3, <1>4, StopKeeps, ResendKeeps DEF HeardNext

\* A piece of an attempt gives one verdict, a tick or a satellite or a cross, and the
\* group of the attempt counts no piece twice (heard.go:176).
THEOREM VerdictOnce == HeardSpec => []OneVerdict
<1>1. ASSUME HeardInv PROVE OneVerdict
  <2>1. \A w \in Watches : answers[w] <= 1
    <3>1. answers \in [Watches -> 0 .. 1]
      BY <1>1 DEF HeardInv, HeardTypes
    <3>2. \A w \in Watches : answers[w] \in 0 .. 1
      BY <3>1
    <3> QED BY <3>2
  <2>2. ASSUME NEW n \in Tries PROVE Accounted(tally[n]) <= NParts
    <3>1. tally \in [Tries -> Groups] /\ Counted
      BY <1>1 DEF HeardInv, HeardTypes
    <3>2. Accounted(tally[n]) \in Int
      BY <3>1 DEF Accounted, Groups
    <3>3. Accounted(tally[n]) <= Cardinality(Settled(n))
      BY <3>1 DEF Counted
    <3> QED BY <3>2, <3>3, SettledFinite
  <2> QED BY <2>1, <2>2 DEF OneVerdict
<1> QED BY <1>1, HeardStarts, HeardKeeps, PTL DEF HeardSpec

\* A piece that was still listened for when a later attempt began to listen on the
\* same message says nothing any more, and the group of its attempt never has all its
\* pieces (heard.go:98).
THEOREM NoLateVerdict == HeardSpec => []SupersededSilent
<1>1. ASSUME HeardInv PROVE SupersededSilent
  <2>1. ASSUME NEW pair \in overtaken, watch[pair[2]] # NotYet
        PROVE  /\ answers[pair[1]] = 0 /\ delivery[pair[1]] # "heard"
               /\ Accounted(tally[Try(pair[1])]) < NParts
    <3>1. PICK o \in Watches, w \in Watches : pair = <<o, w>>
      BY <1>1, <2>1 DEF HeardInv, HeardTypes
    <3>2. Joined(w)
      BY <2>1, <3>1 DEF Joined
    <3>3. answers[o] = 0 /\ delivery[o] # "heard"
      BY <1>1, <2>1, <3>1, <3>2 DEF HeardInv, Silent
    <3>4. ~Gave(o)
      BY <3>3 DEF Gave
    <3>5. Accounted(tally[Try(o)]) < NParts
      BY <1>1, <3>4, OneLacks DEF HeardInv, HeardTypes
    <3> QED BY <3>1, <3>3, <3>5
  <2> QED BY <2>1 DEF SupersededSilent
<1> QED BY <1>1, HeardStarts, HeardKeeps, PTL DEF HeardSpec
=============================================================================

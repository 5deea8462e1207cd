---------------------------- MODULE GatewayProofs ----------------------------
(***************************************************************************)
(* Theorems about Gateway, for any number of events and mishaps: what the  *)
(* handlers get of a session has no gap, no repeat and no change of order, *)
(* and no three identifies fall within one window of the throttle.         *)
(***************************************************************************)
EXTENDS Gateway, TLAPS

Ops == {"event", "ready", "resumed", "ack", "reconnect", "resumable", "invalid", "close"}
Frames == [op : Ops, s : Nat]

\* A frame that carries a number of the session.
Numbered(f) == f.op \in {"event", "ready"}

\* The numbered frames of a wire continue from q without a gap, up to l at most;
\* the first of all is the READY.
Ordered(w, q, l) ==
  /\ \A i \in 1 .. Len(w) : Numbered(w[i]) =>
       w[i].s > q /\ w[i].s <= l /\ (w[i].op = "ready" <=> w[i].s = 1)
  /\ \A i, j \in 1 .. Len(w) : i < j /\ Numbered(w[i]) /\ Numbered(w[j]) => w[i].s < w[j].s
  /\ \A i \in 1 .. Len(w) : Numbered(w[i]) =>
       \A n \in Nat : q < n /\ n <= w[i].s =>
         \E j \in 1 .. i : Numbered(w[j]) /\ w[j].s = n

\* They reach l.
Complete(w, q, l) ==
  \A n \in Nat : q < n /\ n <= l => \E j \in 1 .. Len(w) : Numbered(w[j]) /\ w[j].s = n

Unnumbered(w) == \A i \in 1 .. Len(w) : ~Numbered(w[i])

GatewayTypes ==
  /\ phase \in {"backoff", "throttle", "sent", "reading", "fatal"}
  /\ known \in Nat /\ seq \in Nat /\ latest \in Nat /\ log \in Nat
  /\ valid \in BOOLEAN
  /\ wire \in Seq(Frames)

\* The session the client knows is the latest, and its number one it has sent.
Session ==
  /\ known \in {0, latest}
  /\ known = 0 <=> seq = 0
  /\ seq <= log
  /\ phase = "reading" => latest # 0
  /\ valid => log # 0

OnWire ==
  /\ phase \notin {"sent", "reading"} => wire = <<>>
  /\ phase = "sent" => Unnumbered(wire)
  /\ Ordered(wire, seq, log)
  /\ phase = "reading" /\ valid => Complete(wire, seq, log)

UpTo(n) == [i \in 1 .. n |-> i]

GatewayInv == GatewayTypes /\ Session /\ OnWire /\ handled = UpTo(seq)

-----------------------------------------------------------------------------
(* What is done to the wire. *)

LEMMA AppendOther ==
  ASSUME NEW w \in Seq(Frames), NEW q \in Nat, NEW l \in Nat, NEW f \in Frames, ~Numbered(f)
  PROVE  /\ Append(w, f) \in Seq(Frames)
         /\ Ordered(w, q, l) => Ordered(Append(w, f), q, l)
         /\ Complete(w, q, l) => Complete(Append(w, f), q, l)
         /\ Unnumbered(w) => Unnumbered(Append(w, f))
<1> DEFINE v == Append(w, f)
<1>1. /\ v \in Seq(Frames) /\ Len(v) = Len(w) + 1 /\ v[Len(w) + 1] = f
      /\ \A i \in 1 .. Len(w) : v[i] = w[i]
  OBVIOUS
<1>2. \A i \in 1 .. Len(v) : Numbered(v[i]) => i \in 1 .. Len(w)
  BY <1>1
<1> HIDE DEF v
<1>3. Ordered(w, q, l) => Ordered(v, q, l)
  BY <1>1, <1>2 DEF Ordered
<1>4. Complete(w, q, l) => Complete(v, q, l)
  BY <1>1 DEF Complete
<1>5. Unnumbered(w) => Unnumbered(v)
  BY <1>1, <1>2 DEF Unnumbered
<1> QED BY <1>1, <1>3, <1>4, <1>5 DEF v

LEMMA AppendNext ==
  ASSUME NEW w \in Seq(Frames), NEW q \in Nat, NEW l \in Nat, q <= l,
         NEW f \in Frames, Numbered(f), f.s = l + 1, f.op = "ready" <=> f.s = 1,
         Ordered(w, q, l), Complete(w, q, l)
  PROVE  /\ Append(w, f) \in Seq(Frames)
         /\ Ordered(Append(w, f), q, l + 1) /\ Complete(Append(w, f), q, l + 1)
<1> DEFINE v == Append(w, f)
<1>1. /\ v \in Seq(Frames) /\ Len(v) = Len(w) + 1 /\ v[Len(w) + 1] = f
      /\ \A i \in 1 .. Len(w) : v[i] = w[i] /\ w[i] \in Frames
      /\ \A i \in 1 .. Len(v) : i \in 1 .. Len(w) \/ i = Len(w) + 1
  OBVIOUS
<1> HIDE DEF v
<1>2. Complete(v, q, l + 1)
  BY <1>1 DEF Complete
<1>3. Ordered(v, q, l + 1)
  <2>1. ASSUME NEW i \in 1 .. Len(v), Numbered(v[i])
        PROVE  v[i].s > q /\ v[i].s <= l + 1 /\ (v[i].op = "ready" <=> v[i].s = 1)
    <3>1. CASE i \in 1 .. Len(w)
      <4>1. Numbered(w[i]) /\ v[i] = w[i] /\ w[i].s \in Nat
        BY <1>1, <2>1, <3>1 DEF Frames
      <4>2. w[i].s > q /\ w[i].s <= l /\ (w[i].op = "ready" <=> w[i].s = 1)
        BY <3>1, <4>1 DEF Ordered
      <4> QED BY <4>1, <4>2
    <3>2. CASE i = Len(w) + 1
      BY <1>1, <3>2
    <3> QED BY <1>1, <3>1, <3>2
  <2>2. ASSUME NEW i \in 1 .. Len(v), NEW j \in 1 .. Len(v),
               i < j, Numbered(v[i]), Numbered(v[j])
        PROVE  v[i].s < v[j].s
    <3>1. i \in 1 .. Len(w) /\ Numbered(w[i]) /\ v[i] = w[i] /\ w[i].s \in Nat
      BY <1>1, <2>2 DEF Frames
    <3>2. CASE j \in 1 .. Len(w)
      BY <1>1, <2>2, <3>1, <3>2 DEF Ordered
    <3>3. CASE j = Len(w) + 1
      <4>1. w[i].s <= l
        BY <3>1 DEF Ordered
      <4> QED BY <1>1, <3>1, <3>3, <4>1
    <3> QED BY <1>1, <3>2, <3>3
  <2>3. ASSUME NEW i \in 1 .. Len(v), Numbered(v[i]), NEW n \in Nat, q < n, n <= v[i].s
        PROVE  \E j \in 1 .. i : Numbered(v[j]) /\ v[j].s = n
    <3>1. CASE i \in 1 .. Len(w)
      <4>1. Numbered(w[i]) /\ v[i] = w[i]
        BY <1>1, <2>3, <3>1
      <4>2. n <= w[i].s
        BY <2>3, <4>1
      <4>3. PICK j \in 1 .. i : Numbered(w[j]) /\ w[j].s = n
        BY <2>3, <3>1, <4>1, <4>2 DEF Ordered
      <4>4. j \in 1 .. Len(w) /\ v[j] = w[j]
        BY <1>1, <3>1, <4>3
      <4> QED BY <4>3, <4>4
    <3>2. CASE i = Len(w) + 1
      BY <1>1, <1>2, <2>3, <3>2 DEF Complete
    <3> QED BY <1>1, <3>1, <3>2
  <2> QED BY <2>1, <2>2, <2>3 DEF Ordered
<1> QED BY <1>1, <1>2, <1>3 DEF v

LEMMA TailOther ==
  ASSUME NEW w \in Seq(Frames), NEW q \in Nat, NEW l \in Nat, w # <<>>, ~Numbered(Head(w)),
         Ordered(w, q, l)
  PROVE  /\ Tail(w) \in Seq(Frames)
         /\ Ordered(Tail(w), q, l)
         /\ Complete(w, q, l) => Complete(Tail(w), q, l)
<1> DEFINE v == Tail(w)
<1>1. /\ v \in Seq(Frames) /\ Len(w) = Len(v) + 1 /\ ~Numbered(w[1]) /\ Len(v) \in Nat
      /\ \A i \in 1 .. Len(v) : v[i] = w[i + 1] /\ i + 1 \in 1 .. Len(w)
  OBVIOUS
<1>2. \A j \in 1 .. Len(w) : j = 1 \/ (j - 1 \in 1 .. Len(v) /\ w[j] = v[j - 1])
  BY <1>1
<1> HIDE DEF v
<1>3. Complete(w, q, l) => Complete(v, q, l)
  <2> SUFFICES ASSUME Complete(w, q, l), NEW n \in Nat, q < n, n <= l
               PROVE  \E j \in 1 .. Len(v) : Numbered(v[j]) /\ v[j].s = n
    BY DEF Complete
  <2>1. PICK j \in 1 .. Len(w) : Numbered(w[j]) /\ w[j].s = n
    BY DEF Complete
  <2> QED BY <1>1, <1>2, <2>1
<1>4. Ordered(v, q, l)
  <2>1. \A i \in 1 .. Len(v) : Numbered(v[i]) =>
          v[i].s > q /\ v[i].s <= l /\ (v[i].op = "ready" <=> v[i].s = 1)
    BY <1>1 DEF Ordered
  <2>2. \A i, j \in 1 .. Len(v) :
          i < j /\ Numbered(v[i]) /\ Numbered(v[j]) => v[i].s < v[j].s
    BY <1>1 DEF Ordered
  <2>3. ASSUME NEW i \in 1 .. Len(v), Numbered(v[i]), NEW n \in Nat, q < n, n <= v[i].s
        PROVE  \E j \in 1 .. i : Numbered(v[j]) /\ v[j].s = n
    <3>1. PICK j \in 1 .. i + 1 : Numbered(w[j]) /\ w[j].s = n
      BY <1>1, <2>3 DEF Ordered
    <3>2. j - 1 \in 1 .. i /\ w[j] = v[j - 1]
      BY <1>1, <1>2, <3>1
    <3> QED BY <3>1, <3>2
  <2> QED BY <2>1, <2>2, <2>3 DEF Ordered
<1> QED BY <1>1, <1>3, <1>4 DEF v

LEMMA TailNumbered ==
  ASSUME NEW w \in Seq(Frames), NEW q \in Nat, NEW l \in Nat, w # <<>>, Numbered(Head(w)),
         Ordered(w, q, l)
  PROVE  /\ Head(w).s = q + 1 /\ q + 1 <= l /\ (Head(w).op = "ready" <=> q = 0)
         /\ Tail(w) \in Seq(Frames)
         /\ Ordered(Tail(w), q + 1, l)
         /\ Complete(w, q, l) => Complete(Tail(w), q + 1, l)
<1> DEFINE v == Tail(w)
<1>1. /\ v \in Seq(Frames) /\ Len(w) = Len(v) + 1 /\ Len(v) \in Nat
      /\ Numbered(w[1]) /\ Head(w) = w[1]
      /\ \A i \in 1 .. Len(v) : v[i] = w[i + 1] /\ i + 1 \in 1 .. Len(w)
      /\ \A i \in 1 .. Len(w) : w[i] \in Frames
  OBVIOUS
<1>2. \A j \in 1 .. Len(w) : j = 1 \/ (j - 1 \in 1 .. Len(v) /\ w[j] = v[j - 1])
  BY <1>1
<1>3. w[1].s = q + 1
  <2>1. w[1].s > q
    BY <1>1 DEF Ordered
  <2>2. \E j \in 1 .. 1 : Numbered(w[j]) /\ w[j].s = q + 1
    <3>1. w[1].s \in Nat /\ 1 \in 1 .. Len(w)
      BY <1>1 DEF Frames
    <3>2. q + 1 \in Nat /\ q < q + 1 /\ q + 1 <= w[1].s
      BY <2>1, <3>1
    <3> QED BY <1>1, <3>1, <3>2 DEF Ordered
  <2> QED BY <2>2
<1>4. q + 1 <= l /\ (w[1].op = "ready" <=> q = 0)
  BY <1>1, <1>3 DEF Ordered
<1> HIDE DEF v
<1>5. Complete(w, q, l) => Complete(v, q + 1, l)
  <2> SUFFICES ASSUME Complete(w, q, l), NEW n \in Nat, q + 1 < n, n <= l
               PROVE  \E j \in 1 .. Len(v) : Numbered(v[j]) /\ v[j].s = n
    BY DEF Complete
  <2>1. PICK j \in 1 .. Len(w) : Numbered(w[j]) /\ w[j].s = n
    <3>1. q < n
      OBVIOUS
    <3> QED BY <3>1 DEF Complete
  <2>2. j # 1
    BY <1>3, <2>1
  <2>3. j - 1 \in 1 .. Len(v) /\ w[j] = v[j - 1]
    BY <1>2, <2>2
  <2> QED BY <2>1, <2>3
<1>6. Ordered(v, q + 1, l)
  <2>1. \A i \in 1 .. Len(v) : Numbered(v[i]) => w[1].s < v[i].s
    BY <1>1 DEF Ordered
  <2>2. \A i \in 1 .. Len(v) : Numbered(v[i]) =>
          v[i].s > q + 1 /\ v[i].s <= l /\ (v[i].op = "ready" <=> v[i].s = 1)
    BY <1>1, <1>3, <2>1 DEF Ordered
  <2>3. \A i, j \in 1 .. Len(v) :
          i < j /\ Numbered(v[i]) /\ Numbered(v[j]) => v[i].s < v[j].s
    <3> SUFFICES ASSUME NEW i \in 1 .. Len(v), NEW j \in 1 .. Len(v),
                        i < j, Numbered(v[i]), Numbered(v[j])
                 PROVE  v[i].s < v[j].s
      OBVIOUS
    <3>1. i + 1 \in 1 .. Len(w) /\ v[i] = w[i + 1]
      BY <1>1
    <3>2. j + 1 \in 1 .. Len(w) /\ v[j] = w[j + 1] /\ i + 1 < j + 1
      BY <1>1
    <3> QED BY <3>1, <3>2 DEF Ordered
  <2>4. ASSUME NEW i \in 1 .. Len(v), Numbered(v[i]), NEW n \in Nat, q + 1 < n, n <= v[i].s
        PROVE  \E j \in 1 .. i : Numbered(v[j]) /\ v[j].s = n
    <3>1. i + 1 \in 1 .. Len(w) /\ Numbered(w[i + 1]) /\ q < n /\ n <= w[i + 1].s
      BY <1>1, <2>4
    <3>2. PICK j \in 1 .. i + 1 : Numbered(w[j]) /\ w[j].s = n
      BY <3>1 DEF Ordered
    <3>3. j # 1 /\ j \in 1 .. Len(w)
      BY <1>3, <2>4, <3>1, <3>2
    <3>4. j - 1 \in 1 .. i /\ w[j] = v[j - 1]
      BY <1>2, <3>2, <3>3
    <3> QED BY <3>2, <3>4
  <2> QED BY <2>2, <2>3, <2>4 DEF Ordered
<1> QED BY <1>1, <1>3, <1>4, <1>5, <1>6 DEF v

\* The rest of a session, sent to a client that resumes it.
LEMMA Replayed ==
  ASSUME NEW w \in Seq(Frames), NEW q \in Nat \ {0}, NEW l \in Nat, q <= l, Unnumbered(w)
  PROVE  LET v == w \o [i \in 1 .. l - q |-> Frame("event", q + i)]
         IN  v \in Seq(Frames) /\ Ordered(v, q, l) /\ Complete(v, q, l)
<1> DEFINE r == [i \in 1 .. l - q |-> Frame("event", q + i)]
           v == w \o r
<1>1. r \in Seq(Frames) /\ Len(r) = l - q
  <2>1. \A i \in 1 .. l - q : Frame("event", q + i) \in Frames
    <3> TAKE i \in 1 .. l - q
    <3>1. q + i \in Nat
      OBVIOUS
    <3> QED BY <3>1 DEF Frame, Frames, Ops
  <2> QED BY <2>1
<1>2. \A i \in 1 .. l - q : Numbered(r[i]) /\ r[i].s = q + i /\ r[i].op = "event"
  BY DEF Frame, Numbered
<1> HIDE DEF r
<1>3. /\ v \in Seq(Frames) /\ Len(v) = Len(w) + (l - q) /\ Len(w) \in Nat
      /\ \A i \in 1 .. Len(w) : v[i] = w[i]
      /\ \A i \in 1 .. l - q : v[Len(w) + i] = r[i]
  BY <1>1
<1> HIDE DEF v
<1>4. \A j \in 1 .. Len(v) :
        Numbered(v[j]) => /\ j - Len(w) \in 1 .. l - q
                          /\ v[j].s = q + (j - Len(w)) /\ v[j].op = "event"
  <2> SUFFICES ASSUME NEW j \in 1 .. Len(v), Numbered(v[j])
               PROVE  /\ j - Len(w) \in 1 .. l - q
                      /\ v[j].s = q + (j - Len(w)) /\ v[j].op = "event"
    OBVIOUS
  <2>1. j \notin 1 .. Len(w)
    BY <1>3 DEF Unnumbered
  <2>2. j - Len(w) \in 1 .. l - q /\ v[j] = r[j - Len(w)]
    BY <1>3, <2>1
  <2> QED BY <1>2, <2>2
<1>5. \A n \in Nat : q < n /\ n <= l =>
        /\ Len(w) + (n - q) \in 1 .. Len(v)
        /\ Numbered(v[Len(w) + (n - q)]) /\ v[Len(w) + (n - q)].s = n
  <2> SUFFICES ASSUME NEW n \in Nat, q < n, n <= l
               PROVE  /\ Len(w) + (n - q) \in 1 .. Len(v)
                      /\ Numbered(v[Len(w) + (n - q)]) /\ v[Len(w) + (n - q)].s = n
    OBVIOUS
  <2>1. n - q \in 1 .. l - q /\ q + (n - q) = n
    OBVIOUS
  <2>2. v[Len(w) + (n - q)] = r[n - q] /\ Len(w) + (n - q) \in 1 .. Len(v)
    BY <1>3, <2>1
  <2>3. Numbered(r[n - q]) /\ r[n - q].s = q + (n - q)
    BY <1>2, <2>1
  <2> QED BY <2>1, <2>2, <2>3
<1>6. Complete(v, q, l)
  BY <1>5 DEF Complete
<1>7. Ordered(v, q, l)
  <2>1. ASSUME NEW i \in 1 .. Len(v), Numbered(v[i]), NEW n \in Nat, q < n, n <= v[i].s
        PROVE  \E j \in 1 .. i : Numbered(v[j]) /\ v[j].s = n
    <3>1. n <= l /\ Len(w) + (n - q) \in 1 .. i
      BY <1>3, <1>4, <2>1
    <3> QED BY <1>5, <2>1, <3>1
  <2>2. ASSUME NEW i \in 1 .. Len(v), Numbered(v[i])
        PROVE  v[i].s > q /\ v[i].s <= l /\ (v[i].op = "ready" <=> v[i].s = 1)
    <3>1. PICK k \in 1 .. l - q : v[i].s = q + k /\ v[i].op = "event"
      BY <1>4, <2>2
    <3> QED BY <3>1
  <2>3. ASSUME NEW i \in 1 .. Len(v), NEW j \in 1 .. Len(v),
               i < j, Numbered(v[i]), Numbered(v[j])
        PROVE  v[i].s < v[j].s
    <3>1. v[i].s = q + (i - Len(w)) /\ v[j].s = q + (j - Len(w))
      BY <1>4, <2>3
    <3>2. i \in Int /\ j \in Int /\ Len(w) \in Int
      BY <1>3
    <3> QED BY <2>3, <3>1, <3>2
  <2> QED BY <2>1, <2>2, <2>3 DEF Ordered
<1> QED BY <1>3, <1>6, <1>7 DEF v, r

LEMMA Nothing ==
  ASSUME NEW q \in Nat, NEW l \in Nat
  PROVE  /\ <<>> \in Seq(Frames) /\ Ordered(<<>>, q, l) /\ Unnumbered(<<>>)
         /\ \A w \in Seq(Frames) : Unnumbered(w) => Ordered(w, q, l)
BY DEF Ordered, Unnumbered

LEMMA OneMore ==
  ASSUME NEW n \in Nat
  PROVE  Append(UpTo(n), n + 1) = UpTo(n + 1) /\ UpTo(0) = <<>> /\ UpTo(1) = <<1>>
<1>1. UpTo(n) \in Seq(Nat) /\ Len(UpTo(n)) = n
  BY DEF UpTo
<1>2. UpTo(n + 1) \in Seq(Nat) /\ Len(UpTo(n + 1)) = n + 1
  BY DEF UpTo
<1>3. Append(UpTo(n), n + 1) \in Seq(Nat) /\ Len(Append(UpTo(n), n + 1)) = n + 1
  BY <1>1
<1>4. \A i \in 1 .. n + 1 : Append(UpTo(n), n + 1)[i] = UpTo(n + 1)[i]
  BY <1>1 DEF UpTo
<1>5. Append(UpTo(n), n + 1) = UpTo(n + 1)
  BY <1>2, <1>3, <1>4
<1>6. UpTo(0) = <<>> /\ UpTo(1) = <<1>>
  BY DEF UpTo
<1> QED BY <1>5, <1>6
-----------------------------------------------------------------------------
(* The steps. *)

LEMMA GatewayStarts == GatewayInit => GatewayInv
<1> SUFFICES ASSUME GatewayInit PROVE GatewayInv
  OBVIOUS
<1> USE DEF GatewayInit
<1>1. GatewayTypes
  BY Nothing DEF GatewayTypes
<1>2. Session /\ OnWire
  BY Nothing DEF Session, OnWire
<1>3. handled = UpTo(seq)
  BY OneMore
<1> QED BY <1>1, <1>2, <1>3 DEF GatewayInv

\* The connection ends, and the session with it or not.
LEMMA Dropped ==
  ASSUME GatewayInv, UNCHANGED <<latest, valid, log>>, wire' = <<>>,
         phase' \in {"backoff", "fatal"}, UNCHANGED clientVars \/ ForgetSession
  PROVE  GatewayInv'
<1> USE DEF GatewayInv, clientVars, ForgetSession
<1>1. GatewayTypes'
  BY Nothing DEF GatewayTypes
<1>2. Session'
  BY DEF Session, GatewayTypes
<1>3. OnWire'
  BY <1>1, Nothing DEF OnWire, GatewayTypes
<1>4. handled' = UpTo(seq')
  BY OneMore DEF GatewayTypes
<1> QED BY <1>1, <1>2, <1>3, <1>4

\* A frame without a number is added to the wire.
LEMMA Added ==
  ASSUME GatewayInv, UNCHANGED <<phase, clientVars, latest, log>>, Open,
         valid' \in BOOLEAN, valid' => valid,
         NEW op \in {"ack", "reconnect", "resumable", "invalid", "close"},
         wire' = Append(wire, Frame(op, 0))
  PROVE  GatewayInv'
<1> USE DEF GatewayInv, clientVars
<1>1. Frame(op, 0) \in Frames /\ ~Numbered(Frame(op, 0))
  BY DEF Frame, Frames, Ops, Numbered
<1>2. GatewayTypes'
  BY <1>1, AppendOther DEF GatewayTypes
<1>3. Session'
  BY DEF Session
<1>4. OnWire'
  BY <1>1, AppendOther DEF OnWire, GatewayTypes, Open
<1> QED BY <1>2, <1>3, <1>4

\* A frame without a number is taken off it.
LEMMA Taken ==
  ASSUME GatewayInv, UNCHANGED <<phase, clientVars, latest, valid, log>>, phase = "reading",
         wire # <<>>, ~Numbered(Head(wire)), wire' = Tail(wire)
  PROVE  GatewayInv'
<1> USE DEF GatewayInv, clientVars
<1>1. GatewayTypes'
  BY TailOther DEF GatewayTypes, OnWire
<1>2. Session'
  BY DEF Session
<1>3. OnWire'
  BY TailOther DEF OnWire, GatewayTypes
<1> QED BY <1>1, <1>2, <1>3

\* A step that changes nothing of the session, the wire or Discord's end.
LEMMA Apart ==
  ASSUME GatewayInv, UNCHANGED <<clientVars, wire, latest, log>>,
         valid' \in BOOLEAN, valid' => valid,
         \/ UNCHANGED phase
         \/ phase \in {"backoff", "fatal"} /\ phase' \in {"sent", "throttle", "backoff"}
         \/ phase = "throttle" /\ phase' = "sent"
  PROVE  GatewayInv'
<1> USE DEF GatewayInv, clientVars
<1>1. GatewayTypes'
  BY DEF GatewayTypes
<1>2. Session'
  BY DEF Session
<1>3. OnWire'
  BY Nothing DEF OnWire
<1> QED BY <1>1, <1>2, <1>3

LEMMA ServerEventKeeps == ASSUME GatewayInv, ServerEvent PROVE GatewayInv'
<1> USE DEF GatewayInv, ServerEvent, clientVars
<1>1. CASE phase = "reading"
  <2> DEFINE f == Frame("event", log + 1)
  <2>1. log \in Nat /\ seq \in Nat /\ log # 0 /\ seq <= log
    BY DEF GatewayTypes, Session
  <2>2. /\ f \in Frames /\ Numbered(f) /\ f.s = log + 1
        /\ f.op = "ready" <=> f.s = 1
    BY <2>1 DEF Frame, Frames, Ops, Numbered
  <2>3. wire' = Append(wire, f)
    BY <1>1
  <2> HIDE DEF f
  <2>4. /\ wire' \in Seq(Frames)
        /\ Ordered(wire', seq, log + 1) /\ Complete(wire', seq, log + 1)
    BY <1>1, <2>1, <2>2, <2>3, AppendNext DEF GatewayTypes, OnWire
  <2> QED BY <1>1, <2>1, <2>4 DEF GatewayTypes, Session, OnWire
<1>2. CASE phase # "reading"
  <2>1. UNCHANGED wire /\ log \in Nat /\ log' = log + 1
    BY <1>2 DEF GatewayTypes
  <2>2. Unnumbered(wire) /\ wire \in Seq(Frames)
    BY <1>2, Nothing DEF OnWire, GatewayTypes
  <2>3. Ordered(wire, seq, log + 1)
    BY <2>1, <2>2, Nothing DEF GatewayTypes
  <2>4. Session'
    BY <1>2, <2>1 DEF Session, GatewayTypes
  <2> QED BY <1>2, <2>1, <2>3, <2>4 DEF GatewayTypes, OnWire
<1> QED BY <1>1, <1>2

LEMMA ServerAnswersKeeps == ASSUME GatewayInv, ServerAnswers PROVE GatewayInv'
<1> USE DEF GatewayInv, ServerAnswers, clientVars
<1>1. /\ phase = "sent" /\ phase' = "reading" /\ UNCHANGED <<known, seq, handled>>
      /\ Unnumbered(wire) /\ wire \in Seq(Frames)
      /\ seq \in Nat /\ log \in Nat /\ latest \in Nat /\ seq <= log
  BY DEF OnWire, GatewayTypes, Session
<1>2. CASE /\ known # 0 /\ known = latest /\ valid
           /\ wire' = wire \o [i \in 1 .. log - seq |-> Frame("event", seq + i)]
                         \o <<Frame("resumed", 0)>>
           /\ UNCHANGED serverVars
  <2> DEFINE v == wire \o [i \in 1 .. log - seq |-> Frame("event", seq + i)]
             f == Frame("resumed", 0)
  <2>1. seq # 0
    BY <1>2 DEF Session
  <2>2. v \in Seq(Frames) /\ Ordered(v, seq, log) /\ Complete(v, seq, log)
    BY <1>1, <2>1, Replayed
  <2>3. f \in Frames /\ ~Numbered(f)
    BY DEF Frame, Frames, Ops, Numbered
  <2> HIDE DEF v
  <2>4. wire' = Append(v, f)
    <3>1. wire' = v \o <<f>>
      BY <1>2 DEF v
    <3> QED BY <2>2, <2>3, <3>1
  <2> HIDE DEF f
  <2>5. wire' \in Seq(Frames) /\ Ordered(wire', seq, log) /\ Complete(wire', seq, log)
    BY <1>1, <2>2, <2>3, <2>4, AppendOther
  <2> QED BY <1>1, <1>2, <2>5 DEF GatewayTypes, Session, OnWire, serverVars
<1>3. CASE /\ known # 0 /\ ~(known = latest /\ valid)
           /\ wire' = Append(wire, Frame("invalid", 0))
           /\ UNCHANGED serverVars
  <2>1. Frame("invalid", 0) \in Frames /\ ~Numbered(Frame("invalid", 0))
    BY DEF Frame, Frames, Ops, Numbered
  <2>2. wire' \in Seq(Frames) /\ Ordered(wire', seq, log)
    BY <1>1, <1>3, <2>1, AppendOther DEF OnWire
  <2>3. ~valid' /\ latest' # 0 /\ UNCHANGED <<latest, valid, log>>
    BY <1>3 DEF Session, serverVars
  <2> QED BY <1>1, <2>2, <2>3 DEF GatewayTypes, Session, OnWire
<1>4. CASE /\ known = 0
           /\ latest' = latest + 1 /\ valid' = TRUE /\ log' = 1
           /\ wire' = Append(wire, Frame("ready", 1))
  <2>1. seq = 0
    BY <1>4 DEF Session
  <2>2. Ordered(wire, 0, 0) /\ Complete(wire, 0, 0)
    BY <1>1, Nothing DEF Complete
  <2>3. /\ Frame("ready", 1) \in Frames /\ Numbered(Frame("ready", 1))
        /\ Frame("ready", 1).s = 0 + 1
        /\ Frame("ready", 1).op = "ready" <=> Frame("ready", 1).s = 1
    BY DEF Frame, Frames, Ops, Numbered
  <2>4. wire' \in Seq(Frames) /\ Ordered(wire', 0, 0 + 1) /\ Complete(wire', 0, 0 + 1)
    BY <1>1, <1>4, <2>2, <2>3, AppendNext
  <2> QED BY <1>1, <1>4, <2>1, <2>4 DEF GatewayTypes, Session, OnWire
<1> QED BY <1>2, <1>3, <1>4

LEMMA ReadKeeps == ASSUME GatewayInv, Read PROVE GatewayInv'
<1> USE DEF GatewayInv
<1>0. /\ phase = "reading" /\ wire # <<>>
      /\ seq \in Nat /\ log \in Nat /\ wire \in Seq(Frames) /\ Ordered(wire, seq, log)
  BY DEF GatewayTypes, OnWire, Read, Receive, ReceiveReady, ReceiveResumed, ReceiveAck,
         ReceiveEnd
<1>1. CASE Receive \/ ReceiveReady
  <2>1. Numbered(Head(wire)) /\ wire' = Tail(wire) /\ seq' = Head(wire).s
    BY <1>1 DEF Receive, ReceiveReady, Numbered
  <2>2. /\ seq' = seq + 1 /\ seq + 1 <= log /\ (Head(wire).op = "ready" <=> seq = 0)
        /\ wire' \in Seq(Frames) /\ Ordered(wire', seq + 1, log)
        /\ Complete(wire, seq, log) => Complete(wire', seq + 1, log)
    BY <1>0, <2>1, TailNumbered
  <2>3. UNCHANGED <<phase, latest, valid, log>>
    BY <1>1 DEF Receive, ReceiveReady, serverVars
  <2>4. known' = latest /\ handled' = UpTo(seq + 1)
    <3>1. CASE Receive
      <4>1. seq # 0
        BY <2>2, <3>1 DEF Receive
      <4>2. handled' = Append(handled, seq + 1)
        BY <2>1, <2>2, <3>1 DEF Receive
      <4> QED BY <1>0, <3>1, <4>1, <4>2, OneMore DEF Receive, Session
    <3>2. CASE ReceiveReady
      <4>1. seq = 0 /\ Head(wire).s = 1
        BY <2>1, <2>2, <3>2 DEF ReceiveReady
      <4>2. handled' = <<1>> /\ known' = latest
        BY <3>2, <4>1 DEF ReceiveReady
      <4> QED BY <4>1, <4>2, OneMore
    <3> QED BY <1>1, <3>1, <3>2
  <2>5. latest # 0
    BY <1>0 DEF Session
  <2>6. GatewayTypes'
    BY <1>0, <2>2, <2>3, <2>4 DEF GatewayTypes
  <2>7. Session'
    BY <1>0, <2>2, <2>3, <2>4, <2>5 DEF Session
  <2>8. OnWire'
    BY <1>0, <2>2, <2>3 DEF OnWire
  <2> QED BY <2>2, <2>4, <2>6, <2>7, <2>8
<1>2. CASE ReceiveResumed \/ ReceiveAck
  BY <1>2, Taken DEF ReceiveResumed, ReceiveAck, Numbered, serverVars, clientVars
<1>3. CASE ReceiveEnd
  BY <1>3, Dropped DEF ReceiveEnd, Drop, serverVars
<1> QED BY <1>1, <1>2, <1>3 DEF Read

LEMMA GatewayKeeps == GatewayInv /\ [GatewayNext]_gatewayVars => GatewayInv'
<1> SUFFICES ASSUME GatewayInv, [GatewayNext]_gatewayVars PROVE GatewayInv'
  OBVIOUS
<1> USE DEF serverVars
<1>1. CASE ServerForgets \/ ServerMute \/ Connect \/ Identify \/ FatalCleared \/ Tick
           \/ UNCHANGED gatewayVars
  <2>1. UNCHANGED <<clientVars, wire, latest, log>> /\ (valid' = FALSE \/ UNCHANGED valid)
    BY <1>1 DEF ServerForgets, ServerMute, Connect, Identify, FatalCleared, Tick, gatewayVars,
                clientVars
  <2>2. \/ UNCHANGED phase
        \/ phase \in {"backoff", "fatal"} /\ phase' \in {"sent", "throttle", "backoff"}
        \/ phase = "throttle" /\ phase' = "sent"
    BY <1>1 DEF ServerForgets, ServerMute, Connect, Identify, FatalCleared, Tick, gatewayVars
  <2>3. valid \in BOOLEAN
    BY DEF GatewayInv, GatewayTypes
  <2>4. valid' \in BOOLEAN /\ (valid' => valid)
    <3>1. CASE valid' = FALSE
      BY ONLY <3>1
    <3>2. CASE valid' = valid
      BY ONLY <2>3, <3>2
    <3> QED BY <2>1, <3>1, <3>2
  <2> QED BY <2>1, <2>2, <2>4, Apart
<1>2. ASSUME NEW op \in {"reconnect", "resumable", "invalid", "close"}, ServerSays(op)
      PROVE  GatewayInv'
  <2>1. /\ wire' = Append(wire, Frame(op, 0)) /\ Open
        /\ valid' \in BOOLEAN /\ (valid' => valid)
        /\ UNCHANGED <<phase, clientVars, latest, log>>
    BY <1>2 DEF ServerSays, Open, GatewayInv, GatewayTypes
  <2> QED BY <2>1, Added
<1>3. CASE Beat
  <2>1. /\ UNCHANGED <<phase, clientVars, latest, valid, log>> /\ Open
        /\ wire' = Append(wire, Frame("ack", 0)) \/ UNCHANGED wire
    BY <1>3 DEF Beat
  <2>2. valid' \in BOOLEAN /\ (valid' => valid)
    BY <2>1 DEF GatewayInv, GatewayTypes
  <2> QED BY <2>1, <2>2, Added, Apart
<1>4. CASE ConnectionLost \/ ReaderStops
  BY <1>4, Dropped DEF ConnectionLost, ReaderStops, Drop
<1> QED BY <1>1, <1>2, <1>3, <1>4, ServerEventKeeps, ServerAnswersKeeps, ReadKeeps
        DEF GatewayNext

\* Through lost connections, resumes and forgotten sessions the handlers get each
\* event of the session once and in order (gateway.go:415).
THEOREM NoEventMissed == GatewaySpec => []NothingMissed
<1>1. ASSUME GatewayInv PROVE NothingMissed
  <2>1. handled = UpTo(seq) /\ seq \in Nat
    BY <1>1 DEF GatewayInv, GatewayTypes
  <2>2. DOMAIN handled = 1 .. seq
    BY <2>1 DEF UpTo
  <2> QED BY <2>1, <2>2 DEF UpTo, NothingMissed
<1> QED BY <1>1, GatewayStarts, GatewayKeeps, PTL DEF GatewaySpec
-----------------------------------------------------------------------------
(***************************************************************************)
(* The identify throttle.  It notes the time before it waits, so a connect *)
(* counts from the last one that noted it, not from the last identify.     *)
(***************************************************************************)

PacedTypes ==
  /\ sinceMark \in 0 .. Window /\ wait \in 0 .. Window
  /\ recent \in Seq(0 .. Window - 1)

Sorted == \A i, j \in 1 .. Len(recent) : i < j => recent[i] >= recent[j]

\* Only the latest identify can be younger than the mark; while the client waits,
\* none is, and all but the latest will have left the window when the wait is over.
Marked ==
  IF phase = "throttle"
  THEN /\ \A i \in 1 .. Len(recent) : recent[i] >= sinceMark
       /\ \A i \in 1 .. Len(recent) : i < Len(recent) => recent[i] + wait >= Window
  ELSE \A i \in 1 .. Len(recent) : i < Len(recent) => recent[i] >= sinceMark

PacedInv == PacedTypes /\ Sorted /\ Marked /\ IdentifyPaced

LEMMA PacedInit == GatewayInit => PacedInv
<1> SUFFICES ASSUME GatewayInit
             PROVE  PacedInv
  OBVIOUS
<1>1. PacedTypes
  BY GatewayAssumption DEF GatewayInit, PacedTypes
<1>2. recent = <<>> /\ Len(recent) = 0
  BY DEF GatewayInit
<1> QED
  BY <1>1, <1>2 DEF PacedInv, Sorted, Marked, IdentifyPaced

\* A step that ends no wait and starts none.
LEMMA PacedStutter ==
  ASSUME PacedInv, UNCHANGED <<sinceMark, recent>>,
         wait' = wait \/ (wait' = 0 /\ phase' # "throttle"),
         phase' = "throttle" => phase = "throttle"
  PROVE  PacedInv'
<1> USE DEF PacedInv
<1>1. PacedTypes'
  BY GatewayAssumption DEF PacedTypes
<1>2. Sorted' /\ IdentifyPaced'
  BY DEF Sorted, IdentifyPaced
<1>3. Marked'
  <2>1. CASE phase' = "throttle"
    BY <2>1 DEF Marked
  <2>2. CASE phase' # "throttle"
    BY <2>2 DEF Marked
  <2> QED
    BY <2>1, <2>2
<1> QED
  BY <1>1, <1>2, <1>3

LEMMA PacedConnect == PacedInv /\ Connect => PacedInv'
<1> SUFFICES ASSUME PacedInv, Connect
             PROVE  PacedInv'
  OBVIOUS
<1> USE DEF PacedInv
<1>1. CASE known # 0
  BY <1>1, PacedStutter DEF Connect
<1>2. CASE known = 0
  <2>1. /\ phase = "backoff" /\ phase' = "throttle"
        /\ wait' = Window - sinceMark /\ sinceMark' = 0 /\ recent' = recent
    BY <1>2 DEF Connect
  <2>2. PacedTypes'
    BY <2>1, GatewayAssumption DEF PacedTypes
  <2>3. Sorted' /\ IdentifyPaced'
    BY <2>1 DEF Sorted, IdentifyPaced
  <2>4. \A i \in 1 .. Len(recent) : recent[i] \in 0 .. Window - 1
    <3>1. recent \in Seq(0 .. Window - 1)
      BY DEF PacedTypes
    <3> QED
      BY <3>1, GatewayAssumption
  <2>5. \A i \in 1 .. Len(recent) : i < Len(recent) => recent[i] >= sinceMark
    BY <2>1 DEF Marked
  <2>6. Marked'
    BY <2>1, <2>4, <2>5, GatewayAssumption DEF Marked, PacedTypes
  <2> QED
    BY <2>2, <2>3, <2>6
<1> QED
  BY <1>1, <1>2

\* The wait is over, and so at most one identify is still in the window.
LEMMA PacedIdentify == PacedInv /\ Identify => PacedInv'
<1> SUFFICES ASSUME PacedInv, Identify
             PROVE  PacedInv'
  OBVIOUS
<1> USE DEF PacedInv
<1>1. /\ phase = "throttle" /\ wait = 0 /\ phase' = "sent"
      /\ recent' = Append(recent, 0) /\ UNCHANGED <<sinceMark, wait>>
  BY DEF Identify
<1>a. \A i \in 1 .. Len(recent) : recent[i] \in 0 .. Window - 1
  <2>1. recent \in Seq(0 .. Window - 1)
    BY DEF PacedTypes
  <2> QED
    BY <2>1, GatewayAssumption
<1>b. \A i \in 1 .. Len(recent) : recent[i] >= sinceMark
  BY <1>1 DEF Marked
<1>2. \A i \in 1 .. Len(recent) : recent[i] \in 0 .. Window - 1 /\ recent[i] >= sinceMark
  BY <1>a, <1>b
<1>3. \A i \in 1 .. Len(recent) : ~(i < Len(recent))
  BY <1>1, <1>2, GatewayAssumption DEF Marked
<1>4. Len(recent) \in Nat /\ Len(recent) <= 1
  <2>1. Len(recent) \in Nat
    BY DEF PacedTypes
  <2> QED
    BY <1>3, <2>1
<1>5. /\ recent' \in Seq(0 .. Window - 1) /\ Len(recent') = Len(recent) + 1
      /\ recent'[Len(recent) + 1] = 0
      /\ \A i \in 1 .. Len(recent) : recent'[i] = recent[i]
  BY <1>1, GatewayAssumption DEF PacedTypes
<1>6. PacedTypes'
  BY <1>1, <1>5 DEF PacedTypes
<1>7. Sorted'
  BY <1>2, <1>4, <1>5 DEF Sorted
<1>8. Marked'
  BY <1>1, <1>2, <1>4, <1>5 DEF Marked
<1>9. IdentifyPaced'
  BY <1>4, <1>5 DEF IdentifyPaced
<1> QED
  BY <1>6, <1>7, <1>8, <1>9

LEMMA PacedTick == PacedInv /\ Tick => PacedInv'
<1> SUFFICES ASSUME PacedInv, Tick
             PROVE  PacedInv'
  OBVIOUS
<1> USE DEF PacedInv
<1>1. PICK k \in 0 .. Len(recent) :
        /\ \A i \in DOMAIN recent : recent[i] + 1 >= Window <=> i <= k
        /\ recent' = [i \in 1 .. Len(recent) - k |-> recent[i + k] + 1]
  BY DEF Tick
<1>2. /\ phase' = phase
      /\ sinceMark' = IF sinceMark < Window THEN sinceMark + 1 ELSE Window
      /\ wait' = IF wait > 0 THEN wait - 1 ELSE 0
  BY DEF Tick
<1> DEFINE n == Len(recent)
           m == n - k
<1>3. /\ n \in Nat /\ m \in Nat /\ m <= n /\ DOMAIN recent = 1 .. n
      /\ \A i \in 1 .. n : recent[i] \in 0 .. Window - 1
      /\ Window \in Nat \ {0}
  BY GatewayAssumption DEF PacedTypes
<1>4. \A i \in 1 .. m :
        /\ i + k \in 1 .. n /\ recent[i + k] + 1 \in 0 .. Window - 1
        /\ recent'[i] = recent[i + k] + 1
  BY <1>1, <1>3
<1>5. recent' \in [1 .. m -> 0 .. Window - 1]
  BY <1>1, <1>4
<1> HIDE DEF n, m
<1>6. recent' \in Seq(0 .. Window - 1) /\ Len(recent') = m
  BY <1>3, <1>5
<1>7. sinceMark' \in 0 .. Window /\ wait' \in 0 .. Window
  BY <1>2, <1>3 DEF PacedTypes
<1>8. PacedTypes'
  BY <1>6, <1>7 DEF PacedTypes
<1>9. ASSUME NEW i \in 1 .. m, NEW j \in 1 .. m, i < j
      PROVE  recent'[i] >= recent'[j]
  <2>1. i + k < j + k
    BY <1>3, <1>9
  <2>2. recent[i + k] >= recent[j + k]
    BY <1>4, <2>1 DEF Sorted, n
  <2> QED
    BY <1>3, <1>4, <2>2
<1>10. Sorted'
  BY <1>6, <1>9 DEF Sorted
<1>11. IdentifyPaced'
  BY <1>3, <1>6 DEF IdentifyPaced, n
<1>12. ASSUME NEW i \in 1 .. m, recent[i + k] >= sinceMark
       PROVE  recent'[i] >= sinceMark'
  BY <1>2, <1>3, <1>4, <1>12 DEF PacedTypes
<1>13. ASSUME NEW i \in 1 .. m, recent[i + k] + wait >= Window
       PROVE  recent'[i] + wait' >= Window
  <2>1. /\ recent[i + k] + 1 \in 0 .. Window - 1 /\ recent[i + k] \in Int
        /\ recent'[i] = recent[i + k] + 1
    BY <1>3, <1>4
  <2>2. wait > 0 /\ wait \in Nat
    BY <1>3, <1>13, <2>1 DEF PacedTypes
  <2>3. wait' = wait - 1
    BY <1>2, <2>2
  <2> QED
    BY <1>3, <1>13, <2>1, <2>2, <2>3
<1>14. \A i \in 1 .. m : i < m => i + k < n
  BY <1>3 DEF m
<1>15. Marked'
  <2>1. CASE phase = "throttle"
    <3>1. \A i \in 1 .. m : recent[i + k] >= sinceMark
      BY <1>4, <2>1 DEF Marked, n
    <3>2. \A i \in 1 .. m : i < m => recent[i + k] + wait >= Window
      BY <1>4, <1>14, <2>1 DEF Marked, n
    <3> QED
      BY <1>2, <1>6, <1>12, <1>13, <2>1, <3>1, <3>2 DEF Marked
  <2>2. CASE phase # "throttle"
    <3>1. \A i \in 1 .. m : i < m => recent[i + k] >= sinceMark
      BY <1>4, <1>14, <2>2 DEF Marked, n
    <3> QED
      BY <1>2, <1>6, <1>12, <2>2, <3>1 DEF Marked
  <2> QED
    BY <2>1, <2>2
<1> QED
  BY <1>8, <1>10, <1>11, <1>15

LEMMA PacedStep == PacedInv /\ [GatewayNext]_gatewayVars => PacedInv'
<1> SUFFICES ASSUME PacedInv, [GatewayNext]_gatewayVars
             PROVE  PacedInv'
  OBVIOUS
<1>1. CASE ServerEvent \/ ServerForgets \/ ServerMute
           \/ \E op \in {"reconnect", "resumable", "invalid", "close"} : ServerSays(op)
  BY <1>1, PacedStutter
     DEF ServerEvent, ServerForgets, ServerMute, ServerSays, timeVars
<1>2. CASE ServerAnswers
  BY <1>2, PacedStutter DEF ServerAnswers, timeVars
<1>3. CASE Connect
  BY <1>3, PacedConnect
<1>4. CASE Identify
  BY <1>4, PacedIdentify
<1>5. CASE ConnectionLost
  BY <1>5, PacedStutter DEF ConnectionLost, Drop, Open, timeVars
<1>6. CASE FatalCleared
  BY <1>6, PacedStutter DEF FatalCleared, timeVars
<1>7. CASE Tick
  BY <1>7, PacedTick
<1>8. CASE Beat \/ ReaderStops
  BY <1>8, PacedStutter DEF Beat, ReaderStops, Drop, timeVars
<1>9. CASE Receive \/ ReceiveReady \/ ReceiveResumed \/ ReceiveAck
  BY <1>9, PacedStutter DEF Receive, ReceiveReady, ReceiveResumed, ReceiveAck, timeVars
<1>10. CASE ReceiveEnd
  BY <1>10, PacedStutter DEF ReceiveEnd, Drop, timeVars
<1>11. CASE UNCHANGED gatewayVars
  BY <1>11, PacedStutter DEF gatewayVars, timeVars
<1> QED
  BY <1>1, <1>2, <1>3, <1>4, <1>5, <1>6, <1>7, <1>8, <1>9, <1>10, <1>11
     DEF GatewayNext, Read

\* The throttle lets two identifies come close, as it notes the time before it
\* waits, but never three, for any window and any number of lost connections.
THEOREM NeverThreeIdentifies == GatewaySpec => []IdentifyPaced
<1>1. PacedInv => IdentifyPaced
  BY DEF PacedInv
<1> QED
  BY <1>1, PacedInit, PacedStep, PTL DEF GatewaySpec
=============================================================================

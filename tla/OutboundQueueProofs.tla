------------------------- MODULE OutboundQueueProofs -------------------------
(***************************************************************************)
(* Proofs about OutboundQueue, for every set of requests, every set of     *)
(* frame sizes and every limit: the bytes are accounted for, requests are  *)
(* answered once, and FATAL comes last.                                    *)
(*                                                                         *)
(* The sums over a queue and the loop of evictStreamsLocked are recursive  *)
(* functions; what they compute is proved by induction over the positions  *)
(* of the queue, for which the first two sections lay the ground.          *)
(***************************************************************************)
EXTENDS OutboundQueue, FiniteSetTheorems, TLAPS

----------------------------------------------------------------------------
\* Induction and recursion over the positions of a queue

\* A set of numbers that has zero and the successor of each of its members has
\* them all: the numbers up to n that it lacks could be mapped, each to its
\* predecessor, into themselves without n.
LEMMA SetInduction ==
    ASSUME NEW S, 0 \in S, \A n \in Nat : n \in S => n + 1 \in S
    PROVE  Nat \subseteq S
  <1> SUFFICES ASSUME NEW n \in Nat, n \notin S PROVE FALSE
    OBVIOUS
  <1> DEFINE T == {k \in 0 .. n : k \notin S}
             f == [k \in T |-> k - 1]
  <1>1. IsFiniteSet(T) /\ n \in T
    <2>1. IsFiniteSet(0 .. n) /\ T \in SUBSET (0 .. n)
      BY FS_Interval
    <2>2. IsFiniteSet(T)
      <3> HIDE DEF T
      <3> QED BY <2>1, FS_Subset
    <2> QED BY <2>2
  <1>2. /\ IsFiniteSet(T \ {n}) /\ Cardinality(T \ {n}) = Cardinality(T) - 1
        /\ Cardinality(T) \in Nat
    BY <1>1, FS_RemoveElement, FS_CardinalityType
  <1>3. \A k \in T : k - 1 \in T \ {n}
    <2> SUFFICES ASSUME NEW k \in T PROVE k - 1 \in T \ {n}
      OBVIOUS
    <2>1. k \in Nat /\ k # 0 /\ k <= n
      OBVIOUS
    <2>2. k - 1 \in Nat /\ (k - 1) + 1 = k
      BY <2>1
    <2>3. k - 1 \notin S
      BY <2>2
    <2> QED BY <2>1, <2>2, <2>3
  <1>4. f \in [T -> T \ {n}]
    BY <1>3
  <1>5. PICK x \in T, y \in T : x # y /\ f[x] = f[y]
    <2> HIDE DEF f, T
    <2>1. Cardinality(T \ {n}) < Cardinality(T)
      BY <1>2
    <2> QED BY <1>1, <1>2, <1>4, <2>1, FS_PigeonHole
  <1> QED BY <1>5

\* The same up to a number.
LEMMA UpTo ==
    ASSUME NEW n \in Nat, NEW S, 0 \in S, \A i \in 1 .. n : i - 1 \in S => i \in S
    PROVE  0 .. n \subseteq S
  <1> DEFINE T == {k \in Nat : k <= n => k \in S}
  <1>1. 0 \in T
    OBVIOUS
  <1>2. ASSUME NEW k \in Nat, k \in T PROVE k + 1 \in T
    <2>1. CASE k + 1 <= n
      <3>1. k \in S /\ k + 1 \in 1 .. n /\ (k + 1) - 1 = k
        BY <1>2, <2>1
      <3> QED BY <3>1
    <2>2. CASE ~(k + 1 <= n)
      BY <2>2
    <2> QED BY <2>1, <2>2
  <1>3. Nat \subseteq T
    <2> HIDE DEF T
    <2> QED BY <1>1, <1>2, SetInduction
  <1> QED BY <1>3

\* g is what a recursion over the first n positions of a queue computes: start
\* is the value before the first, and step[i] makes the value at i from the one
\* before it.
Runs(n, start, step, g) == g[0] = start /\ \A i \in 1 .. n : g[i] = step[i][g[i - 1]]

\* Such a recursion has a result.
LEMMA RecursionExists ==
    ASSUME NEW n \in Nat, NEW V, NEW start \in V, NEW step \in [1 .. n -> [V -> V]]
    PROVE  \E g \in [0 .. n -> V] : Runs(n, start, step, g)
  <1> DEFINE S == {k \in 0 .. n : \E g \in [0 .. k -> V] : Runs(k, start, step, g)}
  <1>1. 0 \in S
    <2> DEFINE g == [i \in 0 .. 0 |-> start]
    <2>1. g \in [0 .. 0 -> V] /\ Runs(0, start, step, g)
      BY DEF Runs
    <2> HIDE DEF g
    <2>2. \E x \in [0 .. 0 -> V] : Runs(0, start, step, x)
      BY <2>1
    <2> QED BY <2>2
  <1>2. ASSUME NEW k \in 1 .. n, k - 1 \in S PROVE k \in S
    <2>1. PICK g \in [0 .. k - 1 -> V] : Runs(k - 1, start, step, g)
      BY <1>2
    <2> DEFINE h == [i \in 0 .. k |-> IF i = k THEN step[k][g[k - 1]] ELSE g[i]]
    <2>2. step[k] \in [V -> V] /\ g[k - 1] \in V
      OBVIOUS
    <2>3. step[k][g[k - 1]] \in V
      BY <2>2
    <2>4. \A i \in 0 .. k : h[i] \in V
      BY <2>3
    <2>5. h \in [0 .. k -> V]
      BY <2>4
    <2>6. h[0] = start
      BY <2>1 DEF Runs
    <2>7. ASSUME NEW i \in 1 .. k PROVE h[i] = step[i][h[i - 1]]
      <3>1. CASE i = k
        <4>1. h[k] = step[k][g[k - 1]] /\ h[k - 1] = g[k - 1]
          OBVIOUS
        <4> QED BY <3>1, <4>1
      <3>2. CASE i # k
        <4>1. h[i] = g[i] /\ h[i - 1] = g[i - 1] /\ i \in 1 .. k - 1
          BY <3>2
        <4> QED BY <2>1, <4>1 DEF Runs
      <3> QED BY <3>1, <3>2
    <2> HIDE DEF h
    <2>8. Runs(k, start, step, h)
      BY <2>6, <2>7 DEF Runs
    <2>9. \E x \in [0 .. k -> V] : Runs(k, start, step, x)
      BY <2>5, <2>8
    <2> QED BY <2>9
  <1>3. 0 .. n \subseteq S
    <2> HIDE DEF S
    <2> QED BY <1>1, <1>2, UpTo
  <1> QED BY <1>3

----------------------------------------------------------------------------
\* What the frames of a queue weigh

\* A weight of frames: their size, or one for the answer to a request.
Weights == [Message -> Nat]

\* g is the sum over the first frames, for every number of them.
IsSum(g, frames, w) ==
    /\ g \in [0 .. Len(frames) -> Nat] /\ g[0] = 0
    /\ \A i \in 1 .. Len(frames) : g[i] = g[i - 1] + w[frames[i]]

\* The sums over a queue exist.
LEMMA SumExists ==
    ASSUME NEW frames \in Seq(Message), NEW w \in Weights
    PROVE  \E g : IsSum(g, frames, w)
  <1> DEFINE n == Len(frames)
             step == [i \in 1 .. n |-> [v \in Nat |-> v + w[frames[i]]]]
  <1>1. n \in Nat /\ \A i \in 1 .. n : frames[i] \in Message
    OBVIOUS
  <1>2. \A i \in 1 .. n : w[frames[i]] \in Nat
    BY <1>1 DEF Weights
  <1>3. step \in [1 .. n -> [Nat -> Nat]]
    BY <1>2
  <1>4. \E g \in [0 .. n -> Nat] : Runs(n, 0, step, g)
    <2> HIDE DEF step, n
    <2> QED BY <1>1, <1>3, RecursionExists
  <1>5. PICK g \in [0 .. n -> Nat] : Runs(n, 0, step, g)
    BY <1>4
  <1>6. ASSUME NEW i \in 1 .. n PROVE g[i] = g[i - 1] + w[frames[i]]
    <2>1. g[i - 1] \in Nat
      BY <1>1
    <2> QED BY <1>5, <2>1 DEF Runs
  <1> QED BY <1>5, <1>6 DEF IsSum, Runs

\* And only one function is the sums.
LEMMA SumUnique ==
    ASSUME NEW frames \in Seq(Message), NEW w \in Weights, NEW g, NEW h,
           IsSum(g, frames, w), IsSum(h, frames, w)
    PROVE  g = h
  <1> DEFINE n == Len(frames)
             S == {i \in 0 .. n : g[i] = h[i]}
  <1>1. n \in Nat
    OBVIOUS
  <1>2. 0 \in S
    BY <1>1 DEF IsSum
  <1>3. ASSUME NEW i \in 1 .. n, i - 1 \in S PROVE i \in S
    BY <1>3 DEF IsSum
  <1>4. 0 .. n \subseteq S
    <2> HIDE DEF S, n
    <2> QED BY <1>1, <1>2, <1>3, UpTo
  <1>5. \A i \in 0 .. n : g[i] = h[i]
    BY <1>4
  <1>6. g \in [0 .. n -> Nat] /\ h \in [0 .. n -> Nat]
    BY DEF IsSum
  <1>7. g = [i \in 0 .. n |-> g[i]] /\ h = [i \in 0 .. n |-> h[i]]
    BY <1>6
  <1> HIDE DEF n
  <1>8. [i \in 0 .. n |-> g[i]] = [i \in 0 .. n |-> h[i]]
    BY <1>5
  <1> QED BY <1>7, <1>8

\* The recursive function in Weight is the sums.
LEMMA WeightIsSum ==
    ASSUME NEW frames \in Seq(Message), NEW w \in Weights, NEW g, IsSum(g, frames, w)
    PROVE  Weight(frames, w) = g[Len(frames)]
  <1> DEFINE F(x) == [i \in 0 .. Len(frames) |->
                        IF i = 0 THEN 0 ELSE x[i - 1] + w[frames[i]]]
             sum[i \in 0 .. Len(frames)] ==
                        IF i = 0 THEN 0 ELSE sum[i - 1] + w[frames[i]]
  <1>1. g = F(g)
    <2>1. ASSUME NEW i \in 0 .. Len(frames) PROVE g[i] = F(g)[i]
      BY DEF IsSum
    <2> QED BY <2>1 DEF IsSum
  <1>2. sum = F(sum)
    <2>1. sum = CHOOSE x : x = F(x)
      OBVIOUS
    <2> HIDE DEF F, sum
    <2> QED BY <1>1, <2>1
  <1>3. Weight(frames, w) = sum[Len(frames)]
    BY DEF Weight
  <1> HIDE DEF sum
  <1>4. IsSum(sum, frames, w)
    <2> DEFINE n == Len(frames)
               S == {i \in 0 .. n : sum[i] = g[i]}
    <2>1. n \in Nat
      OBVIOUS
    <2>2. sum[0] = 0 /\ \A i \in 1 .. n : sum[i] = sum[i - 1] + w[frames[i]]
      BY <1>2
    <2>3. 0 \in S
      BY <2>1, <2>2 DEF IsSum
    <2>4. ASSUME NEW i \in 1 .. n, i - 1 \in S PROVE i \in S
      BY <2>2, <2>4 DEF IsSum
    <2>5. 0 .. n \subseteq S
      <3> HIDE DEF S, n
      <3> QED BY <2>1, <2>3, <2>4, UpTo
    <2>6. \A i \in 0 .. n : sum[i] \in Nat
      BY <2>5 DEF IsSum
    <2>7. sum \in [0 .. n -> Nat]
      BY <1>2, <2>6
    <2> QED BY <2>2, <2>7 DEF IsSum
  <1>5. sum = g
    BY <1>4, SumUnique
  <1> QED BY <1>3, <1>5

\* An empty queue weighs nothing.
LEMMA WeightOfNone == \A w \in Weights : Weight(<<>>, w) = 0
  <1> SUFFICES ASSUME NEW w \in Weights PROVE Weight(<<>>, w) = 0
    OBVIOUS
  <1> DEFINE none == << >>
  <1>1. none \in Seq(Message) /\ Len(none) = 0
    OBVIOUS
  <1> HIDE DEF none
  <1>2. PICK g : IsSum(g, none, w)
    BY <1>1, SumExists
  <1>3. Weight(none, w) = g[0]
    BY <1>1, <1>2, WeightIsSum
  <1> QED BY <1>2, <1>3 DEF IsSum, none

\* A frame at the end adds its weight.
LEMMA WeightOfAppend ==
    ASSUME NEW frames \in Seq(Message), NEW f \in Message, NEW w \in Weights
    PROVE  Weight(Append(frames, f), w) = Weight(frames, w) + w[f]
  <1> DEFINE more == Append(frames, f)
             n == Len(frames)
  <1>1. /\ n \in Nat /\ more \in Seq(Message) /\ Len(more) = n + 1 /\ more[n + 1] = f
        /\ \A i \in 1 .. n : more[i] = frames[i]
    OBVIOUS
  <1>2. PICK g : IsSum(g, frames, w)
    BY SumExists
  <1> DEFINE h == [i \in 0 .. n + 1 |-> IF i = n + 1 THEN g[n] + w[f] ELSE g[i]]
  <1>3. w[f] \in Nat
    BY DEF Weights
  <1>4. IsSum(h, more, w)
    <2>1. \A i \in 0 .. n + 1 : h[i] \in Nat
      <3>1. \A i \in 0 .. n : g[i] \in Nat
        BY <1>2 DEF IsSum
      <3> QED BY <1>1, <1>3, <3>1
    <2>2. h \in [0 .. Len(more) -> Nat] /\ h[0] = 0
      BY <1>1, <1>2, <2>1 DEF IsSum
    <2>3. ASSUME NEW i \in 1 .. Len(more) PROVE h[i] = h[i - 1] + w[more[i]]
      <3>1. CASE i = n + 1
        <4>1. h[n + 1] = g[n] + w[f] /\ h[n] = g[n] /\ i - 1 = n
          BY <1>1, <3>1
        <4> QED BY <1>1, <3>1, <4>1
      <3>2. CASE i # n + 1
        <4>1. i \in 1 .. n /\ h[i] = g[i] /\ h[i - 1] = g[i - 1]
          BY <1>1, <3>2
        <4> QED BY <1>1, <1>2, <4>1 DEF IsSum
      <3> QED BY <3>1, <3>2
    <2> QED BY <2>2, <2>3 DEF IsSum
  <1>5. h[n + 1] = g[n] + w[f]
    BY <1>1
  <1> HIDE DEF h, more
  <1>6. Weight(more, w) = h[Len(more)]
    BY <1>1, <1>4, WeightIsSum
  <1>7. Weight(frames, w) = g[Len(frames)]
    BY <1>2, WeightIsSum
  <1> QED BY <1>1, <1>5, <1>6, <1>7 DEF more

\* The frame at the head takes its weight with it.
LEMMA WeightOfTail ==
    ASSUME NEW frames \in Seq(Message), frames # <<>>, NEW w \in Weights
    PROVE  Weight(frames, w) = Weight(Tail(frames), w) + w[Head(frames)]
  <1> DEFINE less == Tail(frames)
             n == Len(frames)
  <1>1. /\ n \in Nat \ {0} /\ less \in Seq(Message) /\ Len(less) = n - 1
        /\ Head(frames) = frames[1] /\ frames[1] \in Message
        /\ \A i \in 1 .. n - 1 : less[i] = frames[i + 1]
    OBVIOUS
  <1>2. PICK g : IsSum(g, less, w)
    BY <1>1, SumExists
  <1> DEFINE h == [i \in 0 .. n |-> IF i = 0 THEN 0 ELSE g[i - 1] + w[Head(frames)]]
  <1>3. w[Head(frames)] \in Nat
    BY <1>1 DEF Weights
  <1>4. IsSum(h, frames, w)
    <2>0. \A i \in 0 .. n - 1 : g[i] \in Nat
      BY <1>1, <1>2 DEF IsSum
    <2>1. \A i \in 0 .. n : h[i] \in Nat
      BY <1>1, <1>3, <2>0
    <2>2. h \in [0 .. Len(frames) -> Nat] /\ h[0] = 0
      BY <1>1, <2>1
    <2>3. ASSUME NEW i \in 1 .. Len(frames) PROVE h[i] = h[i - 1] + w[frames[i]]
      <3>1. CASE i = 1
        <4>1. h[1] = g[0] + w[Head(frames)] /\ h[0] = 0 /\ g[0] = 0
          BY <1>1, <1>2 DEF IsSum
        <4> QED BY <1>1, <1>3, <3>1, <4>1
      <3>2. CASE i # 1
        <4>1. i - 1 \in 1 .. n - 1 /\ less[i - 1] = frames[i]
          BY <1>1, <3>2
        <4>2. g[i - 1] = g[(i - 1) - 1] + w[frames[i]]
          BY <1>1, <1>2, <4>1 DEF IsSum
        <4>3. h[i] = g[i - 1] + w[Head(frames)] /\ h[i - 1] = g[(i - 1) - 1] + w[Head(frames)]
          BY <1>1, <4>1
        <4>4. frames[i] \in Message
          BY <1>1
        <4>5. w[frames[i]] \in Nat
          BY <4>4 DEF Weights
        <4>6. g[(i - 1) - 1] \in Nat
          BY <1>1, <2>0, <4>1
        <4> QED BY <1>3, <4>2, <4>3, <4>5, <4>6
      <3> QED BY <3>1, <3>2
    <2> QED BY <2>2, <2>3 DEF IsSum
  <1>5. h[n] = g[n - 1] + w[Head(frames)]
    BY <1>1
  <1> HIDE DEF h, less
  <1>6. Weight(frames, w) = h[Len(frames)]
    BY <1>4, WeightIsSum
  <1>7. Weight(less, w) = g[Len(less)]
    BY <1>1, <1>2, WeightIsSum
  <1> QED BY <1>1, <1>5, <1>6, <1>7 DEF less

\* A queue weighs a natural number.
LEMMA WeightType ==
    ASSUME NEW frames \in Seq(Message), NEW w \in Weights
    PROVE  Weight(frames, w) \in Nat
  <1>1. PICK g : IsSum(g, frames, w)
    BY SumExists
  <1>2. Weight(frames, w) = g[Len(frames)]
    BY <1>1, WeightIsSum
  <1>3. g \in [0 .. Len(frames) -> Nat] /\ Len(frames) \in 0 .. Len(frames)
    BY <1>1 DEF IsSum
  <1> QED BY <1>2, <1>3

\* The two weights the properties speak of.
SizeOf == [m \in Message |-> m.size]
AnswerTo(r) == [m \in Message |-> IF m.request = r THEN 1 ELSE 0]

LEMMA TheWeights == SizeOf \in Weights /\ \A r : AnswerTo(r) \in Weights
  BY SizeAssumption DEF SizeOf, AnswerTo, Weights, Message

----------------------------------------------------------------------------
\* evictStreamsLocked

\* The queue while the loop runs: its bytes may be anything.
Rest == [frames : Seq(Message), bytes : Int, closed : BOOLEAN, last : BOOLEAN, wake : BOOLEAN]

\* One turn of the loop, and the values of all turns.
Turn(a, f, size) ==
    IF Drops(a, f, size) THEN [a EXCEPT !.bytes = @ - f.size]
    ELSE [a EXCEPT !.frames = Append(@, f)]

IsRest(g, o, size) ==
    /\ g \in [0 .. Len(o.frames) -> Rest] /\ g[0] = [o EXCEPT !.frames = <<>>]
    /\ \A i \in 1 .. Len(o.frames) : g[i] = Turn(g[i - 1], o.frames[i], size)

\* What a turn changes.
LEMMA TurnEffect ==
    ASSUME NEW a \in Rest, NEW f \in Message, NEW size \in Nat
    PROVE  LET b == Turn(a, f, size) IN
           /\ b \in Rest /\ b.closed = a.closed /\ b.last = a.last /\ b.wake = a.wake
           /\ \/ f.kind = "stream" /\ b.frames = a.frames /\ b.bytes = a.bytes - f.size
              \/ b.frames = Append(a.frames, f) /\ b.bytes = a.bytes
  <1>1. CASE Drops(a, f, size)
    <2> DEFINE b == [a EXCEPT !.bytes = @ - f.size]
    <2>1. Turn(a, f, size) = b /\ f.kind = "stream"
      BY <1>1 DEF Turn, Drops
    <2>2. f.size \in Int /\ a.bytes - f.size \in Int
      <3>1. f.size \in Int
        BY SizeAssumption DEF Message
      <3>2. a.bytes \in Int
        BY DEF Rest
      <3> QED BY <3>1, <3>2
    <2>3. /\ b.closed = a.closed /\ b.last = a.last /\ b.wake = a.wake
          /\ b.frames = a.frames /\ b.bytes = a.bytes - f.size
      BY DEF Rest
    <2>4. b \in Rest
      BY <2>2, Zenon DEF Rest
    <2> HIDE DEF b
    <2> QED BY <2>1, <2>3, <2>4
  <1>2. CASE ~Drops(a, f, size)
    <2> DEFINE b == [a EXCEPT !.frames = Append(@, f)]
    <2>1. Turn(a, f, size) = b
      BY <1>2 DEF Turn
    <2>2. Append(a.frames, f) \in Seq(Message)
      <3>1. a.frames \in Seq(Message)
        BY DEF Rest
      <3> QED BY <3>1
    <2>3. /\ b.closed = a.closed /\ b.last = a.last /\ b.wake = a.wake
          /\ b.frames = Append(a.frames, f) /\ b.bytes = a.bytes
      BY DEF Rest
    <2>4. b \in Rest
      BY <2>2, Zenon DEF Rest
    <2> HIDE DEF b
    <2> QED BY <2>1, <2>3, <2>4
  <1> QED BY <1>1, <1>2

\* The recursive function in Evict is the loop.
LEMMA EvictRuns ==
    ASSUME NEW o \in Queue, NEW size \in Nat
    PROVE  \E g : IsRest(g, o, size) /\ Evict(o, size) = g[Len(o.frames)]
  <1> DEFINE n == Len(o.frames)
             start == [o EXCEPT !.frames = <<>>]
             step == [i \in 1 .. n |-> [a \in Rest |-> Turn(a, o.frames[i], size)]]
  <1>1. o.frames \in Seq(Message)
    BY DEF Queue
  <1>2. n \in Nat /\ \A i \in 1 .. n : o.frames[i] \in Message
    BY <1>1
  <1>3. start \in Rest
    <2>1. o.bytes \in Int /\ <<>> \in Seq(Message)
      BY DEF Queue
    <2> QED BY <2>1, Zenon DEF Queue, Rest
  <1>4. step \in [1 .. n -> [Rest -> Rest]]
    <2>1. \A i \in 1 .. n : \A a \in Rest : Turn(a, o.frames[i], size) \in Rest
      BY <1>2, TurnEffect
    <2> HIDE DEF n
    <2> QED BY <2>1
  <1>5. \E g \in [0 .. n -> Rest] : Runs(n, start, step, g)
    <2> HIDE DEF n, start, step
    <2> QED BY <1>2, <1>3, <1>4, RecursionExists
  <1>6. PICK g \in [0 .. n -> Rest] : Runs(n, start, step, g)
    BY <1>5
  <1>7. IsRest(g, o, size)
    <2>1. \A i \in 1 .. n : i - 1 \in 0 .. n
      BY <1>2
    <2>2. ASSUME NEW i \in 1 .. n PROVE g[i] = Turn(g[i - 1], o.frames[i], size)
      <3>1. g[i - 1] \in Rest
        BY <2>1
      <3>2. g[i] = step[i][g[i - 1]]
        BY <1>6 DEF Runs
      <3> HIDE DEF n
      <3> QED BY <3>1, <3>2
    <2>3. g[0] = start
      BY <1>6 DEF Runs
    <2> QED BY <2>2, <2>3 DEF IsRest
  <1> DEFINE F(x) == [i \in 0 .. Len(o.frames) |->
                        IF i = 0 THEN [o EXCEPT !.frames = <<>>]
                        ELSE IF Drops(x[i - 1], o.frames[i], size)
                             THEN [x[i - 1] EXCEPT !.bytes = @ - o.frames[i].size]
                             ELSE [x[i - 1] EXCEPT !.frames = Append(@, o.frames[i])]]
             rest[i \in 0 .. Len(o.frames)] ==
                        IF i = 0 THEN [o EXCEPT !.frames = <<>>]
                        ELSE IF Drops(rest[i - 1], o.frames[i], size)
                             THEN [rest[i - 1] EXCEPT !.bytes = @ - o.frames[i].size]
                             ELSE [rest[i - 1] EXCEPT !.frames = Append(@, o.frames[i])]
  <1>f. ASSUME NEW x, NEW i \in 0 .. Len(o.frames)
        PROVE  F(x)[i] = IF i = 0 THEN start ELSE Turn(x[i - 1], o.frames[i], size)
    BY DEF Turn
  <1>8. g = F(g)
    <2>1. ASSUME NEW i \in 0 .. Len(o.frames) PROVE g[i] = F(g)[i]
      <3>1. F(g)[i] = IF i = 0 THEN start ELSE Turn(g[i - 1], o.frames[i], size)
        BY <1>f
      <3> HIDE DEF F
      <3>2. i # 0 => i \in 1 .. Len(o.frames)
        OBVIOUS
      <3> QED BY <1>7, <3>1, <3>2 DEF IsRest
    <2>2. g = [i \in 0 .. Len(o.frames) |-> g[i]]
      BY <1>7 DEF IsRest
    <2>3. F(g) = [i \in 0 .. Len(o.frames) |-> F(g)[i]]
      OBVIOUS
    <2> HIDE DEF F
    <2>4. [i \in 0 .. Len(o.frames) |-> g[i]] = [i \in 0 .. Len(o.frames) |-> F(g)[i]]
      BY <2>1
    <2> QED BY <2>2, <2>3, <2>4
  <1>9. rest = F(rest)
    <2>1. rest = CHOOSE x : x = F(x)
      OBVIOUS
    <2> HIDE DEF F, rest
    <2> QED BY <1>8, <2>1
  <1>10. Evict(o, size) = rest[Len(o.frames)]
    BY DEF Evict
  <1> HIDE DEF rest
  <1>11. 0 .. n \subseteq {i \in 0 .. n : rest[i] = g[i]}
    <2> DEFINE S == {i \in 0 .. n : rest[i] = g[i]}
    <2>1. rest[0] = g[0] /\ \A i \in 1 .. n : rest[i] = Turn(rest[i - 1], o.frames[i], size)
      <3>1. ASSUME NEW i \in 0 .. n
            PROVE  rest[i] = IF i = 0 THEN start ELSE Turn(rest[i - 1], o.frames[i], size)
        <4>1. F(rest)[i] = IF i = 0 THEN start ELSE Turn(rest[i - 1], o.frames[i], size)
          BY <1>f
        <4> HIDE DEF F
        <4> QED BY <1>9, <4>1
      <3>2. 0 \in 0 .. n /\ \A i \in 1 .. n : i \in 0 .. n /\ i # 0
        BY <1>2
      <3>3. g[0] = start
        BY <1>7 DEF IsRest
      <3> HIDE DEF n, start
      <3> QED BY <3>1, <3>2, <3>3
    <2>2. 0 \in S
      BY <1>2, <2>1
    <2>3. ASSUME NEW i \in 1 .. n, i - 1 \in S PROVE i \in S
      <3>1. rest[i - 1] = g[i - 1]
        BY <2>3
      <3>2. rest[i] = g[i]
        BY <1>7, <2>1, <3>1 DEF IsRest
      <3> QED BY <1>2, <3>2
    <2> HIDE DEF S, n
    <2>4. 0 .. n \subseteq S
      BY <1>2, <2>2, <2>3, UpTo
    <2> QED BY <2>4 DEF S
  <1>12. rest[n] = g[n]
    BY <1>2, <1>11
  <1> QED BY <1>7, <1>10, <1>12

\* The frames of a queue, and the frames that goroutines queue: only an answer
\* has a request, and there is one FATAL.
Queued(frames) == {frames[i] : i \in 1 .. Len(frames)}

Fit(m) ==
    /\ m.kind # "answer" => m.request = NoRequest
    /\ m.kind = "answer" => m.request \in Request
    /\ m.kind = "fatal" => m = Fatal

\* A frame at the end is the only new one.
LEMMA QueuedAppend ==
    ASSUME NEW frames \in Seq(Message), NEW f \in Message
    PROVE  Queued(Append(frames, f)) = Queued(frames) \cup {f}
  <1>1. /\ Len(Append(frames, f)) = Len(frames) + 1 /\ Len(frames) \in Nat
        /\ Append(frames, f)[Len(frames) + 1] = f
        /\ \A i \in 1 .. Len(frames) : Append(frames, f)[i] = frames[i]
    OBVIOUS
  <1>2. 1 .. Len(frames) + 1 = (1 .. Len(frames)) \cup {Len(frames) + 1}
    BY <1>1
  <1> QED BY <1>1, <1>2 DEF Queued

\* Nothing new is queued by taking the head.
LEMMA QueuedTail ==
    ASSUME NEW frames \in Seq(Message), frames # <<>>
    PROVE  /\ Queued(Tail(frames)) \subseteq Queued(frames)
           /\ Queued(frames) = Queued(Tail(frames)) \cup {Head(frames)}
  <1>1. /\ Len(frames) \in Nat \ {0} /\ Len(Tail(frames)) = Len(frames) - 1
        /\ Head(frames) = frames[1]
        /\ \A i \in 1 .. Len(frames) - 1 : Tail(frames)[i] = frames[i + 1]
    OBVIOUS
  <1>2. \A i \in 1 .. Len(frames) - 1 : i + 1 \in 1 .. Len(frames)
    BY <1>1
  <1>3. \A i \in 1 .. Len(frames) : i = 1 \/ (i - 1 \in 1 .. Len(frames) - 1 /\ (i - 1) + 1 = i)
    BY <1>1
  <1>4. 1 \in 1 .. Len(frames)
    BY <1>1
  <1>5. \A i \in 1 .. Len(frames) - 1 : Tail(frames)[i] \in Queued(frames)
    BY <1>1, <1>2 DEF Queued
  <1>6. Queued(Tail(frames)) \subseteq Queued(frames)
    BY <1>1, <1>5 DEF Queued
  <1>7. ASSUME NEW i \in 1 .. Len(frames)
        PROVE  frames[i] \in Queued(Tail(frames)) \cup {Head(frames)}
    <2>1. CASE i = 1
      BY <1>1, <2>1
    <2>2. CASE i # 1
      <3>1. i - 1 \in 1 .. Len(Tail(frames)) /\ Tail(frames)[i - 1] = frames[i]
        BY <1>1, <1>3, <2>2
      <3> QED BY <3>1 DEF Queued
    <2> QED BY <2>1, <2>2
  <1>8. Queued(frames) \subseteq Queued(Tail(frames)) \cup {Head(frames)}
    BY <1>7 DEF Queued
  <1>9. Head(frames) \in Queued(frames)
    BY <1>1, <1>4 DEF Queued
  <1> QED BY <1>6, <1>8, <1>9

\* Eviction: what is dropped is given back, byte for byte, and no answer is
\* dropped.
LEMMA EvictEffect ==
    ASSUME NEW o \in Queue, NEW size \in Nat, o.bytes = BytesOf(o.frames),
           \A m \in Queued(o.frames) : Fit(m), NoRequest \notin Request
    PROVE  LET e == Evict(o, size) IN
           /\ e \in Queue /\ e.closed = o.closed /\ e.last = o.last /\ e.wake = o.wake
           /\ e.bytes = BytesOf(e.frames) /\ e.bytes <= o.bytes
           /\ Queued(e.frames) \subseteq Queued(o.frames)
           /\ \A r \in Request :
                Weight(e.frames, AnswerTo(r)) = Weight(o.frames, AnswerTo(r))
  <1> DEFINE n == Len(o.frames)
  <1>1. PICK g : IsRest(g, o, size) /\ Evict(o, size) = g[Len(o.frames)]
    BY EvictRuns
  <1>2. o.frames \in Seq(Message) /\ o.bytes \in Nat
    BY DEF Queue
  <1>3. n \in Nat /\ \A i \in 1 .. n : o.frames[i] \in Message /\ o.frames[i] \in Queued(o.frames)
    BY <1>2 DEF Queued
  <1>4. /\ \A i \in 0 .. n : g[i] \in Rest
        /\ g[0] = [o EXCEPT !.frames = <<>>]
        /\ \A i \in 1 .. n : g[i] = Turn(g[i - 1], o.frames[i], size) /\ i - 1 \in 0 .. n
    BY <1>1, <1>3 DEF IsRest
  <1>5. PICK s : IsSum(s, o.frames, SizeOf)
    BY <1>2, TheWeights, SumExists
  <1>6. s[n] = o.bytes
    BY <1>2, <1>5, TheWeights, WeightIsSum DEF BytesOf, SizeOf
  <1>7. /\ g[0].frames = <<>> /\ g[0].bytes = o.bytes /\ g[0].closed = o.closed
        /\ g[0].last = o.last /\ g[0].wake = o.wake
    BY <1>4 DEF Queue
  <1>8. ASSUME NEW i \in 1 .. n
        PROVE  /\ g[i].closed = g[i - 1].closed /\ g[i].last = g[i - 1].last
               /\ g[i].wake = g[i - 1].wake
               /\ \/ /\ o.frames[i].kind = "stream" /\ g[i].frames = g[i - 1].frames
                     /\ g[i].bytes = g[i - 1].bytes - o.frames[i].size
                  \/ /\ g[i].frames = Append(g[i - 1].frames, o.frames[i])
                     /\ g[i].bytes = g[i - 1].bytes
    <2>1. g[i - 1] \in Rest /\ o.frames[i] \in Message
      BY <1>3, <1>4
    <2>2. g[i] = Turn(g[i - 1], o.frames[i], size)
      BY <1>4
    <2> DEFINE a == g[i - 1]
               f == o.frames[i]
               b == Turn(a, f, size)
    <2>3. a \in Rest /\ f \in Message
      BY <2>1
    <2> HIDE DEF a, f
    <2>4. /\ b.closed = a.closed /\ b.last = a.last /\ b.wake = a.wake
          /\ \/ f.kind = "stream" /\ b.frames = a.frames /\ b.bytes = a.bytes - f.size
             \/ b.frames = Append(a.frames, f) /\ b.bytes = a.bytes
      BY <2>3, TurnEffect
    <2>5. g[i] = b
      BY <2>2 DEF a, f
    <2> HIDE DEF b
    <2> QED BY <2>4, <2>5 DEF a, f
  <1> DEFINE Balance(i) ==
          /\ g[i].closed = o.closed /\ g[i].last = o.last /\ g[i].wake = o.wake
          /\ g[i].bytes <= o.bytes
          /\ Weight(g[i].frames, SizeOf) - g[i].bytes = s[i] - o.bytes
          /\ Queued(g[i].frames) \subseteq Queued(o.frames)
  <1>9. Balance(0)
    <2>1. Weight(g[0].frames, SizeOf) = 0 /\ s[0] = 0
      BY <1>5, <1>7, TheWeights, WeightOfNone DEF IsSum
    <2>2. Queued(g[0].frames) = {}
      BY <1>7 DEF Queued
    <2> QED BY <1>2, <1>7, <2>1, <2>2
  <1>10. ASSUME NEW i \in 1 .. n, Balance(i - 1) PROVE Balance(i)
    <2> DEFINE a == g[i - 1]
               b == g[i]
               f == o.frames[i]
    <2>1. f \in Message /\ f \in Queued(o.frames) /\ a \in Rest /\ b \in Rest
      BY <1>3, <1>4
    <2>2. a.frames \in Seq(Message) /\ a.bytes \in Int /\ b.bytes \in Int
      BY <2>1 DEF Rest
    <2>3. f.size \in Nat /\ SizeOf[f] = f.size
      BY <2>1, SizeAssumption DEF Message, SizeOf
    <2>4. Weight(a.frames, SizeOf) \in Nat
      BY <2>2, TheWeights, WeightType
    <2>5. s[i] = s[i - 1] + f.size /\ s[i] \in Nat /\ s[i - 1] \in Nat
      BY <1>3, <1>5, <2>3 DEF IsSum
    <2>6. \/ b.frames = a.frames /\ b.bytes = a.bytes - f.size
          \/ b.frames = Append(a.frames, f) /\ b.bytes = a.bytes
      BY <1>8
    <2>7. b.closed = o.closed /\ b.last = o.last /\ b.wake = o.wake
      BY <1>8, <1>10
    <2>8. /\ a.bytes <= o.bytes /\ Weight(a.frames, SizeOf) - a.bytes = s[i - 1] - o.bytes
          /\ Queued(a.frames) \subseteq Queued(o.frames)
      BY <1>10
    <2> DEFINE weight == Weight(a.frames, SizeOf)
               before == s[i - 1]
               after == s[i]
               full == o.bytes
               x == a.bytes
               y == b.bytes
               z == f.size
    <2>w. /\ weight \in Nat /\ before \in Nat /\ after \in Nat /\ full \in Nat
          /\ x \in Int /\ y \in Int /\ z \in Nat
          /\ x <= full /\ weight - x = before - full
          /\ after = before + z
      BY <1>2, <2>2, <2>3, <2>4, <2>5, <2>8
    <2> HIDE DEF a, b, f, weight, before, after, full, x, y, z
    <2>9. CASE b.frames = a.frames /\ b.bytes = a.bytes - f.size
      <3>1. b.bytes <= o.bytes /\ Weight(b.frames, SizeOf) - b.bytes = s[i] - o.bytes
        <4>1. y = x - z
          BY <2>9 DEF x, y, z
        <4>2. y <= full /\ weight - y = after - full
          BY <2>w, <4>1
        <4> QED BY <2>9, <4>2 DEF weight, after, full, y
      <3> QED BY <2>7, <2>8, <2>9, <3>1 DEF b
    <2>10. CASE b.frames = Append(a.frames, f) /\ b.bytes = a.bytes
      <3>1. Weight(b.frames, SizeOf) = Weight(a.frames, SizeOf) + f.size
        BY <2>1, <2>2, <2>3, <2>10, TheWeights, WeightOfAppend
      <3>2. b.bytes <= o.bytes /\ Weight(b.frames, SizeOf) - b.bytes = s[i] - o.bytes
        <4>1. y = x
          BY <2>10 DEF x, y
        <4>2. y <= full /\ (weight + z) - y = after - full
          BY <2>w, <4>1
        <4> QED BY <3>1, <4>2 DEF weight, after, full, y, z
      <3>3. Queued(b.frames) \subseteq Queued(o.frames)
        BY <2>1, <2>2, <2>8, <2>10, QueuedAppend
      <3> QED BY <2>7, <3>2, <3>3 DEF b
    <2> QED BY <2>6, <2>9, <2>10
  <1> HIDE DEF Balance, n
  <1>11. Balance(n)
    <2> DEFINE S == {i \in 0 .. n : Balance(i)}
    <2>1. 0 \in S /\ \A i \in 1 .. n : i - 1 \in S => i \in S
      BY <1>3, <1>9, <1>10
    <2> HIDE DEF S
    <2>2. 0 .. n \subseteq S
      BY <1>3, <2>1, UpTo
    <2> QED BY <1>3, <2>2 DEF S
  <1>12. ASSUME NEW r \in Request
         PROVE  Weight(g[n].frames, AnswerTo(r)) = Weight(o.frames, AnswerTo(r))
    <2>1. PICK t : IsSum(t, o.frames, AnswerTo(r))
      BY <1>2, TheWeights, SumExists
    <2>2. t[n] = Weight(o.frames, AnswerTo(r))
      BY <1>2, <2>1, TheWeights, WeightIsSum DEF n
    <2> DEFINE S == {i \in 0 .. n : Weight(g[i].frames, AnswerTo(r)) = t[i]}
    <2>3. 0 \in S
      BY <1>3, <1>7, <2>1, TheWeights, WeightOfNone DEF IsSum
    <2>4. ASSUME NEW i \in 1 .. n, i - 1 \in S PROVE i \in S
      <3> DEFINE f == o.frames[i]
      <3>1. f \in Message /\ f \in Queued(o.frames) /\ g[i - 1].frames \in Seq(Message)
        BY <1>3, <1>4 DEF Rest
      <3>2. t[i] = t[i - 1] + AnswerTo(r)[f] /\ t[i - 1] \in Nat
        BY <1>3, <2>1 DEF IsSum, n
      <3>3. AnswerTo(r)[f] = IF f.request = r THEN 1 ELSE 0
        BY <3>1 DEF AnswerTo
      <3>4. Weight(g[i - 1].frames, AnswerTo(r)) = t[i - 1]
        BY <2>4
      <3>5. \/ f.kind = "stream" /\ g[i].frames = g[i - 1].frames
            \/ g[i].frames = Append(g[i - 1].frames, f)
        BY <1>8
      <3>6. f.kind = "stream" => f.request # r
        BY <3>1 DEF Fit
      <3> HIDE DEF f
      <3>7. Weight(g[i].frames, AnswerTo(r)) = t[i]
        <4>1. CASE f.kind = "stream" /\ g[i].frames = g[i - 1].frames
          <5>1. AnswerTo(r)[f] = 0
            BY <3>3, <3>6, <4>1
          <5> QED BY <3>2, <3>4, <4>1, <5>1
        <4>2. CASE g[i].frames = Append(g[i - 1].frames, f)
          <5>1. Weight(g[i].frames, AnswerTo(r)) =
                  Weight(g[i - 1].frames, AnswerTo(r)) + AnswerTo(r)[f]
            BY <3>1, <4>2, TheWeights, WeightOfAppend
          <5> QED BY <3>2, <3>4, <5>1
        <4> QED BY <3>5, <4>1, <4>2
      <3> QED BY <1>3, <3>7
    <2> HIDE DEF S
    <2>5. 0 .. n \subseteq S
      BY <1>3, <2>3, <2>4, UpTo
    <2> QED BY <1>3, <2>2, <2>5 DEF S
  <1> DEFINE e == g[n]
  <1>13. e \in Rest /\ n \in 0 .. n
    BY <1>3, <1>4
  <1>14. e.frames \in Seq(Message) /\ e.bytes \in Int
    BY <1>13 DEF Rest
  <1>15. e.bytes = Weight(e.frames, SizeOf) /\ Weight(e.frames, SizeOf) \in Nat
    <2>1. Weight(e.frames, SizeOf) \in Nat
      BY <1>14, TheWeights, WeightType
    <2>2. Weight(e.frames, SizeOf) - e.bytes = 0
      BY <1>2, <1>6, <1>11 DEF Balance, n
    <2> QED BY <1>14, <2>1, <2>2
  <1>16. e \in Queue
    BY <1>13, <1>15 DEF Rest, Queue
  <1>17. e = Evict(o, size)
    BY <1>1 DEF n
  <1> QED BY <1>11, <1>12, <1>15, <1>16, <1>17 DEF Balance, BytesOf, SizeOf

----------------------------------------------------------------------------
\* The operations on the queue

\* A queue whose bytes are those of its frames.
Accounted(o) == o \in Queue /\ o.bytes = BytesOf(o.frames)

\* What frames b holds are frames of a, without an answer missing.
Less(a, b) ==
    /\ Queued(b.frames) \subseteq Queued(a.frames)
    /\ \A r \in Request : Weight(b.frames, AnswerTo(r)) = Weight(a.frames, AnswerTo(r))

\* The sum of sizes is a sum.
LEMMA BytesAreWeight == \A frames : BytesOf(frames) = Weight(frames, SizeOf)
  BY DEF BytesOf, SizeOf

\* A frame has a size the limits allow.
LEMMA SizeType ==
    ASSUME NEW f \in Message
    PROVE  f.size \in Nat /\ SizeOf[f] = f.size
  BY SizeAssumption DEF Message, SizeOf

\* FATAL is a frame.
LEMMA FatalType == Fatal \in Message /\ Fit(Fatal) /\ Fatal.kind = "fatal"
  BY DEF Fatal, Message, Fit

\* An append: one frame more, its bytes counted.
LEMMA AppendedEffect ==
    ASSUME NEW o, Accounted(o), NEW f \in Message
    PROVE  LET p == Appended(o, f) IN
           /\ Accounted(p) /\ p.frames = Append(o.frames, f) /\ p.bytes = o.bytes + f.size
           /\ p.closed = o.closed /\ p.last = (o.last \/ f.kind = "fatal")
           /\ Queued(p.frames) = Queued(o.frames) \cup {f}
           /\ \A r : Weight(p.frames, AnswerTo(r)) =
                       Weight(o.frames, AnswerTo(r)) + (IF f.request = r THEN 1 ELSE 0)
  <1> DEFINE p == Appended(o, f)
  <1>1. o \in Queue /\ o.frames \in Seq(Message) /\ o.bytes \in Nat
    BY DEF Accounted, Queue
  <1>2. f.size \in Nat /\ SizeOf[f] = f.size
    BY SizeType
  <1>3. /\ p.frames = Append(o.frames, f) /\ p.bytes = o.bytes + f.size
        /\ p.closed = o.closed /\ p.last = (o.last \/ f.kind = "fatal") /\ p.wake = TRUE
    BY <1>1 DEF Appended, Queue
  <1>4. Append(o.frames, f) \in Seq(Message) /\ o.bytes + f.size \in Nat
    BY <1>1, <1>2
  <1>5. p \in Queue
    <2>1. (o.last \/ f.kind = "fatal") \in BOOLEAN
      OBVIOUS
    <2> QED BY <1>1, <1>4, <2>1, Zenon DEF Appended, Queue
  <1> HIDE DEF p
  <1>6. p.bytes = BytesOf(p.frames)
    BY <1>1, <1>2, <1>3, BytesAreWeight, TheWeights, WeightOfAppend DEF Accounted
  <1>7. Queued(p.frames) = Queued(o.frames) \cup {f}
    BY <1>1, <1>3, QueuedAppend
  <1>8. ASSUME NEW r
        PROVE  Weight(p.frames, AnswerTo(r)) =
                 Weight(o.frames, AnswerTo(r)) + (IF f.request = r THEN 1 ELSE 0)
    <2>1. Weight(p.frames, AnswerTo(r)) = Weight(o.frames, AnswerTo(r)) + AnswerTo(r)[f]
      BY <1>1, <1>3, TheWeights, WeightOfAppend
    <2> QED BY <2>1 DEF AnswerTo
  <1> QED BY <1>3, <1>5, <1>6, <1>7, <1>8 DEF Accounted, p

\* An empty queue holds no bytes.
LEMMA EmptiedEffect ==
    ASSUME NEW o \in Queue
    PROVE  LET e == Emptied(o) IN
           /\ Accounted(e) /\ e.frames = <<>> /\ e.bytes = 0 /\ e.last = o.last
           /\ e.closed = o.closed
  <1> DEFINE e == Emptied(o)
  <1>1. /\ e.frames = <<>> /\ e.bytes = 0 /\ e.last = o.last /\ e.closed = o.closed
    BY DEF Emptied, Queue
  <1>2. <<>> \in Seq(Message) /\ 0 \in Nat
    OBVIOUS
  <1>3. e \in Queue
    BY <1>2, Zenon DEF Emptied, Queue
  <1> HIDE DEF e
  <1>4. e.bytes = BytesOf(e.frames)
    BY <1>1, BytesAreWeight, TheWeights, WeightOfNone
  <1> QED BY <1>1, <1>3, <1>4 DEF Accounted, e

\* Making room gives back what it drops.
LEMMA MadeRoomEffect ==
    ASSUME Accounted(out), \A m \in Queued(out.frames) : Fit(m), NEW f \in Message,
           NEW priority \in BOOLEAN
    PROVE  LET room == MadeRoom(priority, f) IN
           /\ Accounted(room) /\ room.closed = out.closed /\ room.last = out.last
           /\ room.bytes <= out.bytes /\ Less(out, room)
           /\ ~Open(out) => room = out
  <1>1. out \in Queue /\ out.bytes \in Nat /\ out.bytes = BytesOf(out.frames)
    BY DEF Accounted, Queue
  <1>2. CASE Open(out) /\ priority
    <2> DEFINE e == Evict(out, f.size)
    <2>1. MadeRoom(priority, f) = e
      BY <1>2 DEF MadeRoom
    <2>2. f.size \in Nat /\ NoRequest \notin Request
      BY SizeType, SizeAssumption
    <2>3. /\ e \in Queue /\ e.closed = out.closed /\ e.last = out.last
          /\ e.bytes = BytesOf(e.frames) /\ e.bytes <= out.bytes /\ Less(out, e)
      BY <1>1, <2>2, EvictEffect DEF Less
    <2> HIDE DEF e
    <2> QED BY <1>2, <2>1, <2>3 DEF Accounted
  <1>3. CASE ~(Open(out) /\ priority)
    <2>1. MadeRoom(priority, f) = out
      BY <1>3 DEF MadeRoom
    <2>2. out.bytes <= out.bytes
      BY <1>1
    <2> QED BY <2>1, <2>2 DEF Less
  <1> QED BY <1>2, <1>3

\* enqueueBytes: the frame enters, or some stream frames may have left.
LEMMA EnqueueEffect ==
    ASSUME TypeOK, BytesAreAccounted, \A m \in Queued(out.frames) : Fit(m),
           NEW f \in Message, NEW priority \in BOOLEAN, EnqueueBytes(f, priority)
    PROVE  /\ Accounted(out') /\ out'.bytes <= MaxQueuedBytes
           /\ total' = out'.bytes + others /\ total' <= MaxAggregate /\ total' \in Nat
           /\ out'.closed = out.closed
           /\ Fits(priority, f) =>
                /\ Open(out) /\ out'.last = (out.last \/ f.kind = "fatal")
                /\ \E room : /\ Accounted(room) /\ Less(out, room)
                             /\ out'.frames = Append(room.frames, f)
                /\ Queued(out'.frames) \subseteq Queued(out.frames) \cup {f}
                /\ f \in Queued(out'.frames)
                /\ \A r \in Request :
                     Weight(out'.frames, AnswerTo(r)) =
                       Weight(out.frames, AnswerTo(r)) + (IF f.request = r THEN 1 ELSE 0)
           /\ ~Fits(priority, f) =>
                Less(out, out') /\ out'.last = out.last /\ (~Open(out) => out' = out)
  <1> DEFINE room == MadeRoom(priority, f)
  <1>1. Accounted(out)
    BY DEF TypeOK, BytesAreAccounted, Accounted
  <1>2. /\ Accounted(room) /\ room.closed = out.closed /\ room.last = out.last
        /\ room.bytes <= out.bytes /\ Less(out, room)
        /\ ~Open(out) => room = out
    BY <1>1, MadeRoomEffect
  <1>3. /\ out.bytes \in Nat /\ room.bytes \in Nat /\ total \in Nat /\ others \in Nat
        /\ f.size \in Nat /\ MaxQueuedBytes \in Nat /\ MaxAggregate \in Nat
        /\ total = out.bytes + others /\ total <= MaxAggregate /\ out.bytes <= MaxQueuedBytes
    <2>1. room.bytes \in Nat /\ out.bytes \in Nat
      BY <1>2 DEF Accounted, Queue, TypeOK
    <2> HIDE DEF room
    <2> QED BY <2>1, SizeType, SizeAssumption DEF TypeOK, BytesAreAccounted
  <1>4. Fits(priority, f) =>
          /\ Open(out) /\ room.bytes + f.size <= MaxQueuedBytes
          /\ total - (out.bytes - room.bytes) + f.size <= MaxAggregate
    BY DEF Fits
  <1>5. /\ out' = IF Fits(priority, f) THEN Appended(room, f) ELSE room
        /\ total' = total + out'.bytes - out.bytes
    BY DEF EnqueueBytes
  <1> HIDE DEF room
  <1> DEFINE x == out.bytes
             y == room.bytes
             z == f.size
  <1>6. CASE Fits(priority, f)
    <2> DEFINE p == Appended(room, f)
    <2>1. /\ Accounted(p) /\ p.frames = Append(room.frames, f) /\ p.bytes = room.bytes + f.size
          /\ p.closed = room.closed /\ p.last = (room.last \/ f.kind = "fatal")
          /\ Queued(p.frames) = Queued(room.frames) \cup {f}
          /\ \A r : Weight(p.frames, AnswerTo(r)) =
                      Weight(room.frames, AnswerTo(r)) + (IF f.request = r THEN 1 ELSE 0)
      BY <1>2, AppendedEffect
    <2>2. out' = p
      BY <1>5, <1>6
    <2> HIDE DEF p
    <2>3. /\ out'.bytes <= MaxQueuedBytes /\ total' = out'.bytes + others
          /\ total' <= MaxAggregate /\ total' \in Nat
      <3>1. out'.bytes = y + z /\ total' = total + out'.bytes - x
        BY <1>5, <2>1, <2>2
      <3>2. /\ x \in Nat /\ y \in Nat /\ z \in Nat /\ total = x + others
            /\ y + z <= MaxQueuedBytes /\ total - (x - y) + z <= MaxAggregate
        BY <1>3, <1>4, <1>6
      <3> DEFINE w == out'.bytes
      <3> HIDE DEF x, y, z, w
      <3>3. w = y + z /\ total' = total + w - x
        BY <3>1 DEF w
      <3>4. w <= MaxQueuedBytes /\ total' = w + others /\ total' <= MaxAggregate
            /\ total' \in Nat
        BY <1>3, <3>2, <3>3
      <3> QED BY <3>4 DEF w
    <2>4. \A r \in Request :
            Weight(out'.frames, AnswerTo(r)) =
              Weight(out.frames, AnswerTo(r)) + (IF f.request = r THEN 1 ELSE 0)
      BY <1>2, <2>1, <2>2 DEF Less
    <2>5. /\ Queued(out'.frames) \subseteq Queued(out.frames) \cup {f}
          /\ f \in Queued(out'.frames)
      BY <1>2, <2>1, <2>2 DEF Less
    <2>6. \E e : Accounted(e) /\ Less(out, e) /\ out'.frames = Append(e.frames, f)
      BY <1>2, <2>1, <2>2
    <2> QED BY <1>2, <1>4, <1>6, <2>1, <2>2, <2>3, <2>4, <2>5, <2>6
  <1>7. CASE ~Fits(priority, f)
    <2>1. out' = room
      BY <1>5, <1>7
    <2>2. /\ out'.bytes <= MaxQueuedBytes /\ total' = out'.bytes + others
          /\ total' <= MaxAggregate /\ total' \in Nat
      <3>1. out'.bytes = y /\ total' = total + out'.bytes - x
        BY <1>5, <2>1
      <3>2. /\ x \in Nat /\ y \in Nat /\ total = x + others /\ y <= x
            /\ x <= MaxQueuedBytes
        BY <1>2, <1>3
      <3> DEFINE w == out'.bytes
      <3> HIDE DEF x, y, z, w
      <3>3. w = y /\ total' = total + w - x
        BY <3>1 DEF w
      <3>4. w <= MaxQueuedBytes /\ total' = w + others /\ total' <= MaxAggregate
            /\ total' \in Nat
        BY <1>3, <3>2, <3>3
      <3> QED BY <3>4 DEF w
    <2> QED BY <1>2, <1>7, <2>1, <2>2
  <1> QED BY <1>6, <1>7

----------------------------------------------------------------------------
\* The bytes are accounted for

\* Every frame, queued or being written, is one that goroutines queue; the read
\* loop holds a request exactly while it handles one; a write loop that looks
\* for a frame holds none.
FramesFit == (\A m \in Queued(out.frames) : Fit(m)) /\ Fit(writing)

HandsAreKnown ==
    /\ reader = "reading" => held = NoRequest
    /\ reader = "handling" => held \in Request
    /\ writer \in {"looking", "parked"} => writing = NoMessage

\* The part of the invariant about the queue.
QueueInv ==
    /\ Accounted(out) /\ out.bytes <= MaxQueuedBytes
    /\ total = out.bytes + others /\ total <= MaxAggregate
    /\ total \in Nat /\ others \in Nat
    /\ \A m \in Queued(out.frames) : Fit(m)

\* The part of it about the goroutines.
HandsInv ==
    /\ writer \in WriterState /\ writing \in Message \cup {NoMessage} /\ Fit(writing)
    /\ reader \in ReaderState /\ held \in Request \cup {NoRequest}
    /\ requests \subseteq Request
    /\ failure \in {"none", "queueing", "replacing", "stopping", "done"}
    /\ stopping \in {"none", "cancelled", "done"}
    /\ shutdown \in BOOLEAN
    /\ HandsAreKnown

AccountInv == QueueInv /\ HandsInv

\* Together they are the shape of the state and the accounts.
LEMMA InvParts == AccountInv => TypeOK /\ BytesAreAccounted /\ FramesFit /\ HandsAreKnown
  BY DEF AccountInv, QueueInv, HandsInv, TypeOK, BytesAreAccounted, FramesFit, Accounted

\* A frame of another goroutine, an answer and FATAL are such frames.
LEMMA NewFrames ==
    ASSUME NEW size \in Size, NEW r \in Request
    PROVE  /\ \A kind \in {"frame", "stream"} :
                LET f == [kind |-> kind, size |-> size, request |-> NoRequest] IN
                f \in Message /\ Fit(f)
           /\ LET f == [kind |-> "answer", size |-> size, request |-> r] IN
              f \in Message /\ Fit(f)
  BY SizeAssumption DEF Message, Fit

\* A step that queues keeps the queue in order.
LEMMA EnqueueKeeps ==
    ASSUME AccountInv, NEW f \in Message, Fit(f), NEW priority \in BOOLEAN,
           EnqueueBytes(f, priority), others' = others
    PROVE  QueueInv'
  <1>1. /\ Accounted(out') /\ out'.bytes <= MaxQueuedBytes
        /\ total' = out'.bytes + others /\ total' <= MaxAggregate /\ total' \in Nat
    BY InvParts, EnqueueEffect DEF FramesFit
  <1>2. \A m \in Queued(out'.frames) : Fit(m)
    <2>1. CASE Fits(priority, f)
      <3>1. Queued(out'.frames) \subseteq Queued(out.frames) \cup {f}
        BY <2>1, InvParts, EnqueueEffect DEF FramesFit
      <3> QED BY <3>1, InvParts DEF FramesFit
    <2>2. CASE ~Fits(priority, f)
      <3>1. Less(out, out')
        BY <2>2, InvParts, EnqueueEffect DEF FramesFit
      <3> QED BY <3>1, InvParts DEF FramesFit, Less
    <2> QED BY <2>1, <2>2
  <1> QED BY <1>1, <1>2 DEF AccountInv, QueueInv, Accounted

\* A step that does not touch the queue keeps it in order.
LEMMA SameQueue ==
    ASSUME AccountInv, UNCHANGED <<out, total, others>>
    PROVE  QueueInv'
  BY DEF AccountInv, QueueInv, Accounted

\* The failure of a connection keeps the queue in order.
LEMMA FailureKeeps ==
    ASSUME AccountInv, Failure
    PROVE  AccountInv'
  <1>0. HandsInv /\ QueueInv
    BY DEF AccountInv
  <1>1. CASE FailQueues
    <2>1. QueueInv'
      BY <1>1, FatalType, EnqueueKeeps DEF FailQueues
    <2>2. HandsInv'
      BY <1>0, <1>1 DEF FailQueues, HandsInv, HandsAreKnown
    <2> QED BY <2>1, <2>2 DEF AccountInv
  <1>2. CASE FailReplaces
    <2> DEFINE freed == total - out.bytes
               e == Emptied(out)
    <2>1. /\ out \in Queue /\ others \in Nat /\ freed = others
          /\ total \in Nat /\ out.bytes \in Nat /\ total = out.bytes + others
          /\ total <= MaxAggregate /\ MaxAggregate \in Nat /\ MaxQueuedBytes \in Nat
          /\ FatalSize \in 1 .. MaxQueuedBytes
      BY <1>0, SizeAssumption DEF QueueInv, Accounted, Queue
    <2>2. /\ Accounted(e) /\ e.frames = <<>> /\ e.bytes = 0 /\ e.last = out.last
          /\ e.closed = out.closed
      BY <2>1, EmptiedEffect
    <2>3. \/ UNCHANGED <<out, total>>
          \/ /\ freed + FatalSize <= MaxAggregate
             /\ out' = Appended(e, Fatal) /\ total' = freed + FatalSize
          \/ out' = [e EXCEPT !.closed = TRUE] /\ total' = freed
      BY <1>2 DEF FailReplaces
    <2> HIDE DEF freed, e
    <2>4. CASE UNCHANGED <<out, total>>
      <3>1. QueueInv'
        BY <1>2, <2>4, SameQueue DEF FailReplaces
      <3>2. HandsInv'
        BY <1>0, <1>2 DEF FailReplaces, HandsInv, HandsAreKnown
      <3> QED BY <3>1, <3>2 DEF AccountInv
    <2>5. CASE /\ freed + FatalSize <= MaxAggregate
               /\ out' = Appended(e, Fatal) /\ total' = freed + FatalSize
      <3>1. /\ Accounted(out') /\ out'.bytes = FatalSize
            /\ Queued(out'.frames) = Queued(e.frames) \cup {Fatal}
        <4>1. /\ Accounted(out') /\ out'.bytes = e.bytes + Fatal.size
              /\ Queued(out'.frames) = Queued(e.frames) \cup {Fatal}
          BY <2>2, <2>5, FatalType, AppendedEffect, ZenonT(40)
        <4>2. Fatal.size = FatalSize
          BY DEF Fatal
        <4> QED BY <2>1, <2>2, <4>1, <4>2
      <3>2. Queued(e.frames) = {}
        BY <2>2 DEF Queued
      <3>3. \A m \in Queued(out'.frames) : Fit(m)
        BY <3>1, <3>2, FatalType
      <3>4. others' = others
        BY <1>2 DEF FailReplaces
      <3>5. /\ out'.bytes <= MaxQueuedBytes /\ total' = out'.bytes + others'
            /\ total' <= MaxAggregate /\ total' \in Nat
        BY <2>1, <2>5, <3>1, <3>4
      <3>6. QueueInv'
        BY <2>1, <3>1, <3>3, <3>4, <3>5 DEF QueueInv, Accounted
      <3>7. HandsInv'
        BY <1>0, <1>2 DEF FailReplaces, HandsInv, HandsAreKnown
      <3> QED BY <3>6, <3>7 DEF AccountInv
    <2>6. CASE out' = [e EXCEPT !.closed = TRUE] /\ total' = freed
      <3>1. e \in Queue
        BY <2>2 DEF Accounted
      <3>2. out' \in Queue /\ out'.frames = <<>> /\ out'.bytes = 0
        BY <2>2, <2>6, <3>1 DEF Queue
      <3>3. Accounted(out') /\ Queued(out'.frames) = {}
        <4>1. Accounted(out')
          BY <2>2, <3>2 DEF Accounted
        <4> QED BY <3>2, <4>1 DEF Queued
      <3>4. others' = others
        BY <1>2 DEF FailReplaces
      <3>5. /\ out'.bytes <= MaxQueuedBytes /\ total' = out'.bytes + others'
            /\ total' <= MaxAggregate /\ total' \in Nat
        BY <2>1, <2>6, <3>2, <3>4
      <3>6. QueueInv'
        BY <2>1, <3>3, <3>4, <3>5 DEF QueueInv, Accounted
      <3>7. HandsInv'
        BY <1>0, <1>2 DEF FailReplaces, HandsInv, HandsAreKnown
      <3> QED BY <3>6, <3>7 DEF AccountInv
    <2> QED BY <2>3, <2>4, <2>5, <2>6
  <1>3. CASE FailStops
    <2>1. QueueInv'
      BY <1>3, SameQueue DEF FailStops
    <2>2. HandsInv'
      BY <1>0, <1>3 DEF FailStops, Stopping, HandsInv, HandsAreKnown
    <2> QED BY <2>1, <2>2 DEF AccountInv
  <1> QED BY <1>1, <1>2, <1>3 DEF Failure

\* So do stop and the write loop.
LEMMA WritingKeeps ==
    ASSUME AccountInv, Writing \/ StopEmpties
    PROVE  AccountInv'
  <1>0. /\ HandsInv /\ QueueInv /\ out \in Queue /\ out.frames \in Seq(Message)
        /\ out.bytes \in Nat /\ total \in Nat /\ others \in Nat
        /\ total = out.bytes + others /\ out.bytes <= MaxQueuedBytes /\ total <= MaxAggregate
        /\ MaxQueuedBytes \in Nat /\ MaxAggregate \in Nat
    BY SizeAssumption DEF AccountInv, QueueInv, Accounted, Queue
  <1>1. CASE Look
    <2>1. CASE out.frames # <<>>
      <3> DEFINE m == Head(out.frames)
                 tail == Tail(out.frames)
                 after == [out EXCEPT !.frames = Tail(@), !.bytes = @ - m.size]
      <3>1. m \in Message /\ tail \in Seq(Message)
        BY <1>0, <2>1
      <3>2. m.size \in Nat /\ SizeOf[m] = m.size
        BY <3>1, SizeType
      <3>3. out.bytes = Weight(tail, SizeOf) + m.size /\ Weight(tail, SizeOf) \in Nat
        <4>1. out.bytes = Weight(out.frames, SizeOf)
          BY <1>0, BytesAreWeight DEF QueueInv, Accounted
        <4>2. Weight(out.frames, SizeOf) = Weight(tail, SizeOf) + SizeOf[m]
          BY <1>0, <2>1, TheWeights, WeightOfTail
        <4>3. Weight(tail, SizeOf) \in Nat
          BY <3>1, TheWeights, WeightType
        <4> QED BY <3>2, <4>1, <4>2, <4>3
      <3>4. after.frames = tail /\ after.bytes = out.bytes - m.size
        BY <1>0 DEF Queue
      <3>5. out.bytes - m.size \in Nat /\ out.bytes - m.size = Weight(tail, SizeOf)
        BY <1>0, <3>2, <3>3
      <3>6. after \in Queue
        BY <1>0, <3>1, <3>5, Zenon DEF Queue
      <3>7. /\ out' = after /\ total' = total - m.size /\ others' = others
            /\ writing' = m /\ writer' = "writing"
        BY <1>1, <2>1 DEF Look
      <3>8. Queued(tail) \subseteq Queued(out.frames) /\ m \in Queued(out.frames)
        BY <1>0, <2>1, QueuedTail
      <3> HIDE DEF after, m, tail
      <3>9. Accounted(out')
        BY <3>4, <3>5, <3>6, <3>7, BytesAreWeight DEF Accounted
      <3>10. \A f \in Queued(out'.frames) : Fit(f)
        BY <1>0, <3>4, <3>7, <3>8 DEF QueueInv
      <3>11. /\ out'.bytes <= MaxQueuedBytes /\ total' = out'.bytes + others'
             /\ total' <= MaxAggregate /\ total' \in Nat
        <4> DEFINE x == out.bytes
                   y == out'.bytes
                   z == m.size
        <4>1. y = x - z /\ z \in Nat /\ x \in Nat /\ y \in Nat /\ total' = total - z
              /\ total = x + others
          BY <1>0, <3>2, <3>4, <3>5, <3>7
        <4>2. x <= MaxQueuedBytes
          BY <1>0
        <4> HIDE DEF x, y, z
        <4>3. /\ y <= MaxQueuedBytes /\ total' = y + others
              /\ total' <= MaxAggregate /\ total' \in Nat
          BY <1>0, <4>1, <4>2, SMTT(30)
        <4> QED BY <3>7, <4>3 DEF y
      <3>12. QueueInv'
        BY <1>0, <3>7, <3>9, <3>10, <3>11 DEF QueueInv, Accounted
      <3>13. Fit(m)
        BY <1>0, <3>8 DEF QueueInv
      <3>14. HandsInv'
        BY <1>0, <1>1, <3>1, <3>7, <3>13 DEF Look, HandsInv, HandsAreKnown, WriterState
      <3> QED BY <3>12, <3>14 DEF AccountInv
    <2>2. CASE out.frames = <<>>
      <3>1. UNCHANGED <<out, total, others>>
        BY <1>1, <2>2 DEF Look
      <3>2. HandsInv'
        BY <1>0, <1>1, <2>2 DEF Look, HandsInv, HandsAreKnown, WriterState
      <3> QED BY <3>1, <3>2, SameQueue DEF AccountInv
    <2> QED BY <2>1, <2>2
  <1>2. CASE Wake
    <2>1. UNCHANGED <<total, others>> /\ (out' = out \/ out' = [out EXCEPT !.wake = FALSE])
      BY <1>2 DEF Wake
    <2>2. out' \in Queue /\ out'.frames = out.frames /\ out'.bytes = out.bytes
      BY <1>0, <2>1 DEF Queue
    <2>3. QueueInv'
      BY <1>0, <2>1, <2>2 DEF QueueInv, Accounted
    <2>4. HandsInv'
      BY <1>0, <1>2 DEF Wake, HandsInv, HandsAreKnown, WriterState
    <2> QED BY <2>3, <2>4 DEF AccountInv
  <1>3. CASE Write
    <2>1. HandsInv'
      BY <1>0, <1>3 DEF Write, HandsInv, HandsAreKnown, WriterState
    <2> QED BY <1>3, <2>1, SameQueue DEF Write, AccountInv
  <1>4. CASE Written
    <2>1. HandsInv'
      BY <1>0, <1>4 DEF Written, HandsInv, HandsAreKnown, WriterState, Fit, NoMessage
    <2> QED BY <1>4, <2>1, SameQueue DEF Written, AccountInv
  <1>5. CASE WriterStops
    <2>1. HandsInv'
      BY <1>0, <1>5 DEF WriterStops, Stopping, HandsInv, HandsAreKnown, WriterState
    <2> QED BY <1>5, <2>1, SameQueue DEF WriterStops, AccountInv
  <1>6. CASE StopEmpties
    <2> DEFINE e == Emptied(out)
               after == [e EXCEPT !.closed = TRUE, !.wake = TRUE]
    <2>1. Accounted(e) /\ e.frames = <<>> /\ e.bytes = 0
      BY <1>0, EmptiedEffect
    <2>2. out' = after /\ total' = total - out.bytes /\ others' = others
      BY <1>6 DEF StopEmpties
    <2> HIDE DEF e
    <2>3. after \in Queue /\ after.frames = <<>> /\ after.bytes = 0
      <3>1. after.frames = <<>> /\ after.bytes = 0
        BY <2>1 DEF Accounted, Queue
      <3>2. after \in Queue
        BY <2>1, Zenon DEF Accounted, Queue
      <3> QED BY <3>1, <3>2
    <2> HIDE DEF after
    <2>4. Accounted(out') /\ Queued(out'.frames) = {}
      <3>1. Accounted(out')
        BY <2>1, <2>2, <2>3 DEF Accounted
      <3>2. out'.frames = <<>>
        BY <2>2, <2>3
      <3>3. Queued(out'.frames) = {}
        BY <3>2 DEF Queued
      <3> QED BY <3>1, <3>3
    <2>5. /\ out'.bytes <= MaxQueuedBytes /\ total' = out'.bytes + others'
          /\ total' <= MaxAggregate /\ total' \in Nat
      BY <1>0, <2>2, <2>3
    <2>6. QueueInv'
      BY <1>0, <2>2, <2>4, <2>5 DEF QueueInv, Accounted
    <2>7. HandsInv'
      BY <1>0, <1>6 DEF StopEmpties, HandsInv, HandsAreKnown
    <2> QED BY <2>6, <2>7 DEF AccountInv
  <1> QED BY <1>1, <1>2, <1>3, <1>4, <1>5, <1>6 DEF Writing

\* So do the other goroutines and the read loop.
LEMMA OutsideKeeps ==
    ASSUME AccountInv, Leaving \/ ReaderFails \/ ReadEnds \/ WaitTimesOut \/ Fail \/ Stop
                       \/ Shutdown \/ Others
    PROVE  AccountInv'
  <1>0. HandsInv /\ QueueInv
    BY DEF AccountInv
  <1>1. CASE Others
    <2>1. PICK n \in 0 .. MaxAggregate :
            total - others + n <= MaxAggregate /\ others' = n /\ total' = total - others + n
      BY <1>1 DEF Others
    <2>2. out' = out /\ out.bytes \in Nat /\ others \in Nat /\ total = out.bytes + others
      BY <1>0, <1>1 DEF Others, QueueInv, Accounted, Queue
    <2>3. /\ total' = out'.bytes + others' /\ total' <= MaxAggregate
          /\ total' \in Nat /\ others' \in Nat
      BY <2>1, <2>2, SizeAssumption
    <2>4. QueueInv'
      BY <1>0, <2>2, <2>3 DEF QueueInv, Accounted
    <2>5. HandsInv'
      BY <1>0, <1>1 DEF Others, HandsInv, HandsAreKnown
    <2> QED BY <2>4, <2>5 DEF AccountInv
  <1>2. CASE Leaving \/ ReaderFails \/ ReadEnds \/ WaitTimesOut \/ Fail \/ Stop \/ Shutdown
    <2>1. UNCHANGED <<out, total, others>>
      BY <1>2 DEF Leaving, ReaderFailed, Leave, ReaderStops, Finish, ReaderFails, ReadEnds,
                  WaitTimesOut, Fail, Stop, Shutdown
    <2>2. UNCHANGED <<writer, writing, held, requests>>
          /\ (reader' = reader \/ reader' \in ReaderState \ {"reading", "handling"})
      BY <1>2 DEF Leaving, ReaderFailed, Leave, ReaderStops, Finish, ReaderFails, ReadEnds,
                  WaitTimesOut, Fail, Stop, Shutdown, ReaderState
    <2>3. /\ failure' \in {failure, "queueing"} /\ stopping' \in {stopping, "cancelled"}
          /\ shutdown' \in BOOLEAN
      BY <1>0, <1>2 DEF Leaving, ReaderFailed, Leave, ReaderStops, Finish, ReaderFails,
                  ReadEnds, WaitTimesOut, Fail, Stop, Shutdown, Failing, Stopping, HandsInv
    <2>4. HandsInv'
      BY <1>0, <2>2, <2>3 DEF HandsInv, HandsAreKnown
    <2> QED BY <2>1, <2>4, SameQueue DEF AccountInv
  <1> QED BY <1>1, <1>2

\* So do the goroutines that queue a frame.
LEMMA QueueingKeeps ==
    ASSUME AccountInv,
           \/ Handle
           \/ \E r \in Request, size \in Size : Receive(r, size)
           \/ \E size \in Size, kind \in {"frame", "stream"}, priority \in BOOLEAN :
                Send(kind, size, priority)
    PROVE  AccountInv'
  <1>0. HandsInv /\ QueueInv
    BY DEF AccountInv
  <1>1. ASSUME NEW size \in Size, NEW priority \in BOOLEAN, Answer(size, priority)
        PROVE  AccountInv'
    <2> DEFINE f == [kind |-> "answer", size |-> size, request |-> held]
    <2>1. held \in Request
      BY <1>0, <1>1 DEF Answer, HandsInv, HandsAreKnown
    <2>2. f \in Message /\ Fit(f)
      BY <2>1, NewFrames
    <2>3. EnqueueBytes(f, priority) /\ others' = others
      BY <1>1 DEF Answer
    <2>4. QueueInv'
      BY <2>2, <2>3, EnqueueKeeps
    <2>5. HandsInv'
      BY <1>0, <1>1 DEF Answer, Failing, HandsInv, HandsAreKnown, ReaderState
    <2> QED BY <2>4, <2>5 DEF AccountInv
  <1>2. ASSUME NEW r \in Request, NEW size \in Size, Receive(r, size)
        PROVE  AccountInv'
    <2> DEFINE f == [kind |-> "frame", size |-> size, request |-> NoRequest]
    <2>1. f \in Message /\ Fit(f)
      BY NewFrames
    <2>2. CASE r \notin requests
      <3>1. UNCHANGED <<out, total, others>>
        BY <1>2, <2>2 DEF Receive
      <3>2. HandsInv'
        BY <1>0, <1>2, <2>2 DEF Receive, HandsInv, HandsAreKnown, ReaderState
      <3> QED BY <3>1, <3>2, SameQueue DEF AccountInv
    <2>3. CASE r \in requests
      <3>1. EnqueueBytes(f, TRUE) /\ others' = others
        BY <1>2, <2>3 DEF Receive
      <3>2. QueueInv'
        BY <2>1, <3>1, EnqueueKeeps
      <3>3. HandsInv'
        BY <1>0, <1>2, <2>3 DEF Receive, Failing, HandsInv, HandsAreKnown, ReaderState
      <3> QED BY <3>2, <3>3 DEF AccountInv
    <2> QED BY <2>2, <2>3
  <1>3. ASSUME NEW size \in Size, NEW kind \in {"frame", "stream"}, NEW priority \in BOOLEAN,
               Send(kind, size, priority)
        PROVE  AccountInv'
    <2> DEFINE f == [kind |-> kind, size |-> size, request |-> NoRequest]
    <2>1. f \in Message /\ Fit(f)
      BY NewFrames, SizeAssumption DEF Message, Fit
    <2>2. EnqueueBytes(f, priority) /\ others' = others
      BY <1>3 DEF Send
    <2>3. QueueInv'
      BY <2>1, <2>2, EnqueueKeeps
    <2>4. HandsInv'
      BY <1>0, <1>3 DEF Send, Failing, HandsInv, HandsAreKnown
    <2> QED BY <2>3, <2>4 DEF AccountInv
  <1> QED BY <1>1, <1>2, <1>3 DEF Handle

\* Every step keeps the accounts.
LEMMA AccountStep == AccountInv /\ [Next]_vars => AccountInv'
  <1>1. AccountInv /\ UNCHANGED vars => AccountInv'
    BY DEF vars, AccountInv, QueueInv, Accounted, HandsInv, HandsAreKnown
  <1> QED BY <1>1, FailureKeeps, WritingKeeps, OutsideKeeps, QueueingKeeps DEF Next

\* Nothing is queued at the start.
LEMMA InitAccount == Init => AccountInv
  <1> SUFFICES ASSUME Init PROVE AccountInv
    OBVIOUS
  <1>1. out.frames = <<>> /\ out.bytes = 0 /\ out \in Queue
    <2>1. <<>> \in Seq(Message) /\ 0 \in Nat
      OBVIOUS
    <2> QED BY <2>1 DEF Init, Queue
  <1>2. Accounted(out) /\ Queued(out.frames) = {}
    <2>1. Accounted(out)
      BY <1>1, BytesAreWeight, TheWeights, WeightOfNone DEF Accounted
    <2> QED BY <1>1, <2>1 DEF Queued
  <1>3. QueueInv
    BY <1>1, <1>2, SizeAssumption DEF Init, QueueInv
  <1>4. HandsInv
    BY DEF Init, HandsInv, HandsAreKnown, WriterState, ReaderState, Fit, NoMessage
  <1> QED BY <1>3, <1>4 DEF AccountInv

LEMMA AccountInvariant == Spec => []AccountInv
  BY InitAccount, AccountStep, PTL DEF Spec

\* The queue, its counters and the goroutines' places always have their types:
\* no counter of bytes below zero.
THEOREM OutboundTypeCorrect == Spec => []TypeOK
  BY InvParts, AccountInvariant, PTL

\* Whatever is queued, evicted, written, replaced and dropped, in whatever
\* order of the goroutines, the connection's counter is the size of what it has
\* queued, the process's counter is the sum over the connections, and neither
\* exceeds its limit.
THEOREM BytesAccounted == Spec => []BytesAreAccounted
  BY InvParts, AccountInvariant, PTL

----------------------------------------------------------------------------
\* FATAL comes last

\* FATAL is the only frame that sets closeQueued, and fail is over when it has.
FatalIsKnown ==
    /\ out.last => failure = "done"
    /\ ~out.last => writing.kind # "fatal" /\ \A m \in Queued(out.frames) : m.kind # "fatal"

FatalAtTheEnd(frames) ==
    \A i \in 1 .. Len(frames) : frames[i].kind = "fatal" => i = Len(frames)

FatalIsUnderway ==
    failure = "done" =>
        \/ stopping # "none" \/ writer \in {"stopping", "done"}
        \/ Fatal = writing \/ Fatal \in Queued(out.frames)

FatalInv ==
    /\ FatalIsKnown /\ FatalAtTheEnd(out.frames) /\ FatalIsUnderway
    /\ writing.kind = "fatal" => out.frames = <<>>

LEMMA FatalPart == FatalInv => FatalComesLast
  BY DEF FatalInv, FatalAtTheEnd, FatalIsUnderway, FatalComesLast, Queued

\* A queue without FATAL, and one with FATAL behind such frames.
LEMMA FatalBehind ==
    ASSUME NEW frames \in Seq(Message), \A m \in Queued(frames) : m.kind # "fatal",
           NEW f \in Message
    PROVE  FatalAtTheEnd(frames) /\ FatalAtTheEnd(Append(frames, f))
  <1>1. \A i \in 1 .. Len(frames) : frames[i].kind # "fatal"
    BY DEF Queued
  <1>2. FatalAtTheEnd(frames)
    BY <1>1 DEF FatalAtTheEnd
  <1>3. /\ Len(Append(frames, f)) = Len(frames) + 1 /\ Len(frames) \in Nat
        /\ \A i \in 1 .. Len(frames) : Append(frames, f)[i] = frames[i]
    OBVIOUS
  <1>4. ASSUME NEW i \in 1 .. Len(frames) + 1, Append(frames, f)[i].kind = "fatal"
        PROVE  i = Len(frames) + 1
    BY <1>1, <1>3, <1>4
  <1> QED BY <1>2, <1>3, <1>4 DEF FatalAtTheEnd

\* Without the head FATAL is still at the end, and behind FATAL is nothing.
LEMMA FatalTail ==
    ASSUME NEW frames \in Seq(Message), frames # <<>>, FatalAtTheEnd(frames)
    PROVE  /\ FatalAtTheEnd(Tail(frames))
           /\ Head(frames).kind = "fatal" => Tail(frames) = <<>>
  <1>1. /\ Len(frames) \in Nat \ {0} /\ Len(Tail(frames)) = Len(frames) - 1
        /\ Tail(frames) \in Seq(Message) /\ Head(frames) = frames[1]
        /\ \A i \in 1 .. Len(frames) - 1 : Tail(frames)[i] = frames[i + 1]
    OBVIOUS
  <1>2. ASSUME NEW i \in 1 .. Len(frames) - 1, Tail(frames)[i].kind = "fatal"
        PROVE  i = Len(frames) - 1
    <2>1. i + 1 \in 1 .. Len(frames) /\ frames[i + 1].kind = "fatal"
      BY <1>1, <1>2
    <2>2. i + 1 = Len(frames)
      BY <2>1 DEF FatalAtTheEnd
    <2>3. i \in Int /\ Len(frames) \in Int
      BY <1>1
    <2> DEFINE n == Len(frames)
    <2>4. i + 1 = n /\ n \in Int
      BY <2>2, <2>3
    <2> HIDE DEF n
    <2>5. i = n - 1
      BY <2>3, <2>4
    <2> QED BY <2>5 DEF n
  <1>3. ASSUME Head(frames).kind = "fatal" PROVE Tail(frames) = <<>>
    <2>1. 1 \in 1 .. Len(frames)
      BY <1>1
    <2>2. Len(frames) = 1
      BY <1>1, <1>3, <2>1 DEF FatalAtTheEnd
    <2>3. Len(Tail(frames)) = 0
      BY <1>1, <2>2
    <2>4. \A rest \in Seq(Message) : Len(rest) = 0 => rest = <<>>
      OBVIOUS
    <2> QED BY <1>1, <2>3, <2>4
  <1> QED BY <1>1, <1>2, <1>3 DEF FatalAtTheEnd

\* A frame other than FATAL changes nothing about it: behind FATAL the queue
\* does not take it.
LEMMA EnqueueOther ==
    ASSUME AccountInv, FatalInv, NEW f \in Message, f.kind # "fatal",
           NEW priority \in BOOLEAN, EnqueueBytes(f, priority),
           UNCHANGED <<writer, writing, stopping>>,
           failure' = failure \/ (failure = "none" /\ failure' = "queueing")
    PROVE  FatalInv'
  <1>1. /\ Accounted(out')
        /\ Fits(priority, f) =>
             /\ Open(out) /\ out'.last = out.last
             /\ \E room : /\ Accounted(room) /\ Less(out, room)
                          /\ out'.frames = Append(room.frames, f)
             /\ Queued(out'.frames) \subseteq Queued(out.frames) \cup {f}
        /\ ~Fits(priority, f) =>
             Less(out, out') /\ out'.last = out.last /\ (~Open(out) => out' = out)
    BY InvParts, EnqueueEffect DEF FramesFit, AccountInv, QueueInv, Accounted, Queue
  <1>2. out.last \in BOOLEAN /\ out.closed \in BOOLEAN
    BY DEF AccountInv, QueueInv, Accounted, Queue
  <1>3. CASE out' = out
    BY <1>3 DEF FatalInv, FatalIsKnown, FatalIsUnderway, FatalAtTheEnd
  <1>4. CASE ~out.last
    <2>1. out'.last = out.last
      BY <1>1
    <2>2. writing.kind # "fatal" /\ \A m \in Queued(out.frames) : m.kind # "fatal"
      BY <1>4 DEF FatalInv, FatalIsKnown
    <2>3. \A m \in Queued(out'.frames) : m.kind # "fatal"
      BY <1>1, <2>2 DEF Less
    <2>4. FatalAtTheEnd(out'.frames)
      <3>1. out'.frames \in Seq(Message)
        BY <1>1 DEF Accounted, Queue
      <3> QED BY <2>3, <3>1, FatalBehind
    <2>5. FatalIsUnderway'
      <3>1. Fatal # writing /\ Fatal \notin Queued(out.frames)
        BY <2>2, FatalType
      <3> QED BY <3>1 DEF FatalInv, FatalIsUnderway
    <2> QED BY <1>4, <2>1, <2>2, <2>3, <2>4, <2>5 DEF FatalInv, FatalIsKnown
  <1>5. CASE out.last
    <2>1. ~Open(out)
      BY <1>5 DEF Open
    <2> QED BY <1>1, <1>3, <2>1
  <1> QED BY <1>2, <1>4, <1>5

\* A step that leaves the queue and the frame being written alone.
LEMMA SameFatal ==
    ASSUME FatalInv, UNCHANGED <<out, writing>>,
           failure' = failure \/ (failure # "done" /\ failure' # "done")
             \/ (~out.last /\ failure' = "done" /\ stopping' # "none"),
           stopping' = stopping \/ stopping' # "none",
           writer' = writer \/ writer' \in {"stopping", "done"}
             \/ (writer = "writing" /\ writer' = "written")
    PROVE  FatalInv'
  BY DEF FatalInv, FatalIsKnown, FatalIsUnderway, FatalAtTheEnd

\* So does the failure of a connection: FATAL enters a queue without one.
LEMMA FailureKeepsFatal ==
    ASSUME AccountInv, FatalInv, Failure
    PROVE  FatalInv'
  <1>0. /\ Accounted(out) /\ out \in Queue /\ out.frames \in Seq(Message)
        /\ out.last \in BOOLEAN /\ \A m \in Queued(out.frames) : Fit(m)
    BY DEF AccountInv, QueueInv, Accounted, Queue
  <1>1. failure # "done" => ~out.last
    BY DEF FatalInv, FatalIsKnown
  <1>2. ~out.last => writing.kind # "fatal" /\ \A m \in Queued(out.frames) : m.kind # "fatal"
    BY DEF FatalInv, FatalIsKnown
  <1>3. CASE FailQueues
    <2>1. /\ ~out.last /\ writing.kind # "fatal"
          /\ \A m \in Queued(out.frames) : m.kind # "fatal"
      BY <1>1, <1>2, <1>3 DEF FailQueues
    <2>2. EnqueueBytes(Fatal, TRUE) /\ writing' = writing
      BY <1>3 DEF FailQueues
    <2>3. CASE Fits(TRUE, Fatal)
      <3>1. /\ out'.last /\ Fatal \in Queued(out'.frames)
            /\ \E room : /\ Accounted(room) /\ Less(out, room)
                         /\ out'.frames = Append(room.frames, Fatal)
        BY <2>2, <2>3, InvParts, FatalType, EnqueueEffect DEF FramesFit
      <3>2. PICK room : /\ Accounted(room) /\ Less(out, room)
                        /\ out'.frames = Append(room.frames, Fatal)
        BY <3>1
      <3>3. room.frames \in Seq(Message) /\ \A m \in Queued(room.frames) : m.kind # "fatal"
        BY <2>1, <3>2 DEF Less, Accounted, Queue
      <3>4. FatalAtTheEnd(out'.frames)
        BY <3>2, <3>3, FatalType, FatalBehind
      <3>5. failure' = "done"
        BY <1>3, <2>3 DEF FailQueues
      <3>6. FatalAtTheEnd(out.frames)'
        BY <3>4
      <3> QED BY <2>1, <2>2, <3>1, <3>5, <3>6 DEF FatalInv, FatalIsKnown, FatalIsUnderway
    <2>4. CASE ~Fits(TRUE, Fatal)
      <3>1. Accounted(out') /\ Less(out, out') /\ out'.last = out.last
        BY <2>2, <2>4, InvParts, FatalType, EnqueueEffect DEF FramesFit
      <3>2. out'.frames \in Seq(Message) /\ \A m \in Queued(out'.frames) : m.kind # "fatal"
        BY <2>1, <3>1 DEF Less, Accounted, Queue
      <3>3. FatalAtTheEnd(out'.frames)
        BY <3>2, FatalType, FatalBehind
      <3>4. failure' = "replacing"
        BY <1>3, <2>4 DEF FailQueues
      <3>5. FatalAtTheEnd(out.frames)'
        BY <3>3
      <3> QED BY <2>1, <2>2, <3>1, <3>2, <3>4, <3>5 DEF FatalInv, FatalIsKnown, FatalIsUnderway
    <2> QED BY <2>3, <2>4
  <1>4. CASE FailReplaces
    <2> DEFINE e == Emptied(out)
    <2>1. /\ ~out.last /\ writing.kind # "fatal" /\ writing' = writing /\ stopping' = stopping
          /\ writer' = writer
      BY <1>1, <1>2, <1>4 DEF FailReplaces
    <2>2. Accounted(e) /\ e.frames = <<>> /\ e.last = out.last
      BY <1>0, EmptiedEffect
    <2>3. \/ out' = out /\ failure' = "stopping" /\ failure = "replacing"
          \/ out' = Appended(e, Fatal) /\ failure' = "done"
          \/ out' = [e EXCEPT !.closed = TRUE] /\ failure' = "stopping"
      BY <1>4 DEF FailReplaces
    <2> HIDE DEF e
    <2>4. CASE out' = out /\ failure' = "stopping" /\ failure = "replacing"
      BY <2>1, <2>4, SameFatal
    <2>5. CASE out' = Appended(e, Fatal) /\ failure' = "done"
      <3>1. /\ out'.last /\ out'.frames = Append(e.frames, Fatal)
            /\ Queued(out'.frames) = Queued(e.frames) \cup {Fatal}
        BY <2>2, <2>5, FatalType, AppendedEffect, ZenonT(40)
      <3>2. e.frames \in Seq(Message) /\ \A m \in Queued(e.frames) : m.kind # "fatal"
        BY <2>2 DEF Queued, Accounted, Queue
      <3>3. FatalAtTheEnd(out'.frames)
        BY <3>1, <3>2, FatalType, FatalBehind
      <3>4. FatalAtTheEnd(out.frames)'
        BY <3>3
      <3> QED BY <2>1, <2>5, <3>1, <3>4 DEF FatalInv, FatalIsKnown, FatalIsUnderway
    <2>6. CASE out' = [e EXCEPT !.closed = TRUE] /\ failure' = "stopping"
      <3>1. out'.frames = <<>> /\ out'.last = out.last
        BY <2>2, <2>6 DEF Accounted, Queue
      <3>2. Queued(out'.frames) = {} /\ FatalAtTheEnd(out.frames)'
        BY <3>1 DEF Queued, FatalAtTheEnd
      <3> QED BY <2>1, <2>6, <3>1, <3>2 DEF FatalInv, FatalIsKnown, FatalIsUnderway
    <2> QED BY <2>3, <2>4, <2>5, <2>6
  <1>5. CASE FailStops
    <2>1. UNCHANGED <<out, writing, writer>> /\ failure = "stopping" /\ ~out.last
      BY <1>1, <1>5 DEF FailStops
    <2>2. \/ stopping = "done" /\ stopping' = stopping /\ failure' = "done"
          \/ failure' = failure /\ (stopping' = stopping \/ stopping' # "none")
      BY <1>5 DEF FailStops, Stopping
    <2> QED BY <2>1, <2>2, SameFatal
  <1> QED BY <1>3, <1>4, <1>5 DEF Failure

\* So do stop and the write loop: behind FATAL nothing is written.
LEMMA WritingKeepsFatal ==
    ASSUME AccountInv, FatalInv, Writing \/ StopEmpties
    PROVE  FatalInv'
  <1>0. /\ out \in Queue /\ out.frames \in Seq(Message) /\ out.last \in BOOLEAN
        /\ writer \in {"looking", "parked"} => writing = NoMessage
    BY DEF AccountInv, QueueInv, Accounted, Queue, HandsInv, HandsAreKnown
  <1>1. CASE Look
    <2>1. CASE out.frames # <<>>
      <3> DEFINE m == Head(out.frames)
                 tail == Tail(out.frames)
                 after == [out EXCEPT !.frames = Tail(@), !.bytes = @ - m.size]
      <3>1. after.frames = tail /\ after.last = out.last
        BY <1>0 DEF Queue
      <3>2. /\ out' = after /\ writing' = m /\ writer = "looking"
            /\ failure' = failure /\ stopping' = stopping
        BY <1>1, <2>1 DEF Look
      <3>3. Queued(tail) \subseteq Queued(out.frames)
            /\ Queued(out.frames) = Queued(tail) \cup {m}
        BY <1>0, <2>1, QueuedTail
      <3>4. FatalAtTheEnd(tail) /\ (m.kind = "fatal" => tail = <<>>)
        BY <1>0, <2>1, FatalTail DEF FatalInv
      <3> HIDE DEF after, m, tail
      <3>5. FatalIsKnown'
        BY <3>1, <3>2, <3>3 DEF FatalInv, FatalIsKnown
      <3>6. FatalIsUnderway'
        <4>1. Fatal # NoMessage
          BY DEF Fatal, NoMessage
        <4>2. writing = NoMessage /\ writer \notin {"stopping", "done"}
          BY <1>0, <3>2
        <4> QED BY <3>1, <3>2, <3>3, <4>1, <4>2 DEF FatalInv, FatalIsUnderway
      <3>7. FatalAtTheEnd(out.frames)'
        BY <3>1, <3>2, <3>4 DEF FatalAtTheEnd
      <3> QED BY <3>1, <3>2, <3>4, <3>5, <3>6, <3>7 DEF FatalInv
    <2>2. CASE out.frames = <<>>
      <3>1. /\ UNCHANGED <<out, writing, failure, stopping>>
            /\ writer' \in {"done", "parked"} /\ writer = "looking"
        BY <1>1, <2>2 DEF Look
      <3> QED BY <3>1 DEF FatalInv, FatalIsKnown, FatalIsUnderway, FatalAtTheEnd
    <2> QED BY <2>1, <2>2
  <1>2. CASE Wake
    <2>1. /\ UNCHANGED <<writing, failure, stopping>> /\ writer = "parked"
          /\ out' = out \/ out' = [out EXCEPT !.wake = FALSE]
      BY <1>2 DEF Wake
    <2>2. out'.frames = out.frames /\ out'.last = out.last
      BY <1>0, <2>1 DEF Queue
    <2> QED BY <2>1, <2>2 DEF FatalInv, FatalIsKnown, FatalIsUnderway, FatalAtTheEnd
  <1>3. CASE Write
    BY <1>3, SameFatal DEF Write
  <1>4. CASE Written
    <2>1. /\ UNCHANGED <<out, failure, stopping>> /\ writing' = NoMessage
          /\ writer = "written" /\ (writing.kind = "fatal" => writer' = "stopping")
      BY <1>4 DEF Written
    <2>2. NoMessage.kind # "fatal" /\ Fatal.kind = "fatal"
      BY DEF NoMessage, Fatal
    <2>3. FatalIsUnderway'
      BY <2>1, <2>2 DEF FatalInv, FatalIsUnderway
    <2> QED BY <2>1, <2>2, <2>3 DEF FatalInv, FatalIsKnown, FatalAtTheEnd
  <1>5. CASE WriterStops
    <2>1. /\ UNCHANGED <<out, writing, failure>> /\ (stopping' = stopping \/ stopping' # "none")
          /\ writer' = writer \/ writer' = "done"
      BY <1>5 DEF WriterStops, Stopping
    <2> QED BY <2>1, SameFatal
  <1>6. CASE StopEmpties
    <2>1. out'.frames = <<>> /\ out'.last = out.last
      BY <1>0, <1>6 DEF StopEmpties, Emptied, Queue
    <2>2. UNCHANGED <<writing, failure>> /\ stopping' = "done"
      BY <1>6 DEF StopEmpties
    <2>3. Queued(out'.frames) = {} /\ FatalAtTheEnd(out.frames)'
      BY <2>1 DEF Queued, FatalAtTheEnd
    <2> QED BY <2>1, <2>2, <2>3 DEF FatalInv, FatalIsKnown, FatalIsUnderway
  <1> QED BY <1>1, <1>2, <1>3, <1>4, <1>5, <1>6 DEF Writing

\* So do the others: behind FATAL their frames are refused.
LEMMA OthersKeepFatal ==
    ASSUME AccountInv, FatalInv,
           \/ Leaving \/ ReaderFails \/ ReadEnds \/ WaitTimesOut \/ Fail \/ Stop
           \/ Shutdown \/ Others \/ Handle
           \/ \E r \in Request, size \in Size : Receive(r, size)
           \/ \E size \in Size, kind \in {"frame", "stream"}, priority \in BOOLEAN :
                Send(kind, size, priority)
    PROVE  FatalInv'
  <1>1. CASE Leaving \/ ReaderFails \/ ReadEnds \/ WaitTimesOut \/ Fail \/ Stop
             \/ Shutdown \/ Others
    <2>1. /\ UNCHANGED <<out, writing, writer>> /\ (stopping' = stopping \/ stopping' # "none")
          /\ failure' = failure \/ (failure = "none" /\ failure' = "queueing")
      BY <1>1 DEF Leaving, ReaderFailed, Leave, ReaderStops, Finish, ReaderFails, ReadEnds,
                  WaitTimesOut, Fail, Stop, Shutdown, Others, Failing, Stopping
    <2> QED BY <2>1, SameFatal
  <1>2. ASSUME NEW size \in Size, NEW priority \in BOOLEAN, Answer(size, priority)
        PROVE  FatalInv'
    <2> DEFINE f == [kind |-> "answer", size |-> size, request |-> held]
    <2>1. held \in Request
      BY <1>2 DEF Answer, AccountInv, HandsInv, HandsAreKnown
    <2>2. f \in Message /\ f.kind # "fatal"
      BY <2>1, NewFrames
    <2>3. /\ EnqueueBytes(f, priority) /\ UNCHANGED <<writer, writing, stopping>>
          /\ failure' = failure \/ (failure = "none" /\ failure' = "queueing")
      BY <1>2 DEF Answer, Failing
    <2> HIDE DEF f
    <2> QED BY <2>2, <2>3, EnqueueOther
  <1>3. ASSUME NEW r \in Request, NEW size \in Size, Receive(r, size)
        PROVE  FatalInv'
    <2> DEFINE f == [kind |-> "frame", size |-> size, request |-> NoRequest]
    <2>1. f \in Message /\ f.kind # "fatal"
      BY NewFrames
    <2>2. CASE r \notin requests
      <3>1. UNCHANGED <<out, writing, writer, failure, stopping>>
        BY <1>3, <2>2 DEF Receive
      <3> QED BY <3>1, SameFatal
    <2>3. CASE r \in requests
      <3>1. /\ EnqueueBytes(f, TRUE) /\ UNCHANGED <<writer, writing, stopping>>
            /\ failure' = failure \/ (failure = "none" /\ failure' = "queueing")
        BY <1>3, <2>3 DEF Receive, Failing
      <3> HIDE DEF f
      <3> QED BY <2>1, <3>1, EnqueueOther
    <2> QED BY <2>2, <2>3
  <1>4. ASSUME NEW size \in Size, NEW kind \in {"frame", "stream"}, NEW priority \in BOOLEAN,
               Send(kind, size, priority)
        PROVE  FatalInv'
    <2> DEFINE f == [kind |-> kind, size |-> size, request |-> NoRequest]
    <2>1. f \in Message /\ f.kind # "fatal"
      BY NewFrames, SizeAssumption DEF Message, Fit
    <2>2. /\ EnqueueBytes(f, priority) /\ UNCHANGED <<writer, writing, stopping>>
          /\ failure' = failure \/ (failure = "none" /\ failure' = "queueing")
      BY <1>4 DEF Send, Failing
    <2> HIDE DEF f
    <2> QED BY <2>1, <2>2, EnqueueOther
  <1> QED BY <1>1, <1>2, <1>3, <1>4 DEF Handle

LEMMA FatalStep == AccountInv /\ FatalInv /\ [Next]_vars => FatalInv'
  <1>1. FatalInv /\ UNCHANGED vars => FatalInv'
    BY SameFatal DEF vars
  <1> QED BY <1>1, FailureKeepsFatal, WritingKeepsFatal, OthersKeepFatal DEF Next

LEMMA InitFatal == Init => FatalInv
  BY DEF Init, FatalInv, FatalIsKnown, FatalIsUnderway, FatalAtTheEnd, Queued, NoMessage

\* FATAL is the last frame a connection queues and the last it writes, and a
\* connection that has failed has it queued, is writing it or is stopped,
\* whichever goroutines fail it, stop it and queue frames at the same time.
THEOREM FatalIsLast == Spec => []FatalComesLast
  <1>1. AccountInv /\ FatalInv /\ [Next]_vars => (AccountInv /\ FatalInv)'
    BY AccountStep, FatalStep
  <1> QED BY <1>1, InitAccount, InitFatal, FatalPart, PTL DEF Spec

----------------------------------------------------------------------------
\* Requests are answered once

\* One if it is, and nothing otherwise.
One(b) == IF b THEN 1 ELSE 0

\* A step in which every request keeps its answers.
LEMMA SameAnswers ==
    ASSUME RequestsAreAnsweredOnce,
           failure' = "none" /\ stopping' = "none" =>
             /\ failure = "none" /\ stopping = "none" /\ requests' = requests
             /\ \A r \in Request : AnswersTo(r)' = AnswersTo(r)
    PROVE  RequestsAreAnsweredOnce'
  BY DEF RequestsAreAnsweredOnce

\* Where the answers of a request can be, before and after a step.
LEMMA WhereAnswersAre ==
    ASSUME NEW r
    PROVE  /\ AnswersTo(r) = Weight(out.frames, AnswerTo(r))
                               + One(writing.request = r) + One(held = r)
           /\ AnswersTo(r)' = Weight(out'.frames, AnswerTo(r))
                                + One(writing'.request = r) + One(held' = r)
  BY DEF AnswersTo, AnswerTo, One

\* A frame without a request, or one that is refused, changes no answers.
LEMMA EnqueueAnswers ==
    ASSUME AccountInv, NEW f \in Message, Fit(f), f.request = NoRequest,
           NEW priority \in BOOLEAN, EnqueueBytes(f, priority),
           UNCHANGED <<writing, held, requests, stopping>>,
           failure' = failure \/ (failure = "none" /\ failure' = "queueing"),
           RequestsAreAnsweredOnce
    PROVE  RequestsAreAnsweredOnce'
  <1>1. ASSUME NEW r \in Request
        PROVE  Weight(out'.frames, AnswerTo(r)) = Weight(out.frames, AnswerTo(r))
    <2>1. f.request # r
      BY SizeAssumption
    <2>2. CASE Fits(priority, f)
      <3>1. Weight(out'.frames, AnswerTo(r)) =
              Weight(out.frames, AnswerTo(r)) + (IF f.request = r THEN 1 ELSE 0)
        BY <2>2, InvParts, EnqueueEffect DEF FramesFit
      <3>2. Weight(out.frames, AnswerTo(r)) \in Nat
        BY TheWeights, WeightType DEF AccountInv, QueueInv, Accounted, Queue
      <3> QED BY <2>1, <3>1, <3>2
    <2>3. CASE ~Fits(priority, f)
      <3>1. Less(out, out')
        BY <2>3, InvParts, EnqueueEffect DEF FramesFit
      <3> QED BY <3>1 DEF Less
    <2> QED BY <2>2, <2>3
  <1>2. \A r \in Request : AnswersTo(r)' = AnswersTo(r)
    BY <1>1, WhereAnswersAre
  <1> QED BY <1>2, SameAnswers

\* A new request has no answer yet; another is refused.
LEMMA ReceiveAnswers ==
    ASSUME AccountInv, RequestsAreAnsweredOnce, NEW r \in Request, NEW size \in Size,
           Receive(r, size)
    PROVE  RequestsAreAnsweredOnce'
  <1> DEFINE f == [kind |-> "frame", size |-> size, request |-> NoRequest]
  <1>1. f \in Message /\ Fit(f) /\ f.request = NoRequest
    BY NewFrames
  <1>2. CASE r \in requests
    <2>1. /\ EnqueueBytes(f, TRUE) /\ UNCHANGED <<writing, held, requests, stopping>>
          /\ failure' = failure \/ (failure = "none" /\ failure' = "queueing")
      BY <1>2 DEF Receive, Failing
    <2> HIDE DEF f
    <2> QED BY <1>1, <2>1, EnqueueAnswers
  <1>3. CASE r \notin requests
    <2>1. /\ UNCHANGED <<out, writing, failure, stopping>> /\ held' = r
          /\ requests' = requests \cup {r} /\ reader = "reading"
      BY <1>3 DEF Receive
    <2>2. held = NoRequest /\ out.frames \in Seq(Message)
      BY <2>1 DEF AccountInv, HandsInv, HandsAreKnown, QueueInv, Accounted, Queue
    <2>3. ASSUME NEW q \in Request, failure = "none", stopping = "none"
          PROVE  AnswersTo(q)' = One(q \in requests')
      <3> DEFINE n == Weight(out.frames, AnswerTo(q))
      <3>1. n \in Nat
        BY <2>2, TheWeights, WeightType
      <3>2. held # q
        BY <2>2, SizeAssumption
      <3>3. AnswersTo(q) = n + One(writing.request = q) + One(held = q)
            /\ AnswersTo(q)' = n + One(writing.request = q) + One(r = q)
        BY <2>1, WhereAnswersAre
      <3>4. AnswersTo(q) = One(q \in requests)
        BY <2>3 DEF RequestsAreAnsweredOnce, One
      <3> HIDE DEF n
      <3>5. CASE q = r
        BY <1>3, <2>1, <3>1, <3>2, <3>3, <3>4, <3>5 DEF One
      <3>6. CASE q # r
        BY <2>1, <3>1, <3>2, <3>3, <3>4, <3>6 DEF One
      <3> QED BY <3>5, <3>6
    <2> QED BY <2>1, <2>3 DEF RequestsAreAnsweredOnce, One
  <1> QED BY <1>2, <1>3

\* The answer of a handler goes from the handler to the queue, or the
\* connection fails.
LEMMA AnswerAnswers ==
    ASSUME AccountInv, RequestsAreAnsweredOnce, NEW size \in Size, NEW priority \in BOOLEAN,
           Answer(size, priority)
    PROVE  RequestsAreAnsweredOnce'
  <1> DEFINE f == [kind |-> "answer", size |-> size, request |-> held]
  <1>1. held \in Request /\ out.frames \in Seq(Message) /\ NoRequest \notin Request
    BY SizeAssumption DEF Answer, AccountInv, HandsInv, HandsAreKnown, QueueInv, Accounted, Queue
  <1>2. f \in Message /\ Fit(f) /\ f.request = held
    BY <1>1, NewFrames
  <1>3. EnqueueBytes(f, priority) /\ UNCHANGED <<writing, requests, stopping>>
    BY DEF Answer
  <1>4. CASE ~Fits(priority, f)
    <2>1. failure' # "none"
      BY <1>4 DEF Answer, Failing
    <2> QED BY <2>1 DEF RequestsAreAnsweredOnce
  <1>5. CASE Fits(priority, f)
    <2>1. held' = NoRequest /\ failure' = failure
      BY <1>5 DEF Answer
    <2> HIDE DEF f
    <2>2. ASSUME NEW q \in Request PROVE AnswersTo(q)' = AnswersTo(q)
      <3> DEFINE n == Weight(out.frames, AnswerTo(q))
                 k == Weight(out'.frames, AnswerTo(q))
      <3>1. n \in Nat
        BY <1>1, TheWeights, WeightType
      <3>2. k = n + One(held = q)
        BY <1>2, <1>3, <1>5, InvParts, EnqueueEffect DEF FramesFit, One
      <3>3. AnswersTo(q) = n + One(writing.request = q) + One(held = q)
            /\ AnswersTo(q)' = k + One(writing.request = q) + One(held' = q)
        BY <1>3, WhereAnswersAre
      <3>4. One(held' = q) = 0
        BY <1>1, <2>1 DEF One
      <3>5. One(writing.request = q) \in Nat /\ One(held = q) \in Nat
        BY DEF One
      <3> HIDE DEF n, k
      <3> QED BY <3>1, <3>2, <3>3, <3>4, <3>5
    <2> QED BY <1>3, <2>1, <2>2, SameAnswers
  <1> QED BY <1>4, <1>5

\* The write loop takes an answer from the queue, and writing it frees its
\* request.
LEMMA WritingAnswers ==
    ASSUME AccountInv, RequestsAreAnsweredOnce, Writing \/ StopEmpties
    PROVE  RequestsAreAnsweredOnce'
  <1>0. /\ out \in Queue /\ out.frames \in Seq(Message) /\ NoRequest \notin Request
        /\ writer \in {"looking", "parked"} => writing = NoMessage
        /\ NoMessage.request = NoRequest
    BY SizeAssumption DEF AccountInv, QueueInv, Accounted, Queue, HandsInv, HandsAreKnown,
                          NoMessage
  <1>1. CASE Look
    <2>1. CASE out.frames # <<>>
      <3> DEFINE m == Head(out.frames)
                 tail == Tail(out.frames)
                 after == [out EXCEPT !.frames = Tail(@), !.bytes = @ - m.size]
      <3>1. after.frames = tail /\ m \in Message /\ tail \in Seq(Message)
        BY <1>0, <2>1 DEF Queue
      <3>2. /\ out' = after /\ writing' = m /\ writing = NoMessage
            /\ UNCHANGED <<held, requests, failure, stopping>>
        BY <1>0, <1>1, <2>1 DEF Look
      <3>3. ASSUME NEW q \in Request PROVE AnswersTo(q)' = AnswersTo(q)
        <4> DEFINE n == Weight(out.frames, AnswerTo(q))
                   k == Weight(tail, AnswerTo(q))
        <4>1. n \in Nat /\ k \in Nat
          BY <1>0, <3>1, TheWeights, WeightType
        <4>2. n = k + One(m.request = q)
          <5>1. n = k + AnswerTo(q)[m]
            BY <1>0, <2>1, TheWeights, WeightOfTail
          <5>2. AnswerTo(q)[m] = One(m.request = q)
            BY <3>1 DEF AnswerTo, One
          <5> QED BY <5>1, <5>2
        <4> HIDE DEF m, tail, after
        <4>3. AnswersTo(q) = n + One(writing.request = q) + One(held = q)
              /\ AnswersTo(q)' = k + One(m.request = q) + One(held = q)
          BY <3>1, <3>2, WhereAnswersAre
        <4>4. One(writing.request = q) = 0
          BY <1>0, <3>2 DEF One
        <4>5. One(m.request = q) \in Nat /\ One(held = q) \in Nat
          BY DEF One
        <4> HIDE DEF n, k
        <4> QED BY <4>1, <4>2, <4>3, <4>4, <4>5
      <3> QED BY <3>2, <3>3, SameAnswers
    <2>2. CASE out.frames = <<>>
      <3>1. UNCHANGED <<out, writing, held, requests, failure, stopping>>
        BY <1>1, <2>2 DEF Look
      <3> QED BY <3>1, WhereAnswersAre, SameAnswers
    <2> QED BY <2>1, <2>2
  <1>2. CASE Wake
    <2>1. /\ UNCHANGED <<writing, held, requests, failure, stopping>>
          /\ out' = out \/ out' = [out EXCEPT !.wake = FALSE]
      BY <1>2 DEF Wake
    <2>2. out'.frames = out.frames
      BY <1>0, <2>1 DEF Queue
    <2> QED BY <2>1, <2>2, WhereAnswersAre, SameAnswers
  <1>3. CASE Write
    <2>1. UNCHANGED <<out, writing, held, requests, failure, stopping>>
      BY <1>3 DEF Write
    <2> QED BY <2>1, WhereAnswersAre, SameAnswers
  <1>4. CASE Written
    <2>1. /\ UNCHANGED <<out, held, failure, stopping>> /\ writing' = NoMessage
          /\ requests' = requests \ {writing.request}
      BY <1>4 DEF Written
    <2>2. ASSUME NEW q \in Request, failure = "none", stopping = "none"
          PROVE  AnswersTo(q)' = One(q \in requests')
      <3> DEFINE n == Weight(out.frames, AnswerTo(q))
      <3>1. n \in Nat
        BY <1>0, TheWeights, WeightType
      <3>2. One(writing'.request = q) = 0
        BY <1>0, <2>1 DEF One
      <3>3. AnswersTo(q) = n + One(writing.request = q) + One(held = q)
            /\ AnswersTo(q)' = n + One(writing'.request = q) + One(held = q)
        BY <2>1, WhereAnswersAre
      <3>4. AnswersTo(q) = One(q \in requests)
        BY <2>2 DEF RequestsAreAnsweredOnce, One
      <3> HIDE DEF n
      <3>5. CASE q = writing.request
        BY <2>1, <3>1, <3>2, <3>3, <3>4, <3>5 DEF One
      <3>6. CASE q # writing.request
        BY <2>1, <3>1, <3>2, <3>3, <3>4, <3>6 DEF One
      <3> QED BY <3>5, <3>6
    <2> QED BY <2>1, <2>2 DEF RequestsAreAnsweredOnce, One
  <1>5. CASE WriterStops
    <2>1. /\ UNCHANGED <<out, writing, held, requests, failure>>
          /\ stopping' = stopping \/ stopping' # "none"
      BY <1>5 DEF WriterStops, Stopping
    <2> QED BY <2>1, WhereAnswersAre, SameAnswers
  <1>6. CASE StopEmpties
    BY <1>6 DEF StopEmpties, RequestsAreAnsweredOnce
  <1> QED BY <1>1, <1>2, <1>3, <1>4, <1>5, <1>6 DEF Writing

LEMMA AnswersStep == AccountInv /\ RequestsAreAnsweredOnce /\ [Next]_vars
                       => RequestsAreAnsweredOnce'
  <1> SUFFICES ASSUME AccountInv, RequestsAreAnsweredOnce, [Next]_vars
               PROVE  RequestsAreAnsweredOnce'
    OBVIOUS
  <1>1. CASE UNCHANGED vars
    BY <1>1, WhereAnswersAre, SameAnswers DEF vars
  <1>2. CASE Failure
    BY <1>2 DEF Failure, FailQueues, FailReplaces, FailStops, RequestsAreAnsweredOnce
  <1>3. CASE Leaving \/ ReaderFails \/ ReadEnds \/ WaitTimesOut \/ Fail \/ Stop
             \/ Shutdown \/ Others
    <2>1. /\ UNCHANGED <<out, writing, held, requests>>
          /\ stopping' = stopping \/ stopping' # "none"
          /\ failure' = failure \/ failure' # "none"
      BY <1>3 DEF Leaving, ReaderFailed, Leave, ReaderStops, Finish, ReaderFails, ReadEnds,
                  WaitTimesOut, Fail, Stop, Shutdown, Others, Failing, Stopping
    <2> QED BY <2>1, WhereAnswersAre, SameAnswers
  <1>4. ASSUME NEW size \in Size, NEW kind \in {"frame", "stream"}, NEW priority \in BOOLEAN,
               Send(kind, size, priority)
        PROVE  RequestsAreAnsweredOnce'
    <2> DEFINE f == [kind |-> kind, size |-> size, request |-> NoRequest]
    <2>1. f \in Message /\ Fit(f) /\ f.request = NoRequest
      BY NewFrames, SizeAssumption DEF Message, Fit
    <2>2. /\ EnqueueBytes(f, priority) /\ UNCHANGED <<writing, held, requests, stopping>>
          /\ failure' = failure \/ (failure = "none" /\ failure' = "queueing")
      BY <1>4 DEF Send, Failing
    <2> HIDE DEF f
    <2> QED BY <2>1, <2>2, EnqueueAnswers
  <1> QED BY <1>1, <1>2, <1>3, <1>4, ReceiveAnswers, AnswerAnswers, WritingAnswers
          DEF Next, Handle

LEMMA InitAnswers == Init => RequestsAreAnsweredOnce
  <1> SUFFICES ASSUME Init, NEW r \in Request PROVE AnswersTo(r) = 0
    BY DEF Init, RequestsAreAnsweredOnce
  <1>1. Weight(out.frames, AnswerTo(r)) = 0
    BY TheWeights, WeightOfNone DEF Init
  <1>2. writing.request # r /\ held # r
    BY SizeAssumption DEF Init, NoMessage
  <1> QED BY <1>1, <1>2, WhereAnswersAre DEF One

\* Until the connection fails or stops, every request identifier in use is with
\* its handler or has exactly one answer queued or being written, and no other
\* identifier has one, whatever the queue evicts or refuses and however
\* duplicates of a request arrive.
THEOREM RequestsAnswered == Spec => []RequestsAreAnsweredOnce
  <1>1. AccountInv /\ RequestsAreAnsweredOnce /\ [Next]_vars
          => (AccountInv /\ RequestsAreAnsweredOnce)'
    BY AccountStep, AnswersStep
  <1> QED BY <1>1, InitAccount, InitAnswers, PTL DEF Spec

==============================================================================

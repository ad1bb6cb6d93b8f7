-------------------------- MODULE ChatStore_proofs --------------------------
(***************************************************************************)
(* Proofs about ChatStore, for any tabs, questions, sessions, limit,       *)
(* chunks and reloads.                                                     *)
(***************************************************************************)
EXTENDS ChatStore, SequenceTheorems, FiniteSetTheorems, WellFoundedInduction, TLAPS

-----------------------------------------------------------------------------
(* Numbers.  Every set of natural numbers has a least element; what fails  *)
(* for some number fails for a least one.                                  *)
LEMMA Least ==
  ASSUME NEW S \in SUBSET Nat, S # {} PROVE \E x \in S : \A y \in S : x <= y
<1>1. PICK x \in S : \A y \in S : ~(<<y, x>> \in OpToRel(<, Nat))
  BY NatLessThanWellFounded, WFMin
<1>2. \A y \in S : ~(y < x)
  BY <1>1 DEF OpToRel
<1> QED
  BY <1>2

(* And one that is bounded has a greatest element.                         *)
LEMMA Greatest ==
  ASSUME NEW S \in SUBSET Nat, S # {}, NEW b \in Nat, \A x \in S : x <= b
  PROVE  \E x \in S : \A y \in S : y <= x
<1> DEFINE D == {b - x : x \in S}
<1>0. \A x \in S : x \in Nat /\ b - x \in Nat
  OBVIOUS
<1>1. D \in SUBSET Nat /\ D # {}
  BY <1>0
<1>2. PICK d \in D : \A e \in D : d <= e
  BY <1>1, Least
<1>3. PICK x \in S : d = b - x
  OBVIOUS
<1>4. \A y \in S : b - x <= b - y
  BY <1>2, <1>3
<1> QED
  BY <1>0, <1>4

(* The numbers of a sequence are bounded.                                  *)
LEMMA Bounded ==
  ASSUME NEW n \in Nat, NEW f \in [1..n -> Nat]
  PROVE  \E b \in Nat : \A i \in 1..n : f[i] <= b
<1> DEFINE B(k) == \E b \in Nat : \A i \in 1..k : f[i] <= b
           Bad == {k \in 0..n : ~B(k)}
<1> HIDE DEF B
<1>1. ASSUME Bad # {} PROVE FALSE
  <2>0. Bad \in SUBSET Nat
    OBVIOUS
  <2>1. PICK k \in Bad : \A j \in Bad : k <= j
    BY <1>1, <2>0, Least
  <2>2. B(0)
    <3>1. \A i \in 1..0 : f[i] <= 0
      OBVIOUS
    <3> QED
      BY <3>1 DEF B
  <2>3. k \in 1..n /\ k - 1 \in 0..n /\ B(k - 1)
    <3>1. k \in 0..n /\ k # 0
      BY <2>1, <2>2
    <3>2. k - 1 \in 0..n /\ ~(k <= k - 1)
      BY <3>1
    <3> QED
      BY <2>1, <3>1, <3>2
  <2>4. PICK b \in Nat : \A i \in 1..(k - 1) : f[i] <= b
    BY <2>3 DEF B
  <2>5. B(k)
    <3> DEFINE c == IF b < f[k] THEN f[k] ELSE b
    <3>1. c \in Nat /\ \A i \in 1..k : f[i] <= c
      BY <2>3, <2>4
    <3> QED
      BY <3>1 DEF B
  <2> QED
    BY <2>1, <2>5
<1>2. B(n)
  BY <1>1
<1> QED
  BY <1>2 DEF B

-----------------------------------------------------------------------------
(* Sequences of turns.                                                     *)

(* Changing the elements of a sequence keeps its length.                   *)
LEMMA Mapped ==
  ASSUME NEW S, NEW T, NEW s \in Seq(S), NEW f \in [DOMAIN s -> T]
  PROVE  f \in Seq(T) /\ Len(f) = Len(s) /\ DOMAIN f = DOMAIN s
<1>1. DOMAIN s = 1..Len(s) /\ Len(s) \in Nat
  OBVIOUS
<1>2. f \in Seq(T)
  BY <1>1, SeqDef
<1>3. DOMAIN f = 1..Len(f) /\ Len(f) \in Nat
  BY <1>2
<1> QED
  BY <1>1, <1>2, <1>3

(* MaxId bounds the numbers of the turns and is one of them, or zero.      *)
LEMMA MaxIdBounds ==
  ASSUME NEW ts \in Seq(Turn)
  PROVE  MaxId(ts) \in Nat /\ \A i \in DOMAIN ts : ts[i].id <= MaxId(ts)
<1>0. DOMAIN ts = 1..Len(ts) /\ Len(ts) \in Nat /\ \A i \in DOMAIN ts : ts[i] \in Turn
  OBVIOUS
<1>1. DOMAIN ts = 1..Len(ts) /\ Len(ts) \in Nat /\ \A i \in DOMAIN ts : ts[i].id \in Nat
  BY <1>0 DEF Turn
<1> DEFINE f == [i \in 1..Len(ts) |-> ts[i].id]
<1>2. f \in [1..Len(ts) -> Nat]
  BY <1>1
<1>3. PICK b \in Nat : \A i \in 1..Len(ts) : f[i] <= b
  BY <1>1, <1>2, Bounded
<1>4. Ids(ts) \subseteq Nat /\ \A m \in Ids(ts) : m <= b
  BY <1>1, <1>3 DEF Ids
<1>5. PICK n \in {0} \cup Ids(ts) : \A m \in {0} \cup Ids(ts) : m <= n
  <2> DEFINE all == {0} \cup Ids(ts)
  <2>1. all \in SUBSET Nat /\ all # {} /\ \A m \in all : m <= b
    BY <1>4
  <2> HIDE DEF all
  <2>2. \E n \in all : \A m \in all : m <= n
    BY <2>1, Greatest
  <2> QED
    BY <2>2 DEF all
<1>6. MaxId(ts) \in {0} \cup Ids(ts) /\ \A m \in Ids(ts) : m <= MaxId(ts)
  BY <1>5 DEF MaxId
<1> QED
  BY <1>1, <1>4, <1>6 DEF Ids

-----------------------------------------------------------------------------
(* Saved sessions.                                                         *)

(* One step of the filter in saveSession and deleteSession.                *)
Kept(sv, s, g, n) ==
  IF n = 0 THEN <<>>
  ELSE IF sv[n].id = s THEN g[n - 1] ELSE Append(g[n - 1], sv[n])

(* The filter of the saved sessions is defined: one of its stages follows  *)
(* from the one before.                                                    *)
LEMMA FilterExists ==
  ASSUME NEW sv, NEW s, NEW len \in Nat
  PROVE  \E g : g = [n \in 0..len |-> Kept(sv, s, g, n)]
<1> DEFINE E(k) == \E g : g = [n \in 0..k |-> Kept(sv, s, g, n)]
           Bad == {k \in 0..len : ~E(k)}
<1> HIDE DEF E
<1>1. ASSUME Bad # {} PROVE FALSE
  <2>0. Bad \in SUBSET Nat
    OBVIOUS
  <2>1. PICK k \in Bad : \A j \in Bad : k <= j
    BY <1>1, <2>0, Least
  <2>2. E(0)
    <3> DEFINE g == [n \in 0..0 |-> <<>>]
    <3>1. g = [n \in 0..0 |-> Kept(sv, s, g, n)]
      BY DEF Kept
    <3> QED
      BY <3>1 DEF E
  <2>3. k \in 1..len /\ E(k - 1)
    <3>1. k \in 0..len /\ k # 0
      BY <2>1, <2>2
    <3>2. k - 1 \in 0..len /\ ~(k <= k - 1)
      BY <3>1
    <3> QED
      BY <2>1, <3>1, <3>2
  <2>4. PICK g : g = [n \in 0..(k - 1) |-> Kept(sv, s, g, n)]
    BY <2>3 DEF E
  <2>5. E(k)
    <3> DEFINE h == [n \in 0..k |-> IF n = k THEN Kept(sv, s, g, k) ELSE g[n]]
    <3>1. \A n \in 0..(k - 1) : h[n] = g[n] /\ n # k
      BY <2>3
    <3>2. ASSUME NEW n \in 0..k PROVE h[n] = Kept(sv, s, h, n)
      <4>1. CASE n = 0
        <5>1. 0 \in 0..(k - 1) /\ h[0] = g[0]
          BY <2>3, <3>1
        <5>2. g[0] = Kept(sv, s, g, 0)
          BY <2>4, <5>1
        <5> QED
          BY <4>1, <5>1, <5>2 DEF Kept
      <4>2. CASE n # 0
        <5>1. n - 1 \in 0..(k - 1) /\ h[n - 1] = g[n - 1]
          BY <2>3, <3>1, <4>2
        <5>2. h[n] = Kept(sv, s, g, n)
          BY <2>3, <2>4
        <5> QED
          BY <4>2, <5>1, <5>2 DEF Kept
      <4> QED
        BY <4>1, <4>2
    <3>3. h = [n \in 0..k |-> h[n]]
      OBVIOUS
    <3> HIDE DEF h
    <3>4. h = [n \in 0..k |-> Kept(sv, s, h, n)]
      BY <3>2, <3>3
    <3> QED
      BY <3>4 DEF E
  <2> QED
    BY <2>1, <2>5
<1>2. E(len)
  BY <1>1
<1> QED
  BY <1>2 DEF E

(* Others is the last stage of that filter.                                *)
LEMMA OthersFunction ==
  ASSUME saved \in Seq(SavedSession), NEW s
  PROVE  \E g : g = [n \in 0..Len(saved) |-> Kept(saved, s, g, n)] /\ Others(s) = g[Len(saved)]
<1> DEFINE P(g) == g = [n \in 0..Len(saved) |->
                         IF n = 0 THEN <<>>
                         ELSE IF saved[n].id = s THEN g[n - 1] ELSE Append(g[n - 1], saved[n])]
<1>1. \E g : P(g)
  <2>1. Len(saved) \in Nat
    OBVIOUS
  <2>2. \E g : g = [n \in 0..Len(saved) |-> Kept(saved, s, g, n)]
    BY <2>1, FilterExists
  <2> QED
    BY <2>2 DEF Kept
<1>2. P(CHOOSE g : P(g))
  BY <1>1
<1>3. Others(s) = (CHOOSE g : P(g))[Len(saved)]
  BY DEF Others
<1> QED
  BY <1>2, <1>3 DEF Kept

(* Session ids occur once.                                                 *)
OnePerId(sv) == \A i, j \in DOMAIN sv : sv[i].id = sv[j].id => i = j

(* What is left are the saved sessions with another id, each once.         *)
LEMMA OthersKeeps ==
  ASSUME saved \in Seq(SavedSession), OnePerId(saved), NEW s
  PROVE  /\ Others(s) \in Seq(SavedSession) /\ OnePerId(Others(s))
         /\ \A i \in DOMAIN Others(s) :
              Others(s)[i].id # s /\ \E k \in DOMAIN saved : Others(s)[i] = saved[k]
<1>1. PICK g : g = [n \in 0..Len(saved) |-> Kept(saved, s, g, n)] /\ Others(s) = g[Len(saved)]
  BY OthersFunction
<1>2. /\ DOMAIN saved = 1..Len(saved) /\ Len(saved) \in Nat
      /\ \A k \in DOMAIN saved : saved[k] \in SavedSession
  OBVIOUS
<1> DEFINE From(sq, n) == /\ sq \in Seq(SavedSession) /\ OnePerId(sq)
                          /\ \A i \in DOMAIN sq :
                               sq[i].id # s /\ \E k \in 1..n : sq[i] = saved[k]
           Bad == {n \in 0..Len(saved) : ~From(g[n], n)}
<1> HIDE DEF From
<1>3. ASSUME Bad # {} PROVE FALSE
  <2>0. Bad \in SUBSET Nat
    BY <1>2
  <2>1. PICK n \in Bad : \A j \in Bad : n <= j
    BY <1>3, <2>0, Least
  <2>2. \A m \in 0..Len(saved) : g[m] = Kept(saved, s, g, m)
    BY <1>1
  <2>3. From(<<>>, 0)
    BY DEF From, OnePerId
  <2>4. n # 0
    <3>1. g[0] = <<>>
      BY <1>2, <2>2 DEF Kept
    <3> QED
      BY <2>1, <2>3, <3>1
  <2>5. n \in 1..Len(saved) /\ From(g[n - 1], n - 1)
    <3>1. n \in 1..Len(saved) /\ n - 1 \in 0..Len(saved) /\ ~(n <= n - 1)
      BY <1>2, <2>1, <2>4
    <3> QED
      BY <2>1, <3>1
  <2>6. From(g[n], n)
    <3>1. g[n] = IF saved[n].id = s THEN g[n - 1] ELSE Append(g[n - 1], saved[n])
      BY <2>2, <2>5 DEF Kept
    <3> DEFINE old == g[n - 1]
    <3>2. /\ old \in Seq(SavedSession) /\ OnePerId(old)
          /\ \A i \in DOMAIN old : old[i].id # s /\ \E k \in 1..(n - 1) : old[i] = saved[k]
      BY <2>5 DEF From
    <3> HIDE DEF old
    <3>3. CASE saved[n].id = s
      BY <2>5, <3>1, <3>2, <3>3 DEF From, old
    <3>4. CASE saved[n].id # s
      <4> DEFINE new == Append(old, saved[n])
      <4>1. saved[n] \in SavedSession /\ n \in DOMAIN saved
        BY <1>2, <2>5
      <4>2. /\ new \in Seq(SavedSession) /\ DOMAIN new = 1..(Len(old) + 1) /\ Len(old) \in Nat
            /\ DOMAIN old = 1..Len(old)
            /\ \A i \in DOMAIN old : new[i] = old[i]
            /\ new[Len(old) + 1] = saved[n]
        BY <3>2, <4>1
      <4> HIDE DEF new
      <4>3. \A i \in DOMAIN old : old[i].id # saved[n].id
        <5>1. ASSUME NEW i \in DOMAIN old PROVE old[i].id # saved[n].id
          <6>1. PICK k \in 1..(n - 1) : old[i] = saved[k]
            BY <3>2
          <6>2. k \in DOMAIN saved /\ k # n
            BY <1>2, <2>5
          <6> QED
            BY <4>1, <6>1, <6>2 DEF OnePerId
        <5> QED
          BY <5>1
      <4>4. OnePerId(new)
        <5>1. ASSUME NEW i \in DOMAIN new, NEW j \in DOMAIN new, new[i].id = new[j].id
              PROVE  i = j
          <6>1. i \in DOMAIN old \/ i = Len(old) + 1
            BY <4>2
          <6>2. j \in DOMAIN old \/ j = Len(old) + 1
            BY <4>2
          <6> QED
            BY <3>2, <4>2, <4>3, <5>1, <6>1, <6>2 DEF OnePerId
        <5> QED
          BY <5>1 DEF OnePerId
      <4>5. ASSUME NEW i \in DOMAIN new
            PROVE  new[i].id # s /\ \E k \in 1..n : new[i] = saved[k]
        <5>1. CASE i \in DOMAIN old
          <6>1. PICK k \in 1..(n - 1) : old[i] = saved[k]
            BY <3>2, <5>1
          <6> QED
            BY <2>5, <3>2, <4>2, <5>1, <6>1
        <5>2. CASE i = Len(old) + 1
          BY <2>5, <3>4, <4>2, <5>2
        <5> QED
          BY <4>2, <5>1, <5>2
      <4>6. g[n] = new
        BY <3>1, <3>4 DEF new, old
      <4> QED
        BY <4>2, <4>4, <4>5, <4>6 DEF From
    <3> QED
      BY <3>3, <3>4
  <2> QED
    BY <2>1, <2>6
<1>4. From(g[Len(saved)], Len(saved))
  BY <1>2, <1>3
<1> QED
  BY <1>1, <1>2, <1>4 DEF From

(* saveSession leaves the session in front and some of the others.         *)
LEMMA SavedKeeps ==
  ASSUME saved \in Seq(SavedSession), OnePerId(saved), NEW s \in Sessions, NEW ts \in Seq(Turn)
  PROVE  /\ Saved(s, ts) \in Seq(SavedSession) /\ OnePerId(Saved(s, ts))
         /\ \A i \in DOMAIN Saved(s, ts) :
              \/ Saved(s, ts)[i] = [id |-> s, turns |-> ts]
              \/ Saved(s, ts)[i].id # s /\ \E k \in DOMAIN saved : Saved(s, ts)[i] = saved[k]
<1> DEFINE first == [id |-> s, turns |-> ts]
           all == <<first>> \o Others(s)
<1>1. first \in SavedSession
  BY DEF SavedSession
<1>2. Others(s) \in Seq(SavedSession)
  BY OthersKeeps
<1> DEFINE m == Len(Others(s))
<1>3. /\ all \in Seq(SavedSession) /\ m \in Nat /\ DOMAIN Others(s) = 1..m
      /\ Len(all) = m + 1 /\ all[1] = first
      /\ \A i \in 2..(m + 1) : all[i] = Others(s)[i - 1]
  BY <1>1, <1>2
<1> DEFINE n == IF Len(all) < Limit THEN Len(all) ELSE Limit
<1>4. n \in 1..(m + 1)
  BY <1>3, ChatAssumption
<1> HIDE DEF first, all, m
<1>5. Saved(s, ts) = SubSeq(all, 1, n)
  BY DEF Saved, all, first
<1> HIDE DEF n
<1>6. /\ SubSeq(all, 1, n) \in Seq(SavedSession) /\ DOMAIN SubSeq(all, 1, n) = 1..n
      /\ \A i \in 1..n : SubSeq(all, 1, n)[i] = all[i]
  BY <1>3, <1>4
<1>7. ASSUME NEW i \in 2..(m + 1)
      PROVE  all[i].id # s /\ \E k \in DOMAIN saved : all[i] = saved[k]
  <2>1. i - 1 \in DOMAIN Others(s)
    BY <1>3
  <2> QED
    BY <1>3, <2>1, OthersKeeps
<1>8. ASSUME NEW i \in 1..(m + 1), NEW j \in 1..(m + 1), all[i].id = all[j].id
      PROVE  i = j
  <2>1. CASE i = 1 \/ j = 1
    <3>1. all[1].id = s
      BY <1>3 DEF first
    <3> QED
      BY <1>3, <1>7, <1>8, <2>1, <3>1
  <2>2. CASE i # 1 /\ j # 1
    <3>1. i \in 2..(m + 1) /\ j \in 2..(m + 1) /\ i - 1 \in DOMAIN Others(s) /\ j - 1 \in DOMAIN Others(s)
      BY <1>3, <2>2
    <3>2. Others(s)[i - 1].id = Others(s)[j - 1].id
      BY <1>3, <1>8, <3>1
    <3>3. i - 1 = j - 1
      BY <3>1, <3>2, OthersKeeps DEF OnePerId
    <3> QED
      BY <1>3, <3>3
  <2> QED
    BY <2>1, <2>2
<1>9. OnePerId(Saved(s, ts))
  BY <1>3, <1>4, <1>5, <1>6, <1>8 DEF OnePerId
<1>10. ASSUME NEW i \in 1..n
       PROVE  \/ all[i] = first
              \/ all[i].id # s /\ \E k \in DOMAIN saved : all[i] = saved[k]
  <2>1. i = 1 \/ i \in 2..(m + 1)
    BY <1>3, <1>4
  <2> QED
    BY <1>3, <1>7, <2>1
<1> QED
  BY <1>5, <1>6, <1>9, <1>10 DEF first

-----------------------------------------------------------------------------
(* What the operators on turns keep.                                       *)

(* The turns of b are those of a, whatever their status.                   *)
SameTurns(a, b) ==
  /\ Len(b) = Len(a) /\ DOMAIN b = DOMAIN a
  /\ \A i \in DOMAIN a :
       /\ b[i].id = a[i].id /\ b[i].query = a[i].query
       /\ b[i].answer = a[i].answer /\ b[i].citations = a[i].citations
       /\ b[i].tab = a[i].tab /\ b[i].life = a[i].life

(* Marked sets the status of the turns with one id.                        *)
LEMMA MarkedTurns ==
  ASSUME NEW ts \in Seq(Turn), NEW id, NEW st \in Status
  PROVE  /\ Marked(ts, id, st) \in Seq(Turn) /\ SameTurns(ts, Marked(ts, id, st))
         /\ \A i \in DOMAIN ts :
              Marked(ts, id, st)[i].status = IF ts[i].id = id THEN st ELSE ts[i].status
<1> DEFINE f == Marked(ts, id, st)
<1>1. \A i \in DOMAIN ts : ts[i] \in Turn
  OBVIOUS
<1>2. /\ DOMAIN f = DOMAIN ts
      /\ \A i \in DOMAIN ts : f[i] = IF ts[i].id = id THEN [ts[i] EXCEPT !.status = st] ELSE ts[i]
  BY DEF Marked
<1>3. ASSUME NEW i \in DOMAIN ts
      PROVE  /\ f[i] \in Turn
             /\ f[i].id = ts[i].id /\ f[i].query = ts[i].query
             /\ f[i].answer = ts[i].answer /\ f[i].citations = ts[i].citations
             /\ f[i].tab = ts[i].tab /\ f[i].life = ts[i].life
             /\ f[i].status = IF ts[i].id = id THEN st ELSE ts[i].status
  <2> HIDE DEF f
  <2> QED
    BY <1>1, <1>2 DEF Turn
<1>4. f \in [DOMAIN ts -> Turn]
  <2>1. f = [i \in DOMAIN ts |-> f[i]]
    BY DEF Marked
  <2> HIDE DEF f
  <2> QED
    BY <1>3, <2>1
<1>5. f \in Seq(Turn) /\ Len(f) = Len(ts)
  <2> HIDE DEF f
  <2> QED
    BY <1>4, Mapped
<1> HIDE DEF f
<1>6. SameTurns(ts, f)
  BY <1>2, <1>3, <1>5 DEF SameTurns
<1> QED
  BY <1>3, <1>5, <1>6 DEF f

(* Hydrated ends what was under way.                                       *)
LEMMA HydratedTurns ==
  ASSUME NEW ts \in Seq(Turn)
  PROVE  /\ Hydrated(ts) \in Seq(Turn) /\ SameTurns(ts, Hydrated(ts))
         /\ \A i \in DOMAIN ts : Hydrated(ts)[i].status # "streaming"
<1> DEFINE f == Hydrated(ts)
<1>1. \A i \in DOMAIN ts : ts[i] \in Turn
  OBVIOUS
<1>2. /\ DOMAIN f = DOMAIN ts
      /\ \A i \in DOMAIN ts : f[i] = IF ts[i].status = "streaming"
                                      THEN [ts[i] EXCEPT !.status = "done"] ELSE ts[i]
  BY DEF Hydrated
<1>3. ASSUME NEW i \in DOMAIN ts
      PROVE  /\ f[i] \in Turn
             /\ f[i].id = ts[i].id /\ f[i].query = ts[i].query
             /\ f[i].answer = ts[i].answer /\ f[i].citations = ts[i].citations
             /\ f[i].tab = ts[i].tab /\ f[i].life = ts[i].life
             /\ f[i].status # "streaming"
  <2> HIDE DEF f
  <2> QED
    BY <1>1, <1>2 DEF Turn, Status
<1>4. f \in [DOMAIN ts -> Turn]
  <2>1. f = [i \in DOMAIN ts |-> f[i]]
    BY DEF Hydrated
  <2> HIDE DEF f
  <2> QED
    BY <1>3, <2>1
<1>5. f \in Seq(Turn) /\ Len(f) = Len(ts)
  <2> HIDE DEF f
  <2> QED
    BY <1>4, Mapped
<1> HIDE DEF f
<1>6. SameTurns(ts, f)
  BY <1>2, <1>3, <1>5 DEF SameTurns
<1> QED
  BY <1>3, <1>5, <1>6 DEF f

(* b is a, but for the answers: to those with one id, a chunk is added.    *)
GrownTurns(a, b, from) ==
  /\ Len(b) = Len(a) /\ DOMAIN b = DOMAIN a
  /\ \A i \in DOMAIN a :
       /\ b[i].id = a[i].id /\ b[i].query = a[i].query
       /\ b[i].citations = a[i].citations /\ b[i].status = a[i].status
       /\ b[i].tab = a[i].tab /\ b[i].life = a[i].life
       /\ b[i].answer = IF a[i].id = from.id THEN Append(a[i].answer, from.query)
                                             ELSE a[i].answer

(* Received adds a chunk to the turns with the id of the stream.           *)
LEMMA ReceivedTurns ==
  ASSUME NEW ts \in Seq(Turn), NEW from, from.query \in Queries
  PROVE  Received(ts, from) \in Seq(Turn) /\ GrownTurns(ts, Received(ts, from), from)
<1> DEFINE f == Received(ts, from)
<1>1. \A i \in DOMAIN ts : ts[i] \in Turn
  OBVIOUS
<1>2. /\ DOMAIN f = DOMAIN ts
      /\ \A i \in DOMAIN ts :
           f[i] = IF ts[i].id = from.id
                  THEN [ts[i] EXCEPT !.answer = Append(ts[i].answer, from.query)] ELSE ts[i]
  BY DEF Received
<1>3. ASSUME NEW i \in DOMAIN ts
      PROVE  /\ f[i] \in Turn
             /\ f[i].id = ts[i].id /\ f[i].query = ts[i].query
             /\ f[i].citations = ts[i].citations /\ f[i].status = ts[i].status
             /\ f[i].tab = ts[i].tab /\ f[i].life = ts[i].life
             /\ f[i].answer = IF ts[i].id = from.id THEN Append(ts[i].answer, from.query)
                                                    ELSE ts[i].answer
  <2> DEFINE more == Append(ts[i].answer, from.query)
  <2>1. more \in Seq(Queries)
    BY <1>1 DEF Turn
  <2> HIDE DEF f
  <2>2. f[i] = IF ts[i].id = from.id THEN [ts[i] EXCEPT !.answer = more] ELSE ts[i]
    BY <1>2
  <2> HIDE DEF more
  <2>3. /\ f[i] \in Turn
        /\ f[i].id = ts[i].id /\ f[i].query = ts[i].query
        /\ f[i].citations = ts[i].citations /\ f[i].status = ts[i].status
        /\ f[i].tab = ts[i].tab /\ f[i].life = ts[i].life
        /\ f[i].answer = IF ts[i].id = from.id THEN more ELSE ts[i].answer
    BY <1>1, <2>1, <2>2 DEF Turn
  <2> QED
    BY <2>3 DEF more
<1>4. f \in [DOMAIN ts -> Turn]
  <2>1. f = [i \in DOMAIN ts |-> f[i]]
    BY DEF Received
  <2> HIDE DEF f
  <2> QED
    BY <1>3, <2>1
<1>5. f \in Seq(Turn) /\ Len(f) = Len(ts)
  <2> HIDE DEF f
  <2> QED
    BY <1>4, Mapped
<1> HIDE DEF f
<1>6. GrownTurns(ts, f, from)
  BY <1>2, <1>3, <1>5 DEF GrownTurns
<1> QED
  BY <1>5, <1>6 DEF f

(* b is a, but for the citations of the turns with one id.                 *)
CitedTurns(a, b, c) ==
  /\ Len(b) = Len(a) /\ DOMAIN b = DOMAIN a
  /\ \A i \in DOMAIN a :
       /\ b[i].id = a[i].id /\ b[i].query = a[i].query
       /\ b[i].answer = a[i].answer /\ b[i].status = a[i].status
       /\ b[i].tab = a[i].tab /\ b[i].life = a[i].life
       /\ b[i].citations = IF a[i].id = c.id THEN c.query ELSE a[i].citations

(* Citations as Answer(t) puts them in.                                    *)
WithCitations(ts, c) ==
  [i \in DOMAIN ts |-> IF ts[i].id = c.id THEN [ts[i] EXCEPT !.citations = c.query]
                                          ELSE ts[i]]

(* WithCitations sets the citations of the turns with one id.              *)
LEMMA WithCitationsTurns ==
  ASSUME NEW ts \in Seq(Turn), NEW c, c.query \in Queries
  PROVE  WithCitations(ts, c) \in Seq(Turn) /\ CitedTurns(ts, WithCitations(ts, c), c)
<1> DEFINE f == WithCitations(ts, c)
<1>1. \A i \in DOMAIN ts : ts[i] \in Turn
  OBVIOUS
<1>2. /\ DOMAIN f = DOMAIN ts
      /\ \A i \in DOMAIN ts :
           f[i] = IF ts[i].id = c.id THEN [ts[i] EXCEPT !.citations = c.query] ELSE ts[i]
  BY DEF WithCitations
<1>3. ASSUME NEW i \in DOMAIN ts
      PROVE  /\ f[i] \in Turn
             /\ f[i].id = ts[i].id /\ f[i].query = ts[i].query
             /\ f[i].answer = ts[i].answer /\ f[i].status = ts[i].status
             /\ f[i].tab = ts[i].tab /\ f[i].life = ts[i].life
             /\ f[i].citations = IF ts[i].id = c.id THEN c.query ELSE ts[i].citations
  <2> HIDE DEF f
  <2> QED
    BY <1>1, <1>2 DEF Turn
<1>4. f \in [DOMAIN ts -> Turn]
  <2>1. f = [i \in DOMAIN ts |-> f[i]]
    BY DEF WithCitations
  <2> HIDE DEF f
  <2> QED
    BY <1>3, <2>1
<1>5. f \in Seq(Turn) /\ Len(f) = Len(ts)
  <2> HIDE DEF f
  <2> QED
    BY <1>4, Mapped
<1> HIDE DEF f
<1>6. CitedTurns(ts, f, c)
  BY <1>2, <1>3, <1>5 DEF CitedTurns
<1> QED
  BY <1>5, <1>6 DEF f

-----------------------------------------------------------------------------
(* Types.                                                                  *)
ChatTyped ==
  /\ TypeOK
  /\ OnePerId(saved)
  /\ \A t \in Tabs : life[t] <= reloads

(* The types hold when the tabs are opened.                                *)
LEMMA ChatInitTyped == Init => ChatTyped
<1> SUFFICES ASSUME Init PROVE ChatTyped
  OBVIOUS
<1>1. <<>> \in Seq(Turn) /\ <<>> \in Seq(SavedSession) /\ 0 \in 0..MaxReloads /\ 0 \in 0..MaxChunks
  BY ChatAssumption
<1>2. TypeOK
  BY <1>1 DEF Init, TypeOK
<1> QED
  BY <1>2 DEF Init, ChatTyped, OnePerId

(* The variables of the tabs and the saved sessions, as the steps use them.*)
LEMMA TypedFacts ==
  ASSUME ChatTyped
  PROVE  /\ turns \in [Tabs -> Seq(Turn)] /\ session \in [Tabs -> Sessions \cup {NoSession}]
         /\ isStreaming \in [Tabs -> BOOLEAN] /\ stream \in [Tabs -> Source \cup {NoStream}]
         /\ counter \in [Tabs -> Nat] /\ cited \in [Tabs -> SUBSET Source]
         /\ listed \in [Tabs -> Seq(SavedSession)] /\ saved \in Seq(SavedSession)
         /\ owner \in [Queries -> Sessions \cup {NoSession}]
         /\ sent \in [Queries -> 0..MaxChunks] /\ finished \subseteq Queries
         /\ adopted \in BOOLEAN
         /\ visitors \in [Sessions -> SUBSET Tabs] /\ deleted \subseteq Sessions
         /\ life \in [Tabs -> 0..MaxReloads] /\ reloads \in 0..MaxReloads
         /\ OnePerId(saved)
BY DEF ChatTyped, TypeOK

(* A tab that reads a stream reads that of a question.                     *)
LEMMA StreamTyped ==
  ASSUME ChatTyped, NEW t \in Tabs, Streaming(t)
  PROVE  stream[t] \in Source /\ stream[t].query \in Queries
BY DEF ChatTyped, TypeOK, Streaming, Source

(* What one tab does leaves the others as they are, and leaves in its      *)
(* drawer what was there or what is saved now.                             *)
LEMMA OthersStay ==
  ASSUME ChatTyped, NEW t \in Tabs, TabStep(t), NEW u \in Tabs \ {t}
  PROVE  /\ turns'[u] = turns[u] /\ session'[u] = session[u]
         /\ isStreaming'[u] = isStreaming[u] /\ stream'[u] = stream[u]
         /\ counter'[u] = counter[u] /\ cited'[u] = cited[u] /\ listed'[u] = listed[u]
         /\ life'[u] = life[u]
<1>1. ASSUME NEW q \in Queries, Send(t, q)
      PROVE  /\ turns'[u] = turns[u] /\ session'[u] = session[u]
             /\ isStreaming'[u] = isStreaming[u] /\ stream'[u] = stream[u]
             /\ counter'[u] = counter[u] /\ cited'[u] = cited[u] /\ listed'[u] = listed[u]
             /\ life'[u] = life[u]
  BY <1>1, TypedFacts DEF Send, Shown
<1>2. CASE Chunk(t) \/ EndStream(t) \/ FailStream(t)
  BY <1>2, TypedFacts DEF Chunk, EndStream, FailStream, Shown, history
<1>3. CASE Answer(t) \/ Look(t) \/ Reload(t)
  BY <1>3, TypedFacts DEF Answer, Look, Reload, history
<1>4. CASE Stop(t) \/ NewChat(t)
  BY <1>4, TypedFacts DEF Stop, NewChat, Replace, Shown, history
<1>5. CASE SelectSession(t)
  BY <1>5, TypedFacts DEF SelectSession, Replace, Shown
<1>6. CASE DeleteSession(t)
  BY <1>6, TypedFacts DEF DeleteSession, Replace, Shown
<1> QED
  BY <1>1, <1>2, <1>3, <1>4, <1>5, <1>6 DEF TabStep

(* A step reads the drawer again, unless citations arrive for nothing.     *)
LEMMA DrawerRead ==
  ASSUME ChatTyped, NEW t \in Tabs, TabStep(t)
  PROVE  listed'[t] = saved' \/ (listed'[t] = listed[t] /\ saved' = saved /\ Answer(t))
<1>1. ASSUME NEW q \in Queries, Send(t, q) PROVE listed'[t] = saved'
  BY <1>1, TypedFacts DEF Send, Shown
<1>2. CASE Chunk(t) \/ EndStream(t) \/ FailStream(t)
  BY <1>2, TypedFacts DEF Chunk, EndStream, FailStream, Shown
<1>3. CASE Answer(t) \/ Look(t) \/ Reload(t)
  BY <1>3, TypedFacts DEF Answer, Look, Reload
<1>4. CASE Stop(t) \/ NewChat(t)
  BY <1>4, TypedFacts DEF Stop, NewChat, Shown
<1>5. CASE SelectSession(t) \/ DeleteSession(t)
  BY <1>5, TypedFacts DEF SelectSession, DeleteSession, Shown
<1> QED
  BY <1>1, <1>2, <1>3, <1>4, <1>5 DEF TabStep

(* Replace shows other turns, none of which is streamed afterwards.        *)
LEMMA ReplaceEffect ==
  ASSUME ChatTyped, NEW t \in Tabs, NEW ts \in Seq(Turn), NEW s \in Sessions \cup {NoSession},
         Replace(t, ts, s)
  PROVE  /\ turns' \in [Tabs -> Seq(Turn)] /\ session' \in [Tabs -> Sessions \cup {NoSession}]
         /\ isStreaming' \in [Tabs -> BOOLEAN] /\ stream' \in [Tabs -> Source \cup {NoStream}]
         /\ isStreaming'[t] = FALSE /\ stream'[t] = NoStream
         /\ SameTurns(ts, turns'[t])
         /\ \A i \in DOMAIN ts :
              turns'[t][i].status = IF Streaming(t) /\ ts[i].id = stream[t].id
                                    THEN "done" ELSE ts[i].status
<1> DEFINE new == IF Streaming(t) THEN Marked(ts, stream[t].id, "done") ELSE ts
<1>1. /\ new \in Seq(Turn) /\ SameTurns(ts, new)
      /\ \A i \in DOMAIN ts : new[i].status = IF Streaming(t) /\ ts[i].id = stream[t].id
                                              THEN "done" ELSE ts[i].status
  <2>1. CASE Streaming(t)
    BY <2>1, MarkedTurns DEF Status
  <2>2. CASE ~Streaming(t)
    BY <2>2 DEF SameTurns
  <2> QED
    BY <2>1, <2>2
<1>2. /\ turns' = [turns EXCEPT ![t] = new] /\ session' = [session EXCEPT ![t] = s]
      /\ isStreaming' = [isStreaming EXCEPT ![t] = FALSE]
      /\ stream' = [stream EXCEPT ![t] = NoStream]
  BY DEF Replace
<1> HIDE DEF new
<1> QED
  BY <1>1, <1>2, TypedFacts

(* What Replace puts on the screen, and in which session.                  *)
LEMMA ReplaceScreen ==
  ASSUME ChatTyped, NEW t \in Tabs, NEW ts \in Seq(Turn), NEW s \in Sessions \cup {NoSession},
         Replace(t, ts, s)
  PROVE  session'[t] = s /\ SameTurns(ts, turns'[t])
<1>1. session'[t] = s
  BY TypedFacts DEF Replace
<1>2. SameTurns(ts, turns'[t])
  BY ReplaceEffect
<1> QED
  BY <1>1, <1>2

(* The end of a stream marks its turn done and saves the conversation in   *)
(* front of the other sessions.                                            *)
LEMMA EndStreamEffect ==
  ASSUME ChatTyped, NEW t \in Tabs, EndStream(t)
  PROVE  /\ turns' \in [Tabs -> Seq(Turn)]
         /\ turns'[t] = Marked(turns[t], stream[t].id, "done")
         /\ SameTurns(turns[t], turns'[t])
         /\ \A i \in DOMAIN turns[t] :
              turns'[t][i].status = IF turns[t][i].id = stream[t].id
                                    THEN "done" ELSE turns[t][i].status
         /\ isStreaming'[t] = FALSE /\ stream'[t] = NoStream
         /\ saved' \in Seq(SavedSession) /\ OnePerId(saved')
         /\ \A m \in DOMAIN saved' :
              \/ /\ saved'[m] = [id |-> session[t], turns |-> turns'[t]]
                 /\ session[t] \in Sessions
              \/ /\ \E k \in DOMAIN saved : saved'[m] = saved[k]
                 /\ session[t] \in Sessions /\ turns[t] # <<>> => saved'[m].id # session[t]
<1>1. turns[t] \in Seq(Turn) /\ session[t] \in Sessions \cup {NoSession}
  BY TypedFacts
<1>2. /\ Marked(turns[t], stream[t].id, "done") \in Seq(Turn)
      /\ SameTurns(turns[t], Marked(turns[t], stream[t].id, "done"))
      /\ \A i \in DOMAIN turns[t] :
           Marked(turns[t], stream[t].id, "done")[i].status =
             IF turns[t][i].id = stream[t].id THEN "done" ELSE turns[t][i].status
  BY <1>1, MarkedTurns DEF Status
<1>3. /\ turns' = [turns EXCEPT ![t] = Marked(turns[t], stream[t].id, "done")]
      /\ Persist(t, turns'[t])
      /\ isStreaming' = [isStreaming EXCEPT ![t] = FALSE]
      /\ stream' = [stream EXCEPT ![t] = NoStream]
  BY DEF EndStream
<1>4. /\ turns' \in [Tabs -> Seq(Turn)] /\ turns'[t] = Marked(turns[t], stream[t].id, "done")
      /\ isStreaming'[t] = FALSE /\ stream'[t] = NoStream
  BY <1>2, <1>3, TypedFacts
<1>5. turns'[t] \in Seq(Turn) /\ (turns'[t] = <<>> <=> turns[t] = <<>>)
  BY <1>1, <1>2, <1>4 DEF SameTurns
<1>6. /\ saved' \in Seq(SavedSession) /\ OnePerId(saved')
      /\ \A m \in DOMAIN saved' :
           \/ /\ saved'[m] = [id |-> session[t], turns |-> turns'[t]]
              /\ session[t] \in Sessions
           \/ /\ \E k \in DOMAIN saved : saved'[m] = saved[k]
              /\ session[t] \in Sessions /\ turns[t] # <<>> => saved'[m].id # session[t]
  <2>1. CASE session[t] = NoSession \/ turns'[t] = <<>>
    <3>1. saved' = saved
      BY <1>3, <2>1 DEF Persist
    <3> QED
      BY <1>5, <2>1, <3>1, TypedFacts, ChatAssumption DEF OnePerId
  <2>2. CASE session[t] # NoSession /\ turns'[t] # <<>>
    <3>1. saved' = Saved(session[t], turns'[t]) /\ session[t] \in Sessions
      BY <1>1, <1>3, <2>2 DEF Persist
    <3>2. saved \in Seq(SavedSession) /\ OnePerId(saved)
      BY TypedFacts
    <3> DEFINE new == Saved(session[t], turns'[t])
    <3>3. /\ new \in Seq(SavedSession) /\ OnePerId(new)
          /\ \A m \in DOMAIN new :
               \/ new[m] = [id |-> session[t], turns |-> turns'[t]]
               \/ new[m].id # session[t] /\ \E k \in DOMAIN saved : new[m] = saved[k]
      BY <1>5, <3>1, <3>2, SavedKeeps
    <3>4. saved' = new
      BY <3>1
    <3> HIDE DEF new
    <3> QED
      BY <3>1, <3>3, <3>4 DEF OnePerId
  <2> QED
    BY <2>1, <2>2
<1> QED
  BY <1>2, <1>4, <1>6

(* A deletion leaves the other saved sessions.                             *)
LEMMA DeleteEffect ==
  ASSUME ChatTyped, NEW t \in Tabs, NEW k \in DOMAIN listed[t], saved' = Others(listed[t][k].id)
  PROVE  /\ saved' \in Seq(SavedSession) /\ OnePerId(saved')
         /\ \A m \in DOMAIN saved' :
              saved'[m].id # listed[t][k].id /\ \E j \in DOMAIN saved : saved'[m] = saved[j]
<1>1. saved \in Seq(SavedSession) /\ OnePerId(saved)
  BY TypedFacts
<1> QED
  BY <1>1, OthersKeeps DEF OnePerId

(* Every step keeps the types.                                             *)
LEMMA ChatNextTyped == ChatTyped /\ [Next]_vars => ChatTyped'
<1> SUFFICES ASSUME ChatTyped, [Next]_vars PROVE ChatTyped'
  OBVIOUS
<1> DEFINE Screens == /\ turns' \in [Tabs -> Seq(Turn)]
                      /\ session' \in [Tabs -> Sessions \cup {NoSession}]
                      /\ isStreaming' \in [Tabs -> BOOLEAN]
                      /\ stream' \in [Tabs -> Source \cup {NoStream}]
           Rest == /\ counter' \in [Tabs -> Nat] /\ cited' \in [Tabs -> SUBSET Source]
                   /\ life' \in [Tabs -> 0..MaxReloads] /\ reloads' \in 0..MaxReloads
                   /\ \A t \in Tabs : life'[t] <= reloads'
           Store == saved' \in Seq(SavedSession) /\ OnePerId(saved')
           Past == /\ owner' \in [Queries -> Sessions \cup {NoSession}]
                   /\ sent' \in [Queries -> 0..MaxChunks] /\ finished' \subseteq Queries
                   /\ adopted' \in BOOLEAN
                   /\ visitors' \in [Sessions -> SUBSET Tabs] /\ deleted' \subseteq Sessions
           Drawers == listed' \in [Tabs -> Seq(SavedSession)]
<1>a. ASSUME Screens, Rest, Store, Past, Drawers PROVE ChatTyped'
  BY <1>a DEF ChatTyped, TypeOK, OnePerId
<1>b. \A t \in Tabs : life[t] <= reloads /\ life[t] \in 0..MaxReloads
  BY TypedFacts DEF ChatTyped
<1>c. ASSUME UNCHANGED <<counter, life, reloads>>, cited' \in [Tabs -> SUBSET Source] PROVE Rest
  BY <1>b, <1>c, TypedFacts
<1>d. ASSUME UNCHANGED saved PROVE Store
  BY <1>d, TypedFacts DEF OnePerId
<1>e. ASSUME Store, NEW t \in Tabs, Shown(t) PROVE Drawers
  BY <1>e, TypedFacts DEF Shown
<1>f. ASSUME UNCHANGED history PROVE Past /\ UNCHANGED life
  BY <1>f, TypedFacts DEF history
<1>g. \A t \in Tabs : \A k \in DOMAIN listed[t] : listed[t][k] \in SavedSession
  BY TypedFacts
<1>h. \A t \in Tabs : \A k \in DOMAIN listed[t] :
        listed[t][k].id \in Sessions /\ listed[t][k].turns \in Seq(Turn)
  BY <1>g DEF SavedSession
<1>i. <<>> \in Seq(Turn)
  OBVIOUS
<1>1. CASE UNCHANGED vars
  BY <1>1, <1>a, <1>b, TypedFacts DEF vars, tabVars, history, OnePerId
<1>2. ASSUME NEW t \in Tabs, NEW q \in Queries, Send(t, q) PROVE ChatTyped'
  <2> DEFINE turn == NewTurn(t, q)
  <2>1. turn \in Turn /\ turn.id = counter[t] + 1 /\ counter[t] + 1 \in Nat \ {0}
    BY <1>2, TypedFacts, EmptySeq DEF NewTurn, Turn, Status
  <2>2. [query |-> q, id |-> turn.id] \in Source
    BY <2>1 DEF Source
  <2> HIDE DEF turn
  <2>3. Screens
    BY <1>2, <2>1, <2>2, TypedFacts DEF Send, turn
  <2>4. Rest
    BY <1>2, <1>b, <2>1, TypedFacts DEF Send, turn
  <2>5. Past
    BY <1>2, TypedFacts DEF Send, Visit
  <2> QED
    BY <1>2, <1>a, <1>d, <1>e, <2>3, <2>4, <2>5 DEF Send
<1>3. ASSUME NEW t \in Tabs, Chunk(t) PROVE ChatTyped'
  <2>1. stream[t].query \in Queries /\ turns[t] \in Seq(Turn)
    BY <1>3, StreamTyped, TypedFacts DEF Chunk
  <2>2. Received(turns[t], stream[t]) \in Seq(Turn)
    BY <2>1, ReceivedTurns
  <2>3. Screens
    BY <1>3, <2>2, TypedFacts DEF Chunk
  <2>4. Past
    BY <1>3, <2>1, TypedFacts, ChatAssumption DEF Chunk
  <2> QED
    BY <1>3, <1>a, <1>c, <1>d, <1>e, <2>3, <2>4, TypedFacts DEF Chunk
<1>4. ASSUME NEW t \in Tabs, EndStream(t) PROVE ChatTyped'
  <2>1. stream[t] \in Source /\ stream[t].query \in Queries
    BY <1>4, StreamTyped DEF EndStream
  <2>2. Screens /\ Store
    BY <1>4, EndStreamEffect, TypedFacts DEF EndStream
  <2>3. cited' \in [Tabs -> SUBSET Source]
    BY <1>4, <2>1, TypedFacts DEF EndStream
  <2>4. Past
    BY <1>4, <2>1, TypedFacts DEF EndStream
  <2> QED
    BY <1>4, <1>a, <1>c, <1>e, <2>2, <2>3, <2>4 DEF EndStream
<1>5. ASSUME NEW t \in Tabs, FailStream(t) PROVE ChatTyped'
  <2>1. turns[t] \in Seq(Turn)
    BY TypedFacts
  <2>2. Marked(turns[t], stream[t].id, "error") \in Seq(Turn)
    BY <2>1, MarkedTurns DEF Status
  <2>3. Screens
    BY <1>5, <2>2, TypedFacts DEF FailStream
  <2> QED
    BY <1>5, <1>a, <1>c, <1>d, <1>e, <1>f, <2>3, TypedFacts DEF FailStream
<1>6. ASSUME NEW t \in Tabs, Answer(t) PROVE ChatTyped'
  <2>1. PICK c \in cited[t] :
          /\ cited' = [cited EXCEPT ![t] = @ \ {c}]
          /\ \/ /\ turns' = [turns EXCEPT ![t] = WithCitations(turns[t], c)]
                /\ listed' = [listed EXCEPT ![t] = saved]
             \/ UNCHANGED <<turns, listed>>
          /\ UNCHANGED <<session, isStreaming, stream, counter, saved, history, reloads>>
    BY <1>6 DEF Answer, WithCitations
  <2>2. c.query \in Queries /\ turns[t] \in Seq(Turn)
    BY TypedFacts DEF Source
  <2>3. WithCitations(turns[t], c) \in Seq(Turn)
    BY <2>2, WithCitationsTurns
  <2>4. Screens /\ Drawers
    BY <2>1, <2>3, TypedFacts
  <2>5. cited' \in [Tabs -> SUBSET Source]
    BY <2>1, TypedFacts
  <2> QED
    BY <2>1, <2>4, <2>5, <1>a, <1>c, <1>d, <1>f
<1>7. ASSUME NEW t \in Tabs, Stop(t) PROVE ChatTyped'
  <2>1. turns[t] \in Seq(Turn) /\ session[t] \in Sessions \cup {NoSession}
    BY TypedFacts
  <2>2. Screens
    BY <1>7, <2>1, ReplaceEffect DEF Stop
  <2> QED
    BY <1>7, <1>a, <1>c, <1>d, <1>e, <1>f, <2>2, TypedFacts DEF Stop
<1>8. ASSUME NEW t \in Tabs, NewChat(t) PROVE ChatTyped'
  <2>1. Screens
    BY <1>8, <1>i, ReplaceEffect DEF NewChat
  <2> QED
    BY <1>8, <1>a, <1>c, <1>d, <1>e, <1>f, <2>1, TypedFacts DEF NewChat
<1>9. ASSUME NEW t \in Tabs, SelectSession(t) PROVE ChatTyped'
  <2>1. PICK k \in DOMAIN listed[t] :
          /\ Replace(t, listed[t][k].turns, listed[t][k].id)
          /\ adopted' = (adopted \/ \E i \in DOMAIN listed[t][k].turns :
               listed[t][k].turns[i].tab # t \/ listed[t][k].turns[i].life # life[t])
          /\ Visit(t, listed[t][k].id)
    BY <1>9 DEF SelectSession
  <2>2. Screens
    BY <1>h, <2>1, ReplaceEffect
  <2>3. Past
    BY <1>9, <2>1, TypedFacts DEF SelectSession, Visit
  <2> QED
    BY <1>9, <1>a, <1>c, <1>d, <1>e, <2>2, <2>3, TypedFacts DEF SelectSession
<1>10. ASSUME NEW t \in Tabs, DeleteSession(t) PROVE ChatTyped'
  <2>1. PICK k \in DOMAIN listed[t] :
          /\ saved' = Others(listed[t][k].id)
          /\ deleted' = deleted \cup {listed[t][k].id}
          /\ Visit(t, listed[t][k].id)
          /\ IF session[t] = listed[t][k].id
             THEN Replace(t, <<>>, NoSession)
             ELSE UNCHANGED <<turns, session, isStreaming, stream>>
    BY <1>10 DEF DeleteSession
  <2>2. Screens
    <3>1. CASE session[t] = listed[t][k].id
      BY <1>i, <2>1, <3>1, ReplaceEffect
    <3>2. CASE session[t] # listed[t][k].id
      BY <2>1, <3>2, TypedFacts
    <3> QED
      BY <3>1, <3>2
  <2>3. Store
    BY <2>1, DeleteEffect
  <2>4. Past
    BY <1>10, <1>h, <2>1, TypedFacts DEF DeleteSession, Visit
  <2> QED
    BY <1>10, <1>a, <1>c, <1>e, <2>2, <2>3, <2>4, TypedFacts DEF DeleteSession
<1>11. ASSUME NEW t \in Tabs, Look(t) PROVE ChatTyped'
  <2>1. Screens /\ Drawers
    BY <1>11, TypedFacts DEF Look
  <2> QED
    BY <1>11, <1>a, <1>c, <1>d, <1>f, <2>1, TypedFacts DEF Look
<1>12. ASSUME NEW t \in Tabs, Reload(t) PROVE ChatTyped'
  <2>1. turns[t] \in Seq(Turn)
    BY TypedFacts
  <2>2. Hydrated(turns[t]) \in Seq(Turn) /\ MaxId(turns[t]) \in Nat
    BY <2>1, HydratedTurns, MaxIdBounds
  <2>3. Screens /\ Drawers
    BY <1>12, <2>2, TypedFacts DEF Reload
  <2>4. reloads \in Nat /\ reloads' = reloads + 1 /\ reloads' \in 0..MaxReloads
    BY <1>12, TypedFacts, ChatAssumption DEF Reload
  <2>5. \A u \in Tabs : life'[u] = IF u = t THEN life[t] + 1 ELSE life[u]
    BY <1>12, TypedFacts DEF Reload
  <2>6. \A u \in Tabs : life'[u] \in 0..MaxReloads /\ life'[u] <= reloads'
    BY <1>b, <2>4, <2>5, ChatAssumption
  <2>7. Rest
    BY <1>12, <2>2, <2>4, <2>6, TypedFacts DEF Reload
  <2>8. Past
    BY <1>12, TypedFacts DEF Reload
  <2> QED
    BY <1>12, <1>a, <1>d, <2>3, <2>7, <2>8 DEF Reload
<1> QED
  BY <1>1, <1>2, <1>3, <1>4, <1>5, <1>6, <1>7, <1>8, <1>9, <1>10, <1>11, <1>12 DEF Next, TabStep

-----------------------------------------------------------------------------
(* Where what is saved and what the drawers show comes from.               *)
LEMMA SavedFrom ==
  ASSUME ChatTyped, NEW t \in Tabs, TabStep(t), NEW m \in DOMAIN saved'
  PROVE  \/ \E k \in DOMAIN saved : saved'[m] = saved[k]
         \/ /\ EndStream(t) /\ session[t] \in Sessions
            /\ saved'[m] = [id |-> session[t], turns |-> turns'[t]]
<1>1. CASE EndStream(t)
  BY <1>1, EndStreamEffect
<1>2. CASE DeleteSession(t)
  <2>1. PICK k \in DOMAIN listed[t] : saved' = Others(listed[t][k].id)
    BY <1>2 DEF DeleteSession
  <2> QED
    BY <2>1, DeleteEffect
<1>3. CASE saved' = saved
  BY <1>3
<1>4. EndStream(t) \/ DeleteSession(t) \/ saved' = saved
  BY DEF TabStep, Send, Chunk, FailStream, Answer, Stop, NewChat, SelectSession, Look, Reload
<1> QED
  BY <1>1, <1>2, <1>3, <1>4

(* A drawer shows what it showed, or what is saved now.                    *)
LEMMA ListedFrom ==
  ASSUME ChatTyped, NEW t \in Tabs, TabStep(t), NEW u \in Tabs
  PROVE  listed'[u] = listed[u] \/ listed'[u] = saved'
BY OthersStay, DrawerRead

-----------------------------------------------------------------------------
(* One stream at a time.                                                   *)
Settled(ts) == \A i \in DOMAIN ts : ts[i].status # "streaming"

(* The turn of the stream is the last one, and the only unfinished one.    *)
StreamInv(t) ==
  /\ isStreaming[t] <=> Streaming(t)
  /\ Streaming(t) =>
       /\ turns[t] # <<>>
       /\ turns[t][Len(turns[t])].query = stream[t].query
       /\ turns[t][Len(turns[t])].id = stream[t].id
       /\ turns[t][Len(turns[t])].status = "streaming"
  /\ \A i \in DOMAIN turns[t] :
       turns[t][i].status = "streaming" => Streaming(t) /\ i = Len(turns[t])

StreamsInv ==
  /\ \A t \in Tabs : StreamInv(t)
  /\ \A k \in DOMAIN saved : Settled(saved[k].turns)
  /\ \A t \in Tabs : \A k \in DOMAIN listed[t] : Settled(listed[t][k].turns)

(* A tab that shows settled turns and reads no stream.                     *)
LEMMA AtRestInv ==
  ASSUME NEW t \in Tabs, Settled(turns[t])', isStreaming'[t] = FALSE, stream'[t] = NoStream
  PROVE  StreamInv(t)'
BY DEF Settled, StreamInv, Streaming, NoStream

(* Replace leaves a tab at rest.                                           *)
LEMMA ReplaceRests ==
  ASSUME ChatTyped, NEW t \in Tabs, NEW ts \in Seq(Turn), NEW s \in Sessions \cup {NoSession},
         Replace(t, ts, s),
         \A i \in DOMAIN ts :
           ts[i].status = "streaming" => Streaming(t) /\ ts[i].id = stream[t].id
  PROVE  StreamInv(t)'
<1>1. /\ isStreaming'[t] = FALSE /\ stream'[t] = NoStream
      /\ SameTurns(ts, turns'[t])
      /\ \A i \in DOMAIN ts :
           turns'[t][i].status = IF Streaming(t) /\ ts[i].id = stream[t].id
                                 THEN "done" ELSE ts[i].status
  BY ReplaceEffect
<1>2. DOMAIN turns'[t] = DOMAIN ts
  BY <1>1 DEF SameTurns
<1>3. Settled(turns[t])'
  BY <1>1, <1>2 DEF Settled
<1> QED
  BY <1>1, <1>3, AtRestInv

(* Nothing is streamed when the tabs are opened.                           *)
LEMMA StreamsInitInv == Init => StreamsInv
BY DEF Init, StreamsInv, StreamInv, Streaming, Settled

(* Every step keeps the turn of a stream the last and only unfinished one. *)
LEMMA StreamsNextInv == ChatTyped /\ StreamsInv /\ [Next]_vars => StreamsInv'
<1> SUFFICES ASSUME ChatTyped, StreamsInv, [Next]_vars PROVE StreamsInv'
  OBVIOUS
<1>1. CASE UNCHANGED vars
  BY <1>1 DEF vars, tabVars, StreamsInv, StreamInv, Streaming
<1>2. ASSUME NEW t \in Tabs, TabStep(t) PROVE StreamsInv'
  <2>a. /\ turns \in [Tabs -> Seq(Turn)] /\ turns[t] \in Seq(Turn)
        /\ DOMAIN turns[t] = 1..Len(turns[t]) /\ Len(turns[t]) \in Nat
        /\ stream \in [Tabs -> Source \cup {NoStream}]
        /\ isStreaming \in [Tabs -> BOOLEAN]
    BY TypedFacts
  <2>b. StreamInv(t)
    BY DEF StreamsInv
  <2>c. \A i \in DOMAIN turns[t] :
          turns[t][i].status = "streaming" => Streaming(t) /\ turns[t][i].id = stream[t].id
    BY <2>b DEF StreamInv
  <2>d. ASSUME StreamInv(t)' PROVE StreamsInv'
    <3>1. \A u \in Tabs : StreamInv(u)'
      <4>1. ASSUME NEW u \in Tabs \ {t} PROVE StreamInv(u)'
        BY <1>2, OthersStay DEF StreamsInv, StreamInv, Streaming
      <4> QED
        BY <2>d, <4>1
    <3>2. EndStream(t) => Settled(turns[t])'
      <4>1. SUFFICES ASSUME EndStream(t) PROVE Settled(turns[t])'
        OBVIOUS
      <4>2. stream'[t] = NoStream
        BY <4>1, EndStreamEffect
      <4> QED
        BY <2>d, <4>2 DEF StreamInv, Streaming, Settled
    <3>3. \A m \in DOMAIN saved' : Settled(saved'[m].turns)
      BY <1>2, <3>2, SavedFrom DEF StreamsInv, Settled
    <3>4. \A u \in Tabs : \A k \in DOMAIN listed'[u] : Settled(listed'[u][k].turns)
      BY <1>2, <3>3, ListedFrom DEF StreamsInv
    <3> QED
      BY <3>1, <3>3, <3>4 DEF StreamsInv, Settled
  <2>1. ASSUME NEW q \in Queries, Send(t, q) PROVE StreamInv(t)'
    <3> DEFINE turn == NewTurn(t, q)
    <3>1. /\ turns'[t] = Append(turns[t], turn)
          /\ isStreaming'[t] = TRUE /\ stream'[t] = [query |-> q, id |-> turn.id]
      BY <2>1, <2>a DEF Send
    <3>2. turn.query = q /\ turn.status = "streaming" /\ turn \in Turn
      BY TypedFacts, EmptySeq DEF NewTurn, Turn, Status
    <3>3. stream'[t] # NoStream /\ stream'[t].query = q /\ stream'[t].id = turn.id
      BY <3>1, ChatAssumption DEF NoStream
    <3>4. ~Streaming(t)
      BY <2>1, <2>b DEF Send, StreamInv
    <3> HIDE DEF turn
    <3>5. /\ Len(turns'[t]) = Len(turns[t]) + 1 /\ DOMAIN turns'[t] = 1..(Len(turns[t]) + 1)
          /\ turns'[t][Len(turns[t]) + 1] = turn /\ turns'[t] # <<>>
          /\ \A i \in DOMAIN turns[t] : turns'[t][i] = turns[t][i]
      BY <2>a, <3>1, <3>2, AppendProperties
    <3> QED
      BY <2>a, <2>c, <3>1, <3>2, <3>3, <3>4, <3>5 DEF StreamInv, Streaming
  <2>2. ASSUME Chunk(t) PROVE StreamInv(t)'
    <3>1. /\ turns'[t] = Received(turns[t], stream[t]) /\ stream' = stream
          /\ isStreaming' = isStreaming /\ stream[t].query \in Queries
      BY <2>2, <2>a, StreamTyped DEF Chunk
    <3>2. GrownTurns(turns[t], turns'[t], stream[t])
      BY <2>a, <3>1, ReceivedTurns
    <3>3. turns'[t] \in Seq(Turn)
      BY <2>a, <3>1, ReceivedTurns
    <3> QED
      BY <2>a, <2>b, <3>1, <3>2, <3>3 DEF GrownTurns, StreamInv, Streaming
  <2>3. ASSUME EndStream(t) PROVE StreamInv(t)'
    <3>1. /\ isStreaming'[t] = FALSE /\ stream'[t] = NoStream /\ SameTurns(turns[t], turns'[t])
          /\ \A i \in DOMAIN turns[t] :
               turns'[t][i].status = IF turns[t][i].id = stream[t].id
                                     THEN "done" ELSE turns[t][i].status
      BY <2>3, EndStreamEffect
    <3>2. DOMAIN turns'[t] = DOMAIN turns[t]
      BY <3>1 DEF SameTurns
    <3>3. Settled(turns[t])'
      BY <2>c, <3>1, <3>2 DEF Settled
    <3> QED
      BY <3>1, <3>3, AtRestInv
  <2>4. ASSUME FailStream(t) PROVE StreamInv(t)'
    <3>1. /\ turns'[t] = Marked(turns[t], stream[t].id, "error")
          /\ isStreaming'[t] = FALSE /\ stream'[t] = NoStream
      BY <2>4, <2>a DEF FailStream
    <3>2. /\ SameTurns(turns[t], turns'[t])
          /\ \A i \in DOMAIN turns[t] :
               turns'[t][i].status = IF turns[t][i].id = stream[t].id
                                     THEN "error" ELSE turns[t][i].status
      <4>1. "error" \in Status
        BY DEF Status
      <4>2. /\ SameTurns(turns[t], Marked(turns[t], stream[t].id, "error"))
            /\ \A i \in DOMAIN turns[t] :
                 Marked(turns[t], stream[t].id, "error")[i].status =
                   IF turns[t][i].id = stream[t].id THEN "error" ELSE turns[t][i].status
        BY <2>a, <4>1, MarkedTurns
      <4> QED
        BY <3>1, <4>2
    <3>3. DOMAIN turns'[t] = DOMAIN turns[t]
      BY <3>2 DEF SameTurns
    <3>4. Settled(turns[t])'
      BY <2>c, <3>2, <3>3 DEF Settled
    <3> QED
      BY <3>1, <3>4, AtRestInv
  <2>5. ASSUME Answer(t) PROVE StreamInv(t)'
    <3>1. /\ stream' = stream /\ isStreaming' = isStreaming
          /\ turns' = turns \/ \E c \in cited[t] : turns'[t] = WithCitations(turns[t], c)
      BY <2>5, <2>a DEF Answer, WithCitations
    <3>2. CASE turns' = turns
      BY <2>b, <3>1, <3>2 DEF StreamInv, Streaming
    <3>3. ASSUME NEW c \in cited[t], turns'[t] = WithCitations(turns[t], c) PROVE StreamInv(t)'
      <4>1. c.query \in Queries
        BY TypedFacts DEF Source
      <4>2. CitedTurns(turns[t], turns'[t], c) /\ turns'[t] \in Seq(Turn)
        BY <2>a, <3>3, <4>1, WithCitationsTurns
      <4> QED
        BY <2>a, <2>b, <3>1, <4>2 DEF CitedTurns, StreamInv, Streaming
    <3> QED
      BY <3>1, <3>2, <3>3
  <2>6. ASSUME Stop(t) PROVE StreamInv(t)'
    BY <2>6, <2>a, <2>c, TypedFacts, ReplaceRests DEF Stop
  <2>7. ASSUME NewChat(t) PROVE StreamInv(t)'
    <3>1. <<>> \in Seq(Turn) /\ DOMAIN <<>> = {}
      OBVIOUS
    <3> QED
      BY <2>7, <3>1, ReplaceRests DEF NewChat
  <2>8. ASSUME SelectSession(t) PROVE StreamInv(t)'
    <3>1. PICK k \in DOMAIN listed[t] : Replace(t, listed[t][k].turns, listed[t][k].id)
      BY <2>8 DEF SelectSession
    <3>2. listed[t][k] \in SavedSession
      BY TypedFacts
    <3>3. listed[t][k].turns \in Seq(Turn) /\ listed[t][k].id \in Sessions
      BY <3>2 DEF SavedSession
    <3>4. Settled(listed[t][k].turns)
      BY DEF StreamsInv
    <3> QED
      BY <3>1, <3>3, <3>4, ReplaceRests DEF Settled
  <2>9. ASSUME DeleteSession(t) PROVE StreamInv(t)'
    <3>1. \/ Replace(t, <<>>, NoSession)
          \/ UNCHANGED <<turns, session, isStreaming, stream>>
      BY <2>9 DEF DeleteSession
    <3>2. <<>> \in Seq(Turn) /\ DOMAIN <<>> = {}
      OBVIOUS
    <3>3. CASE Replace(t, <<>>, NoSession)
      BY <3>2, <3>3, ReplaceRests
    <3>4. CASE UNCHANGED <<turns, session, isStreaming, stream>>
      BY <2>b, <3>4 DEF StreamInv, Streaming
    <3> QED
      BY <3>1, <3>3, <3>4
  <2>10. ASSUME Look(t) PROVE StreamInv(t)'
    BY <2>10, <2>b DEF Look, StreamInv, Streaming
  <2>11. ASSUME Reload(t) PROVE StreamInv(t)'
    <3>1. turns'[t] = Hydrated(turns[t]) /\ isStreaming'[t] = FALSE /\ stream'[t] = NoStream
      BY <2>11, <2>a DEF Reload
    <3>2. Settled(turns[t])'
      BY <2>a, <3>1, HydratedTurns DEF Settled, SameTurns
    <3> QED
      BY <3>1, <3>2, AtRestInv
  <2> QED
    BY <1>2, <2>d, <2>1, <2>2, <2>3, <2>4, <2>5, <2>6, <2>7, <2>8, <2>9, <2>10, <2>11 DEF TabStep
<1> QED
  BY <1>1, <1>2 DEF Next

-----------------------------------------------------------------------------
(* Where the turns on a screen come from.                                  *)
SameQueries(a, b) ==
  /\ Len(b) = Len(a) /\ DOMAIN b = DOMAIN a
  /\ \A i \in DOMAIN a : b[i].query = a[i].query

(* A screen shows the questions it showed, one more, those of a session of *)
(* the drawer, or none.                                                    *)
LEMMA ScreenFrom ==
  ASSUME ChatTyped, NEW t \in Tabs, TabStep(t)
  PROVE  \/ \E q \in Queries : Send(t, q)
         \/ SameQueries(turns[t], turns'[t]) /\ session'[t] = session[t]
         \/ \E k \in DOMAIN listed[t] :
              /\ SelectSession(t) /\ Visit(t, listed[t][k].id)
              /\ SameQueries(listed[t][k].turns, turns'[t]) /\ session'[t] = listed[t][k].id
         \/ turns'[t] = <<>> /\ session'[t] = NoSession
<1>a. /\ turns \in [Tabs -> Seq(Turn)] /\ turns[t] \in Seq(Turn)
      /\ session[t] \in Sessions \cup {NoSession} /\ session \in [Tabs -> Sessions \cup {NoSession}]
  BY TypedFacts
<1>b. ASSUME NEW a, NEW b, SameTurns(a, b) PROVE SameQueries(a, b)
  BY <1>b DEF SameTurns, SameQueries
<1>1. ASSUME Chunk(t) PROVE SameQueries(turns[t], turns'[t]) /\ session'[t] = session[t]
  <2>1. /\ turns'[t] = Received(turns[t], stream[t]) /\ session' = session
        /\ stream[t].query \in Queries
    BY <1>1, <1>a, StreamTyped DEF Chunk
  <2>2. GrownTurns(turns[t], turns'[t], stream[t])
    BY <1>a, <2>1, ReceivedTurns
  <2> QED
    BY <2>1, <2>2 DEF GrownTurns, SameQueries
<1>2. ASSUME EndStream(t) PROVE SameQueries(turns[t], turns'[t]) /\ session'[t] = session[t]
  BY <1>2, <1>b, EndStreamEffect DEF EndStream
<1>3. ASSUME FailStream(t) PROVE SameQueries(turns[t], turns'[t]) /\ session'[t] = session[t]
  <2>1. turns'[t] = Marked(turns[t], stream[t].id, "error") /\ session' = session
    BY <1>3, <1>a DEF FailStream
  <2> QED
    BY <1>a, <1>b, <2>1, MarkedTurns DEF Status
<1>4. ASSUME Answer(t) PROVE SameQueries(turns[t], turns'[t]) /\ session'[t] = session[t]
  <2>1. /\ session' = session
        /\ turns' = turns \/ \E c \in cited[t] : turns'[t] = WithCitations(turns[t], c)
    BY <1>4, <1>a DEF Answer, WithCitations
  <2>2. ASSUME NEW c \in cited[t], turns'[t] = WithCitations(turns[t], c)
        PROVE  SameQueries(turns[t], turns'[t])
    <3>1. c.query \in Queries
      BY TypedFacts DEF Source
    <3>2. CitedTurns(turns[t], turns'[t], c)
      BY <1>a, <2>2, <3>1, WithCitationsTurns
    <3> QED
      BY <3>2 DEF CitedTurns, SameQueries
  <2> QED
    BY <2>1, <2>2 DEF SameQueries
<1>5. ASSUME Stop(t) PROVE SameQueries(turns[t], turns'[t]) /\ session'[t] = session[t]
  <2>1. Replace(t, turns[t], session[t])
    BY <1>5 DEF Stop
  <2>2. SameTurns(turns[t], turns'[t]) /\ session'[t] = session[t]
    BY <1>a, <2>1, ReplaceScreen
  <2> QED
    BY <1>b, <2>2
<1>6. ASSUME NEW s \in Sessions \cup {NoSession}, Replace(t, <<>>, s)
      PROVE  turns'[t] = <<>> /\ session'[t] = s
  <2>1. <<>> \in Seq(Turn) /\ DOMAIN <<>> = {}
    OBVIOUS
  <2>2. SameTurns(<<>>, turns'[t]) /\ session'[t] = s
    BY <1>6, <2>1, ReplaceScreen
  <2>3. turns' \in [Tabs -> Seq(Turn)]
    BY <1>6, <2>1, ReplaceEffect
  <2> QED
    BY <2>2, <2>3 DEF SameTurns
<1>7. ASSUME SelectSession(t)
      PROVE  \E k \in DOMAIN listed[t] :
               /\ SelectSession(t) /\ Visit(t, listed[t][k].id)
               /\ SameQueries(listed[t][k].turns, turns'[t]) /\ session'[t] = listed[t][k].id
  <2>1. PICK k \in DOMAIN listed[t] :
          Replace(t, listed[t][k].turns, listed[t][k].id) /\ Visit(t, listed[t][k].id)
    BY <1>7 DEF SelectSession
  <2>2. listed[t][k] \in SavedSession
    BY TypedFacts
  <2>3. listed[t][k].turns \in Seq(Turn) /\ listed[t][k].id \in Sessions
    BY <2>2 DEF SavedSession
  <2>4. SameTurns(listed[t][k].turns, turns'[t]) /\ session'[t] = listed[t][k].id
    BY <2>1, <2>3, ReplaceScreen
  <2> QED
    BY <1>7, <1>b, <2>1, <2>4
<1>8. ASSUME DeleteSession(t)
      PROVE  \/ SameQueries(turns[t], turns'[t]) /\ session'[t] = session[t]
             \/ turns'[t] = <<>> /\ session'[t] = NoSession
  BY <1>8, <1>6 DEF DeleteSession, SameQueries
<1>9. ASSUME NewChat(t) PROVE turns'[t] = <<>> /\ session'[t] = NoSession
  BY <1>9, <1>6 DEF NewChat
<1>10. ASSUME Look(t) PROVE SameQueries(turns[t], turns'[t]) /\ session'[t] = session[t]
  BY <1>10 DEF Look, SameQueries
<1>11. ASSUME Reload(t) PROVE SameQueries(turns[t], turns'[t]) /\ session'[t] = session[t]
  <2>1. turns'[t] = Hydrated(turns[t]) /\ session' = session
    BY <1>11, <1>a DEF Reload
  <2> QED
    BY <1>a, <1>b, <2>1, HydratedTurns
<1> QED
  BY <1>1, <1>2, <1>3, <1>4, <1>5, <1>7, <1>8, <1>9, <1>10, <1>11 DEF TabStep

(* What Send does to the screen of its tab and to the sessions.            *)
LEMMA SendEffect ==
  ASSUME ChatTyped, NEW t \in Tabs, NEW q \in Queries, Send(t, q)
  PROVE  /\ NewTurn(t, q) \in Turn
         /\ turns'[t] \in Seq(Turn) /\ Len(turns'[t]) = Len(turns[t]) + 1
         /\ DOMAIN turns[t] = 1..Len(turns[t]) /\ Len(turns[t]) \in Nat
         /\ DOMAIN turns'[t] = 1..(Len(turns[t]) + 1)
         /\ \A i \in DOMAIN turns[t] : turns'[t][i] = turns[t][i]
         /\ turns'[t][Len(turns[t]) + 1] = NewTurn(t, q)
         /\ owner[q] = NoSession /\ owner'[q] = session'[t] /\ session'[t] \in Sessions
         /\ \A p \in Queries \ {q} : owner'[p] = owner[p]
         /\ \/ session[t] \in Sessions /\ session'[t] = session[t]
            \/ session[t] = NoSession /\ visitors[session'[t]] = {}
<1>1. NewTurn(t, q) \in Turn
  BY TypedFacts, EmptySeq DEF NewTurn, Turn, Status
<1>2. turns[t] \in Seq(Turn) /\ turns'[t] = Append(turns[t], NewTurn(t, q))
  BY TypedFacts DEF Send
<1>3. /\ turns'[t] \in Seq(Turn) /\ Len(turns'[t]) = Len(turns[t]) + 1
      /\ DOMAIN turns[t] = 1..Len(turns[t]) /\ Len(turns[t]) \in Nat
      /\ \A i \in DOMAIN turns[t] : turns'[t][i] = turns[t][i]
      /\ turns'[t][Len(turns[t]) + 1] = NewTurn(t, q)
  BY <1>1, <1>2, AppendProperties
<1>4. DOMAIN turns'[t] = 1..(Len(turns[t]) + 1)
  BY <1>3
<1>5. PICK s \in IF session[t] = NoSession THEN {x \in Sessions : visitors[x] = {}}
                                           ELSE {session[t]} :
        session' = [session EXCEPT ![t] = s] /\ owner' = [owner EXCEPT ![q] = s]
  BY DEF Send
<1>6. s \in Sessions /\ session'[t] = s /\ owner'[q] = s
      /\ \A p \in Queries \ {q} : owner'[p] = owner[p]
  BY <1>5, TypedFacts
<1>7. \/ session[t] \in Sessions /\ s = session[t]
      \/ session[t] = NoSession /\ visitors[s] = {}
  BY <1>5, TypedFacts
<1> QED
  BY <1>1, <1>3, <1>4, <1>6, <1>7 DEF Send

(* A question that was asked in a session stays there.                     *)
LEMMA OwnerKept ==
  ASSUME ChatTyped, NEW t \in Tabs, TabStep(t), NEW q \in Queries, owner[q] # NoSession
  PROVE  owner'[q] = owner[q]
<1>1. ASSUME NEW p \in Queries, Send(t, p) PROVE owner'[q] = owner[q]
  BY <1>1, SendEffect
<1>2. (\E p \in Queries : Send(t, p)) \/ owner' = owner
  BY DEF TabStep, Chunk, EndStream, FailStream, Answer, Stop, NewChat, SelectSession,
         DeleteSession, Look, Reload, history
<1> QED
  BY <1>1, <1>2

-----------------------------------------------------------------------------
(* Turns stand where their question was asked.                             *)
FiledUnder(ts, s) == \A i \in DOMAIN ts : owner[ts[i].query] = s

FiledInv ==
  /\ \A t \in Tabs : FiledUnder(turns[t], session[t]) /\ (turns[t] # <<>> => session[t] # NoSession)
  /\ \A k \in DOMAIN saved : FiledUnder(saved[k].turns, saved[k].id)
  /\ \A t \in Tabs : \A k \in DOMAIN listed[t] : FiledUnder(listed[t][k].turns, listed[t][k].id)

(* No turn stands anywhere when the tabs are opened.                       *)
LEMMA FiledInitInv == Init => FiledInv
BY DEF Init, FiledInv, FiledUnder

(* A question that was asked keeps its session.                            *)
LEMMA FiledStays ==
  ASSUME ChatTyped, NEW t \in Tabs, TabStep(t),
         NEW a \in Seq(Turn), NEW b, SameQueries(a, b), NEW s \in Sessions, FiledUnder(a, s)
  PROVE  FiledUnder(b, s)'
<1>1. ASSUME NEW i \in DOMAIN a PROVE owner'[a[i].query] = s
  <2>1. a[i] \in Turn
    OBVIOUS
  <2>2. a[i].query \in Queries
    BY <2>1 DEF Turn
  <2> QED
    BY <2>2, OwnerKept, ChatAssumption DEF FiledUnder
<1> QED
  BY <1>1 DEF FiledUnder, SameQueries

(* Every step keeps the turns in the session of their question.            *)
LEMMA FiledNextInv == ChatTyped /\ FiledInv /\ [Next]_vars => FiledInv'
<1> SUFFICES ASSUME ChatTyped, FiledInv, [Next]_vars PROVE FiledInv'
  OBVIOUS
<1>1. CASE UNCHANGED vars
  BY <1>1 DEF vars, tabVars, history, FiledInv, FiledUnder
<1>2. ASSUME NEW t \in Tabs, TabStep(t) PROVE FiledInv'
  <2>a. \A u \in Tabs : turns[u] \in Seq(Turn) /\ session[u] \in Sessions \cup {NoSession}
    BY TypedFacts
  <2>b. \A u \in Tabs : \A k \in DOMAIN listed[u] :
          listed[u][k].turns \in Seq(Turn) /\ listed[u][k].id \in Sessions
    <3>1. \A u \in Tabs : \A k \in DOMAIN listed[u] : listed[u][k] \in SavedSession
      BY TypedFacts
    <3> QED
      BY <3>1 DEF SavedSession
  <2>c. \A k \in DOMAIN saved : saved[k].turns \in Seq(Turn) /\ saved[k].id \in Sessions
    <3>1. \A k \in DOMAIN saved : saved[k] \in SavedSession
      BY TypedFacts
    <3> QED
      BY <3>1 DEF SavedSession
  <2>d. ASSUME NEW a \in Seq(Turn), NEW s \in Sessions, FiledUnder(a, s) PROVE FiledUnder(a, s)'
    <3>1. SameQueries(a, a)
      BY DEF SameQueries
    <3> QED
      BY <1>2, <2>d, <3>1, FiledStays
  <2> DEFINE Right(u) == FiledUnder(turns[u], session[u]) /\ (turns[u] # <<>> => session[u] # NoSession)
  <2>1. ASSUME NEW u \in Tabs, NEW a \in Seq(Turn), SameQueries(a, turns'[u]),
               NEW s \in Sessions, FiledUnder(a, s), session'[u] = s
        PROVE  Right(u)'
    <3>1. FiledUnder(a, s)'
      BY <2>1, <2>d
    <3> QED
      BY <2>1, <3>1, ChatAssumption DEF FiledUnder, SameQueries
  <2>2. ASSUME NEW u \in Tabs, SameQueries(turns[u], turns'[u]), session'[u] = session[u],
               turns'[u] \in Seq(Turn)
        PROVE  Right(u)'
    <3>1. CASE turns[u] # <<>>
      <4>1. session[u] \in Sessions /\ FiledUnder(turns[u], session[u])
        BY <2>a, <3>1 DEF FiledInv
      <4> QED
        BY <2>a, <2>1, <2>2, <4>1
    <3>2. CASE turns[u] = <<>>
      <4>1. turns'[u] = <<>>
        BY <2>2, <3>2 DEF SameQueries
      <4> QED
        BY <4>1 DEF FiledUnder
    <3> QED
      BY <3>1, <3>2
  <2>3. Right(t)'
    <3>0. turns'[t] \in Seq(Turn)
      BY ChatNextTyped DEF ChatTyped, TypeOK
    <3>1. ASSUME NEW q \in Queries, Send(t, q) PROVE Right(t)'
      <4>1. ASSUME NEW i \in DOMAIN turns'[t] PROVE owner'[turns'[t][i].query] = session'[t]
        <5>1. CASE i = Len(turns[t]) + 1
          <6>1. turns'[t][i] = NewTurn(t, q) /\ owner'[q] = session'[t]
            BY <3>1, <5>1, SendEffect
          <6> QED
            BY <6>1 DEF NewTurn
        <5>2. CASE i \in DOMAIN turns[t]
          <6>1. session[t] \in Sessions /\ FiledUnder(turns[t], session[t])
            BY <2>a, <5>2 DEF FiledInv
          <6>2. ASSUME NEW a, NEW s, a = turns[t], s = session[t]
                PROVE  owner'[a[i].query] = s
            BY <2>a, <2>d, <5>2, <6>1, <6>2 DEF FiledUnder
          <6>3. turns'[t][i] = turns[t][i] /\ session'[t] = session[t]
            BY <3>1, <5>2, <6>1, SendEffect, ChatAssumption
          <6> QED
            BY <6>2, <6>3
        <5> QED
          BY <3>1, <4>1, <5>1, <5>2, SendEffect
      <4> QED
        BY <3>1, <4>1, SendEffect, ChatAssumption DEF FiledUnder
    <3>2. ASSUME SameQueries(turns[t], turns'[t]), session'[t] = session[t] PROVE Right(t)'
      BY <2>2, <3>0, <3>2
    <3>3. ASSUME NEW k \in DOMAIN listed[t], SameQueries(listed[t][k].turns, turns'[t]),
                 session'[t] = listed[t][k].id
          PROVE  Right(t)'
      BY <2>1, <2>b, <3>3 DEF FiledInv
    <3>4. ASSUME turns'[t] = <<>> PROVE Right(t)'
      BY <3>4 DEF FiledUnder
    <3> QED
      BY <1>2, <3>1, <3>2, <3>3, <3>4, ScreenFrom
  <2>4. ASSUME NEW u \in Tabs, u # t PROVE Right(u)'
    <3>1. turns'[u] = turns[u] /\ session'[u] = session[u]
      BY <1>2, <2>4, OthersStay
    <3>2. SameQueries(turns[u], turns'[u]) /\ turns'[u] \in Seq(Turn)
      BY <2>a, <3>1 DEF SameQueries
    <3> QED
      BY <2>2, <3>1, <3>2
  <2>5. ASSUME NEW m \in DOMAIN saved' PROVE FiledUnder(saved[m].turns, saved[m].id)'
    <3>1. ASSUME NEW k \in DOMAIN saved, saved'[m] = saved[k]
          PROVE  FiledUnder(saved[m].turns, saved[m].id)'
      <4>1. FiledUnder(saved[k].turns, saved[k].id)
        BY DEF FiledInv
      <4>2. ASSUME NEW a, NEW s, a = saved[k].turns, s = saved[k].id
            PROVE  FiledUnder(saved[m].turns, saved[m].id)'
        BY <2>c, <2>d, <3>1, <4>1, <4>2 DEF FiledUnder
      <4> QED
        BY <4>2
    <3>2. ASSUME EndStream(t), session[t] \in Sessions,
                 saved'[m] = [id |-> session[t], turns |-> turns'[t]]
          PROVE  FiledUnder(saved[m].turns, saved[m].id)'
      <4>1. session'[t] = session[t]
        BY <3>2 DEF EndStream
      <4> QED
        BY <2>3, <3>2, <4>1 DEF FiledUnder
    <3> QED
      BY <1>2, <3>1, <3>2, SavedFrom
  <2>6. ASSUME NEW u \in Tabs, NEW k \in DOMAIN listed'[u]
        PROVE  FiledUnder(listed[u][k].turns, listed[u][k].id)'
    <3>1. CASE listed'[u] = listed[u]
      <4>1. FiledUnder(listed[u][k].turns, listed[u][k].id) /\ k \in DOMAIN listed[u]
        BY <3>1 DEF FiledInv
      <4>2. ASSUME NEW a, NEW s, a = listed[u][k].turns, s = listed[u][k].id
            PROVE  FiledUnder(listed[u][k].turns, listed[u][k].id)'
        BY <2>b, <2>d, <3>1, <4>1, <4>2 DEF FiledUnder
      <4> QED
        BY <4>2
    <3>2. CASE listed'[u] = saved'
      BY <2>5, <3>2 DEF FiledUnder
    <3> QED
      BY <1>2, <3>1, <3>2, ListedFrom
  <2> QED
    BY <2>3, <2>4, <2>5, <2>6 DEF FiledInv
<1> QED
  BY <1>1, <1>2 DEF Next

-----------------------------------------------------------------------------
(* Turn by turn: where one on the screen comes from, and what a step may   *)
(* have added to it.                                                       *)
Alike(x, y) == x.id = y.id /\ x.query = y.query /\ x.tab = y.tab /\ x.life = y.life
SameContent(x, y) == x.answer = y.answer /\ x.citations = y.citations

(* Lists that differ in status are alike turn by turn.                     *)
LEMMA ByTurn ==
  ASSUME NEW a, NEW b, SameTurns(a, b), NEW i \in DOMAIN b
  PROVE  i \in DOMAIN a /\ Alike(b[i], a[i]) /\ SameContent(b[i], a[i])
BY DEF SameTurns, Alike, SameContent

(* A turn on a screen is new, stood at the same place, with at most a      *)
(* chunk or citations more, or comes from the drawer.                      *)
LEMMA TurnFrom ==
  ASSUME ChatTyped, NEW t \in Tabs, TabStep(t), NEW i \in DOMAIN turns'[t]
  PROVE  \/ \E q \in Queries : /\ Send(t, q) /\ i = Len(turns[t]) + 1
                               /\ turns'[t][i] = NewTurn(t, q)
         \/ /\ i \in DOMAIN turns[t] /\ Alike(turns'[t][i], turns[t][i])
            /\ \/ SameContent(turns'[t][i], turns[t][i])
               \/ /\ Chunk(t) /\ turns[t][i].id = stream[t].id
                  /\ turns'[t][i].answer = Append(turns[t][i].answer, stream[t].query)
                  /\ turns'[t][i].citations = turns[t][i].citations
               \/ \E c \in cited[t] :
                    /\ turns[t][i].id = c.id /\ turns'[t][i].citations = c.query
                    /\ turns'[t][i].answer = turns[t][i].answer
         \/ \E k \in DOMAIN listed[t] :
              /\ i \in DOMAIN listed[t][k].turns
              /\ Alike(turns'[t][i], listed[t][k].turns[i])
              /\ SameContent(turns'[t][i], listed[t][k].turns[i])
              /\ adopted' \/ /\ listed[t][k].turns[i].tab = t
                             /\ listed[t][k].turns[i].life = life[t]
<1>a. /\ turns \in [Tabs -> Seq(Turn)] /\ turns[t] \in Seq(Turn)
      /\ session[t] \in Sessions \cup {NoSession}
  BY TypedFacts
<1> DEFINE Old == i \in DOMAIN turns[t] /\ Alike(turns'[t][i], turns[t][i])
           Still == Old /\ SameContent(turns'[t][i], turns[t][i])
<1>1. ASSUME NEW q \in Queries, Send(t, q)
      PROVE  (i = Len(turns[t]) + 1 /\ turns'[t][i] = NewTurn(t, q)) \/ Still
  BY <1>1, SendEffect DEF Alike, SameContent
<1>2. ASSUME Chunk(t)
      PROVE  \/ Still
             \/ /\ Old /\ turns[t][i].id = stream[t].id
                /\ turns'[t][i].answer = Append(turns[t][i].answer, stream[t].query)
                /\ turns'[t][i].citations = turns[t][i].citations
  <2>1. turns'[t] = Received(turns[t], stream[t]) /\ stream[t].query \in Queries
    BY <1>2, <1>a, StreamTyped DEF Chunk
  <2>2. GrownTurns(turns[t], turns'[t], stream[t])
    BY <1>a, <2>1, ReceivedTurns
  <2> QED
    BY <2>2 DEF GrownTurns, Alike, SameContent
<1>3. ASSUME EndStream(t) PROVE Still
  <2>1. SameTurns(turns[t], turns'[t])
    BY <1>3, EndStreamEffect
  <2> QED
    BY <2>1, ByTurn
<1>4. ASSUME FailStream(t) PROVE Still
  <2>1. turns'[t] = Marked(turns[t], stream[t].id, "error")
    BY <1>4, <1>a DEF FailStream
  <2>2. SameTurns(turns[t], turns'[t])
    BY <1>a, <2>1, MarkedTurns DEF Status
  <2> QED
    BY <2>2, ByTurn
<1>5. ASSUME Answer(t)
      PROVE  \/ Still
             \/ \E c \in cited[t] :
                  /\ Old /\ turns[t][i].id = c.id /\ turns'[t][i].citations = c.query
                  /\ turns'[t][i].answer = turns[t][i].answer
  <2>1. turns' = turns \/ \E c \in cited[t] : turns'[t] = WithCitations(turns[t], c)
    BY <1>5, <1>a DEF Answer, WithCitations
  <2>2. CASE turns' = turns
    BY <2>2 DEF Alike, SameContent
  <2>3. ASSUME NEW c \in cited[t], turns'[t] = WithCitations(turns[t], c)
        PROVE  \/ Still
               \/ /\ Old /\ turns[t][i].id = c.id /\ turns'[t][i].citations = c.query
                  /\ turns'[t][i].answer = turns[t][i].answer
    <3>1. c.query \in Queries
      BY TypedFacts DEF Source
    <3>2. CitedTurns(turns[t], turns'[t], c)
      BY <1>a, <2>3, <3>1, WithCitationsTurns
    <3> QED
      BY <3>2 DEF CitedTurns, Alike, SameContent
  <2> QED
    BY <2>1, <2>2, <2>3
<1>6. ASSUME Stop(t) PROVE Still
  <2>1. Replace(t, turns[t], session[t])
    BY <1>6 DEF Stop
  <2>2. SameTurns(turns[t], turns'[t])
    BY <1>a, <2>1, ReplaceScreen
  <2> QED
    BY <2>2, ByTurn
<1>7. ASSUME NEW s \in Sessions \cup {NoSession}, Replace(t, <<>>, s) PROVE FALSE
  <2>1. <<>> \in Seq(Turn) /\ DOMAIN <<>> = {}
    OBVIOUS
  <2>2. SameTurns(<<>>, turns'[t])
    BY <1>7, <2>1, ReplaceScreen
  <2> QED
    BY <2>1, <2>2, ByTurn
<1>8. ASSUME SelectSession(t)
      PROVE  \E k \in DOMAIN listed[t] :
               /\ i \in DOMAIN listed[t][k].turns
               /\ Alike(turns'[t][i], listed[t][k].turns[i])
               /\ SameContent(turns'[t][i], listed[t][k].turns[i])
               /\ adopted' \/ /\ listed[t][k].turns[i].tab = t
                              /\ listed[t][k].turns[i].life = life[t]
  <2>1. PICK k \in DOMAIN listed[t] :
          /\ Replace(t, listed[t][k].turns, listed[t][k].id)
          /\ adopted' = (adopted \/ \E j \in DOMAIN listed[t][k].turns :
               listed[t][k].turns[j].tab # t \/ listed[t][k].turns[j].life # life[t])
    BY <1>8 DEF SelectSession
  <2>2. listed[t][k] \in SavedSession
    BY TypedFacts
  <2>3. listed[t][k].turns \in Seq(Turn) /\ listed[t][k].id \in Sessions
    BY <2>2 DEF SavedSession
  <2>4. SameTurns(listed[t][k].turns, turns'[t])
    BY <2>1, <2>3, ReplaceScreen
  <2>5. /\ i \in DOMAIN listed[t][k].turns
        /\ Alike(turns'[t][i], listed[t][k].turns[i])
        /\ SameContent(turns'[t][i], listed[t][k].turns[i])
    BY <2>4, ByTurn
  <2> QED
    BY <2>1, <2>5
<1>9. ASSUME DeleteSession(t) PROVE Still
  <2>1. Replace(t, <<>>, NoSession) \/ turns' = turns
    BY <1>9 DEF DeleteSession
  <2> QED
    BY <1>7, <2>1 DEF Alike, SameContent
<1>10. ~NewChat(t)
  BY <1>7 DEF NewChat
<1>11. ASSUME Look(t) PROVE Still
  BY <1>11 DEF Look, Alike, SameContent
<1>12. ASSUME Reload(t) PROVE Still
  <2>1. turns'[t] = Hydrated(turns[t])
    BY <1>12, <1>a DEF Reload
  <2>2. SameTurns(turns[t], turns'[t])
    BY <1>a, <2>1, HydratedTurns
  <2> QED
    BY <2>2, ByTurn
<1> QED
  BY <1>1, <1>2, <1>3, <1>4, <1>5, <1>6, <1>8, <1>9, <1>10, <1>11, <1>12 DEF TabStep

(* The turns of the saved sessions, and of those the drawers show.         *)
InStore(x) ==
  \/ \E k \in DOMAIN saved : \E i \in DOMAIN saved[k].turns : x = saved[k].turns[i]
  \/ \E t \in Tabs : \E k \in DOMAIN listed[t] : \E i \in DOMAIN listed[t][k].turns :
       x = listed[t][k].turns[i]

(* What is stored was stored, or stood on the screen as its stream ended.  *)
LEMMA StoreFrom ==
  ASSUME ChatTyped, NEW t \in Tabs, TabStep(t), NEW x, InStore(x)'
  PROVE  \/ InStore(x)
         \/ EndStream(t) /\ \E i \in DOMAIN turns'[t] : x = turns'[t][i]
<1>1. ASSUME NEW m \in DOMAIN saved', NEW i \in DOMAIN saved'[m].turns, x = saved'[m].turns[i]
      PROVE  \/ InStore(x)
             \/ EndStream(t) /\ \E j \in DOMAIN turns'[t] : x = turns'[t][j]
  <2>1. CASE \E k \in DOMAIN saved : saved'[m] = saved[k]
    BY <1>1, <2>1 DEF InStore
  <2>2. CASE EndStream(t) /\ saved'[m] = [id |-> session[t], turns |-> turns'[t]]
    BY <1>1, <2>2
  <2> QED
    BY <2>1, <2>2, SavedFrom
<1>2. ASSUME NEW u \in Tabs, NEW k \in DOMAIN listed'[u], NEW i \in DOMAIN listed'[u][k].turns,
             x = listed'[u][k].turns[i]
      PROVE  \/ InStore(x)
             \/ EndStream(t) /\ \E j \in DOMAIN turns'[t] : x = turns'[t][j]
  <2>1. CASE listed'[u] = listed[u]
    BY <1>2, <2>1 DEF InStore
  <2>2. CASE listed'[u] = saved'
    BY <1>1, <1>2, <2>2
  <2> QED
    BY <2>1, <2>2, ListedFrom
<1> QED
  BY <1>1, <1>2 DEF InStore
-----------------------------------------------------------------------------
(* Every turn shows its own content, while no tab has adopted turns that   *)
(* were numbered elsewhere.                                                *)
OnScreen(t, x) == \E i \in DOMAIN turns[t] : x = turns[t][i]
Somewhere(x) == InStore(x) \/ \E t \in Tabs : OnScreen(t, x)

(* The streams and citations whose answers are still to come to a tab.     *)
Sources(t) == cited[t] \cup {s \in {stream[t]} : Streaming(t)}

SameNumber(x, y) == x.tab = y.tab /\ x.life = y.life /\ x.id = y.id

(* The numbers a tab gives are distinct within one of its lives, and what  *)
(* is still to come finds no turn of another question under its number.    *)
Numbered ==
  /\ \A x : Somewhere(x) => /\ x.life <= life[x.tab]
                            /\ x.life = life[x.tab] => x.id <= counter[x.tab]
  /\ \A x, y : Somewhere(x) /\ Somewhere(y) /\ SameNumber(x, y) => x.query = y.query
  /\ \A t \in Tabs : \A i \in DOMAIN turns[t] :
       turns[t][i].tab = t /\ turns[t][i].id <= counter[t]
  /\ \A t \in Tabs : \A src \in Sources(t) :
       /\ src.id <= counter[t]
       /\ \A i \in DOMAIN turns[t] : turns[t][i].id = src.id => turns[t][i].query = src.query
       /\ \A x : Somewhere(x) /\ x.tab = t /\ x.life = life[t] /\ x.id = src.id
                   => x.query = src.query

OwnInv == adopted \/ (Numbered /\ \A x : Somewhere(x) => Own(x))

(* Nothing is shown when the tabs are opened.                              *)
LEMMA OwnInitInv == Init => OwnInv
<1> SUFFICES ASSUME Init PROVE OwnInv
  OBVIOUS
<1>1. ASSUME NEW x PROVE ~Somewhere(x)
  BY DEF Init, Somewhere, InStore, OnScreen
<1>2. ASSUME NEW t \in Tabs PROVE Sources(t) = {}
  BY DEF Init, Sources, Streaming
<1> QED
  BY <1>1, <1>2 DEF Init, OwnInv, Numbered

(* Turns have their type wherever they are.                                *)
LEMMA TurnsTyped ==
  ASSUME ChatTyped, NEW x, Somewhere(x) PROVE x \in Turn
<1>1. ASSUME NEW t \in Tabs, NEW i \in DOMAIN turns[t] PROVE turns[t][i] \in Turn
  <2>1. turns[t] \in Seq(Turn)
    BY TypedFacts
  <2> QED
    BY <2>1
<1>2. ASSUME NEW k \in DOMAIN saved, NEW i \in DOMAIN saved[k].turns PROVE saved[k].turns[i] \in Turn
  <2>1. saved[k] \in SavedSession
    BY TypedFacts
  <2>2. saved[k].turns \in Seq(Turn)
    BY <2>1 DEF SavedSession
  <2> QED
    BY <2>2
<1>3. ASSUME NEW t \in Tabs, NEW k \in DOMAIN listed[t], NEW i \in DOMAIN listed[t][k].turns
      PROVE  listed[t][k].turns[i] \in Turn
  <2>1. listed[t][k] \in SavedSession
    BY TypedFacts
  <2>2. listed[t][k].turns \in Seq(Turn)
    BY <2>1 DEF SavedSession
  <2> QED
    BY <2>2
<1> QED
  BY <1>1, <1>2, <1>3 DEF Somewhere, InStore, OnScreen

(* Only a new turn is not like one that was there.                         *)
LEMMA SomewhereFrom ==
  ASSUME ChatTyped, NEW t \in Tabs, TabStep(t), NEW x, Somewhere(x)'
  PROVE  \/ \E q \in Queries : Send(t, q) /\ x = NewTurn(t, q)
         \/ \E y : Somewhere(y) /\ Alike(x, y)
<1> DEFINE Known(z) == \/ \E q \in Queries : Send(t, q) /\ z = NewTurn(t, q)
                       \/ \E y : Somewhere(y) /\ Alike(z, y)
<1>1. ASSUME NEW i \in DOMAIN turns'[t] PROVE Known(turns'[t][i])
  <2>1. ASSUME i \in DOMAIN turns[t], Alike(turns'[t][i], turns[t][i]) PROVE Known(turns'[t][i])
    <3>1. Somewhere(turns[t][i])
      BY <2>1 DEF Somewhere, OnScreen
    <3> QED
      BY <2>1, <3>1
  <2>2. ASSUME NEW k \in DOMAIN listed[t], i \in DOMAIN listed[t][k].turns,
               Alike(turns'[t][i], listed[t][k].turns[i])
        PROVE  Known(turns'[t][i])
    <3>1. Somewhere(listed[t][k].turns[i])
      BY <2>2 DEF Somewhere, InStore
    <3> QED
      BY <2>2, <3>1
  <2> HIDE DEF Known
  <2>3. ASSUME NEW q \in Queries, Send(t, q), turns'[t][i] = NewTurn(t, q)
        PROVE  Known(turns'[t][i])
    BY <2>3 DEF Known
  <2> QED
    BY <2>1, <2>2, <2>3, TurnFrom
<1>2. ASSUME NEW u \in Tabs, u # t, NEW i \in DOMAIN turns'[u] PROVE Known(turns'[u][i])
  <2>1. turns'[u] = turns[u]
    BY <1>2, OthersStay
  <2>2. Somewhere(turns'[u][i])
    BY <1>2, <2>1 DEF Somewhere, OnScreen
  <2> QED
    BY <2>2 DEF Alike
<1>3. ASSUME InStore(x) PROVE Known(x)
  BY <1>3 DEF Somewhere, Alike
<1> HIDE DEF Known
<1>4. ASSUME InStore(x)' PROVE Known(x)
  BY <1>1, <1>3, <1>4, StoreFrom
<1>5. ASSUME NEW u \in Tabs, OnScreen(u, x)' PROVE Known(x)
  BY <1>1, <1>2, <1>5 DEF OnScreen
<1>6. Known(x)
  BY <1>4, <1>5 DEF Somewhere
<1> QED
  BY <1>6 DEF Known

(* A reload counts from the highest number shown, and forgets what was to  *)
(* come.                                                                   *)
LEMMA ReloadEffect ==
  ASSUME ChatTyped, NEW t \in Tabs, Reload(t)
  PROVE  /\ life'[t] = life[t] + 1 /\ counter'[t] = MaxId(turns[t])
         /\ SameTurns(turns[t], turns'[t]) /\ cited'[t] = {} /\ stream'[t] = NoStream
<1>1. /\ turns[t] \in Seq(Turn) /\ turns'[t] = Hydrated(turns[t])
      /\ life'[t] = life[t] + 1 /\ counter'[t] = MaxId(turns[t])
      /\ cited'[t] = {} /\ stream'[t] = NoStream
  BY TypedFacts DEF Reload
<1> QED
  BY <1>1, HydratedTurns

(* A tab counts up; only a reload starts another life.                     *)
LEMMA CountsUp ==
  ASSUME ChatTyped, NEW t \in Tabs, TabStep(t)
  PROVE  \/ counter'[t] = counter[t] + 1 /\ life' = life
         \/ Reload(t) /\ life'[t] = life[t] + 1
         \/ UNCHANGED <<counter, life>>
<1>1. ASSUME NEW q \in Queries, Send(t, q)
      PROVE  counter'[t] = counter[t] + 1 /\ life' = life
  BY <1>1, TypedFacts DEF Send, NewTurn
<1>2. (\E q \in Queries : Send(t, q)) \/ Reload(t) \/ UNCHANGED <<counter, life>>
  BY DEF TabStep, Chunk, EndStream, FailStream, Answer, Stop, NewChat, SelectSession,
         DeleteSession, Look, history
<1> QED
  BY <1>1, <1>2, ReloadEffect

(* What is to come was asked for by Send, and is forgotten by a reload.    *)
LEMMA SourcesFrom ==
  ASSUME ChatTyped, NEW t \in Tabs, TabStep(t), NEW src \in Sources(t)'
  PROVE  \/ src \in Sources(t) /\ ~Reload(t)
         \/ \E q \in Queries : Send(t, q) /\ src = [query |-> q, id |-> counter[t] + 1]
<1>a. stream \in [Tabs -> Source \cup {NoStream}] /\ cited \in [Tabs -> SUBSET Source]
  BY TypedFacts
<1>1. ASSUME NEW q \in Queries, Send(t, q)
      PROVE  src \in cited[t] \/ src = [query |-> q, id |-> counter[t] + 1]
  <2>1. cited' = cited /\ stream'[t] = [query |-> q, id |-> counter[t] + 1]
    BY <1>1, <1>a DEF Send, NewTurn
  <2> QED
    BY <2>1 DEF Sources
<1>2. ASSUME Reload(t) PROVE FALSE
  BY <1>2, <1>a DEF Reload, Sources, Streaming
<1>3. ASSUME EndStream(t) PROVE src \in Sources(t)
  BY <1>3, <1>a DEF EndStream, Sources, Streaming
<1>4. ASSUME Answer(t) PROVE src \in Sources(t)
  BY <1>4, <1>a DEF Answer, Sources, Streaming
<1>5. ASSUME UNCHANGED cited, stream' = stream \/ stream'[t] = NoStream PROVE src \in Sources(t)
  BY <1>5, <1>a DEF Sources, Streaming
<1>6. ASSUME NEW ts, NEW s, Replace(t, ts, s) PROVE stream'[t] = NoStream
  BY <1>6, <1>a DEF Replace
<1>7. ASSUME Chunk(t) \/ FailStream(t) \/ Look(t)
      PROVE  UNCHANGED cited /\ (stream' = stream \/ stream'[t] = NoStream)
  BY <1>7, <1>a DEF Chunk, FailStream, Look
<1>8. ASSUME Stop(t) \/ NewChat(t) \/ SelectSession(t) \/ DeleteSession(t)
      PROVE  UNCHANGED cited /\ (stream' = stream \/ stream'[t] = NoStream)
  BY <1>8, <1>6 DEF Stop, NewChat, SelectSession, DeleteSession
<1>9. Reload(t) => FALSE
  BY <1>2
<1>10. cited[t] \subseteq Sources(t)
  BY DEF Sources
<1> QED
  BY <1>1, <1>3, <1>4, <1>5, <1>7, <1>8, <1>9, <1>10 DEF TabStep

(* What was adopted stays adopted.                                         *)
LEMMA StaysAdopted ==
  ASSUME ChatTyped, NEW t \in Tabs, TabStep(t), adopted PROVE adopted'
<1>1. ASSUME SelectSession(t) PROVE adopted'
  BY <1>1 DEF SelectSession
<1>2. ASSUME NEW q \in Queries, Send(t, q) PROVE adopted'
  BY <1>2 DEF Send
<1> QED
  BY <1>1, <1>2 DEF TabStep, Chunk, EndStream, FailStream, Answer, Stop, NewChat,
     DeleteSession, Look, Reload, history

(* The fields of a new turn.                                               *)
LEMMA NewTurnFields ==
  ASSUME ChatTyped, NEW t \in Tabs, NEW q \in Queries, Send(t, q)
  PROVE  /\ NewTurn(t, q).tab = t /\ NewTurn(t, q).life = life[t]
         /\ NewTurn(t, q).id = counter[t] + 1 /\ NewTurn(t, q).query = q
         /\ Own(NewTurn(t, q)) /\ life' = life /\ counter'[t] = counter[t] + 1
         /\ \A p \in Queries : Send(t, p) => p = q
<1>1. NewTurn(t, q).answer = <<>> /\ NewTurn(t, q).citations = NoQuery
  BY DEF NewTurn
<1>2. Own(NewTurn(t, q))
  BY <1>1 DEF Own
<1>3. ASSUME NEW p \in Queries, Send(t, p) PROVE p = q
  <2>1. NewTurn(t, p) = NewTurn(t, q)
    BY <1>3, SendEffect
  <2> QED
    BY <2>1 DEF NewTurn
<1> QED
  BY <1>2, <1>3, TypedFacts DEF NewTurn, Send

(* The numbers of a tab that does not reload only grow; those of another   *)
(* tab stay.                                                               *)
LEMMA NumbersGrow ==
  ASSUME ChatTyped, NEW t \in Tabs, TabStep(t), NEW u \in Tabs
  PROVE  /\ life[u] \in Nat /\ life'[u] \in Nat /\ counter[u] \in Nat /\ counter'[u] \in Nat
         /\ life[u] <= life'[u]
         /\ life[u] = life'[u] => counter[u] <= counter'[u]
         /\ life[u] # life'[u] => u = t /\ Reload(t)
<1>1. ChatTyped'
  BY ChatNextTyped DEF Next
<1>2. /\ life[u] \in Nat /\ counter[u] \in Nat
      /\ life'[u] \in Nat /\ counter'[u] \in Nat
  BY <1>1 DEF ChatTyped, TypeOK
<1>3. CASE u # t
  BY <1>2, <1>3, OthersStay
<1>4. CASE u = t
  BY <1>2, <1>4, CountsUp
<1> QED
  BY <1>2, <1>3, <1>4

(* A turn that a tab shows after its step, when none is adopted: a new     *)
(* one, one it showed, or one numbered in the present life of the tab.     *)
LEMMA ShownFrom ==
  ASSUME ChatTyped, ~adopted', NEW t \in Tabs, TabStep(t), NEW i \in DOMAIN turns'[t]
  PROVE  \/ \E q \in Queries : Send(t, q) /\ turns'[t][i] = NewTurn(t, q)
         \/ i \in DOMAIN turns[t] /\ Alike(turns'[t][i], turns[t][i])
         \/ \E y : Somewhere(y) /\ Alike(turns'[t][i], y) /\ y.tab = t /\ y.life = life[t]
<1>1. ASSUME NEW k \in DOMAIN listed[t], i \in DOMAIN listed[t][k].turns
      PROVE  Somewhere(listed[t][k].turns[i])
  BY <1>1 DEF Somewhere, InStore
<1> QED
  BY <1>1, TurnFrom

(* Every step that adopts nothing keeps the numbers distinct.              *)
LEMMA NumberedNext ==
  ASSUME ChatTyped, Numbered, ~adopted', NEW t \in Tabs, TabStep(t)
  PROVE  Numbered'
<1>a. ASSUME NEW x, Somewhere(x)
      PROVE  /\ x.tab \in Tabs /\ x.life \in Nat /\ x.id \in Nat /\ x.life <= life[x.tab]
             /\ x.life = life[x.tab] => x.id <= counter[x.tab]
  <2>1. x \in Turn
    BY <1>a, TurnsTyped
  <2> QED
    BY <1>a, <2>1 DEF Numbered, Turn
<1>b. ASSUME NEW i \in DOMAIN turns[t]
      PROVE  /\ Somewhere(turns[t][i]) /\ turns[t][i].tab = t
             /\ turns[t][i].id \in Nat /\ turns[t][i].id <= counter[t]
  <2>1. Somewhere(turns[t][i])
    BY DEF Somewhere, OnScreen
  <2> QED
    BY <1>a, <2>1 DEF Numbered
<1>c. ASSUME NEW x, Somewhere(x)'
      PROVE  \/ \E q \in Queries :
                  /\ Send(t, q) /\ x.tab = t /\ x.life = life[t]
                  /\ x.id = counter[t] + 1 /\ x.query = q
                  /\ life' = life /\ counter'[t] = counter[t] + 1
             \/ \E y : Somewhere(y) /\ Alike(x, y)
  BY <1>c, SomewhereFrom, NewTurnFields
<1>1. ASSUME NEW x, Somewhere(x)'
      PROVE  /\ x.life <= life'[x.tab]
             /\ x.life = life'[x.tab] => x.id <= counter'[x.tab]
  <2>1. ASSUME NEW y, Somewhere(y), Alike(x, y)
        PROVE  /\ x.life <= life'[x.tab]
               /\ x.life = life'[x.tab] => x.id <= counter'[x.tab]
    <3>1. /\ y.tab \in Tabs /\ y.life \in Nat /\ y.id \in Nat /\ y.life <= life[y.tab]
          /\ y.life = life[y.tab] => y.id <= counter[y.tab]
      BY <1>a, <2>1
    <3>2. x.tab = y.tab /\ x.life = y.life /\ x.id = y.id
      BY <2>1 DEF Alike
    <3> DEFINE u == y.tab
    <3>3. /\ life[u] \in Nat /\ life'[u] \in Nat /\ counter[u] \in Nat /\ counter'[u] \in Nat
          /\ life[u] <= life'[u]
          /\ life[u] = life'[u] => counter[u] <= counter'[u]
      BY <3>1, NumbersGrow
    <3> QED
      BY <3>1, <3>2, <3>3
  <2>2. ASSUME x.tab = t, x.life = life[t], x.id = counter[t] + 1,
               life' = life, counter'[t] = counter[t] + 1
        PROVE  /\ x.life <= life'[x.tab]
               /\ x.life = life'[x.tab] => x.id <= counter'[x.tab]
    BY <2>2, NumbersGrow
  <2> QED
    BY <1>1, <1>c, <2>1, <2>2
<1>2. ASSUME NEW x, NEW y, Somewhere(x)', Somewhere(y)', SameNumber(x, y)
      PROVE  x.query = y.query
  <2>1. ASSUME NEW z, Somewhere(z), z.tab = t, z.life = life[t], z.id = counter[t] + 1
        PROVE  FALSE
    <3>1. z.id <= counter[t]
      BY <1>a, <2>1
    <3> QED
      BY <2>1, <3>1, NumbersGrow
  <2>2. ASSUME NEW v, Somewhere(v), Alike(x, v), NEW w, Somewhere(w), Alike(y, w)
        PROVE  x.query = y.query
    <3>1. SameNumber(v, w) /\ x.query = v.query /\ y.query = w.query
      BY <1>2, <2>2 DEF SameNumber, Alike
    <3>2. v.query = w.query
      BY <2>2, <3>1 DEF Numbered
    <3> QED
      BY <3>1, <3>2
  <2>3. ASSUME NEW v, Somewhere(v), Alike(x, v), NEW q \in Queries,
               y.tab = t, y.life = life[t], y.id = counter[t] + 1
        PROVE  FALSE
    BY <1>2, <2>1, <2>3 DEF SameNumber, Alike
  <2>4. ASSUME NEW v, Somewhere(v), Alike(y, v), NEW q \in Queries,
               x.tab = t, x.life = life[t], x.id = counter[t] + 1
        PROVE  FALSE
    BY <1>2, <2>1, <2>4 DEF SameNumber, Alike
  <2>5. ASSUME NEW q \in Queries, Send(t, q), x.query = q, NEW p \in Queries, Send(t, p), y.query = p
        PROVE  x.query = y.query
    BY <2>5, NewTurnFields
  <2> QED
    BY <1>2, <1>c, <2>2, <2>3, <2>4, <2>5
<1>3. ASSUME NEW i \in DOMAIN turns'[t]
      PROVE  turns'[t][i].tab = t /\ turns'[t][i].id <= counter'[t]
  <2>1. CASE Reload(t)
    <3>1. counter'[t] = MaxId(turns[t]) /\ SameTurns(turns[t], turns'[t])
      BY <2>1, ReloadEffect
    <3>2. turns[t] \in Seq(Turn)
      BY TypedFacts
    <3>3. i \in DOMAIN turns[t] /\ Alike(turns'[t][i], turns[t][i])
      BY <3>1, ByTurn
    <3>4. turns[t][i].id <= MaxId(turns[t])
      BY <3>2, <3>3, MaxIdBounds
    <3> QED
      BY <1>b, <3>1, <3>3, <3>4 DEF Alike
  <2>2. CASE ~Reload(t)
    <3>1. counter[t] \in Nat /\ counter'[t] \in Nat /\ counter[t] <= counter'[t]
      BY <2>2, NumbersGrow
    <3>2. ASSUME NEW q \in Queries, Send(t, q), turns'[t][i] = NewTurn(t, q)
          PROVE  turns'[t][i].tab = t /\ turns'[t][i].id <= counter'[t]
      BY <3>1, <3>2, NewTurnFields
    <3>3. ASSUME i \in DOMAIN turns[t], Alike(turns'[t][i], turns[t][i])
          PROVE  turns'[t][i].tab = t /\ turns'[t][i].id <= counter'[t]
      BY <1>b, <3>1, <3>3 DEF Alike
    <3>4. ASSUME NEW y, Somewhere(y), Alike(turns'[t][i], y), y.tab = t, y.life = life[t]
          PROVE  turns'[t][i].tab = t /\ turns'[t][i].id <= counter'[t]
      <4>1. y.id \in Nat /\ y.id <= counter[t]
        BY <1>a, <3>4
      <4> QED
        BY <3>1, <3>4, <4>1 DEF Alike
    <3> QED
      BY <3>2, <3>3, <3>4, ShownFrom
  <2> QED
    BY <2>1, <2>2
<1>4. ASSUME NEW u \in Tabs, u # t, NEW i \in DOMAIN turns'[u]
      PROVE  turns'[u][i].tab = u /\ turns'[u][i].id <= counter'[u]
  BY <1>4, OthersStay DEF Numbered
<1> DEFINE Finds(u, src) ==
             /\ src.id <= counter[u]
             /\ \A i \in DOMAIN turns[u] : turns[u][i].id = src.id => turns[u][i].query = src.query
             /\ \A x : Somewhere(x) /\ x.tab = u /\ x.life = life[u] /\ x.id = src.id
                         => x.query = src.query
<1>d. \A u \in Tabs : \A src \in Sources(u) : src.id \in Nat
  BY TypedFacts DEF Sources, Source, Streaming
<1>5. ASSUME NEW src \in Sources(t)', src \in Sources(t), ~Reload(t) PROVE Finds(t, src)'
  <2>a. Finds(t, src) /\ src.id \in Nat
    BY <1>5, <1>d DEF Numbered
  <2>b. /\ counter[t] \in Nat /\ counter'[t] \in Nat /\ counter[t] <= counter'[t]
        /\ life'[t] = life[t]
    BY <1>5, NumbersGrow
  <2>1. ASSUME NEW i \in DOMAIN turns'[t], turns'[t][i].id = src.id
        PROVE  turns'[t][i].query = src.query
    <3>1. ASSUME NEW q \in Queries, Send(t, q), turns'[t][i] = NewTurn(t, q) PROVE FALSE
      BY <2>1, <2>a, <2>b, <3>1, NewTurnFields
    <3>2. ASSUME i \in DOMAIN turns[t], Alike(turns'[t][i], turns[t][i])
          PROVE  turns'[t][i].query = src.query
      BY <2>1, <2>a, <3>2 DEF Alike
    <3>3. ASSUME NEW y, Somewhere(y), Alike(turns'[t][i], y), y.tab = t, y.life = life[t]
          PROVE  turns'[t][i].query = src.query
      BY <2>1, <2>a, <3>3 DEF Alike
    <3> QED
      BY <3>1, <3>2, <3>3, ShownFrom
  <2>2. ASSUME NEW x, Somewhere(x)', x.tab = t, x.life = life'[t], x.id = src.id
        PROVE  x.query = src.query
    <3>1. ASSUME x.id = counter[t] + 1 PROVE FALSE
      BY <2>2, <2>a, <2>b, <3>1
    <3>2. ASSUME NEW y, Somewhere(y), Alike(x, y) PROVE x.query = src.query
      BY <2>2, <2>a, <2>b, <3>2 DEF Alike
    <3> QED
      BY <1>c, <2>2, <3>1, <3>2
  <2> QED
    BY <2>a, <2>b, <2>1, <2>2
<1>6. ASSUME NEW src \in Sources(t)', NEW q \in Queries, Send(t, q),
             src = [query |-> q, id |-> counter[t] + 1]
      PROVE  Finds(t, src)'
  <2>a. /\ src.id = counter[t] + 1 /\ src.query = q /\ counter[t] \in Nat
        /\ counter'[t] = counter[t] + 1 /\ life' = life
    BY <1>6, NewTurnFields, NumbersGrow
  <2>1. ASSUME NEW i \in DOMAIN turns'[t], turns'[t][i].id = src.id
        PROVE  turns'[t][i].query = src.query
    <3>1. ASSUME NEW p \in Queries, Send(t, p), turns'[t][i] = NewTurn(t, p)
          PROVE  turns'[t][i].query = src.query
      BY <1>6, <2>a, <3>1, NewTurnFields
    <3>2. ASSUME i \in DOMAIN turns[t], Alike(turns'[t][i], turns[t][i]) PROVE FALSE
      BY <1>b, <2>1, <2>a, <3>2 DEF Alike
    <3>3. ASSUME NEW y, Somewhere(y), Alike(turns'[t][i], y), y.tab = t, y.life = life[t]
          PROVE  FALSE
      <4>1. y.id \in Nat /\ y.id <= counter[t]
        BY <1>a, <3>3
      <4> QED
        BY <2>1, <2>a, <3>3, <4>1 DEF Alike
    <3> QED
      BY <3>1, <3>2, <3>3, ShownFrom
  <2>2. ASSUME NEW x, Somewhere(x)', x.tab = t, x.life = life'[t], x.id = src.id
        PROVE  x.query = src.query
    <3>1. ASSUME NEW p \in Queries, Send(t, p), x.query = p PROVE x.query = src.query
      BY <1>6, <2>a, <3>1, NewTurnFields
    <3>2. ASSUME NEW y, Somewhere(y), Alike(x, y) PROVE FALSE
      <4>1. /\ y.id \in Nat /\ y.tab = t /\ y.life = life[t] /\ y.id = counter[t] + 1
        BY <1>a, <2>2, <2>a, <3>2 DEF Alike
      <4>2. y.id <= counter[t]
        BY <1>a, <3>2, <4>1
      <4> QED
        BY <2>a, <4>1, <4>2
    <3> QED
      BY <1>c, <2>2, <3>1, <3>2
  <2> QED
    BY <2>a, <2>1, <2>2
<1>7. ASSUME NEW u \in Tabs, u # t, NEW src \in Sources(u)' PROVE Finds(u, src)'
  <2>1. /\ turns'[u] = turns[u] /\ counter'[u] = counter[u] /\ life'[u] = life[u]
        /\ cited'[u] = cited[u] /\ stream'[u] = stream[u]
    BY <1>7, OthersStay
  <2>2. src \in Sources(u)
    BY <1>7, <2>1 DEF Sources, Streaming
  <2>3. Finds(u, src)
    BY <2>2 DEF Numbered
  <2>4. ASSUME NEW x, Somewhere(x)', x.tab = u, x.life = life'[u], x.id = src.id
        PROVE  x.query = src.query
    <3>1. PICK y : Somewhere(y) /\ Alike(x, y)
      BY <1>7, <1>c, <2>4
    <3> QED
      BY <2>1, <2>3, <2>4, <3>1 DEF Alike
  <2> QED
    BY <2>1, <2>3, <2>4
<1> HIDE DEF Finds
<1>8. \A u \in Tabs : \A src \in Sources(u)' : Finds(u, src)'
  BY <1>5, <1>6, <1>7, SourcesFrom
<1> QED
  BY <1>1, <1>2, <1>3, <1>4, <1>8 DEF Numbered, Finds

(* What a step puts into a turn belongs to it.                             *)
LEMMA OwnNext ==
  ASSUME ChatTyped, Numbered, \A x : Somewhere(x) => Own(x), ~adopted',
         NEW t \in Tabs, TabStep(t), NEW x, Somewhere(x)'
  PROVE  Own(x)
<1>a. ASSUME NEW y, NEW z, Own(z), Alike(y, z), SameContent(y, z) PROVE Own(y)
  BY <1>a DEF Own, Alike, SameContent
<1>1. ASSUME NEW i \in DOMAIN turns'[t] PROVE Own(turns'[t][i])
  <2> DEFINE new == turns'[t][i]
  <2>1. ASSUME NEW q \in Queries, Send(t, q), new = NewTurn(t, q) PROVE Own(new)
    BY <2>1, NewTurnFields
  <2>2. ASSUME i \in DOMAIN turns[t], Alike(new, turns[t][i]), SameContent(new, turns[t][i])
        PROVE  Own(new)
    <3>1. Own(turns[t][i])
      BY <2>2 DEF Somewhere, OnScreen
    <3> QED
      BY <1>a, <2>2, <3>1
  <2>3. ASSUME i \in DOMAIN turns[t], Alike(new, turns[t][i]), Chunk(t),
               turns[t][i].id = stream[t].id,
               new.answer = Append(turns[t][i].answer, stream[t].query),
               new.citations = turns[t][i].citations
        PROVE  Own(new)
    <3> DEFINE old == turns[t][i]
    <3>1. Somewhere(old) /\ Own(old)
      BY <2>3 DEF Somewhere, OnScreen
    <3>2. stream[t] \in Sources(t)
      BY <2>3 DEF Chunk, Sources
    <3>3. old.query = stream[t].query
      BY <2>3, <3>2 DEF Numbered
    <3>4. old \in Turn
      BY <3>1, TurnsTyped
    <3> HIDE DEF old, new
    <3>5. old.answer \in Seq(Queries) /\ old.query \in Queries
      BY <3>4 DEF Turn
    <3>6. /\ new.answer = Append(old.answer, old.query)
          /\ new.citations = old.citations /\ new.query = old.query
      BY <2>3, <3>3 DEF old, Alike
    <3>7. \A j \in DOMAIN new.answer : new.answer[j] = old.query
      <4>1. /\ DOMAIN new.answer = 1..(Len(old.answer) + 1) /\ Len(old.answer) \in Nat
            /\ DOMAIN old.answer = 1..Len(old.answer)
            /\ \A j \in DOMAIN old.answer : new.answer[j] = old.answer[j]
            /\ new.answer[Len(old.answer) + 1] = old.query
        BY <3>5, <3>6
      <4> QED
        BY <3>1, <4>1 DEF Own
    <3> QED
      BY <3>1, <3>6, <3>7 DEF Own
  <2>4. ASSUME i \in DOMAIN turns[t], Alike(new, turns[t][i]), NEW c \in cited[t],
               turns[t][i].id = c.id, new.citations = c.query,
               new.answer = turns[t][i].answer
        PROVE  Own(new)
    <3>1. Own(turns[t][i])
      BY <2>4 DEF Somewhere, OnScreen
    <3>2. c \in Sources(t)
      BY DEF Sources
    <3>3. turns[t][i].query = c.query
      BY <2>4, <3>2 DEF Numbered
    <3> QED
      BY <2>4, <3>1, <3>3 DEF Own, Alike
  <2>5. ASSUME NEW k \in DOMAIN listed[t], i \in DOMAIN listed[t][k].turns,
               Alike(new, listed[t][k].turns[i]), SameContent(new, listed[t][k].turns[i])
        PROVE  Own(new)
    <3>1. Own(listed[t][k].turns[i])
      BY <2>5 DEF Somewhere, InStore
    <3> QED
      BY <1>a, <2>5, <3>1
  <2> HIDE DEF new
  <2>6. \/ \E q \in Queries : Send(t, q) /\ new = NewTurn(t, q)
        \/ /\ i \in DOMAIN turns[t] /\ Alike(new, turns[t][i])
           /\ \/ SameContent(new, turns[t][i])
              \/ /\ Chunk(t) /\ turns[t][i].id = stream[t].id
                 /\ new.answer = Append(turns[t][i].answer, stream[t].query)
                 /\ new.citations = turns[t][i].citations
              \/ \E c \in cited[t] :
                   /\ turns[t][i].id = c.id /\ new.citations = c.query
                   /\ new.answer = turns[t][i].answer
        \/ \E k \in DOMAIN listed[t] :
             /\ i \in DOMAIN listed[t][k].turns
             /\ Alike(new, listed[t][k].turns[i])
             /\ SameContent(new, listed[t][k].turns[i])
    BY TurnFrom DEF new
  <2>7. Own(new)
    BY <2>1, <2>2, <2>3, <2>4, <2>5, <2>6
  <2> QED
    BY <2>7 DEF new
<1>2. ASSUME NEW u \in Tabs, u # t, NEW i \in DOMAIN turns'[u] PROVE Own(turns'[u][i])
  <2>1. turns'[u] = turns[u]
    BY <1>2, OthersStay
  <2> QED
    BY <1>2, <2>1 DEF Somewhere, OnScreen
<1>3. InStore(x) => Own(x)
  BY DEF Somewhere
<1>4. ASSUME InStore(x)' PROVE Own(x)
  BY <1>1, <1>3, <1>4, StoreFrom
<1>5. ASSUME NEW u \in Tabs, OnScreen(u, x)' PROVE Own(x)
  BY <1>1, <1>2, <1>5 DEF OnScreen
<1> QED
  BY <1>4, <1>5 DEF Somewhere

(* Every step that adopts nothing keeps the content with its question.     *)
LEMMA OwnNextInv == ChatTyped /\ OwnInv /\ [Next]_vars => OwnInv'
<1> SUFFICES ASSUME ChatTyped, OwnInv, [Next]_vars PROVE OwnInv'
  OBVIOUS
<1>1. CASE UNCHANGED vars
  BY <1>1 DEF vars, tabVars, history, OwnInv, Numbered, Somewhere, InStore, OnScreen, Sources,
     Streaming
<1>2. ASSUME NEW t \in Tabs, TabStep(t), ~adopted' PROVE OwnInv'
  <2>1. ~adopted
    BY <1>2, StaysAdopted
  <2>2. Numbered /\ \A x : Somewhere(x) => Own(x)
    BY <2>1 DEF OwnInv
  <2>3. Numbered'
    BY <1>2, <2>2, NumberedNext
  <2>4. ASSUME NEW x, Somewhere(x)' PROVE Own(x)
    BY <1>2, <2>2, <2>4, OwnNext
  <2> QED
    BY <2>3, <2>4 DEF OwnInv
<1> QED
  BY <1>1, <1>2 DEF Next, OwnInv
-----------------------------------------------------------------------------
(* No chunk of a stream that ended is missing.                             *)
Places(a, q) == {i \in DOMAIN a : a[i] = q}
Count(a, q) == Cardinality(Places(a, q))

(* A chunk adds one to the count of its question, and nothing to another.  *)
LEMMA CountAppend ==
  ASSUME NEW a \in Seq(Queries), NEW p \in Queries, NEW q \in Queries
  PROVE  Count(Append(a, p), q) = IF p = q THEN Count(a, q) + 1 ELSE Count(a, q)
<1> DEFINE b == Append(a, p)
           n == Len(a) + 1
<1>1. /\ DOMAIN a = 1..Len(a) /\ Len(a) \in Nat /\ DOMAIN b = 1..n
      /\ \A i \in DOMAIN a : b[i] = a[i]
      /\ b[n] = p
  OBVIOUS
<1> HIDE DEF b
<1>2. n \notin DOMAIN a /\ n \in DOMAIN b /\ DOMAIN b = DOMAIN a \cup {n}
  BY <1>1
<1>3. IsFiniteSet(Places(a, q))
  <2>1. IsFiniteSet(1..Len(a))
    BY <1>1, FS_Interval
  <2>2. Places(a, q) \subseteq 1..Len(a)
    BY <1>1 DEF Places
  <2> QED
    BY <2>1, <2>2, FS_Subset
<1> HIDE DEF n
<1>4. CASE p = q
  <2>1. Places(b, q) = Places(a, q) \cup {n} /\ n \notin Places(a, q)
    BY <1>1, <1>2, <1>4 DEF Places
  <2>2. Cardinality(Places(a, q) \cup {n}) = Cardinality(Places(a, q)) + 1
    BY <1>3, <2>1, FS_AddElement
  <2> QED
    BY <1>4, <2>1, <2>2 DEF Count, b
<1>5. CASE p # q
  <2>1. Places(b, q) = Places(a, q)
    BY <1>1, <1>2, <1>5 DEF Places
  <2> QED
    BY <1>5, <2>1 DEF Count, b
<1> QED
  BY <1>4, <1>5

(* An empty answer has no chunks.                                          *)
LEMMA CountEmpty == ASSUME NEW q PROVE Count(<<>>, q) = 0
<1>1. Places(<<>>, q) = {}
  BY DEF Places
<1> QED
  BY <1>1, FS_EmptySet DEF Count

(* The last turn of a tab.                                                 *)
Last(t) == turns[t][Len(turns[t])]

(* A question under way is shown by the last turn of its tab and nowhere   *)
(* else, with the chunks that were sent.                                   *)
UnderWay(t) ==
  LET q == stream[t].query IN
  /\ q \notin finished /\ Count(Last(t).answer, q) = sent[q]
  /\ \A x : InStore(x) => x.query # q
  /\ \A u \in Tabs : \A i \in DOMAIN turns[u] :
       turns[u][i].query = q => u = t /\ i = Len(turns[t])

WholeInv ==
  /\ \A x : Somewhere(x) => Whole(x)
  /\ \A t \in Tabs : Streaming(t) => UnderWay(t)
  /\ \A q \in Queries : owner[q] = NoSession => q \notin finished /\ sent[q] = 0

(* Nothing was sent when the tabs are opened.                              *)
LEMMA WholeInitInv == Init => WholeInv
<1> SUFFICES ASSUME Init PROVE WholeInv
  OBVIOUS
<1>1. ASSUME NEW x PROVE ~Somewhere(x)
  BY DEF Init, Somewhere, InStore, OnScreen
<1>2. ASSUME NEW t \in Tabs PROVE ~Streaming(t)
  BY DEF Init, Streaming
<1> QED
  BY <1>1, <1>2 DEF Init, WholeInv

(* What is somewhere was asked.                                            *)
LEMMA Asked ==
  ASSUME ChatTyped, FiledInv, NEW x, Somewhere(x)
  PROVE  x.query \in Queries /\ owner[x.query] # NoSession
<1>1. x \in Turn
  BY TurnsTyped
<1>2. ASSUME NEW t \in Tabs, NEW i \in DOMAIN turns[t], x = turns[t][i]
      PROVE  owner[x.query] # NoSession
  <2>1. turns[t] \in Seq(Turn)
    BY TypedFacts
  <2>2. turns[t] # <<>>
    BY <1>2, <2>1
  <2> QED
    BY <1>2, <2>2 DEF FiledInv, FiledUnder
<1>3. ASSUME NEW k \in DOMAIN saved, NEW i \in DOMAIN saved[k].turns, x = saved[k].turns[i]
      PROVE  owner[x.query] # NoSession
  <2>1. saved[k] \in SavedSession
    BY TypedFacts
  <2>2. saved[k].id # NoSession
    BY <2>1, ChatAssumption DEF SavedSession
  <2> QED
    BY <1>3, <2>2 DEF FiledInv, FiledUnder
<1>4. ASSUME NEW t \in Tabs, NEW k \in DOMAIN listed[t], NEW i \in DOMAIN listed[t][k].turns,
             x = listed[t][k].turns[i]
      PROVE  owner[x.query] # NoSession
  <2>1. listed[t][k] \in SavedSession
    BY TypedFacts
  <2>2. listed[t][k].id # NoSession
    BY <2>1, ChatAssumption DEF SavedSession
  <2> QED
    BY <1>4, <2>2 DEF FiledInv, FiledUnder
<1> QED
  BY <1>1, <1>2, <1>3, <1>4 DEF Somewhere, InStore, OnScreen, Turn

(* The turn of a stream is on the screen.                                  *)
LEMMA LastShown ==
  ASSUME ChatTyped, StreamsInv, NEW t \in Tabs, Streaming(t)
  PROVE  /\ Len(turns[t]) \in DOMAIN turns[t] /\ Somewhere(Last(t)) /\ OnScreen(t, Last(t))
         /\ Last(t).query = stream[t].query /\ Last(t).id = stream[t].id
         /\ Last(t).query \in Queries
<1>1. /\ turns[t] # <<>> /\ Last(t).query = stream[t].query /\ Last(t).id = stream[t].id
  BY DEF StreamsInv, StreamInv, Last
<1>2. turns[t] \in Seq(Turn)
  BY TypedFacts
<1>3. Len(turns[t]) \in DOMAIN turns[t]
  BY <1>1, <1>2
<1>4. OnScreen(t, Last(t))
  BY <1>3 DEF OnScreen, Last
<1> QED
  BY <1>1, <1>3, <1>4, StreamTyped DEF Somewhere

(* A stream that is read after a step was read before it, or was started.  *)
LEMMA StreamFrom ==
  ASSUME ChatTyped, NEW t \in Tabs, TabStep(t), NEW u \in Tabs, Streaming(u)'
  PROVE  \/ Streaming(u) /\ stream'[u] = stream[u] /\ ~(u = t /\ EndStream(t))
         \/ \E q \in Queries : u = t /\ Send(t, q) /\ stream'[t].query = q
<1>a. stream \in [Tabs -> Source \cup {NoStream}]
  BY TypedFacts
<1>1. CASE u # t
  <2>1. stream'[u] = stream[u]
    BY <1>1, OthersStay
  <2> QED
    BY <1>1, <2>1 DEF Streaming
<1>2. ASSUME NEW q \in Queries, Send(t, q) PROVE stream'[t].query = q
  BY <1>2, <1>a DEF Send
<1>3. ASSUME NEW ts, NEW s, Replace(t, ts, s) PROVE stream'[t] = NoStream
  BY <1>3, <1>a DEF Replace
<1>4. ASSUME Stop(t) \/ NewChat(t) \/ SelectSession(t) \/ DeleteSession(t)
      PROVE  stream'[t] = stream[t] \/ stream'[t] = NoStream
  BY <1>4, <1>3 DEF Stop, NewChat, SelectSession, DeleteSession
<1>5. ASSUME EndStream(t) PROVE stream'[t] = NoStream
  BY <1>5, <1>a DEF EndStream
<1>6. ASSUME Chunk(t) \/ FailStream(t) \/ Answer(t) \/ Look(t) \/ Reload(t)
      PROVE  stream'[t] = stream[t] \/ stream'[t] = NoStream
  BY <1>6, <1>a DEF Chunk, FailStream, Answer, Look, Reload
<1>7. CASE u = t
  BY <1>2, <1>4, <1>5, <1>6, <1>7 DEF TabStep, Streaming
<1> QED
  BY <1>1, <1>7

(* The histories change when a chunk comes and when a stream ends.         *)
LEMMA HistoryFrom ==
  ASSUME ChatTyped, NEW t \in Tabs, TabStep(t)
  PROVE  /\ \/ Chunk(t) /\ \A q \in Queries :
                 sent'[q] = IF q = stream[t].query THEN sent[q] + 1 ELSE sent[q]
            \/ ~Chunk(t) /\ sent' = sent
         /\ \/ EndStream(t) /\ finished' = finished \cup {stream[t].query}
            \/ finished' = finished
         /\ Chunk(t) \/ EndStream(t) => Streaming(t)
<1>1. ASSUME Chunk(t)
      PROVE  \A q \in Queries : sent'[q] = IF q = stream[t].query THEN sent[q] + 1 ELSE sent[q]
  BY <1>1, TypedFacts DEF Chunk
<1>2. Chunk(t) \/ sent' = sent
  BY DEF TabStep, Send, EndStream, FailStream, Answer, Stop, NewChat, SelectSession,
         DeleteSession, Look, Reload, history
<1>3. EndStream(t) \/ finished' = finished
  BY DEF TabStep, Send, Chunk, FailStream, Answer, Stop, NewChat, SelectSession,
         DeleteSession, Look, Reload, history
<1> QED
  BY <1>1, <1>2, <1>3 DEF EndStream, Chunk

(* A turn counts as many chunks of its own question as one that was there, *)
(* unless it is new or its stream is being read.                           *)
LEMMA CountFrom ==
  ASSUME ChatTyped, NEW t \in Tabs, TabStep(t), NEW x, Somewhere(x)'
  PROVE  \/ \E q \in Queries : Send(t, q) /\ x = NewTurn(t, q)
         \/ Chunk(t) /\ x.query = stream[t].query
         \/ \E y : Somewhere(y) /\ x.query = y.query /\ Count(x.answer, x.query) = Count(y.answer, y.query)
<1> DEFINE Known(z) ==
             \/ \E q \in Queries : Send(t, q) /\ z = NewTurn(t, q)
             \/ Chunk(t) /\ z.query = stream[t].query
             \/ \E y : Somewhere(y) /\ z.query = y.query /\ Count(z.answer, z.query) = Count(y.answer, y.query)
<1>1. ASSUME NEW i \in DOMAIN turns'[t] PROVE Known(turns'[t][i])
  <2> DEFINE new == turns'[t][i]
             old == turns[t][i]
  <2>1. ASSUME NEW y, Somewhere(y), new.query = y.query, new.answer = y.answer PROVE Known(new)
    BY <2>1
  <2>2. ASSUME i \in DOMAIN turns[t] PROVE Somewhere(old) /\ old \in Turn
    <3>1. Somewhere(old)
      BY <2>2 DEF Somewhere, OnScreen
    <3> QED
      BY <3>1, TurnsTyped
  <2>3. ASSUME i \in DOMAIN turns[t], new.query = old.query, Chunk(t),
               new.answer = Append(old.answer, stream[t].query)
        PROVE  Known(new)
    <3>1. old.answer \in Seq(Queries) /\ old.query \in Queries
      BY <2>2, <2>3 DEF Turn
    <3>2. stream[t].query \in Queries
      BY <2>3, StreamTyped DEF Chunk
    <3> HIDE DEF old, new
    <3>3. CASE old.query # stream[t].query
      <4>1. Count(new.answer, new.query) = Count(old.answer, old.query)
        BY <2>3, <3>1, <3>2, <3>3, CountAppend
      <4> QED
        BY <2>2, <2>3, <4>1
    <3>4. CASE old.query = stream[t].query
      BY <2>3, <3>4
    <3> QED
      BY <3>3, <3>4
  <2>4. ASSUME NEW k \in DOMAIN listed[t], i \in DOMAIN listed[t][k].turns
        PROVE  Somewhere(listed[t][k].turns[i])
    BY <2>4 DEF Somewhere, InStore
  <2>5. ASSUME NEW q \in Queries, Send(t, q), new = NewTurn(t, q) PROVE Known(new)
    BY <2>5
  <2> HIDE DEF Known
  <2> QED
    BY <2>1, <2>2, <2>3, <2>4, <2>5, TurnFrom DEF Alike, SameContent
<1>2. ASSUME NEW u \in Tabs, u # t, NEW i \in DOMAIN turns'[u] PROVE Known(turns'[u][i])
  <2>1. turns'[u] = turns[u]
    BY <1>2, OthersStay
  <2>2. Somewhere(turns'[u][i])
    BY <1>2, <2>1 DEF Somewhere, OnScreen
  <2> QED
    BY <2>2
<1>3. ASSUME InStore(x) PROVE Known(x)
  BY <1>3 DEF Somewhere
<1> HIDE DEF Known
<1>4. ASSUME InStore(x)' PROVE Known(x)
  BY <1>1, <1>3, <1>4, StoreFrom
<1>5. ASSUME NEW u \in Tabs, OnScreen(u, x)' PROVE Known(x)
  BY <1>1, <1>2, <1>5 DEF OnScreen
<1>6. Known(x)
  BY <1>4, <1>5 DEF Somewhere
<1> QED
  BY <1>6 DEF Known

(* Asking changes neither chunks nor ends of streams.                      *)
LEMMA SendHistory ==
  ASSUME NEW t \in Tabs, NEW q \in Queries, Send(t, q)
  PROVE  owner[q] = NoSession /\ finished' = finished /\ sent' = sent
BY DEF Send

(* A turn that stops being unfinished business was whole.                  *)
LEMMA WholeNext ==
  ASSUME ChatTyped, StreamsInv, FiledInv, WholeInv, NEW t \in Tabs, TabStep(t),
         NEW x, Somewhere(x)'
  PROVE  Whole(x)'
<1> DEFINE q == x.query
<1>a. ASSUME NEW y PROVE Whole(y) <=> (y.query \in finished => Count(y.answer, y.query) = sent[y.query])
  BY DEF Whole, Count, Places
<1>b. (q \in finished' => Count(x.answer, q) = sent'[q]) => Whole(x)'
  BY DEF Whole, Count, Places
<1> SUFFICES ASSUME q \in finished' PROVE Count(x.answer, q) = sent'[q]
  BY <1>b
<1>c. q \in Queries
  <2>1. finished' \subseteq Queries
    BY ChatNextTyped DEF Next, ChatTyped, TypeOK
  <2> QED
    BY <2>1
<1>1. ASSUME NEW p \in Queries, Send(t, p), x = NewTurn(t, p) PROVE FALSE
  <2>1. q = p /\ owner[p] = NoSession /\ finished' = finished
    BY <1>1, NewTurnFields, SendHistory
  <2> QED
    BY <2>1 DEF WholeInv
<1>2. ASSUME Chunk(t), q = stream[t].query PROVE FALSE
  <2>1. finished' = finished /\ Streaming(t)
    BY <1>2 DEF Chunk
  <2> QED
    BY <1>2, <2>1 DEF WholeInv, UnderWay
<1>3. ASSUME NEW y, Somewhere(y), q = y.query, Count(x.answer, q) = Count(y.answer, q)
      PROVE  Count(x.answer, q) = sent'[q]
  <2>1. CASE q \in finished
    <3>1. Count(y.answer, q) = sent[q]
      BY <1>a, <1>3, <2>1 DEF WholeInv
    <3>2. Streaming(t) => stream[t].query # q
      BY <2>1 DEF WholeInv, UnderWay
    <3> QED
      BY <1>c, <1>3, <3>1, <3>2, HistoryFrom
  <2>2. CASE q \notin finished
    <3>1. EndStream(t) /\ q = stream[t].query /\ Streaming(t)
      BY <2>2, HistoryFrom
    <3>2. UnderWay(t)
      BY <3>1 DEF WholeInv
    <3>3. y = Last(t)
      BY <1>3, <3>1, <3>2 DEF UnderWay, Somewhere, OnScreen, Last
    <3>4. sent' = sent
      BY <3>1 DEF EndStream
    <3> QED
      BY <1>3, <3>1, <3>2, <3>3, <3>4 DEF UnderWay
  <2> QED
    BY <2>1, <2>2
<1> HIDE DEF q
<1>4. \/ \E p \in Queries : Send(t, p) /\ x = NewTurn(t, p)
      \/ Chunk(t) /\ q = stream[t].query
      \/ \E y : Somewhere(y) /\ q = y.query /\ Count(x.answer, q) = Count(y.answer, q)
  BY CountFrom DEF q
<1> QED
  BY <1>1, <1>2, <1>3, <1>4

(* The places of a question under way stay where they are.                 *)
LEMMA PlaceKept ==
  ASSUME ChatTyped, StreamsInv, FiledInv, WholeInv, NEW t \in Tabs, TabStep(t), StreamsInv',
         NEW u \in Tabs, Streaming(u), Streaming(u)', stream'[u] = stream[u],
         ~(u = t /\ EndStream(t))
  PROVE  /\ \A x : InStore(x)' => x.query # stream[u].query
         /\ \A v \in Tabs : \A i \in DOMAIN turns'[v] :
              turns'[v][i].query = stream[u].query => v = u /\ i = Len(turns'[u])
         /\ Len(turns'[u]) = Len(turns[u]) /\ Len(turns'[u]) \in DOMAIN turns'[u]
         /\ turns'[u][Len(turns'[u])].query = stream[u].query
<1> DEFINE q == stream[u].query
<1>a. /\ q \in Queries /\ owner[q] # NoSession
      /\ \A x : InStore(x) => x.query # q
      /\ \A v \in Tabs : \A i \in DOMAIN turns[v] : turns[v][i].query = q => v = u /\ i = Len(turns[u])
  BY LastShown, Asked DEF WholeInv, UnderWay
<1> HIDE DEF q
<1>1. ASSUME NEW i \in DOMAIN turns'[t], turns'[t][i].query = q
      PROVE  t = u /\ i = Len(turns[u])
  <2>1. ASSUME NEW p \in Queries, Send(t, p), turns'[t][i] = NewTurn(t, p) PROVE FALSE
    <3>1. p = q /\ owner[p] = NoSession
      BY <1>1, <2>1, NewTurnFields, SendHistory
    <3> QED
      BY <1>a, <3>1
  <2>2. ASSUME i \in DOMAIN turns[t], Alike(turns'[t][i], turns[t][i])
        PROVE  t = u /\ i = Len(turns[u])
    BY <1>1, <1>a, <2>2 DEF Alike
  <2>3. ASSUME NEW k \in DOMAIN listed[t], i \in DOMAIN listed[t][k].turns,
               Alike(turns'[t][i], listed[t][k].turns[i])
        PROVE  FALSE
    <3>1. InStore(listed[t][k].turns[i])
      BY <2>3 DEF InStore
    <3> QED
      BY <1>1, <1>a, <2>3, <3>1 DEF Alike
  <2> QED
    BY <2>1, <2>2, <2>3, TurnFrom
<1>2. ASSUME NEW v \in Tabs, v # t, NEW i \in DOMAIN turns'[v], turns'[v][i].query = q
      PROVE  v = u /\ i = Len(turns[u])
  <2>1. turns'[v] = turns[v]
    BY <1>2, OthersStay
  <2> QED
    BY <1>2, <1>a, <2>1
<1>3. \A v \in Tabs : \A i \in DOMAIN turns'[v] : turns'[v][i].query = q => v = u /\ i = Len(turns[u])
  BY <1>1, <1>2
<1>4. /\ Len(turns'[u]) \in DOMAIN turns'[u] /\ turns'[u][Len(turns'[u])].query = q
  <2>1. turns'[u] # <<>> /\ turns'[u][Len(turns'[u])].query = stream'[u].query
    BY DEF StreamsInv, StreamInv
  <2>2. turns'[u] \in Seq(Turn)
    BY ChatNextTyped DEF Next, ChatTyped, TypeOK
  <2>3. Len(turns'[u]) \in DOMAIN turns'[u]
    BY <2>1, <2>2
  <2> QED
    BY <2>1, <2>3 DEF q
<1>5. Len(turns'[u]) = Len(turns[u])
  BY <1>3, <1>4
<1>6. ASSUME NEW x, InStore(x)', x.query = q PROVE FALSE
  <2>1. ~InStore(x)
    BY <1>a, <1>6
  <2>2. EndStream(t) /\ \E i \in DOMAIN turns'[t] : x = turns'[t][i]
    BY <1>6, <2>1, StoreFrom
  <2> QED
    BY <1>3, <1>6, <2>2
<1> QED
  BY <1>3, <1>4, <1>5, <1>6 DEF q

(* Every step leaves a stream under way in one place, with the chunks that *)
(* were sent.                                                              *)
LEMMA UnderWayNext ==
  ASSUME ChatTyped, StreamsInv, FiledInv, WholeInv, NEW t \in Tabs, TabStep(t), StreamsInv',
         NEW u \in Tabs, Streaming(u)'
  PROVE  UnderWay(u)'
<1> DEFINE n == Len(turns'[u])
           OneChunkMore(q) == /\ q \notin finished'
                              /\ Count(turns'[u][n].answer, q) = sent'[q]
                              /\ \A x : InStore(x)' => x.query # q
                              /\ \A v \in Tabs : \A i \in DOMAIN turns'[v] :
                                   turns'[v][i].query = q => v = u /\ i = n
<1>a. OneChunkMore(stream'[u].query) => UnderWay(u)'
  BY DEF UnderWay, Last, Count, Places
<1>1. ASSUME Streaming(u), stream'[u] = stream[u], ~(u = t /\ EndStream(t))
      PROVE  OneChunkMore(stream'[u].query)
  <2> DEFINE q == stream[u].query
  <2>a. /\ \A x : InStore(x)' => x.query # q
        /\ \A v \in Tabs : \A i \in DOMAIN turns'[v] : turns'[v][i].query = q => v = u /\ i = n
        /\ n = Len(turns[u]) /\ n \in DOMAIN turns'[u] /\ turns'[u][n].query = q
    BY <1>1, PlaceKept
  <2>b. /\ q \notin finished /\ Count(Last(u).answer, q) = sent[q]
        /\ \A x : InStore(x) => x.query # q
        /\ \A v \in Tabs : \A i \in DOMAIN turns[v] : turns[v][i].query = q => v = u /\ i = Len(turns[u])
    BY <1>1 DEF WholeInv, UnderWay
  <2>c. q \in Queries /\ n \in DOMAIN turns[u] /\ Last(u) = turns[u][n] /\ Last(u).query = q
        /\ Last(u).id = stream[u].id /\ Somewhere(Last(u)) /\ owner[q] # NoSession
    BY <1>1, <2>a, LastShown, Asked DEF Last
  <2>1. ASSUME u # t, Streaming(t) PROVE stream[t].query # q
    <3>1. Last(t).query = stream[t].query /\ OnScreen(t, Last(t))
      BY <2>1, LastShown
    <3> QED
      BY <2>1, <2>b, <3>1 DEF OnScreen
  <2>2. q \notin finished'
    BY <1>1, <2>1, <2>b, HistoryFrom
  <2> HIDE DEF q
  <2>3. Count(turns'[u][n].answer, q) = sent'[q]
    <3>1. CASE u # t
      <4>1. turns'[u] = turns[u]
        BY <3>1, OthersStay
      <4>2. sent'[q] = sent[q]
        BY <3>1, <2>1, <2>c, HistoryFrom
      <4> QED
        BY <2>b, <2>c, <4>1, <4>2
    <3>2. CASE u = t /\ Chunk(t)
      <4>1. turns'[t] = Received(turns[t], stream[t]) /\ turns[t] \in Seq(Turn)
        BY <3>2, TypedFacts DEF Chunk
      <4>2. GrownTurns(turns[t], turns'[t], stream[t])
        BY <3>2, <2>c, <4>1, ReceivedTurns DEF q
      <4>3. turns'[t][n].answer = Append(Last(t).answer, q)
        BY <3>2, <2>c, <4>2 DEF GrownTurns, q
      <4>4. Last(t) \in Turn
        BY <3>2, <2>c, TurnsTyped
      <4>5. Count(turns'[t][n].answer, q) = Count(Last(t).answer, q) + 1
        BY <2>c, <4>3, <4>4, CountAppend DEF Turn
      <4>6. sent'[q] = sent[q] + 1
        BY <3>2, <2>c, HistoryFrom DEF q
      <4> QED
        BY <3>2, <2>b, <4>5, <4>6
    <3>3. CASE u = t /\ ~Chunk(t)
      <4>1. turns'[t][n].answer = Last(t).answer
        <5>1. ASSUME NEW p \in Queries, Send(t, p), n = Len(turns[t]) + 1 PROVE FALSE
          <6>1. turns[t] \in Seq(Turn)
            BY TypedFacts
          <6> QED
            BY <3>3, <2>a, <5>1, <6>1
        <5>2. ASSUME NEW k \in DOMAIN listed[t], n \in DOMAIN listed[t][k].turns,
                     Alike(turns'[t][n], listed[t][k].turns[n])
              PROVE  FALSE
          <6>1. InStore(listed[t][k].turns[n])
            BY <5>2 DEF InStore
          <6> QED
            BY <3>3, <2>a, <2>b, <5>2, <6>1 DEF Alike
        <5>3. n \in DOMAIN turns'[t]
          BY <2>a, <3>3
        <5> HIDE DEF n
        <5> QED
          BY <3>3, <2>c, <5>1, <5>2, <5>3, TurnFrom DEF SameContent
      <4>2. sent' = sent
        BY <3>3, HistoryFrom
      <4> QED
        BY <3>3, <2>b, <4>1, <4>2
    <3> QED
      BY <3>1, <3>2, <3>3
  <2> QED
    BY <1>1, <2>a, <2>2, <2>3 DEF q
<1>2. ASSUME NEW q \in Queries, u = t, Send(t, q), stream'[t].query = q
      PROVE  OneChunkMore(q)
  <2>a. /\ owner[q] = NoSession /\ finished' = finished /\ sent' = sent
        /\ n = Len(turns[t]) + 1 /\ turns'[t][n] = NewTurn(t, q)
        /\ DOMAIN turns[t] = 1..Len(turns[t]) /\ DOMAIN turns'[t] = 1..n
        /\ \A i \in DOMAIN turns[t] : turns'[t][i] = turns[t][i]
        /\ Len(turns[t]) \in Nat
    BY <1>2, SendEffect, SendHistory
  <2>b. \A x : Somewhere(x) => x.query # q
    BY <2>a, Asked
  <2>1. q \notin finished'
    BY <2>a DEF WholeInv
  <2>2. Count(turns'[u][n].answer, q) = sent'[q]
    <3>1. turns'[u][n].answer = <<>>
      BY <1>2, <2>a DEF NewTurn
    <3>2. sent'[q] = 0
      BY <2>a DEF WholeInv
    <3> QED
      BY <3>1, <3>2, CountEmpty
  <2>3. ASSUME NEW i \in DOMAIN turns'[t], turns'[t][i].query = q PROVE i = n
    <3>1. ASSUME i \in DOMAIN turns[t] PROVE FALSE
      <4>1. Somewhere(turns[t][i])
        BY <3>1 DEF Somewhere, OnScreen
      <4> QED
        BY <2>3, <2>a, <2>b, <3>1, <4>1
    <3> HIDE DEF n
    <3> QED
      BY <2>a, <3>1
  <2>4. ASSUME NEW v \in Tabs, v # t, NEW i \in DOMAIN turns'[v], turns'[v][i].query = q
        PROVE  FALSE
    <3>1. turns'[v] = turns[v]
      BY <2>4, OthersStay
    <3>2. Somewhere(turns[v][i])
      BY <2>4, <3>1 DEF Somewhere, OnScreen
    <3> QED
      BY <2>4, <2>b, <3>1, <3>2
  <2>5. ASSUME NEW x, InStore(x)', x.query = q PROVE FALSE
    <3>1. ~EndStream(t)
      <4>1. stream'[t] # NoStream
        BY <1>2 DEF Streaming
      <4> QED
        BY <4>1, EndStreamEffect
    <3>2. InStore(x)
      BY <2>5, <3>1, StoreFrom
    <3> QED
      BY <2>5, <2>b, <3>2 DEF Somewhere
  <2> HIDE DEF n
  <2> QED
    BY <1>2, <2>1, <2>2, <2>3, <2>4, <2>5
<1> HIDE DEF OneChunkMore
<1> QED
  BY <1>a, <1>1, <1>2, StreamFrom

(* Every step keeps the turns of finished streams whole.                   *)
LEMMA WholeNextInv ==
  ChatTyped /\ StreamsInv /\ FiledInv /\ WholeInv /\ [Next]_vars => WholeInv'
<1> SUFFICES ASSUME ChatTyped, StreamsInv, FiledInv, WholeInv, [Next]_vars PROVE WholeInv'
  OBVIOUS
<1>1. CASE UNCHANGED vars
  BY <1>1 DEF vars, tabVars, history, WholeInv, UnderWay, Whole, Last, Somewhere, InStore,
     OnScreen, Streaming
<1>2. ASSUME NEW t \in Tabs, TabStep(t) PROVE WholeInv'
  <2>1. StreamsInv'
    BY StreamsNextInv
  <2>2. \A x : Somewhere(x)' => Whole(x)'
    BY <1>2, WholeNext
  <2>3. \A u \in Tabs : Streaming(u)' => UnderWay(u)'
    BY <1>2, <2>1, UnderWayNext
  <2>4. ASSUME NEW q \in Queries, owner'[q] = NoSession PROVE q \notin finished' /\ sent'[q] = 0
    <3>1. owner[q] = NoSession
      BY <1>2, <2>4, OwnerKept
    <3>2. Streaming(t) => stream[t].query # q
      BY <3>1, LastShown, Asked
    <3>3. q \notin finished /\ sent[q] = 0
      BY <3>1 DEF WholeInv
    <3> QED
      BY <1>2, <3>2, <3>3, HistoryFrom
  <2> QED
    BY <2>2, <2>3, <2>4 DEF WholeInv
<1> QED
  BY <1>1, <1>2 DEF Next
-----------------------------------------------------------------------------
(* A deleted session is gone, while only one tab has touched it.           *)

(* A step notes the tab that makes it, and no other, as a visitor.         *)
LEMMA VisitorsGrow ==
  ASSUME ChatTyped, NEW t \in Tabs, TabStep(t), NEW s \in Sessions
  PROVE  visitors[s] \subseteq visitors'[s] /\ visitors'[s] \subseteq visitors[s] \cup {t}
<1>1. visitors' = visitors \/ \E x : Visit(t, x)
  BY DEF TabStep, Send, Chunk, EndStream, FailStream, Answer, Stop, NewChat, SelectSession,
         DeleteSession, Look, Reload, history
<1>2. ASSUME NEW x, Visit(t, x)
      PROVE  visitors[s] \subseteq visitors'[s] /\ visitors'[s] \subseteq visitors[s] \cup {t}
  BY <1>2, TypedFacts DEF Visit
<1> QED
  BY <1>1, <1>2

(* Whoever has a session open is among its visitors.                       *)
LEMMA OpenIsVisited ==
  ASSUME ChatTyped, NEW t \in Tabs, TabStep(t), NEW s \in Sessions, session'[t] = s
  PROVE  session[t] = s \/ t \in visitors'[s]
<1>1. ASSUME NEW q \in Queries, Send(t, q) PROVE t \in visitors'[s]
  <2>1. PICK x \in IF session[t] = NoSession THEN {y \in Sessions : visitors[y] = {}}
                                             ELSE {session[t]} :
          session' = [session EXCEPT ![t] = x] /\ Visit(t, x)
    BY <1>1 DEF Send
  <2>2. x = s
    BY <2>1, TypedFacts
  <2> QED
    BY <2>1, <2>2, TypedFacts DEF Visit
<1>2. ASSUME SelectSession(t) PROVE t \in visitors'[s]
  <2>1. PICK k \in DOMAIN listed[t] :
          Replace(t, listed[t][k].turns, listed[t][k].id) /\ Visit(t, listed[t][k].id)
    BY <1>2 DEF SelectSession
  <2>2. listed[t][k].id = s
    BY <2>1, TypedFacts DEF Replace
  <2> QED
    BY <2>1, <2>2, TypedFacts DEF Visit
<1>3. ASSUME SameQueries(turns[t], turns'[t]), session'[t] = session[t] PROVE session[t] = s
  BY <1>3
<1>4. session'[t] # NoSession
  BY ChatAssumption
<1> QED
  BY <1>1, <1>2, <1>3, <1>4, ScreenFrom

(* Only a tab's own deletion adds to the deleted sessions.                 *)
LEMMA DeletedFrom ==
  ASSUME ChatTyped, NEW t \in Tabs, TabStep(t), NEW s \in deleted', s \notin deleted
  PROVE  /\ s \in Sessions /\ t \in visitors'[s]
         /\ \A m \in DOMAIN saved' : saved'[m].id # s
         /\ listed'[t] = saved' /\ session'[t] # s
<1>1. DeleteSession(t)
  BY DEF TabStep, Send, Chunk, EndStream, FailStream, Answer, Stop, NewChat, SelectSession,
         Look, Reload, history
<1>2. PICK k \in DOMAIN listed[t] :
        /\ saved' = Others(listed[t][k].id)
        /\ deleted' = deleted \cup {listed[t][k].id}
        /\ Visit(t, listed[t][k].id)
        /\ IF session[t] = listed[t][k].id
           THEN Replace(t, <<>>, NoSession)
           ELSE UNCHANGED <<turns, session, isStreaming, stream>>
  BY <1>1 DEF DeleteSession
<1>3. s = listed[t][k].id
  BY <1>2
<1>4. s \in Sessions
  <2>1. listed[t][k] \in SavedSession
    BY TypedFacts
  <2> QED
    BY <1>3, <2>1 DEF SavedSession
<1>5. t \in visitors'[s]
  BY <1>2, <1>3, <1>4, TypedFacts DEF Visit
<1>6. \A m \in DOMAIN saved' : saved'[m].id # s
  BY <1>2, <1>3, DeleteEffect
<1>7. listed'[t] = saved'
  BY <1>1, TypedFacts DEF DeleteSession, Shown
<1>8. session'[t] # s
  BY <1>2, <1>3, <1>4, TypedFacts, ChatAssumption DEF Replace
<1> QED
  BY <1>4, <1>5, <1>6, <1>7, <1>8

Alone(s) == \A u, v \in visitors[s] : u = v
Gone(s) ==
  /\ \A k \in DOMAIN saved : saved[k].id # s
  /\ \A t \in Tabs : session[t] # s
  /\ \A t \in visitors[s] : \A k \in DOMAIN listed[t] : listed[t][k].id # s

GoneInv ==
  /\ \A s \in Sessions : IsFiniteSet(visitors[s])
  /\ \A t \in Tabs : session[t] # NoSession => t \in visitors[session[t]]
  /\ \A s \in deleted : visitors[s] # {} /\ (Alone(s) => Gone(s))

(* Nothing was deleted when the tabs are opened.                           *)
LEMMA GoneInitInv == Init => GoneInv
<1> SUFFICES ASSUME Init PROVE GoneInv
  OBVIOUS
<1>1. IsFiniteSet({})
  BY FS_EmptySet
<1> QED
  BY <1>1 DEF Init, GoneInv

(* A step keeps a session away that is gone, or shares it.                 *)
LEMMA GoneStays ==
  ASSUME ChatTyped, GoneInv, NEW t \in Tabs, TabStep(t), NEW s \in Sessions, Alone(s)',
         visitors[s] # {}, Gone(s)
  PROVE  Gone(s)'
<1>1. /\ visitors[s] \subseteq visitors'[s] /\ visitors'[s] \subseteq visitors[s] \cup {t}
      /\ visitors \in [Sessions -> SUBSET Tabs]
  BY VisitorsGrow, TypedFacts
<1>2. visitors'[s] = visitors[s]
  BY <1>1 DEF Alone
<1>3. ASSUME NEW m \in DOMAIN saved' PROVE saved'[m].id # s
  BY SavedFrom DEF Gone
<1>4. session'[t] # s
  <2>1. ASSUME NEW q \in Queries, Send(t, q) PROVE session'[t] # s
    BY <2>1, SendEffect DEF Gone
  <2>2. ASSUME NEW k \in DOMAIN listed[t], Visit(t, listed[t][k].id), listed[t][k].id = s PROVE FALSE
    <3>1. t \in visitors[s]
      BY <1>2, <2>2, TypedFacts DEF Visit
    <3> QED
      BY <2>2, <3>1 DEF Gone
  <2>3. session[t] # s /\ NoSession # s
    BY ChatAssumption DEF Gone
  <2> QED
    BY <2>1, <2>2, <2>3, ScreenFrom
<1>5. ASSUME NEW u \in Tabs PROVE session'[u] # s
  BY <1>4, OthersStay DEF Gone
<1>6. ASSUME NEW u \in visitors'[s], NEW k \in DOMAIN listed'[u] PROVE listed'[u][k].id # s
  <2>1. u \in visitors[s] /\ u \in Tabs
    BY <1>1, <1>2
  <2>2. listed'[u] = listed[u] \/ listed'[u] = saved'
    BY <2>1, ListedFrom
  <2> QED
    BY <1>3, <2>1, <2>2 DEF Gone
<1> QED
  BY <1>3, <1>5, <1>6 DEF Gone

(* Every step keeps deleted sessions away.                                 *)
LEMMA GoneNextInv == ChatTyped /\ GoneInv /\ [Next]_vars => GoneInv'
<1> SUFFICES ASSUME ChatTyped, GoneInv, [Next]_vars PROVE GoneInv'
  OBVIOUS
<1>1. CASE UNCHANGED vars
  BY <1>1 DEF vars, tabVars, history, GoneInv, Alone, Gone
<1>2. ASSUME NEW t \in Tabs, TabStep(t) PROVE GoneInv'
  <2>a. \A s \in Sessions : /\ visitors[s] \subseteq visitors'[s]
                            /\ visitors'[s] \subseteq visitors[s] \cup {t}
    BY <1>2, VisitorsGrow
  <2>b. ChatTyped'
    BY ChatNextTyped
  <2>1. ASSUME NEW s \in Sessions PROVE IsFiniteSet(visitors'[s])
    <3>1. visitors'[s] = visitors[s] \/ visitors'[s] = visitors[s] \cup {t}
      BY <2>a
    <3>2. IsFiniteSet(visitors[s]) /\ IsFiniteSet(visitors[s] \cup {t})
      BY FS_AddElement DEF GoneInv
    <3> QED
      BY <3>1, <3>2
  <2>2. ASSUME NEW u \in Tabs, session'[u] # NoSession PROVE u \in visitors'[session'[u]]
    <3>0. session'[u] \in Sessions
      BY <2>2, <2>b DEF ChatTyped, TypeOK
    <3>1. session[u] = session'[u] \/ u \in visitors'[session'[u]]
      BY <1>2, <3>0, OpenIsVisited, OthersStay
    <3> QED
      BY <2>a, <2>2, <3>0, <3>1 DEF GoneInv
  <2>3. ASSUME NEW s \in deleted', s \in deleted
        PROVE  visitors'[s] # {} /\ (Alone(s)' => Gone(s)')
    <3>1. s \in Sessions /\ visitors[s] # {} /\ visitors[s] \subseteq visitors'[s]
      BY <2>a, <2>3, TypedFacts DEF GoneInv
    <3>2. ASSUME Alone(s)' PROVE Gone(s)'
      <4>1. Alone(s)
        BY <3>1, <3>2 DEF Alone
      <4>2. Gone(s)
        BY <2>3, <4>1 DEF GoneInv
      <4> QED
        BY <1>2, <3>1, <3>2, <4>2, GoneStays
    <3> QED
      BY <3>1, <3>2
  <2>4. ASSUME NEW s \in deleted', s \notin deleted
        PROVE  visitors'[s] # {} /\ (Alone(s)' => Gone(s)')
    <3>1. /\ s \in Sessions /\ t \in visitors'[s]
          /\ \A m \in DOMAIN saved' : saved'[m].id # s
          /\ listed'[t] = saved' /\ session'[t] # s
      BY <1>2, <2>4, DeletedFrom
    <3>2. ASSUME Alone(s)' PROVE Gone(s)'
      <4>1. \A u \in visitors'[s] : u = t
        BY <3>1, <3>2 DEF Alone
      <4>2. ASSUME NEW u \in Tabs PROVE session'[u] # s
        <5>1. CASE u = t
          BY <3>1, <5>1
        <5>2. CASE u # t
          <6>1. ASSUME session'[u] = s PROVE u \in visitors'[s]
            BY <2>2, <3>1, <6>1, ChatAssumption
          <6> QED
            BY <4>1, <5>2, <6>1
        <5> QED
          BY <5>1, <5>2
      <4> QED
        BY <3>1, <4>1, <4>2 DEF Gone
    <3> QED
      BY <3>1, <3>2
  <2> QED
    BY <2>1, <2>2, <2>3, <2>4 DEF GoneInv
<1> QED
  BY <1>1, <1>2 DEF Next

(* A finite set with two members has at least two.                         *)
LEMMA TwoMembers ==
  ASSUME NEW V, IsFiniteSet(V), NEW u \in V, NEW v \in V, u # v
  PROVE  Cardinality(V) > 1
<1>1. IsFiniteSet({u}) /\ Cardinality({u}) = 1
  BY FS_Singleton
<1>2. IsFiniteSet({u} \cup {v}) /\ Cardinality({u} \cup {v}) = 2
  <2>1. v \notin {u}
    OBVIOUS
  <2>2. IsFiniteSet({u} \cup {v}) /\ Cardinality({u} \cup {v}) = Cardinality({u}) + 1
    BY <1>1, <2>1, FS_AddElement
  <2> QED
    BY <1>1, <2>2
<1>3. {u} \cup {v} \subseteq V
  OBVIOUS
<1>4. Cardinality({u} \cup {v}) <= Cardinality(V) /\ Cardinality(V) \in Nat
  BY <1>3, FS_Subset, FS_CardinalityType
<1> QED
  BY <1>2, <1>4
-----------------------------------------------------------------------------
(* A saved session only grows, while one tab touches it.                   *)
PrefixOf(a, b) == Len(a) <= Len(b) /\ \A i \in DOMAIN a : a[i].query = b[i].query

(* The tab of a session, and its drawer, show what is saved of it and      *)
(* perhaps more.                                                           *)
Follow(old) ==
  /\ \A t \in Tabs : session[t] = old.id => PrefixOf(old.turns, turns[t])
  /\ \A t \in visitors[old.id] : \A j \in DOMAIN listed[t] :
       listed[t][j].id = old.id => PrefixOf(old.turns, listed[t][j].turns)

GrowInv ==
  \A k \in DOMAIN saved :
    /\ visitors[saved[k].id] # {}
    /\ Alone(saved[k].id) => Follow(saved[k])

(* Nothing is saved when the tabs are opened.                              *)
LEMMA GrowInitInv == Init => GrowInv
BY DEF Init, GrowInv

(* Every list of turns begins with itself.                                 *)
LEMMA PrefixSelf == ASSUME NEW a \in Seq(Turn) PROVE PrefixOf(a, a)
<1>1. Len(a) \in Nat
  OBVIOUS
<1> QED
  BY <1>1 DEF PrefixOf

(* What begins a list begins one that shows the same questions.            *)
LEMMA PrefixSame ==
  ASSUME NEW a, NEW b, NEW c, PrefixOf(a, b), SameQueries(b, c),
         a \in Seq(Turn), b \in Seq(Turn)
  PROVE  PrefixOf(a, c)
<1>1. DOMAIN a = 1..Len(a) /\ DOMAIN b = 1..Len(b) /\ Len(a) \in Nat /\ Len(b) \in Nat
  OBVIOUS
<1>2. DOMAIN a \subseteq DOMAIN b
  BY <1>1 DEF PrefixOf
<1> QED
  BY <1>2 DEF PrefixOf, SameQueries

(* A saved session has its type.                                           *)
LEMMA SavedTyped ==
  ASSUME ChatTyped, NEW k \in DOMAIN saved
  PROVE  saved[k].id \in Sessions /\ saved[k].turns \in Seq(Turn)
<1>1. saved[k] \in SavedSession
  BY TypedFacts
<1> QED
  BY <1>1 DEF SavedSession

(* A session that was saved before the step is followed after it.          *)
LEMMA OldFollowed ==
  ASSUME ChatTyped, ChatTyped', GoneInv, GrowInv, NEW t \in Tabs, TabStep(t),
         NEW k \in DOMAIN saved, NEW m \in DOMAIN saved', NEW old, old = saved[k],
         saved'[m] = old, Alone(old.id)'
  PROVE  Follow(old)'
<1>0. PICK s : s = old.id
  OBVIOUS
<1>a. old.id = s /\ s \in Sessions /\ old.turns \in Seq(Turn) /\ Alone(s)'
  BY <1>0, SavedTyped
<1>b. /\ visitors[s] \subseteq visitors'[s] /\ visitors'[s] \subseteq visitors[s] \cup {t}
      /\ visitors \in [Sessions -> SUBSET Tabs] /\ visitors[s] # {}
  BY <1>0, <1>a, VisitorsGrow, TypedFacts DEF GrowInv
<1>c. visitors'[s] = visitors[s] /\ Alone(s)
  BY <1>a, <1>b DEF Alone
<1>d. /\ \A u \in Tabs : session[u] = s => PrefixOf(old.turns, turns[u])
      /\ \A u \in visitors[s] : \A j \in DOMAIN listed[u] :
           listed[u][j].id = s => PrefixOf(old.turns, listed[u][j].turns)
  BY <1>0, <1>a, <1>c DEF GrowInv, Follow
<1>e. turns[t] \in Seq(Turn) /\ OnePerId(saved')
  BY TypedFacts DEF ChatTyped, OnePerId
<1>1. ASSUME session'[t] = s PROVE PrefixOf(old.turns, turns'[t])
  <2>1. ASSUME NEW q \in Queries, Send(t, q) PROVE PrefixOf(old.turns, turns'[t])
    <3>1. session[t] = s
      BY <1>1, <1>a, <1>b, <2>1, SendEffect
    <3>2. PrefixOf(old.turns, turns[t])
      BY <1>d, <3>1
    <3>3. /\ DOMAIN old.turns = 1..Len(old.turns) /\ Len(old.turns) \in Nat
          /\ Len(turns'[t]) = Len(turns[t]) + 1 /\ Len(turns[t]) \in Nat
          /\ DOMAIN turns[t] = 1..Len(turns[t])
          /\ \A i \in DOMAIN turns[t] : turns'[t][i] = turns[t][i]
      BY <1>a, <2>1, SendEffect
    <3>4. DOMAIN old.turns \subseteq DOMAIN turns[t]
      BY <3>2, <3>3 DEF PrefixOf
    <3> QED
      BY <3>2, <3>3, <3>4 DEF PrefixOf
  <2>2. ASSUME SameQueries(turns[t], turns'[t]), session'[t] = session[t]
        PROVE  PrefixOf(old.turns, turns'[t])
    <3>1. PrefixOf(old.turns, turns[t])
      BY <1>1, <1>d, <2>2
    <3> QED
      BY <1>a, <1>e, <2>2, <3>1, PrefixSame
  <2>3. ASSUME NEW j \in DOMAIN listed[t], Visit(t, listed[t][j].id),
               SameQueries(listed[t][j].turns, turns'[t]), session'[t] = listed[t][j].id
        PROVE  PrefixOf(old.turns, turns'[t])
    <3>1. t \in visitors[s]
      BY <1>1, <1>a, <1>b, <1>c, <2>3 DEF Visit
    <3>2. PrefixOf(old.turns, listed[t][j].turns)
      BY <1>1, <1>d, <2>3, <3>1
    <3>3. listed[t][j] \in SavedSession
      BY TypedFacts
    <3>4. listed[t][j].turns \in Seq(Turn)
      BY <3>3 DEF SavedSession
    <3> QED
      BY <1>a, <2>3, <3>2, <3>4, PrefixSame
  <2>4. session'[t] # NoSession
    BY <1>1, <1>a, ChatAssumption
  <2> QED
    BY <2>1, <2>2, <2>3, <2>4, ScreenFrom
<1>2. ASSUME NEW u \in Tabs, session'[u] = s PROVE PrefixOf(old.turns, turns'[u])
  <2>1. CASE u = t
    BY <1>1, <1>2, <2>1
  <2>2. CASE u # t
    BY <1>2, <1>d, <2>2, OthersStay
  <2> QED
    BY <2>1, <2>2
<1>3. ASSUME NEW u \in visitors'[s], NEW j \in DOMAIN listed'[u], listed'[u][j].id = s
      PROVE  PrefixOf(old.turns, listed'[u][j].turns)
  <2>1. u \in visitors[s] /\ u \in Tabs
    BY <1>a, <1>b, <1>c
  <2>2. CASE listed'[u] = listed[u]
    BY <1>3, <1>d, <2>1, <2>2
  <2>3. CASE listed'[u] = saved'
    <3>1. j = m
      BY <1>3, <1>a, <1>e, <2>3 DEF OnePerId
    <3>2. listed'[u][j] = old
      BY <2>3, <3>1
    <3> QED
      BY <1>a, <3>2, PrefixSelf
  <2> QED
    BY <2>1, <2>2, <2>3, ListedFrom
<1> QED
  BY <1>0, <1>2, <1>3 DEF Follow

(* A session that is saved by the step is followed after it.               *)
LEMMA NewFollowed ==
  ASSUME ChatTyped, ChatTyped', GoneInv', NEW t \in Tabs, TabStep(t), EndStream(t),
         NEW m \in DOMAIN saved', NEW new, new = saved'[m],
         session[t] \in Sessions, new = [id |-> session[t], turns |-> turns'[t]]
  PROVE  visitors'[new.id] # {} /\ (Alone(new.id)' => Follow(new)')
<1>0. PICK s : s = new.id
  OBVIOUS
<1>a. /\ s \in Sessions /\ session'[t] = s /\ new.turns = turns'[t] /\ new.id = s
      /\ listed'[t] = saved' /\ turns'[t] \in Seq(Turn) /\ OnePerId(saved')
  <2>1. session'[t] = session[t] /\ listed'[t] = saved'
    BY TypedFacts DEF EndStream, Shown
  <2> QED
    BY <1>0, <2>1 DEF ChatTyped, TypeOK, OnePerId
<1>b. \A u \in Tabs : session'[u] = s => u \in visitors'[s]
  BY <1>a, ChatAssumption DEF GoneInv
<1>1. ASSUME Alone(s)' PROVE Follow(new)'
  <2>1. \A u \in visitors'[s] : u = t
    BY <1>a, <1>b, <1>1 DEF Alone
  <2>2. PrefixOf(new.turns, turns'[t])
    BY <1>a, PrefixSelf
  <2>3. ASSUME NEW u \in Tabs, session'[u] = s PROVE PrefixOf(new.turns, turns'[u])
    BY <1>b, <2>1, <2>2, <2>3
  <2>4. ASSUME NEW u \in visitors'[s], NEW j \in DOMAIN listed'[u], listed'[u][j].id = s
        PROVE  PrefixOf(new.turns, listed'[u][j].turns)
    <3>1. u = t /\ j = m
      BY <1>a, <2>1, <2>4 DEF OnePerId
    <3>2. listed'[u][j].turns = turns'[t]
      BY <1>a, <3>1
    <3> QED
      BY <1>a, <3>2, PrefixSelf
  <2> QED
    BY <1>a, <2>3, <2>4 DEF Follow
<1> QED
  BY <1>0, <1>a, <1>b, <1>1

(* Every step keeps what is saved behind what is shown.                    *)
LEMMA GrowNextInv == ChatTyped /\ GoneInv /\ GrowInv /\ [Next]_vars => GrowInv'
<1> SUFFICES ASSUME ChatTyped, GoneInv, GrowInv, [Next]_vars PROVE GrowInv'
  OBVIOUS
<1>1. CASE UNCHANGED vars
  BY <1>1 DEF vars, tabVars, history, GrowInv, Follow, Alone
<1>2. ASSUME NEW t \in Tabs, TabStep(t) PROVE GrowInv'
  <2>a. ChatTyped' /\ GoneInv'
    BY ChatNextTyped, GoneNextInv
  <2>1. ASSUME NEW m \in DOMAIN saved', NEW new, new = saved'[m]
        PROVE  visitors'[new.id] # {} /\ (Alone(new.id)' => Follow(new)')
    <3>1. ASSUME NEW k \in DOMAIN saved, saved'[m] = saved[k]
          PROVE  visitors'[new.id] # {} /\ (Alone(new.id)' => Follow(new)')
      <4>1. new = saved[k] /\ new.id \in Sessions
        BY <2>1, <3>1, SavedTyped
      <4>2. visitors[new.id] # {} /\ visitors[new.id] \subseteq visitors'[new.id]
        BY <1>2, <4>1, VisitorsGrow DEF GrowInv
      <4>3. Alone(new.id)' => Follow(new)'
        BY <1>2, <2>a, <2>1, <3>1, <4>1, OldFollowed
      <4> QED
        BY <4>2, <4>3
    <3>2. ASSUME EndStream(t), session[t] \in Sessions,
                 saved'[m] = [id |-> session[t], turns |-> turns'[t]]
          PROVE  visitors'[new.id] # {} /\ (Alone(new.id)' => Follow(new)')
      BY <1>2, <2>a, <2>1, <3>2, NewFollowed
    <3> QED
      BY <1>2, <3>1, <3>2, SavedFrom
  <2>2. ASSUME NEW m \in DOMAIN saved'
        PROVE  visitors'[saved'[m].id] # {} /\ (Alone(saved[m].id)' => Follow(saved[m])')
    <3>1. PICK new : new = saved'[m]
      OBVIOUS
    <3>2. visitors'[new.id] # {} /\ (Alone(new.id)' => Follow(new)')
      BY <2>1, <2>2, <3>1
    <3> QED
      BY <3>1, <3>2 DEF Alone, Follow
  <2> QED
    BY <2>2 DEF GrowInv
<1> QED
  BY <1>1, <1>2 DEF Next

(* The session a stream saves begins with what was saved of it before.     *)
LEMMA SavedIsLonger ==
  ASSUME ChatTyped, GoneInv, GrowInv, NEW t \in Tabs, TabStep(t),
         NEW k \in DOMAIN saved, NEW m \in DOMAIN saved', saved[k].id = saved'[m].id,
         Cardinality(visitors[saved[k].id]) <= 1
  PROVE  PrefixOf(saved[k].turns, saved'[m].turns)
<1>a. saved[k].id \in Sessions /\ saved[k].turns \in Seq(Turn)
  BY SavedTyped
<1>1. ASSUME NEW j \in DOMAIN saved, saved'[m] = saved[j]
      PROVE  PrefixOf(saved[k].turns, saved'[m].turns)
  <2>1. j = k
    BY <1>1, TypedFacts DEF OnePerId
  <2> QED
    BY <1>a, <1>1, <2>1, PrefixSelf
<1>2. ASSUME EndStream(t), session[t] \in Sessions,
             saved'[m] = [id |-> session[t], turns |-> turns'[t]]
      PROVE  PrefixOf(saved[k].turns, saved'[m].turns)
  <2>1. session[t] = saved[k].id
    BY <1>2
  <2>2. Alone(saved[k].id)
    <3>1. IsFiniteSet(visitors[saved[k].id])
      BY <1>a DEF GoneInv
    <3>2. Cardinality(visitors[saved[k].id]) \in Nat
      BY <3>1, FS_CardinalityType
    <3>3. ASSUME NEW u \in visitors[saved[k].id], NEW v \in visitors[saved[k].id], u # v
          PROVE  FALSE
      <4>1. Cardinality(visitors[saved[k].id]) > 1
        BY <3>1, <3>3, TwoMembers
      <4> QED
        BY <3>2, <4>1
    <3> QED
      BY <3>3 DEF Alone
  <2>3. PrefixOf(saved[k].turns, turns[t])
    BY <2>1, <2>2 DEF GrowInv, Follow
  <2>4. turns[t] \in Seq(Turn) /\ SameQueries(turns[t], turns'[t])
    BY <1>2, TypedFacts, EndStreamEffect DEF SameTurns, SameQueries
  <2> QED
    BY <1>a, <1>2, <2>3, <2>4, PrefixSame
<1> QED
  BY <1>1, <1>2, SavedFrom

(* The questions of a list that begins another begin those of the other.   *)
LEMMA QuestionsBegin ==
  ASSUME NEW a \in Seq(Turn), NEW b \in Seq(Turn), PrefixOf(a, b)
  PROVE  /\ Len(Questions(a)) <= Len(Questions(b))
         /\ SubSeq(Questions(b), 1, Len(Questions(a))) = Questions(a)
<1>1. /\ DOMAIN a = 1..Len(a) /\ Len(a) \in Nat /\ DOMAIN b = 1..Len(b) /\ Len(b) \in Nat
      /\ \A i \in DOMAIN a : a[i] \in Turn
      /\ \A i \in DOMAIN b : b[i] \in Turn
  OBVIOUS
<1>2. Questions(a) \in [DOMAIN a -> Queries] /\ Questions(b) \in [DOMAIN b -> Queries]
  BY <1>1 DEF Questions, Turn
<1>3. /\ Questions(a) \in Seq(Queries) /\ Len(Questions(a)) = Len(a)
      /\ Questions(b) \in Seq(Queries) /\ Len(Questions(b)) = Len(b)
      /\ DOMAIN Questions(a) = DOMAIN a
  BY <1>2, Mapped
<1>4. \A i \in DOMAIN a : i \in DOMAIN b /\ Questions(b)[i] = Questions(a)[i]
  BY <1>1 DEF Questions, PrefixOf
<1>5. Len(a) <= Len(b)
  BY DEF PrefixOf
<1> DEFINE qa == Questions(a)
           qb == Questions(b)
           sub == SubSeq(qb, 1, Len(a))
<1>6. /\ qa \in Seq(Queries) /\ Len(qa) = Len(a) /\ qb \in Seq(Queries) /\ Len(qb) = Len(b)
      /\ \A i \in 1..Len(a) : qb[i] = qa[i]
  BY <1>1, <1>3, <1>4
<1> HIDE DEF qa, qb
<1>7. /\ sub \in Seq(Queries) /\ Len(sub) = Len(a)
      /\ \A i \in 1..Len(a) : sub[i] = qb[i]
  BY <1>1, <1>5, <1>6
<1> HIDE DEF sub
<1>8. sub = qa
  BY <1>1, <1>6, <1>7, SeqEqual
<1> QED
  BY <1>5, <1>6, <1>8 DEF qa, qb, sub
-----------------------------------------------------------------------------
(* What holds in every state.                                              *)

(* The stores of the tabs, the saved sessions and the histories keep their *)
(* shape; no session is saved twice.                                       *)
THEOREM ChatTypeInductive == Spec => []ChatTyped
<1>1. Init => ChatTyped
  BY ChatInitTyped
<1>2. ChatTyped /\ [Next]_vars => ChatTyped'
  BY ChatNextTyped
<1> QED
  BY <1>1, <1>2, PTL DEF Spec

(* The variables of chatStore.ts and chatSessions.ts have their types.     *)
THEOREM ChatTypeCorrect == Spec => []TypeOK
<1>1. ChatTyped => TypeOK
  BY DEF ChatTyped
<1> QED
  BY <1>1, ChatTypeInductive, PTL

(* The turn of a stream is the last one of its tab, and nothing else is    *)
(* unfinished: on the screen, in a saved session or in a drawer.           *)
THEOREM StreamsInductive == Spec => []StreamsInv
<1>1. Init => StreamsInv
  BY StreamsInitInv
<1>2. ChatTyped /\ StreamsInv /\ [Next]_vars => StreamsInv'
  BY StreamsNextInv
<1> QED
  BY <1>1, <1>2, ChatTypeInductive, PTL DEF Spec

(* isStreaming is true exactly while a stream is read, and its turn is the *)
(* only unfinished one: no abort, reload or failure locks the input.       *)
THEOREM StreamFlagTrue == Spec => []OneStream
<1>1. ASSUME ChatTyped, StreamsInv, NEW t \in Tabs PROVE isStreaming[t] = Streaming(t)
  <2>1. isStreaming[t] \in BOOLEAN
    BY <1>1, TypedFacts
  <2>2. isStreaming[t] <=> Streaming(t)
    BY <1>1 DEF StreamsInv, StreamInv
  <2>3. CASE isStreaming[t] = TRUE
    <3>1. stream[t] # NoStream
      BY <2>2, <2>3 DEF Streaming
    <3>2. (stream[t] # NoStream) = TRUE
      BY <3>1, Zenon
    <3> QED
      BY <2>3, <3>2, Zenon DEF Streaming
  <2>4. CASE isStreaming[t] = FALSE
    <3>1. ~(stream[t] # NoStream)
      BY <2>2, <2>4 DEF Streaming
    <3>2. (stream[t] # NoStream) = FALSE
      BY <3>1, Zenon
    <3> QED
      BY <2>4, <3>2, Zenon DEF Streaming
  <2> QED
    BY <2>1, <2>3, <2>4
<1>2. ChatTyped /\ StreamsInv => OneStream
  BY <1>1 DEF StreamsInv, StreamInv, OneStream
<1> QED
  BY <1>2, ChatTypeInductive, StreamsInductive, PTL

(* No saved session holds a turn that is still streaming, so none that is  *)
(* opened waits for a stream nobody reads.                                 *)
THEOREM SavedAreSettled == Spec => []SavedSettled
<1>1. StreamsInv => SavedSettled
  BY DEF StreamsInv, Settled, SavedSettled
<1> QED
  BY <1>1, StreamsInductive, PTL

(* Every turn stands in the session its question was asked in: on the      *)
(* screens, among the saved sessions and in the drawers.                   *)
THEOREM FiledInductive == Spec => []FiledInv
<1>1. Init => FiledInv
  BY FiledInitInv
<1>2. ChatTyped /\ FiledInv /\ [Next]_vars => FiledInv'
  BY FiledNextInv
<1> QED
  BY <1>1, <1>2, ChatTypeInductive, PTL DEF Spec

(* A question and its answer are shown and saved under the session they    *)
(* were asked in, however aborts and switches of session interleave.       *)
THEOREM TurnsFiled == Spec => []FiledWhereAsked
<1>1. ChatTyped /\ FiledInv => FiledWhereAsked
  <2> SUFFICES ASSUME ChatTyped, FiledInv PROVE FiledWhereAsked
    OBVIOUS
  <2>1. ASSUME NEW t \in Tabs, NEW i \in DOMAIN turns[t]
        PROVE  owner[turns[t][i].query] = session[t] /\ session[t] # NoSession
    <3>1. turns[t] \in Seq(Turn)
      BY TypedFacts
    <3>2. turns[t] # <<>>
      BY <2>1, <3>1
    <3> QED
      BY <2>1, <3>2 DEF FiledInv, FiledUnder
  <2> QED
    BY <2>1 DEF FiledInv, FiledUnder, FiledWhereAsked
<1> QED
  BY <1>1, ChatTypeInductive, FiledInductive, PTL

(* Until turns from another tab or an earlier life are adopted, what is    *)
(* still to come to a tab finds no turn of another question.               *)
THEOREM OwnInductive == Spec => []OwnInv
<1>1. Init => OwnInv
  BY OwnInitInv
<1>2. ChatTyped /\ OwnInv /\ [Next]_vars => OwnInv'
  BY OwnNextInv
<1> QED
  BY <1>1, <1>2, ChatTypeInductive, PTL DEF Spec

(* Every turn shows the chunks and citations of its own question only,     *)
(* unless a tab opened a session with turns numbered elsewhere.            *)
THEOREM ContentIsOwn == Spec => []OwnUnlessAdopted
<1>1. OwnInv => OwnUnlessAdopted
  BY DEF OwnInv, OwnUnlessAdopted, AllOwn, Somewhere, InStore, OnScreen
<1> QED
  BY <1>1, OwnInductive, PTL

(* Every turn has all chunks of a stream that ended; one under way stands  *)
(* in one place, with the chunks that were sent.                           *)
THEOREM WholeInductive == Spec => []WholeInv
<1>1. Init => WholeInv
  BY WholeInitInv
<1>2. ChatTyped /\ StreamsInv /\ FiledInv /\ WholeInv /\ [Next]_vars => WholeInv'
  BY WholeNextInv
<1> QED
  BY <1>1, <1>2, ChatTypeInductive, StreamsInductive, FiledInductive, PTL DEF Spec

(* No chunk of a stream that ended normally is missing where its turn is   *)
(* shown or saved.                                                         *)
THEOREM ChunksComplete == Spec => []NoChunkLost
<1>1. WholeInv => NoChunkLost
  BY DEF WholeInv, NoChunkLost, Somewhere, InStore, OnScreen
<1> QED
  BY <1>1, WholeInductive, PTL

(* A deleted session that only one tab touched is neither saved, nor open, *)
(* nor in the drawer of that tab.                                          *)
THEOREM GoneInductive == Spec => []GoneInv
<1>1. Init => GoneInv
  BY GoneInitInv
<1>2. ChatTyped /\ GoneInv /\ [Next]_vars => GoneInv'
  BY GoneNextInv
<1> QED
  BY <1>1, <1>2, ChatTypeInductive, PTL DEF Spec

(* No stream, drawer or late answer brings a deleted session back, unless  *)
(* two tabs opened or deleted it.                                          *)
THEOREM DeletedAreGone == Spec => []DeletedStaysGone
<1>1. ChatTyped /\ GoneInv => DeletedStaysGone
  <2> SUFFICES ASSUME ChatTyped, GoneInv, NEW k \in DOMAIN saved, saved[k].id \in deleted
               PROVE  Cardinality(visitors[saved[k].id]) > 1
    BY DEF DeletedStaysGone
  <2>1. saved[k].id \in Sessions
    BY TypedFacts
  <2>2. ~Alone(saved[k].id)
    BY DEF GoneInv, Gone
  <2>3. PICK u \in visitors[saved[k].id] : \E v \in visitors[saved[k].id] : u # v
    BY <2>2 DEF Alone
  <2>4. IsFiniteSet(visitors[saved[k].id])
    BY <2>1 DEF GoneInv
  <2> QED
    BY <2>3, <2>4, TwoMembers
<1> QED
  BY <1>1, ChatTypeInductive, GoneInductive, PTL

(* Of a session that one tab touched, what is saved begins both what the   *)
(* tab shows and what its drawer shows.                                    *)
THEOREM GrowInductive == Spec => []GrowInv
<1>1. Init => GrowInv
  BY GrowInitInv
<1>2. ChatTyped /\ GoneInv /\ GrowInv /\ [Next]_vars => GrowInv'
  BY GrowNextInv
<1> QED
  BY <1>1, <1>2, ChatTypeInductive, GoneInductive, PTL DEF Spec

(* A saved session only grows: no answer that is saved drops an earlier    *)
(* one, unless two tabs opened the session.                                *)
THEOREM SavedOnlyGrows == Spec => SavedGrows
<1> DEFINE Step == \A k \in DOMAIN saved, m \in DOMAIN saved' :
             /\ saved[k].id = saved'[m].id
             /\ Cardinality(visitors[saved[k].id]) <= 1
             => LET old == Questions(saved[k].turns)
                    new == Questions(saved'[m].turns)
                IN Len(old) <= Len(new) /\ SubSeq(new, 1, Len(old)) = old
<1>1. ChatTyped /\ ChatTyped' /\ GoneInv /\ GrowInv /\ [Next]_vars => [Step]_saved
  <2> SUFFICES ASSUME ChatTyped, ChatTyped', GoneInv, GrowInv, [Next]_vars, saved' # saved,
                      NEW k \in DOMAIN saved, NEW m \in DOMAIN saved',
                      saved[k].id = saved'[m].id, Cardinality(visitors[saved[k].id]) <= 1
               PROVE  /\ Len(Questions(saved[k].turns)) <= Len(Questions(saved'[m].turns))
                      /\ SubSeq(Questions(saved'[m].turns), 1, Len(Questions(saved[k].turns)))
                           = Questions(saved[k].turns)
    OBVIOUS
  <2>1. PICK t \in Tabs : TabStep(t)
    BY DEF Next, vars
  <2>2. PrefixOf(saved[k].turns, saved'[m].turns)
    BY <2>1, SavedIsLonger
  <2>3. saved[k].turns \in Seq(Turn)
    BY SavedTyped
  <2>4. saved'[m] \in SavedSession
    BY DEF ChatTyped, TypeOK
  <2>5. saved'[m].turns \in Seq(Turn)
    BY <2>4 DEF SavedSession
  <2> QED
    BY <2>2, <2>3, <2>5, QuestionsBegin
<1>2. ChatTyped /\ GoneInv /\ GrowInv /\ [Next]_vars => ChatTyped'
  BY ChatNextTyped
<1> HIDE DEF Step
<1>3. Spec => [][Step]_saved
  BY <1>1, <1>2, ChatTypeInductive, GoneInductive, GrowInductive, PTL DEF Spec
<1> QED
  BY <1>3 DEF SavedGrows, Step
=============================================================================

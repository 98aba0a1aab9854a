------------------------- MODULE Sl811Frames_proofs -------------------------
(* That the frames of the host controller driver stay right (FramesRight): *)
(* a list c is the chain of a frame when the driver's pointers lead down it*)
(* (Follows); urb_enqueue puts an endpoint behind the same elements in all *)
(* its frames, for chains that share an element share all that comes after *)
(* it, and what is due in a frame with a slow endpoint is due in every     *)
(* frame of it; finish_request takes it out of each in turn.               *)
(*                                                                         *)
(* And that work goes on (WorkGoesOn): while an endpoint is scheduled on an*)
(* enabled port a packet is under way, or the next frame interrupts.       *)
EXTENDS Sl811_proofs

---------------------------------------------------------------------------
(* The frames.                                                             *)

(* The element at a position of a list, or NULL past its ends.             *)
At(c, n) == IF n \in DOMAIN c THEN c[n] ELSE None

(* The pointers of frame i lead down the list c, to its end.               *)
Follows(h, i, c) ==
    /\ c \in Seq(Ep) /\ Distinct(c)
    /\ h.periodic[i] = At(c, 1)
    /\ \A n \in DOMAIN c : h.next[c[n]] = At(c, n + 1)

(* A list without duplicates is no longer than there are endpoints.        *)
LEMMA DistinctLength ==
    ASSUME NEW c \in Seq(Ep), Distinct(c)
    PROVE  Len(c) \in 0 .. Cardinality(Ep)
<1>1. Len(c) \in Nat /\ DOMAIN c = 1 .. Len(c) /\ c \in [1 .. Len(c) -> Ep]
  OBVIOUS
<1>2. c \in Injection(1 .. Len(c), Ep)
  BY <1>1 DEF Distinct, Injection, IsInjective
<1>3. Cardinality(1 .. Len(c)) <= Cardinality(Ep)
  BY <1>2, FS_Injection, Sl811ScheduleAssumption
<1>4. Cardinality(1 .. Len(c)) = Len(c)
  BY <1>1, FS_Interval
<1> QED
  BY <1>1, <1>3, <1>4, EpCardinality

(* What the pointers lead down is the chain of the frame.                  *)
LEMMA ChainIs ==
    ASSUME NEW h \in HcTypes, NEW i \in Slots, NEW c, Follows(h, i, c)
    PROVE  Chain(h, i) = c
<1> DEFINE N == Cardinality(Ep)
           L == Len(c)
<1>1. Within(h, Pointer)
  BY DEF HcTypes, Within, Pointer
<1>2. PICK f, n : f \in [0 .. N -> Pointer] /\ IsChain(f, n, h, i)
  BY <1>1, ChainIsWalk
<1>3. /\ f[0] = h.periodic[i]
      /\ \A k \in 1 .. N : f[k] = Follow(h, f[k - 1])
      /\ n \in 0 .. N + 1
      /\ \A k \in 0 .. N : f[k] # None <=> k < n
      /\ Chain(h, i) = [k \in 1 .. n |-> f[k - 1]]
  <2>1. /\ IsWalk(f, h, i) /\ n \in 0 .. N + 1
        /\ \A k \in 0 .. N : f[k] # None <=> k < n
        /\ Chain(h, i) = [k \in 1 .. n |-> f[k - 1]]
    BY <1>2 DEF IsChain
  <2>2. /\ f[0] = h.periodic[i]
        /\ \A k \in 1 .. N : f[k] = Follow(h, f[k - 1])
    BY <2>1, WalkFacts
  <2> QED
    BY <2>1, <2>2
<1>4. /\ c \in Seq(Ep) /\ L \in 0 .. N /\ N \in Nat
      /\ h.periodic[i] = At(c, 1)
      /\ \A m \in 1 .. L : h.next[c[m]] = At(c, m + 1)
      /\ DOMAIN c = 1 .. L
  BY DistinctLength, EpCardinality DEF Follows
<1>5. \A m \in 1 .. L : At(c, m) = c[m] /\ c[m] \in Ep /\ c[m] # None
  BY <1>4, Sl811ScheduleAssumption DEF At
<1>6. At(c, L + 1) = None
  BY <1>4 DEF At
<1> HIDE DEF N, L
<1>7. \A k \in 0 .. L : f[k] = At(c, k + 1)
  <2> DEFINE wrong == {k \in 0 .. L : f[k] # At(c, k + 1)}
  <2>1. SUFFICES ASSUME wrong # {} PROVE FALSE
    OBVIOUS
  <2>2. PICK k \in wrong : \A j \in wrong : k <= j
    <3>1. wrong \in SUBSET Nat
      BY <1>4
    <3> HIDE DEF wrong
    <3> QED
      BY <2>1, <3>1, LeastExists
  <2>3. k \in 1 .. L /\ f[k] # At(c, k + 1)
    BY <1>3, <1>4, <2>2
  <2>4. k - 1 \in 0 .. L /\ k - 1 \notin wrong
    BY <1>4, <2>2, <2>3
  <2>5. f[k - 1] = c[k]
    BY <1>5, <2>3, <2>4
  <2>6. f[k] = h.next[c[k]]
    BY <1>3, <1>4, <1>5, <2>3, <2>5 DEF Follow
  <2> QED
    BY <1>4, <2>3, <2>6
<1>8. n = L
  <2>1. f[L] = None
    BY <1>4, <1>6, <1>7
  <2>2. ~ (L < n)
    BY <1>3, <1>4, <2>1
  <2>3. ASSUME n < L PROVE FALSE
    <3>1. n \in 0 .. L /\ n + 1 \in 1 .. L
      BY <1>3, <1>4, <2>3
    <3>2. f[n] = c[n + 1]
      BY <1>5, <1>7, <3>1
    <3>3. f[n] # None
      BY <1>5, <3>1, <3>2
    <3> QED
      BY <1>3, <1>4, <3>1, <3>3
  <2> QED
    BY <1>3, <1>4, <2>2, <2>3
<1>9. \A k \in 1 .. L : f[k - 1] = c[k]
  BY <1>4, <1>5, <1>7
<1>10. c = [k \in 1 .. L |-> c[k]]
  BY <1>4
<1> QED
  BY <1>3, <1>8, <1>9, <1>10

(* A list with e put behind its first k elements.                          *)
Ins(c, k, e) ==
    [n \in 1 .. Len(c) + 1 |-> IF n <= k THEN c[n] ELSE IF n = k + 1 THEN e ELSE c[n - 1]]

(* The pointer behind the first k elements, and all others of the chain.   *)
Link1(h, i, c, k) == IF k = 0 THEN h.periodic[i] ELSE h.next[c[k]]

Rest(h, i, c, k) ==
    /\ k # 0 => h.periodic[i] = At(c, 1)
    /\ \A m \in DOMAIN c : m # k => h.next[c[m]] = At(c, m + 1)

(* A list that e is not on.                                                *)
Off(c, e) == \A m \in DOMAIN c : c[m] # e

LEMMA FollowsParts ==
    ASSUME NEW h, NEW i, NEW c \in Seq(Ep), Distinct(c), NEW k \in 0 .. Len(c)
    PROVE  Follows(h, i, c) <=> Rest(h, i, c, k) /\ Link1(h, i, c, k) = At(c, k + 1)
<1>1. DOMAIN c = 1 .. Len(c) /\ Len(c) \in Nat
  OBVIOUS
<1>2. CASE k = 0
  BY <1>1, <1>2 DEF Follows, Rest, Link1
<1>3. CASE k # 0
  BY <1>1, <1>3 DEF Follows, Rest, Link1
<1> QED
  BY <1>2, <1>3

(* A list with one more.                                                   *)
LEMMA InsFacts ==
    ASSUME NEW c \in Seq(Ep), Distinct(c), NEW k \in 0 .. Len(c), NEW e \in Ep, Off(c, e),
           NEW x, x = Ins(c, k, e)
    PROVE  /\ x \in Seq(Ep) /\ Len(x) = Len(c) + 1 /\ DOMAIN x = 1 .. Len(c) + 1 /\ Distinct(x)
           /\ x[k + 1] = e
           /\ \A m \in 1 .. k : x[m] = c[m]
           /\ \A m \in k + 1 .. Len(c) : x[m + 1] = c[m]
           /\ Elements(x) = Elements(c) \union {e}
<1> DEFINE L == Len(c)
<1>1. L \in Nat /\ DOMAIN c = 1 .. L /\ \A m \in 1 .. L : c[m] \in Ep /\ c[m] # e
  BY DEF Off
<1> HIDE DEF L
<1>2. x = [n \in 1 .. L + 1 |-> IF n <= k THEN c[n] ELSE IF n = k + 1 THEN e ELSE c[n - 1]]
  BY DEF Ins, L
<1>k. k \in 0 .. L /\ k \in Nat
  BY <1>1 DEF L
<1>3. /\ \A n \in 1 .. L + 1 : x[n] = IF n <= k THEN c[n] ELSE IF n = k + 1 THEN e ELSE c[n - 1]
      /\ DOMAIN x = 1 .. L + 1
  BY <1>2
<1>4. \A n \in 1 .. L + 1 : x[n] \in Ep
  <2> SUFFICES ASSUME NEW n \in 1 .. L + 1 PROVE x[n] \in Ep
    OBVIOUS
  <2>1. CASE n <= k
    BY <1>1, <1>3, <1>k, <2>1
  <2>2. CASE n > k + 1
    <3>1. n - 1 \in 1 .. L /\ n # k + 1 /\ ~(n <= k)
      BY <1>1, <1>k, <2>2
    <3> QED
      BY <1>1, <1>3, <3>1
  <2>3. CASE n = k + 1
    BY <1>3, <1>k, <2>3
  <2> QED
    BY <1>k, <2>1, <2>2, <2>3
<1>5. x \in Seq(Ep) /\ Len(x) = L + 1
  BY <1>1, <1>2, <1>4
<1>6. /\ x[k + 1] = e
      /\ \A m \in 1 .. k : x[m] = c[m]
      /\ \A m \in k + 1 .. L : x[m + 1] = c[m]
  <2>1. ASSUME NEW m \in k + 1 .. L PROVE x[m + 1] = c[m]
    <3>1. m + 1 \in 1 .. L + 1 /\ ~(m + 1 <= k) /\ m + 1 # k + 1 /\ (m + 1) - 1 = m
      BY <1>1, <1>k
    <3> QED
      BY <1>3, <3>1
  <2>2. x[k + 1] = e
    <3>1. k + 1 \in 1 .. L + 1 /\ ~(k + 1 <= k)
      BY <1>1, <1>k
    <3> QED
      BY <1>3, <3>1
  <2>3. ASSUME NEW m \in 1 .. k PROVE x[m] = c[m]
    BY <1>1, <1>3, <1>k
  <2> QED
    BY <2>1, <2>2, <2>3
<1> DEFINE Of(n) == IF n <= k THEN n ELSE n - 1
<1>7. \A n \in 1 .. L + 1 : n # k + 1 => Of(n) \in 1 .. L /\ x[n] = c[Of(n)] /\ x[n] # e
  <2> SUFFICES ASSUME NEW n \in 1 .. L + 1, n # k + 1
               PROVE  Of(n) \in 1 .. L /\ x[n] = c[Of(n)] /\ x[n] # e
    OBVIOUS
  <2>1. Of(n) \in 1 .. L
    BY <1>1, <1>k
  <2>2. x[n] = c[Of(n)]
    BY <1>3
  <2> QED
    BY <1>1, <2>1, <2>2
<1>8. Distinct(x)
  <2> SUFFICES ASSUME NEW m \in 1 .. L + 1, NEW n \in 1 .. L + 1, x[m] = x[n] PROVE m = n
    BY <1>3 DEF Distinct
  <2>1. CASE m = k + 1 \/ n = k + 1
    BY <1>6, <1>7, <2>1
  <2>2. CASE m # k + 1 /\ n # k + 1
    <3>1. Of(m) \in 1 .. L /\ Of(n) \in 1 .. L /\ c[Of(m)] = c[Of(n)]
      BY <1>7, <2>2
    <3>2. Of(m) = Of(n)
      <4> HIDE DEF Of
      <4> QED
        BY <1>1, <3>1 DEF Distinct
    <3> QED
      BY <1>k, <1>1, <2>2, <3>2
  <2> QED
    BY <2>1, <2>2
<1>9. Elements(x) = Elements(c) \union {e}
  <2>1. ASSUME NEW n \in DOMAIN x PROVE x[n] \in Elements(c) \union {e}
    <3> HIDE DEF Of
    <3> QED
      BY <1>1, <1>3, <1>6, <1>7 DEF Elements
  <2>2. ASSUME NEW m \in DOMAIN c PROVE c[m] \in Elements(x)
    <3>1. CASE m <= k
      <4>1. m \in 1 .. k /\ m \in DOMAIN x
        BY <1>1, <1>3, <1>k, <3>1
      <4> QED
        BY <1>6, <4>1 DEF Elements
    <3>2. CASE m > k
      <4>1. m \in k + 1 .. L /\ m + 1 \in DOMAIN x
        BY <1>1, <1>3, <1>k, <3>2
      <4> QED
        BY <1>6, <4>1 DEF Elements
    <3> QED
      BY <1>1, <1>k, <3>1, <3>2
  <2>3. e \in Elements(x)
    <3>1. k + 1 \in DOMAIN x
      BY <1>1, <1>3, <1>k
    <3> QED
      BY <1>6, <3>1 DEF Elements
  <2> QED
    BY <2>1, <2>2, <2>3 DEF Elements
<1> QED
  BY <1>3, <1>5, <1>6, <1>8, <1>9 DEF L

LEMMA FollowsIns ==
    ASSUME NEW h, NEW i, NEW c \in Seq(Ep), Distinct(c), NEW k \in 0 .. Len(c),
           NEW e \in Ep, Off(c, e)
    PROVE  Follows(h, i, Ins(c, k, e)) <=>
             /\ Rest(h, i, c, k) /\ Link1(h, i, c, k) = e /\ h.next[e] = At(c, k + 1)
<1> DEFINE x == Ins(c, k, e)
           L == Len(c)
<1>1. L \in Nat /\ DOMAIN c = 1 .. L /\ k \in 0 .. L
  OBVIOUS
<1>2. /\ x \in Seq(Ep) /\ Len(x) = L + 1 /\ DOMAIN x = 1 .. L + 1 /\ Distinct(x)
      /\ x[k + 1] = e
      /\ \A m \in 1 .. k : x[m] = c[m]
      /\ \A m \in k + 1 .. L : x[m + 1] = c[m]
  BY InsFacts
<1> HIDE DEF x, L
<1>3. \A m \in 1 .. k - 1 : At(x, m + 1) = At(c, m + 1)
  BY <1>1, <1>2 DEF At
<1>4. \A m \in k .. L : At(x, m + 2) = At(c, m + 1)
  <2> SUFFICES ASSUME NEW m \in k .. L PROVE At(x, m + 2) = At(c, m + 1)
    OBVIOUS
  <2>1. CASE m = L
    BY <1>1, <1>2, <2>1 DEF At
  <2>2. CASE m # L
    <3>1. m + 1 \in k + 1 .. L /\ (m + 1) + 1 = m + 2 /\ m + 1 \in DOMAIN c /\ m + 2 \in DOMAIN x
      BY <1>1, <1>2, <2>2
    <3> QED
      BY <1>2, <3>1 DEF At
  <2> QED
    BY <2>1, <2>2
<1>5. At(x, k + 1) = e /\ At(x, k + 2) = At(c, k + 1)
  BY <1>1, <1>2, <1>4 DEF At
<1>6. k # 0 => At(x, 1) = At(c, 1)
  BY <1>1, <1>2 DEF At
<1>7. ASSUME Follows(h, i, x)
      PROVE  Rest(h, i, c, k) /\ Link1(h, i, c, k) = e /\ h.next[e] = At(c, k + 1)
  <2>1. h.periodic[i] = At(x, 1) /\ \A n \in 1 .. L + 1 : h.next[x[n]] = At(x, n + 1)
    BY <1>2, <1>7 DEF Follows
  <2>2. h.next[e] = At(c, k + 1)
    <3>1. k + 1 \in 1 .. L + 1 /\ (k + 1) + 1 = k + 2
      BY <1>1
    <3>2. h.next[x[k + 1]] = At(x, (k + 1) + 1)
      BY <2>1, <3>1
    <3> QED
      BY <1>2, <1>5, <3>1, <3>2
  <2>3. Link1(h, i, c, k) = e
    <3>1. CASE k = 0
      BY <1>5, <2>1, <3>1 DEF Link1
    <3>2. CASE k # 0
      <4>1. k \in 1 .. k /\ k \in 1 .. L + 1
        BY <1>1, <3>2
      <4> QED
        BY <1>2, <1>5, <2>1, <3>2, <4>1 DEF Link1
    <3> QED
      BY <3>1, <3>2
  <2>4. ASSUME NEW m \in DOMAIN c, m # k PROVE h.next[c[m]] = At(c, m + 1)
    <3>1. CASE m < k
      <4>1. m \in 1 .. k - 1 /\ m \in 1 .. k /\ m \in 1 .. L + 1
        BY <1>1, <3>1
      <4> QED
        BY <1>2, <1>3, <2>1, <4>1
    <3>2. CASE m > k
      <4>1. m \in k + 1 .. L /\ m \in k .. L /\ m + 1 \in 1 .. L + 1 /\ (m + 1) + 1 = m + 2
        BY <1>1, <3>2
      <4>2. h.next[x[m + 1]] = At(x, (m + 1) + 1)
        BY <2>1, <4>1
      <4> QED
        BY <1>2, <1>4, <4>1, <4>2
    <3> QED
      BY <1>1, <2>4, <3>1, <3>2
  <2>5. Rest(h, i, c, k)
    BY <1>6, <2>1, <2>4 DEF Rest
  <2> QED
    BY <2>2, <2>3, <2>5
<1>8. ASSUME Rest(h, i, c, k), Link1(h, i, c, k) = e, h.next[e] = At(c, k + 1)
      PROVE  Follows(h, i, x)
  <2>1. h.periodic[i] = At(x, 1)
    <3>1. CASE k = 0
      BY <1>5, <1>8, <3>1 DEF Link1
    <3>2. CASE k # 0
      BY <1>6, <1>8, <3>2 DEF Rest
    <3> QED
      BY <3>1, <3>2
  <2>2. ASSUME NEW n \in 1 .. L + 1 PROVE h.next[x[n]] = At(x, n + 1)
    <3>1. CASE n = k + 1
      <4>1. n + 1 = k + 2
        BY <1>1, <3>1
      <4> QED
        BY <1>2, <1>5, <1>8, <3>1, <4>1
    <3>2. CASE n = k
      <4>1. n \in 1 .. k /\ k # 0
        BY <1>1, <3>2
      <4> QED
        BY <1>2, <1>5, <1>8, <3>2, <4>1 DEF Link1
    <3>3. CASE n < k
      <4>1. n \in 1 .. k - 1 /\ n \in 1 .. k /\ n \in DOMAIN c /\ n # k
        BY <1>1, <3>3
      <4> QED
        BY <1>2, <1>3, <1>8, <4>1 DEF Rest
    <3>4. CASE n > k + 1
      <4> DEFINE m == n - 1
      <4>1. m \in k + 1 .. L /\ m \in k .. L /\ m \in DOMAIN c /\ m # k /\ m + 1 = n /\ m + 2 = n + 1
        BY <1>1, <3>4
      <4> HIDE DEF m
      <4> QED
        BY <1>2, <1>4, <1>8, <4>1 DEF Rest
    <3> QED
      BY <1>1, <3>1, <3>2, <3>3, <3>4
  <2> QED
    BY <1>2, <2>1, <2>2 DEF Follows
<1> QED
  BY <1>7, <1>8 DEF x

(* e has a place in the chains C of the frames due: behind k[i] elements,  *)
(* before H in all of them, and behind an endpoint that is in no others.   *)
Shape(C, k, e, H, due) ==
    /\ e \in Ep /\ H \in Pointer /\ H # e /\ due \subseteq Slots
    /\ \A i \in Slots : C[i] \in Seq(Ep) /\ Distinct(C[i]) /\ Off(C[i], e)
    /\ \A i \in due : k[i] \in 0 .. Len(C[i]) /\ At(C[i], k[i] + 1) = H
    /\ \A i \in due, j \in Slots : k[i] # 0 /\ OnList(C[j], C[i][k[i]]) => j \in due

(* Some of these frames have e in its place, and the others do not.        *)
Between(g, C, k, e, H, due) ==
    /\ \A i \in Slots \ due : Follows(g, i, C[i])
    /\ \A i \in due : Rest(g, i, C[i], k[i]) /\ Link1(g, i, C[i], k[i]) \in {e, H}

(* The pointer to the place of e in frame i is set to t.                   *)
Repointed(g, i, c, k, t) ==
    IF k = 0 THEN [g EXCEPT !.periodic[i] = t] ELSE [g EXCEPT !.next[c[k]] = t]

LEMMA RepointKeeps ==
    ASSUME NEW C, NEW k, NEW e, NEW H, NEW due, Shape(C, k, e, H, due),
           NEW g \in HcTypes, Between(g, C, k, e, H, due), NEW n \in due, NEW t \in {e, H},
           NEW y, y = Repointed(g, n, C[n], k[n], t)
    PROVE  /\ Between(y, C, k, e, H, due)
           /\ y.next[e] = g.next[e]
           /\ Link1(y, n, C[n], k[n]) = t
           /\ \A i \in due : Link1(g, i, C[i], k[i]) = t => Link1(y, i, C[i], k[i]) = t
<1>1. g.periodic \in [Slots -> Pointer] /\ g.next \in [Ep -> Pointer] /\ n \in Slots
  BY DEF HcTypes, Shape
<1>2. ASSUME NEW i \in Slots
      PROVE  /\ C[i] \in Seq(Ep) /\ Distinct(C[i]) /\ Off(C[i], e)
             /\ DOMAIN C[i] = 1 .. Len(C[i]) /\ Len(C[i]) \in Nat
             /\ \A m \in DOMAIN C[i] : C[i][m] \in Ep /\ C[i][m] # e
  BY DEF Shape, Off
<1>3. CASE k[n] = 0
  <2>1. y = [g EXCEPT !.periodic[n] = t]
    BY <1>3 DEF Repointed
  <2>2. /\ y.next = g.next /\ y.periodic[n] = t
        /\ \A i \in Slots : i # n => y.periodic[i] = g.periodic[i]
    BY <1>1, <2>1 DEF HcTypes
  <2>3. ASSUME NEW i \in Slots, i # n
        PROVE  /\ Follows(g, i, C[i]) => Follows(y, i, C[i])
               /\ Rest(g, i, C[i], k[i]) => Rest(y, i, C[i], k[i])
               /\ Link1(y, i, C[i], k[i]) = Link1(g, i, C[i], k[i])
    BY <2>2, <2>3 DEF Follows, Rest, Link1
  <2>4. Link1(y, n, C[n], k[n]) = t /\ (Rest(g, n, C[n], k[n]) => Rest(y, n, C[n], k[n]))
    BY <1>3, <2>2 DEF Link1, Rest
  <2>5. \A i \in due : Link1(g, i, C[i], k[i]) = t => Link1(y, i, C[i], k[i]) = t
    BY <2>3, <2>4 DEF Shape
  <2>6. Between(y, C, k, e, H, due)
    BY <2>3, <2>4 DEF Between, Shape
  <2> QED
    BY <2>2, <2>4, <2>5, <2>6
<1>4. CASE k[n] # 0
  <2> DEFINE x == C[n][k[n]]
  <2>1. k[n] \in DOMAIN C[n] /\ x \in Ep /\ x # e
    BY <1>1, <1>2, <1>4 DEF Shape
  <2>2. y = [g EXCEPT !.next[x] = t]
    BY <1>4 DEF Repointed
  <2>3. g.next[x] \in {e, H}
    BY <1>4 DEF Between, Link1
  <2> HIDE DEF x
  <2>4. /\ y.periodic = g.periodic /\ y.next[x] = t
        /\ \A z \in Ep : z # x => y.next[z] = g.next[z]
    BY <1>1, <2>1, <2>2 DEF HcTypes
  <2>5. ASSUME NEW i \in due, NEW m \in DOMAIN C[i], m # k[i], C[i][m] = x PROVE FALSE
    <3>1. i \in Slots /\ k[i] \in 0 .. Len(C[i]) /\ At(C[i], k[i] + 1) = H
      BY DEF Shape
    <3>2. g.next[x] = At(C[i], m + 1)
      BY <2>5 DEF Between, Rest
    <3>3. At(C[i], m + 1) # e
      BY <1>2, <3>1, <2>1, Sl811ScheduleAssumption DEF At, Shape
    <3>4. At(C[i], m + 1) = At(C[i], k[i] + 1)
      BY <2>3, <3>1, <3>2, <3>3
    <3>5. m + 1 \in DOMAIN C[i] <=> k[i] + 1 \in DOMAIN C[i]
      BY <1>2, <3>1, <3>4, Sl811ScheduleAssumption DEF At
    <3>6. CASE m + 1 \in DOMAIN C[i]
      <4>1. C[i][m + 1] = C[i][k[i] + 1]
        BY <3>4, <3>5, <3>6 DEF At
      <4>2. m + 1 = k[i] + 1
        BY <1>2, <3>1, <3>5, <3>6, <4>1 DEF Distinct
      <4> QED
        BY <1>2, <2>5, <3>1, <4>2
    <3>7. CASE m + 1 \notin DOMAIN C[i]
      BY <1>2, <2>5, <3>1, <3>5, <3>7
    <3> QED
      BY <3>6, <3>7
  <2>6. ASSUME NEW i \in Slots \ due PROVE Follows(y, i, C[i])
    <3>1. \A m \in DOMAIN C[i] : C[i][m] # x
      BY <1>4, <2>6 DEF Shape, OnList, x
    <3>2. Follows(g, i, C[i])
      BY DEF Between
    <3> QED
      BY <1>2, <2>4, <3>1, <3>2 DEF Follows
  <2>7. ASSUME NEW i \in due
        PROVE  /\ Rest(y, i, C[i], k[i])
               /\ Link1(y, i, C[i], k[i]) \in {t, Link1(g, i, C[i], k[i])}
    <3>1. Rest(g, i, C[i], k[i]) /\ i \in Slots /\ k[i] \in 0 .. Len(C[i])
      BY DEF Between, Shape
    <3>2. Rest(y, i, C[i], k[i])
      BY <1>2, <2>4, <2>5, <3>1 DEF Rest
    <3>3. CASE k[i] = 0
      BY <2>4, <3>2, <3>3 DEF Link1
    <3>4. CASE k[i] # 0
      <4>1. C[i][k[i]] \in Ep
        BY <1>2, <3>1, <3>4
      <4> QED
        BY <2>4, <3>2, <3>4, <4>1 DEF Link1
    <3> QED
      BY <3>3, <3>4
  <2>8. Link1(y, n, C[n], k[n]) = t
    BY <1>4, <2>4 DEF Link1, x
  <2>9. Between(y, C, k, e, H, due)
    BY <2>6, <2>7 DEF Between
  <2>10. y.next[e] = g.next[e]
    BY <2>1, <2>4 DEF Shape
  <2> QED
    BY <2>7, <2>8, <2>9, <2>10
<1> QED
  BY <1>3, <1>4

(* A frame that has e in its place, and one that has not.                  *)
LEMMA DueChain ==
    ASSUME NEW C, NEW k, NEW e, NEW H, NEW due, Shape(C, k, e, H, due),
           NEW g \in HcTypes, Between(g, C, k, e, H, due), NEW i \in due
    PROVE  /\ Link1(g, i, C[i], k[i]) = H => Chain(g, i) = C[i] /\ Follows(g, i, C[i])
           /\ Link1(g, i, C[i], k[i]) = e /\ g.next[e] = H
                => /\ Chain(g, i) = Ins(C[i], k[i], e)
                   /\ Follows(g, i, Ins(C[i], k[i], e))
<1>1. /\ i \in Slots /\ e \in Ep /\ C[i] \in Seq(Ep) /\ Distinct(C[i]) /\ Off(C[i], e)
      /\ k[i] \in 0 .. Len(C[i]) /\ At(C[i], k[i] + 1) = H /\ Rest(g, i, C[i], k[i])
  BY DEF Shape, Between
<1> DEFINE c == C[i]
           n == k[i]
<1> HIDE DEF c, n
<1>2. /\ c \in Seq(Ep) /\ Distinct(c) /\ Off(c, e)
      /\ n \in 0 .. Len(c) /\ At(c, n + 1) = H /\ Rest(g, i, c, n)
  BY <1>1 DEF c, n
<1>3. Link1(g, i, c, n) = H => Follows(g, i, c)
  BY <1>1, <1>2, FollowsParts
<1>4. Link1(g, i, c, n) = e /\ g.next[e] = H => Follows(g, i, Ins(c, n, e))
  BY <1>1, <1>2, FollowsIns
<1>5. \A d : Follows(g, i, d) => Chain(g, i) = d
  BY <1>1, ChainIs
<1> QED
  BY <1>3, <1>4, <1>5 DEF c, n

(* One turn of the loop of urb_enqueue.                                    *)
LEMMA LinkTurn ==
    ASSUME NEW C, NEW k, NEW e, NEW H, NEW due, Shape(C, k, e, H, due),
           NEW d, \A x \in Ep : d[x].period \in Nat,
           NEW g \in HcTypes, Between(g, C, k, e, H, due),
           \A i \in due : Link1(g, i, C[i], k[i]) = e => g.next[e] = H,
           NEW n \in due, Place(C[n], e, d, k[n]),
           NEW y, y = InsertInSlot(g, n, e, d)
    PROVE  /\ Between(y, C, k, e, H, due)
           /\ y.next[e] = H
           /\ Link1(y, n, C[n], k[n]) = e
           /\ \A i \in due : Link1(g, i, C[i], k[i]) = e => Link1(y, i, C[i], k[i]) = e
<1> DEFINE c == Chain(g, n)
           p == CHOOSE m \in 0 .. Len(c) : Place(c, e, d, m)
           here == IF p = Len(c) THEN None ELSE c[p + 1]
           g1 == [g EXCEPT !.next[e] = here]
<1>1. y = IF here = e THEN g ELSE PointTo(g1, n, p, e)
  BY DEF InsertInSlot, Place
<1>2. /\ n \in Slots /\ e \in Ep /\ H \in Pointer /\ H # e
      /\ C[n] \in Seq(Ep) /\ Distinct(C[n]) /\ Off(C[n], e) /\ Len(C[n]) \in Nat
      /\ DOMAIN C[n] = 1 .. Len(C[n])
      /\ k[n] \in 0 .. Len(C[n]) /\ At(C[n], k[n] + 1) = H
      /\ \A m \in DOMAIN C[n] : C[n][m] # e /\ C[n][m] \in Ep
  BY DEF Shape, Off
<1>3. CASE Link1(g, n, C[n], k[n]) = e
  <2>1. c = Ins(C[n], k[n], e)
    BY <1>3, DueChain
  <2> HIDE DEF c
  <2>2. /\ Len(c) = Len(C[n]) + 1 /\ c[k[n] + 1] = e /\ \A m \in 1 .. k[n] : c[m] = C[n][m]
    BY <1>2, <2>1, InsFacts
  <2>3. Place(c, e, d, k[n]) /\ k[n] \in 0 .. Len(c)
    <3>1. k[n] \in 0 .. Len(c)
      BY <1>2, <2>2
    <3>2. \A m \in 1 .. k[n] : c[m] # e /\ d[c[m]].period >= d[e].period
      BY <1>2, <2>2 DEF Place
    <3> QED
      BY <2>2, <3>1, <3>2 DEF Place
  <2>4. p \in 0 .. Len(c) /\ Place(c, e, d, p)
    BY <2>3
  <2> HIDE DEF p
  <2>5. p = k[n]
    <3>1. ~(p > k[n])
      BY <1>2, <2>2, <2>4 DEF Place
    <3>2. ASSUME p < k[n] PROVE FALSE
      <4>1. p + 1 \in 1 .. k[n] /\ p # Len(c)
        BY <1>2, <2>2, <2>4, <3>2
      <4>2. c[p + 1] # e /\ d[c[p + 1]].period >= d[e].period
        BY <2>3, <4>1 DEF Place
      <4>3. d[c[p + 1]].period \in Nat /\ d[e].period \in Nat
        BY <1>2, <2>2, <4>1
      <4> QED
        BY <2>4, <4>1, <4>2, <4>3 DEF Place
    <3> QED
      BY <1>2, <2>4, <3>1, <3>2
  <2>6. here = e
    BY <1>2, <2>2, <2>5
  <2> QED
    BY <1>1, <1>3, <2>6
<1>4. CASE Link1(g, n, C[n], k[n]) = H
  <2>1. c = C[n]
    BY <1>4, DueChain
  <2> HIDE DEF c
  <2>2. p \in 0 .. Len(c) /\ Place(c, e, d, p)
    BY <1>2, <2>1
  <2> HIDE DEF p
  <2>3. p = k[n]
    <3>1. \A a, b \in 0 .. Len(c) : Place(c, e, d, a) /\ Place(c, e, d, b) => ~(a < b)
      <4> SUFFICES ASSUME NEW a \in 0 .. Len(c), NEW b \in 0 .. Len(c),
                          Place(c, e, d, a), Place(c, e, d, b), a < b
                   PROVE  FALSE
        OBVIOUS
      <4>1. a + 1 \in 1 .. b /\ a # Len(c) /\ a + 1 \in DOMAIN c
        BY <1>2, <2>1
      <4>2. c[a + 1] # e /\ d[c[a + 1]].period >= d[e].period
        BY <4>1 DEF Place
      <4>3. d[c[a + 1]].period \in Nat /\ d[e].period \in Nat
        BY <1>2, <2>1, <4>1
      <4> QED
        BY <4>1, <4>2, <4>3 DEF Place
    <3>2. ~(p < k[n]) /\ ~(k[n] < p)
      BY <1>2, <2>1, <2>2, <3>1
    <3> QED
      BY <1>2, <2>1, <2>2, <3>2
  <2>4. here = H
    <3>1. CASE p = Len(c)
      BY <1>2, <2>1, <2>3, <3>1 DEF At
    <3>2. CASE p # Len(c)
      <4>1. p + 1 \in DOMAIN C[n]
        BY <1>2, <2>1, <2>2, <3>2
      <4> QED
        BY <1>2, <2>1, <2>3, <3>2, <4>1 DEF At
    <3> QED
      BY <3>1, <3>2
  <2> HIDE DEF here
  <2>5. g1 \in HcTypes
    BY <1>2, <2>4 DEF HcTypes
  <2>6. /\ g1.next[e] = H /\ g1.periodic = g.periodic
        /\ \A x \in Ep : x # e => g1.next[x] = g.next[x]
    BY <1>2, <2>4 DEF HcTypes
  <2> HIDE DEF g1
  <2>7. ASSUME NEW i \in Slots
        PROVE  /\ Follows(g, i, C[i]) => Follows(g1, i, C[i])
               /\ Rest(g, i, C[i], k[i]) => Rest(g1, i, C[i], k[i])
               /\ i \in due => Link1(g1, i, C[i], k[i]) = Link1(g, i, C[i], k[i])
    <3>1. \A m \in DOMAIN C[i] : C[i][m] \in Ep /\ C[i][m] # e
      BY DEF Shape, Off
    <3>2. \A m \in DOMAIN C[i] : g1.next[C[i][m]] = g.next[C[i][m]]
      BY <2>6, <3>1
    <3>3. i \in due /\ k[i] # 0 => k[i] \in DOMAIN C[i]
      BY DEF Shape
    <3> QED
      BY <2>6, <3>2, <3>3 DEF Follows, Rest, Link1
  <2>8. Between(g1, C, k, e, H, due)
    BY <2>7 DEF Between, Shape
  <2>9. y = Repointed(g1, n, C[n], k[n], e)
    <3>1. y = PointTo(g1, n, p, e)
      BY <1>1, <1>2, <2>4
    <3>2. Link1(g1, n, C[n], k[n]) = H
      BY <1>2, <1>4, <2>7
    <3>3. Chain(g1, n) = C[n]
      BY <2>5, <2>8, <3>2, DueChain
    <3> QED
      BY <2>3, <3>1, <3>3 DEF PointTo, Repointed
  <2>10. /\ Between(y, C, k, e, H, due)
         /\ y.next[e] = g1.next[e]
         /\ Link1(y, n, C[n], k[n]) = e
         /\ \A i \in due : Link1(g1, i, C[i], k[i]) = e => Link1(y, i, C[i], k[i]) = e
    BY <2>5, <2>8, <2>9, RepointKeeps
  <2> QED
    BY <2>6, <2>7, <2>10 DEF Shape
<1> QED
  BY <1>3, <1>4 DEF Between

(* One turn of the loop of finish_request.                                 *)
LEMMA UnlinkTurn ==
    ASSUME NEW C, NEW k, NEW e, NEW H, NEW due, Shape(C, k, e, H, due),
           NEW g \in HcTypes, Between(g, C, k, e, H, due), g.next[e] = H,
           NEW n \in due, NEW y, y = RemoveFromSlot(g, n, e)
    PROVE  /\ Between(y, C, k, e, H, due)
           /\ y.next[e] = H
           /\ Link1(y, n, C[n], k[n]) = H
           /\ \A i \in due : Link1(g, i, C[i], k[i]) = H => Link1(y, i, C[i], k[i]) = H
<1> DEFINE c == Chain(g, n)
           p == CHOOSE m \in DOMAIN c : c[m] = e
<1>1. y = IF OnList(c, e) THEN PointTo(g, n, p - 1, H) ELSE g
  BY DEF RemoveFromSlot
<1>2. /\ n \in Slots /\ e \in Ep /\ H \in Pointer /\ H # e
      /\ C[n] \in Seq(Ep) /\ Distinct(C[n]) /\ Off(C[n], e) /\ Len(C[n]) \in Nat
      /\ DOMAIN C[n] = 1 .. Len(C[n])
      /\ k[n] \in 0 .. Len(C[n]) /\ At(C[n], k[n] + 1) = H
  BY DEF Shape
<1>3. CASE Link1(g, n, C[n], k[n]) = H
  <2>1. c = C[n]
    BY <1>3, DueChain
  <2>2. ~OnList(c, e)
    BY <1>2, <2>1 DEF OnList, Off
  <2> QED
    BY <1>1, <1>3, <2>2
<1>4. CASE Link1(g, n, C[n], k[n]) = e
  <2>1. c = Ins(C[n], k[n], e)
    BY <1>4, DueChain
  <2> HIDE DEF c
  <2>2. /\ DOMAIN c = 1 .. Len(C[n]) + 1 /\ c[k[n] + 1] = e /\ Distinct(c)
        /\ \A m \in 1 .. k[n] : c[m] = C[n][m]
    BY <1>2, <2>1, InsFacts
  <2>3. k[n] + 1 \in DOMAIN c
    BY <1>2, <2>2
  <2>4. OnList(c, e)
    BY <2>2, <2>3 DEF OnList
  <2>5. p \in DOMAIN c /\ c[p] = e
    BY <2>2, <2>3
  <2> HIDE DEF p
  <2>6. p = k[n] + 1
    BY <2>2, <2>3, <2>5 DEF Distinct
  <2>7. p - 1 = k[n]
    BY <1>2, <2>6
  <2>8. y = Repointed(g, n, C[n], k[n], H)
    <3>1. y = PointTo(g, n, k[n], H)
      BY <1>1, <2>4, <2>7
    <3>2. CASE k[n] = 0
      BY <3>1, <3>2 DEF PointTo, Repointed
    <3>3. CASE k[n] # 0
      <4>1. c[k[n]] = C[n][k[n]]
        BY <1>2, <2>2, <3>3
      <4> QED
        BY <3>1, <3>3, <4>1 DEF PointTo, Repointed, c
    <3> QED
      BY <3>2, <3>3
  <2>9. /\ Between(y, C, k, e, H, due)
        /\ y.next[e] = g.next[e]
        /\ Link1(y, n, C[n], k[n]) = H
        /\ \A i \in due : Link1(g, i, C[i], k[i]) = H => Link1(y, i, C[i], k[i]) = H
    BY <2>8, RepointKeeps
  <2> QED
    BY <2>9
<1> QED
  BY <1>3, <1>4 DEF Between

(* A loop's states keep what each turn keeps.                              *)
LEMMA LoopInduction ==
    ASSUME NEW good, good \in SUBSET (0 .. PeriodicSize), 0 \in good,
           \A n \in 1 .. PeriodicSize : n - 1 \in good => n \in good
    PROVE  PeriodicSize \in good
<1> DEFINE bad == {n \in 0 .. PeriodicSize : n \notin good}
<1>1. PeriodicSize \in Nat
  BY Sl811ScheduleAssumption
<1>2. SUFFICES ASSUME bad # {} PROVE FALSE
  BY <1>1
<1>3. PICK n \in bad : \A m \in bad : n <= m
  <2>1. bad \in SUBSET Nat
    OBVIOUS
  <2> HIDE DEF bad
  <2> QED
    BY <1>2, <2>1, LeastExists
<1>4. n \in 1 .. PeriodicSize /\ n \notin good
  BY <1>1, <1>3
<1>5. n - 1 \in good
  BY <1>1, <1>3, <1>4
<1> QED
  BY <1>4, <1>5

(* Any state is rewired to itself.                                         *)
LEMMA SelfRewired ==
    ASSUME NEW h \in HcTypes
    PROVE  Pointers(Pointer) /\ Within(h, Pointer) /\ h \in Rewired(h, Pointer)
BY Sl811ScheduleAssumption DEF Pointers, Pointer, Within, Rewired, HcTypes

(* The loops of urb_enqueue and finish_request, turn by turn.              *)
LinkTurned(f, h, e, d, slots) ==
    /\ f \in [0 .. PeriodicSize -> HcTypes] /\ f[0] = h
    /\ \A n \in 1 .. PeriodicSize : f[n] = LinkSlot(f[n - 1], n - 1, e, d, slots)
    /\ LinkSlots(h, e, d, slots) = f[PeriodicSize]

LEMMA LinkTurns ==
    ASSUME NEW h \in HcTypes, NEW e \in Ep, NEW d, NEW slots, \A x \in Ep : d[x].period \in Nat
    PROVE  \E f : LinkTurned(f, h, e, d, slots)
<1>1. e \in Pointer \ {None}
  BY Sl811ScheduleAssumption DEF Pointer
<1>2. ASSUME NEW g \in HcTypes, NEW i \in Slots PROVE LinkSlot(g, i, e, d, slots) \in HcTypes
  <2>1. InsertInSlot(g, i, e, d) \in Rewired(g, Pointer)
    BY <1>1, SelfRewired, InsertRewires
  <2> QED
    BY <2>1 DEF LinkSlot, Rewired
<1> DEFINE S == HcTypes
<1> HIDE DEF S
<1>3. h \in S /\ \A g \in S, i \in Slots : LinkSlot(g, i, e, d, slots) \in S
  BY <1>2 DEF S
<1>4. PICK f : /\ IsLinkLoop(f, h, e, d, slots)
               /\ f \in [0 .. PeriodicSize -> S]
               /\ LinkSlots(h, e, d, slots) = f[PeriodicSize]
  BY <1>3, LinkLoopIsDefined
<1>5. IsLinkLoop(f, h, e, d, slots)
  BY <1>4
<1>6. f[0] = h /\ \A n \in 1 .. PeriodicSize : f[n] = LinkSlot(f[n - 1], n - 1, e, d, slots)
  BY <1>5, LinkLoopFacts
<1> QED
  BY <1>4, <1>6 DEF S, LinkTurned

LEMMA UnlinkTurns ==
    ASSUME NEW S, NEW h \in S, S = HcTypes, NEW e \in Ep, NEW slots
    PROVE  \E f : /\ f \in [0 .. PeriodicSize -> S] /\ f[0] = h
                  /\ \A n \in 1 .. PeriodicSize : f[n] = UnlinkSlot(f[n - 1], n - 1, e, slots)
                  /\ UnlinkSlots(h, e, slots) = f[PeriodicSize]
<1>1. ASSUME NEW g \in S, NEW i \in Slots PROVE UnlinkSlot(g, i, e, slots) \in S
  <2>1. RemoveFromSlot(g, i, e) \in Rewired(g, Pointer)
    BY SelfRewired, RemoveRewires
  <2> QED
    BY <2>1 DEF UnlinkSlot, Rewired
<1>2. PICK f : /\ IsUnlinkLoop(f, h, e, slots)
               /\ f \in [0 .. PeriodicSize -> S]
               /\ UnlinkSlots(h, e, slots) = f[PeriodicSize]
  BY ONLY <1>1, UnlinkLoopIsDefined
<1>3. IsUnlinkLoop(f, h, e, slots)
  BY <1>2
<1>4. f[0] = h /\ \A n \in 1 .. PeriodicSize : f[n] = UnlinkSlot(f[n - 1], n - 1, e, slots)
  BY <1>3, UnlinkLoopFacts
<1> QED
  BY <1>2, <1>4

(* The frames before the loop.                                             *)
LEMMA BetweenAtFirst ==
    ASSUME NEW C, NEW k, NEW e, NEW H, NEW due, Shape(C, k, e, H, due), NEW h \in HcTypes,
           \A i \in Slots \ due : Follows(h, i, C[i])
    PROVE  /\ (\A i \in due : Follows(h, i, C[i])) =>
                /\ Between(h, C, k, e, H, due)
                /\ \A i \in due : Link1(h, i, C[i], k[i]) = H
           /\ (\A i \in due : Follows(h, i, Ins(C[i], k[i], e))) =>
                /\ Between(h, C, k, e, H, due)
                /\ \A i \in due : Link1(h, i, C[i], k[i]) = e /\ h.next[e] = H
<1>1. ASSUME NEW i \in due
      PROVE  /\ i \in Slots /\ e \in Ep /\ C[i] \in Seq(Ep) /\ Distinct(C[i]) /\ Off(C[i], e)
             /\ k[i] \in 0 .. Len(C[i]) /\ At(C[i], k[i] + 1) = H
  BY DEF Shape
<1>2. ASSUME NEW i \in due, Follows(h, i, C[i])
      PROVE  Rest(h, i, C[i], k[i]) /\ Link1(h, i, C[i], k[i]) = H
  BY <1>1, <1>2, FollowsParts
<1>3. ASSUME NEW i \in due, Follows(h, i, Ins(C[i], k[i], e))
      PROVE  Rest(h, i, C[i], k[i]) /\ Link1(h, i, C[i], k[i]) = e /\ h.next[e] = H
  BY <1>1, <1>3, FollowsIns
<1> QED
  BY <1>2, <1>3 DEF Between

(* urb_enqueue puts the endpoint in its place in all its frames, ...       *)
LEMMA LinkSlotsFollow ==
    ASSUME NEW C, NEW k, NEW e, NEW H, NEW due, Shape(C, k, e, H, due),
           NEW d, \A x \in Ep : d[x].period \in Nat, \A i \in due : Place(C[i], e, d, k[i]),
           NEW h \in HcTypes, \A i \in Slots : Follows(h, i, C[i])
    PROVE  /\ \A i \in Slots \ due : Follows(LinkSlots(h, e, d, due), i, C[i])
           /\ \A i \in due : Follows(LinkSlots(h, e, d, due), i, Ins(C[i], k[i], e))
<1>1. e \in Ep /\ H # e /\ due \subseteq Slots /\ e \in Pointer \ {None}
  BY Sl811ScheduleAssumption DEF Shape, Pointer
<1>2. PICK f : LinkTurned(f, h, e, d, due)
  BY <1>1, LinkTurns
<1>3. /\ f \in [0 .. PeriodicSize -> HcTypes] /\ f[0] = h
      /\ \A n \in 1 .. PeriodicSize : f[n] = LinkSlot(f[n - 1], n - 1, e, d, due)
      /\ LinkSlots(h, e, d, due) = f[PeriodicSize]
  BY <1>2 DEF LinkTurned
<1>4. f[0] = h /\ \A n \in 1 .. PeriodicSize : f[n] = LinkSlot(f[n - 1], n - 1, e, d, due)
  BY <1>3
<1> DEFINE Inv(g, n) ==
             /\ Between(g, C, k, e, H, due)
             /\ \A i \in due : Link1(g, i, C[i], k[i]) = e => g.next[e] = H
             /\ \A i \in due : i < n => Link1(g, i, C[i], k[i]) = e
           good == {n \in 0 .. PeriodicSize : Inv(f[n], n)}
<1>5. PeriodicSize \in Nat /\ \A i \in due : i \in 0 .. PeriodicSize - 1
  BY <1>1, Sl811ScheduleAssumption DEF Slots
<1>6. Inv(h, 0)
  <2>1. Between(h, C, k, e, H, due) /\ \A i \in due : Link1(h, i, C[i], k[i]) = H
    BY <1>1, BetweenAtFirst
  <2> QED
    BY <1>1, <1>5, <2>1
<1>7. ASSUME NEW n \in 1 .. PeriodicSize, Inv(f[n - 1], n - 1) PROVE Inv(f[n], n)
  <2>1. n - 1 \in 0 .. PeriodicSize /\ f[n - 1] \in HcTypes /\ f[n] \in HcTypes
    BY <1>3, <1>5
  <2>2. f[n] = LinkSlot(f[n - 1], n - 1, e, d, due)
    BY <1>4
  <2>3. CASE n - 1 \notin due
    <3>1. f[n] = f[n - 1]
      BY <2>2, <2>3 DEF LinkSlot
    <3>2. \A i \in due : i < n => i < n - 1
      BY <1>5, <2>1, <2>3
    <3> QED
      BY <1>7, <3>1, <3>2
  <2>4. CASE n - 1 \in due
    <3> DEFINE g == f[n - 1]
               y == f[n]
               m == n - 1
    <3>1. y = InsertInSlot(g, m, e, d)
      BY <2>2, <2>4 DEF LinkSlot
    <3> HIDE DEF y, g, m
    <3>2. /\ g \in HcTypes /\ Between(g, C, k, e, H, due) /\ m \in due /\ Place(C[m], e, d, k[m])
          /\ \A i \in due : Link1(g, i, C[i], k[i]) = e => g.next[e] = H
      BY <1>7, <2>1, <2>4 DEF g, m
    <3>3. /\ Between(y, C, k, e, H, due)
          /\ y.next[e] = H
          /\ Link1(y, m, C[m], k[m]) = e
          /\ \A i \in due : Link1(g, i, C[i], k[i]) = e => Link1(y, i, C[i], k[i]) = e
      BY <3>1, <3>2, LinkTurn
    <3>4. \A i \in due : i < n => Link1(y, i, C[i], k[i]) = e
      <4> SUFFICES ASSUME NEW i \in due, i < n PROVE Link1(y, i, C[i], k[i]) = e
        OBVIOUS
      <4>1. i < n - 1 \/ i = m
        BY <1>5 DEF m
      <4> QED
        BY <1>7, <3>3, <4>1 DEF g
    <3> QED
      BY <3>3, <3>4 DEF y
  <2> QED
    BY <2>3, <2>4
<1> HIDE DEF Inv
<1>8. PeriodicSize \in good
  <2>1. good \in SUBSET (0 .. PeriodicSize) /\ 0 \in good
    BY <1>4, <1>5, <1>6
  <2>2. \A n \in 1 .. PeriodicSize : n - 1 \in good => n \in good
    BY <1>5, <1>7
  <2> HIDE DEF good
  <2> QED
    BY <2>1, <2>2, LoopInduction
<1> DEFINE y == LinkSlots(h, e, d, due)
<1>9. Inv(y, PeriodicSize)
  BY <1>3, <1>8
<1>10. y \in HcTypes
  BY <1>3, <1>5
<1> HIDE DEF y
<1>11. Between(y, C, k, e, H, due) /\ \A i \in due : Link1(y, i, C[i], k[i]) = e /\ y.next[e] = H
  BY <1>5, <1>9 DEF Inv
<1>12. \A i \in due : Follows(y, i, Ins(C[i], k[i], e))
  BY <1>10, <1>11, DueChain
<1> QED
  BY <1>11, <1>12 DEF y, Between

(* ... and finish_request takes it out of all of them.                     *)
LEMMA UnlinkSlotsFollow ==
    ASSUME NEW C, NEW k, NEW e, NEW H, NEW due, Shape(C, k, e, H, due), due # {},
           NEW h \in HcTypes, \A i \in Slots \ due : Follows(h, i, C[i]),
           \A i \in due : Follows(h, i, Ins(C[i], k[i], e))
    PROVE  /\ \A i \in Slots : Follows(UnlinkSlots(h, e, due), i, C[i])
           /\ UnlinkSlots(h, e, due).next[e] = H
<1>1. e \in Ep /\ H # e /\ due \subseteq Slots /\ e \in Pointer \ {None}
  BY Sl811ScheduleAssumption DEF Shape, Pointer
<1>3. PICK f : /\ f \in [0 .. PeriodicSize -> HcTypes] /\ f[0] = h
               /\ \A n \in 1 .. PeriodicSize : f[n] = UnlinkSlot(f[n - 1], n - 1, e, due)
               /\ UnlinkSlots(h, e, due) = f[PeriodicSize]
  BY <1>1, UnlinkTurns
<1>4. f[0] = h /\ \A n \in 1 .. PeriodicSize : f[n] = UnlinkSlot(f[n - 1], n - 1, e, due)
  BY <1>3
<1> DEFINE Inv(g, n) ==
             /\ Between(g, C, k, e, H, due)
             /\ g.next[e] = H
             /\ \A i \in due : i < n => Link1(g, i, C[i], k[i]) = H
           good == {n \in 0 .. PeriodicSize : Inv(f[n], n)}
<1>5. PeriodicSize \in Nat /\ \A i \in due : i \in 0 .. PeriodicSize - 1
  BY <1>1, Sl811ScheduleAssumption DEF Slots
<1>6. Inv(h, 0)
  <2>1. Between(h, C, k, e, H, due) /\ \A i \in due : h.next[e] = H
    BY BetweenAtFirst
  <2> QED
    BY <1>1, <1>5, <2>1
<1>7. ASSUME NEW n \in 1 .. PeriodicSize, Inv(f[n - 1], n - 1) PROVE Inv(f[n], n)
  <2>1. n - 1 \in 0 .. PeriodicSize /\ f[n - 1] \in HcTypes /\ f[n] \in HcTypes
    BY <1>3, <1>5
  <2>2. f[n] = UnlinkSlot(f[n - 1], n - 1, e, due)
    BY <1>4
  <2>3. CASE n - 1 \notin due
    <3>1. f[n] = f[n - 1]
      BY <2>2, <2>3 DEF UnlinkSlot
    <3>2. \A i \in due : i < n => i < n - 1
      BY <1>5, <2>1, <2>3
    <3> QED
      BY <1>7, <3>1, <3>2
  <2>4. CASE n - 1 \in due
    <3> DEFINE g == f[n - 1]
               y == f[n]
               m == n - 1
    <3>1. y = RemoveFromSlot(g, m, e)
      BY <2>2, <2>4 DEF UnlinkSlot
    <3> HIDE DEF y, g, m
    <3>2. g \in HcTypes /\ Between(g, C, k, e, H, due) /\ m \in due /\ g.next[e] = H
      BY <1>7, <2>1, <2>4 DEF g, m
    <3>3. /\ Between(y, C, k, e, H, due)
          /\ y.next[e] = H
          /\ Link1(y, m, C[m], k[m]) = H
          /\ \A i \in due : Link1(g, i, C[i], k[i]) = H => Link1(y, i, C[i], k[i]) = H
      BY <3>1, <3>2, UnlinkTurn
    <3>4. \A i \in due : i < n => Link1(y, i, C[i], k[i]) = H
      <4> SUFFICES ASSUME NEW i \in due, i < n PROVE Link1(y, i, C[i], k[i]) = H
        OBVIOUS
      <4>1. i < n - 1 \/ i = m
        BY <1>5 DEF m
      <4> QED
        BY <1>7, <3>3, <4>1 DEF g
    <3> QED
      BY <3>3, <3>4 DEF y
  <2> QED
    BY <2>3, <2>4
<1> HIDE DEF Inv
<1>8. PeriodicSize \in good
  <2>1. good \in SUBSET (0 .. PeriodicSize) /\ 0 \in good
    BY <1>4, <1>5, <1>6
  <2>2. \A n \in 1 .. PeriodicSize : n - 1 \in good => n \in good
    BY <1>5, <1>7
  <2> HIDE DEF good
  <2> QED
    BY <2>1, <2>2, LoopInduction
<1> DEFINE y == UnlinkSlots(h, e, due)
<1>9. Inv(y, PeriodicSize)
  BY <1>3, <1>8
<1>10. y \in HcTypes
  BY <1>3, <1>5
<1> HIDE DEF y
<1>11. /\ Between(y, C, k, e, H, due) /\ \A i \in due : Link1(y, i, C[i], k[i]) = H
       /\ y.next[e] = H
  BY <1>5, <1>9 DEF Inv
<1>12. \A i \in due : Follows(y, i, C[i])
  BY <1>10, <1>11, DueChain
<1> QED
  BY <1>11, <1>12 DEF y, Between

LEMMA Division == ASSUME NEW a \in Int, NEW p \in Nat, p > 0 PROVE a = (a \div p) * p + (a % p)
BY Z3

(* Multiples.                                                              *)
LEMMA MultipleIs ==
    ASSUME NEW a \in Int, NEW p \in Nat \ {0}
    PROVE  a % p = 0 <=> \E k \in Int : a = k * p
<1>1. a = (a \div p) * p + (a % p) /\ a \div p \in Int /\ a % p \in 0 .. p - 1
  <2>1. p \in Nat /\ p > 0
    OBVIOUS
  <2>2. a \div p \in Int
    BY <2>1
  <2>3. a % p \in 0 .. p - 1
    BY <2>1
  <2>4. a = (a \div p) * p + (a % p)
    BY <2>1, Division
  <2> QED
    BY <2>2, <2>3, <2>4
<1>2. ASSUME a % p = 0 PROVE \E k \in Int : a = k * p
  <2>1. a = (a \div p) * p
    BY <1>1, <1>2
  <2> QED
    BY <1>1, <2>1
<1>3. ASSUME NEW k \in Int, a = k * p PROVE a % p = 0
  <2> DEFINE d == k - a \div p
             r == a % p
  <2>1. r = d * p /\ d \in Int /\ r \in 0 .. p - 1
    BY <1>1, <1>3
  <2> HIDE DEF d, r
  <2>2. CASE d >= 1
    <3>1. d * p >= p
      BY <2>1, <2>2
    <3> QED
      BY <2>1, <3>1
  <2>3. CASE d <= -1
    <3>1. d * p <= -p
      BY <2>1, <2>3
    <3> QED
      BY <2>1, <3>1
  <2>4. CASE d = 0
    BY <2>1, <2>4 DEF r
  <2> QED
    BY <2>1, <2>2, <2>3, <2>4
<1> QED
  BY <1>2, <1>3

(* Of two endpoints whose periods nest, the frames of the slower one that  *)
(* meet a frame of the other are all frames of the other.                  *)
LEMMA SlotsNest ==
    ASSUME NEW p \in Nat \ {0}, NEW q \in Nat \ {0}, q % p = 0, NEW b \in Nat, NEW c \in 0 .. p - 1,
           NEW i \in DueSlots(q, b), i \in DueSlots(p, c), NEW j \in DueSlots(q, b)
    PROVE  j \in DueSlots(p, c)
<1>1. /\ i \in Slots /\ j \in Slots /\ i \in Int /\ j \in Nat
      /\ (i - b) % q = 0 /\ (j - b) % q = 0 /\ (i - c) % p = 0
  BY Sl811ScheduleAssumption DEF DueSlots, Slots
<1>2. PICK k \in Int : i - b = k * q
  <2> DEFINE a == i - b
  <2>1. a \in Int /\ a % q = 0
    BY <1>1
  <2> HIDE DEF a
  <2>2. \E x \in Int : a = x * q
    BY <2>1, MultipleIs
  <2> QED
    BY <2>2 DEF a
<1>3. PICK l \in Int : j - b = l * q
  <2> DEFINE a == j - b
  <2>1. a \in Int /\ a % q = 0
    BY <1>1
  <2> HIDE DEF a
  <2>2. \E x \in Int : a = x * q
    BY <2>1, MultipleIs
  <2> QED
    BY <2>2 DEF a
<1>4. PICK m \in Int : i - c = m * p
  <2> DEFINE a == i - c
  <2>1. a \in Int /\ a % p = 0
    BY <1>1
  <2> HIDE DEF a
  <2>2. \E x \in Int : a = x * p
    BY <2>1, MultipleIs
  <2> QED
    BY <2>2 DEF a
<1>5. PICK n \in Int : q = n * p
  <2> DEFINE a == q
  <2>1. a \in Int /\ a % p = 0
    BY <1>1
  <2> HIDE DEF a
  <2>2. \E x \in Int : a = x * p
    BY <2>1, MultipleIs
  <2> QED
    BY <2>2 DEF a
<1> DEFINE z == m + (l - k) * n
<1>6. j - c = z * p /\ z \in Int
  <2>1. j - c = (i - c) + (j - b) - (i - b)
    BY <1>1
  <2>2. (l * q) - (k * q) = ((l - k) * n) * p
    BY <1>5
  <2>3. z * p = m * p + ((l - k) * n) * p
    OBVIOUS
  <2> QED
    BY <1>1, <1>2, <1>3, <1>4, <2>1, <2>2, <2>3
<1>7. (j - c) % p = 0
  <2>1. j - c \in Int
    BY <1>1
  <2> QED
    BY <1>6, <2>1, MultipleIs
<1>8. j >= c
  <2> HIDE DEF z
  <2>1. CASE z >= 0
    <3>1. z * p >= 0
      BY <1>6, <2>1
    <3> QED
      BY <1>1, <1>6, <3>1
  <2>2. CASE z <= -1
    <3>1. z * p <= -p
      BY <1>6, <2>2
    <3> QED
      BY <1>1, <1>6, <3>1
  <2> QED
    BY <1>6, <2>1, <2>2
<1> QED
  BY <1>1, <1>7, <1>8 DEF DueSlots

(* Chains that meet have the same tail.                                    *)
LEMMA TailsAgree ==
    ASSUME NEW h, NEW i, NEW j, NEW c, NEW d, Follows(h, i, c), Follows(h, j, d),
           NEW a \in DOMAIN c, NEW b \in DOMAIN d, c[a] = d[b], NEW t \in Nat
    PROVE  At(c, a + t) = At(d, b + t)
<1> DEFINE wrong == {s \in Nat : At(c, a + s) # At(d, b + s)}
<1>1. /\ DOMAIN c = 1 .. Len(c) /\ Len(c) \in Nat /\ DOMAIN d = 1 .. Len(d) /\ Len(d) \in Nat
      /\ \A n \in DOMAIN c : c[n] \in Ep /\ h.next[c[n]] = At(c, n + 1)
      /\ \A n \in DOMAIN d : d[n] \in Ep /\ h.next[d[n]] = At(d, n + 1)
  BY DEF Follows
<1>2. SUFFICES ASSUME wrong # {} PROVE FALSE
  OBVIOUS
<1>3. PICK s \in wrong : \A r \in wrong : s <= r
  <2>1. wrong \in SUBSET Nat
    OBVIOUS
  <2> HIDE DEF wrong
  <2> QED
    BY <1>2, <2>1, LeastExists
<1>4. s \in Nat /\ At(c, a + s) # At(d, b + s)
  BY <1>3
<1>5. s # 0
  BY <1>1, <1>4 DEF At
<1>6. At(c, a + (s - 1)) = At(d, b + (s - 1))
  <2>1. s - 1 \in Nat /\ ~(s <= s - 1)
    BY <1>4, <1>5
  <2> QED
    BY <1>3, <2>1
<1> DEFINE m == a + (s - 1)
           n == b + (s - 1)
<1>7. m \in Nat /\ n \in Nat /\ m >= 1 /\ n >= 1 /\ m + 1 = a + s /\ n + 1 = b + s
  BY <1>1, <1>4, <1>5
<1> HIDE DEF m, n
<1>8. At(c, m) = At(d, n) /\ At(c, m + 1) # At(d, n + 1)
  BY <1>4, <1>6, <1>7 DEF m, n
<1>9. m \in DOMAIN c <=> n \in DOMAIN d
  BY <1>1, <1>8, Sl811ScheduleAssumption DEF At
<1>10. CASE m \in DOMAIN c
  BY <1>1, <1>8, <1>9, <1>10 DEF At
<1>11. CASE m \notin DOMAIN c
  BY <1>1, <1>7, <1>8, <1>9, <1>11 DEF At
<1> QED
  BY <1>10, <1>11

(* What the first endpoints of a list need, for every number of them.      *)
SumsOf(f, c) ==
    /\ f \in [0 .. Len(c) -> Int]
    /\ f[0] = 0
    /\ \A n \in 1 .. Len(c) : f[n] = f[n - 1] + dev.ep[c[n]].load

IsSum(f, c) ==
    f = [n \in 0 .. Len(c) |-> IF n = 0 THEN 0 ELSE f[n - 1] + dev.ep[c[n]].load]

LEMMA SumFacts ==
    ASSUME NEW c, Len(c) \in Nat, NEW f, IsSum(f, c)
    PROVE  /\ f = [n \in 0 .. Len(c) |-> f[n]]
           /\ f[0] = 0
           /\ \A n \in 1 .. Len(c) : f[n] = f[n - 1] + dev.ep[c[n]].load
<1> DEFINE L == Len(c)
           g == [n \in 0 .. L |-> IF n = 0 THEN 0 ELSE f[n - 1] + dev.ep[c[n]].load]
<1>1. f = g
  BY DEF IsSum
<1>2. g = [n \in 0 .. L |-> g[n]]
  OBVIOUS
<1>3. \A n \in 0 .. L : g[n] = IF n = 0 THEN 0 ELSE f[n - 1] + dev.ep[c[n]].load
  OBVIOUS
<1> HIDE DEF g
<1>4. f = [n \in 0 .. L |-> f[n]]
  BY <1>1, <1>2
<1>5. \A n \in 0 .. L : f[n] = IF n = 0 THEN 0 ELSE f[n - 1] + dev.ep[c[n]].load
  BY <1>1, <1>3
<1>6. L \in Nat
  OBVIOUS
<1> HIDE DEF L
<1>7. f[0] = 0
  BY <1>5, <1>6
<1>8. ASSUME NEW n \in 1 .. L PROVE f[n] = f[n - 1] + dev.ep[c[n]].load
  <2>1. n \in 0 .. L /\ n # 0
    BY <1>6
  <2> QED
    BY <1>5, <2>1
<1> QED
  BY <1>4, <1>7, <1>8 DEF L

(* What a chain needs of a frame is the last of them.                      *)
LEMMA ReservedIs ==
    ASSUME DevOK, NEW c \in Seq(Ep)
    PROVE  \E f : SumsOf(f, c) /\ Reserved(c) = f[Len(c)]
<1> DEFINE L == Len(c)
           add == [n \in 1 .. L |-> [s \in Int |-> s + dev.ep[c[n]].load]]
           r == CHOOSE f : IsSum(f, c)
<1>1. L \in Nat /\ DOMAIN c = 1 .. L /\ \A n \in 1 .. L : c[n] \in Ep
  OBVIOUS
<1>2. \A n \in 1 .. L : dev.ep[c[n]].load \in Int
  BY <1>1, DeviceFacts
<1> HIDE DEF L
<1>3. add \in [1 .. L -> [Int -> Int]]
  BY <1>2
<1>4. \A n \in 1 .. L, s \in Int : add[n][s] = s + dev.ep[c[n]].load
  OBVIOUS
<1> HIDE DEF add
<1>5. PICK f : IsLoop(f, Int, 0, L, add)
  <2> DEFINE S == Int
             zero == 0
  <2>1. zero \in S /\ L \in Nat /\ add \in [1 .. L -> [S -> S]]
    BY <1>1, <1>3
  <2> HIDE DEF S, zero
  <2>2. \E f : IsLoop(f, S, zero, L, add)
    BY <2>1, LoopIsDefined
  <2> QED
    BY <2>2 DEF S, zero
<1>6. f \in [0 .. L -> Int] /\ f[0] = 0 /\ \A n \in 1 .. L : f[n] = add[n][f[n - 1]]
  BY <1>5 DEF IsLoop
<1>7. ASSUME NEW n \in 1 .. L PROVE f[n] = f[n - 1] + dev.ep[c[n]].load
  <2>1. f[n - 1] \in Int
    BY <1>1, <1>6
  <2> QED
    BY <1>4, <1>6, <2>1
<1>8. IsSum(f, c)
  <2>1. f = [n \in 0 .. L |-> f[n]]
    BY <1>6
  <2>2. \A n \in 0 .. L : f[n] = IF n = 0 THEN 0 ELSE f[n - 1] + dev.ep[c[n]].load
    BY <1>1, <1>6, <1>7
  <2>3. f = [n \in 0 .. L |-> IF n = 0 THEN 0 ELSE f[n - 1] + dev.ep[c[n]].load]
    BY <2>1, <2>2
  <2> QED
    BY <2>3 DEF IsSum, L
<1>9. IsSum(r, c)
  BY <1>8
<1>10. Reserved(c) = r[L]
  BY DEF Reserved, IsSum, L
<1> HIDE DEF r
<1>11. /\ r = [n \in 0 .. L |-> r[n]] /\ r[0] = 0
       /\ \A n \in 1 .. L : r[n] = r[n - 1] + dev.ep[c[n]].load
  BY <1>1, <1>9, SumFacts DEF L
<1>12. \A n \in 0 .. L : r[n] = f[n]
  <2> DEFINE wrong == {n \in 0 .. L : r[n] # f[n]}
  <2>1. SUFFICES ASSUME wrong # {} PROVE FALSE
    OBVIOUS
  <2>2. PICK n \in wrong : \A m \in wrong : n <= m
    <3>1. wrong \in SUBSET Nat
      BY <1>1
    <3> HIDE DEF wrong
    <3> QED
      BY <2>1, <3>1, LeastExists
  <2>3. n \in 1 .. L /\ r[n] # f[n]
    BY <1>1, <1>6, <1>11, <2>2
  <2>4. r[n - 1] = f[n - 1]
    <3>1. n - 1 \in 0 .. L /\ ~(n <= n - 1)
      BY <1>1, <2>3
    <3> QED
      BY <2>2, <3>1
  <2> QED
    BY <1>7, <1>11, <2>3, <2>4
<1>13. r \in [0 .. L -> Int]
  BY <1>6, <1>11, <1>12
<1> QED
  BY <1>10, <1>11, <1>13 DEF SumsOf, L

(* A chain with one endpoint more needs what it needs more.                *)
LEMMA ReservedIns ==
    ASSUME DevOK, NEW c \in Seq(Ep), Distinct(c), NEW k \in 0 .. Len(c), NEW e \in Ep, Off(c, e)
    PROVE  Reserved(c) \in Int /\ Reserved(Ins(c, k, e)) = Reserved(c) + dev.ep[e].load
<1> DEFINE x == Ins(c, k, e)
           L == Len(c)
           l == dev.ep[e].load
<1>1. L \in Nat /\ DOMAIN c = 1 .. L /\ k \in 0 .. L /\ l \in Int /\ \A n \in 1 .. L : c[n] \in Ep
  BY DeviceFacts
<1>2. /\ x \in Seq(Ep) /\ Len(x) = L + 1
      /\ x[k + 1] = e
      /\ \A m \in 1 .. k : x[m] = c[m]
      /\ \A m \in k + 1 .. L : x[m + 1] = c[m]
  BY InsFacts
<1> HIDE DEF x, L
<1>3. PICK f : SumsOf(f, c) /\ Reserved(c) = f[L]
  BY ReservedIs DEF L
<1>4. PICK g : SumsOf(g, x) /\ Reserved(x) = g[L + 1]
  BY <1>2, ReservedIs
<1>5. /\ f \in [0 .. L -> Int] /\ f[0] = 0
      /\ \A n \in 1 .. L : f[n] = f[n - 1] + dev.ep[c[n]].load
  BY <1>3 DEF SumsOf, L
<1>6. /\ g \in [0 .. L + 1 -> Int] /\ g[0] = 0
      /\ \A n \in 1 .. L + 1 : g[n] = g[n - 1] + dev.ep[x[n]].load
  BY <1>2, <1>4 DEF SumsOf
<1> DEFINE Right(n) == IF n <= k THEN g[n] = f[n] ELSE g[n] = f[n - 1] + l
           wrong == {n \in 0 .. L + 1 : ~Right(n)}
<1>7. wrong = {}
  <2>1. SUFFICES ASSUME wrong # {} PROVE FALSE
    OBVIOUS
  <2>2. PICK n \in wrong : \A m \in wrong : n <= m
    <3>1. wrong \in SUBSET Nat
      BY <1>1
    <3> HIDE DEF wrong
    <3> QED
      BY <2>1, <3>1, LeastExists
  <2>3. n \in 0 .. L + 1 /\ ~Right(n)
    BY <2>2
  <2>4. n # 0
    BY <1>1, <1>5, <1>6, <2>3
  <2>5. n \in 1 .. L + 1 /\ n - 1 \in 0 .. L + 1 /\ Right(n - 1)
    <3>1. n \in 1 .. L + 1 /\ n - 1 \in 0 .. L + 1 /\ ~(n <= n - 1)
      BY <1>1, <2>3, <2>4
    <3>2. n - 1 \notin wrong
      <4> HIDE DEF wrong
      <4> QED
        BY <2>2, <3>1
    <3> QED
      BY <3>1, <3>2
  <2>6. g[n] = g[n - 1] + dev.ep[x[n]].load
    BY <1>6, <2>5
  <2>7. CASE n <= k
    <3>1. n \in 1 .. k /\ n \in 1 .. L /\ n - 1 <= k
      BY <1>1, <2>5, <2>7
    <3> QED
      BY <1>2, <1>5, <2>3, <2>5, <2>6, <2>7, <3>1
  <2>8. CASE n = k + 1
    <3>1. n - 1 = k /\ n - 1 <= k /\ ~(n <= k)
      BY <1>1, <2>8
    <3> QED
      BY <1>2, <2>3, <2>5, <2>6, <2>8, <3>1
  <2>9. CASE n > k + 1
    <3> DEFINE m == n - 1
    <3>1. m \in k + 1 .. L /\ m \in 1 .. L /\ m + 1 = n /\ ~(n <= k) /\ ~(m <= k)
      BY <1>1, <2>5, <2>9
    <3>2. g[m] = f[m - 1] + l
      BY <2>5, <3>1
    <3>3. m - 1 \in 0 .. L /\ f[m - 1] \in Int /\ dev.ep[c[m]].load \in Int
      BY <1>1, <1>5, <3>1, DeviceFacts
    <3>4. g[n] = g[m] + dev.ep[c[m]].load /\ f[m] = f[m - 1] + dev.ep[c[m]].load
      <4> HIDE DEF m
      <4>1. x[n] = c[m]
        BY <1>2, <3>1
      <4>2. g[n] = g[n - 1] + dev.ep[c[m]].load /\ n - 1 = m
        BY <2>6, <4>1 DEF m
      <4> QED
        BY <1>5, <3>1, <4>2
    <3>5. g[n] = f[m] + l
      <4> HIDE DEF m, l
      <4> QED
        BY <1>1, <3>2, <3>3, <3>4
    <3> QED
      BY <2>3, <3>1, <3>5
  <2> QED
    BY <1>1, <2>5, <2>7, <2>8, <2>9
<1>8. Right(L + 1)
  <2>1. L + 1 \in 0 .. L + 1
    BY <1>1
  <2> HIDE DEF Right
  <2> QED
    BY <1>7, <2>1
<1>9. g[L + 1] = f[L] + l
  <2>1. ~(L + 1 <= k) /\ (L + 1) - 1 = L
    BY <1>1
  <2> QED
    BY <1>8, <2>1
<1>10. f[L] \in Int
  BY <1>1, <1>5
<1> QED
  BY <1>3, <1>4, <1>9, <1>10 DEF x

Period(e) == dev.ep[e].period

(* The endpoints in the frames, and those due in one of them.              *)
Frames(h) == {e \in Ep : h.branch[e] < PeriodicSize}
Due(h, i) == {e \in Frames(h) : i \in DueSlots(Period(e), h.branch[e])}

SlowFirst(c) == \A m, n \in DOMAIN c : m < n => Period(c[m]) >= Period(c[n])

(* Frame i has the chain c, and it is right.                               *)
Sound(h, i, c) ==
    /\ Follows(h, i, c) /\ Elements(c) = Due(h, i) /\ SlowFirst(c)
    /\ h.load[i] = Reserved(c) /\ h.load[i] <= MaxPeriodicLoad

Placed(h) ==
    \A e \in Frames(h) : Type(e) = "interrupt" /\ h.branch[e] \in 0 .. Period(e) - 1

(* The periodic tree.                                                      *)
Tree(h) ==
    /\ Placed(h)
    /\ \A i \in Slots : Sound(h, i, Chain(h, i))
    /\ h.count = Cardinality(Frames(h))
    /\ h.nextp # None => h.nextp \in Frames(h)

LEMMA PeriodFacts ==
    ASSUME DevOK, NEW e \in Ep, Type(e) = "interrupt"
    PROVE  /\ Period(e) \in Nat \ {0} /\ Period(e) \in 1 .. PeriodicSize
           /\ \A f \in Ep : Type(f) = "interrupt" /\ Period(e) <= Period(f)
                => Period(f) \in Nat \ {0} /\ Period(f) % Period(e) = 0
<1>1. \A f \in Ep : Type(f) = "interrupt" => Period(f) \in 1 .. PeriodicSize
  BY DeviceFacts DEF Type, Period
<1>2. \A f \in Ep : Type(f) = "interrupt" /\ Period(e) <= Period(f)
                => Period(f) % Period(e) = 0
  BY Sl811PeriodsAssumption DEF DevOK, PeriodsNest, Type, Period
<1>3. \A f \in Ep : Type(f) = "interrupt" => Period(f) \in Nat \ {0}
  BY <1>1, Sl811ScheduleAssumption
<1> QED
  BY <1>1, <1>2, <1>3

(* An endpoint that is due with e in one frame: the slower of the two is   *)
(* due with the faster one in all its frames.                              *)
LEMMA DueNest ==
    ASSUME DevOK, NEW h \in HcTypes, Placed(h), NEW e \in Ep, Type(e) = "interrupt",
           NEW b \in 0 .. Period(e) - 1, NEW i \in DueSlots(Period(e), b), NEW x \in Due(h, i)
    PROVE  /\ Period(x) >= Period(e) =>
                \A j \in Slots : x \in Due(h, j) => j \in DueSlots(Period(e), b)
           /\ Period(x) <= Period(e) =>
                \A j \in DueSlots(Period(e), b) : x \in Due(h, j)
<1>1. /\ x \in Ep /\ Type(x) = "interrupt" /\ h.branch[x] \in 0 .. Period(x) - 1
      /\ i \in DueSlots(Period(x), h.branch[x]) /\ x \in Frames(h)
  BY DEF Due, Placed, Frames
<1>2. Period(e) \in Nat \ {0} /\ Period(x) \in Nat \ {0}
  BY <1>1, PeriodFacts
<1>3. b \in Nat /\ h.branch[x] \in Nat
  BY <1>1, <1>2
<1>4. ASSUME Period(x) >= Period(e), NEW j \in Slots, x \in Due(h, j)
      PROVE  j \in DueSlots(Period(e), b)
  <2>1. Period(x) % Period(e) = 0
    BY <1>1, <1>2, <1>4, PeriodFacts
  <2>2. j \in DueSlots(Period(x), h.branch[x])
    BY <1>4 DEF Due
  <2> QED
    BY <1>1, <1>2, <1>3, <2>1, <2>2, SlotsNest
<1>5. ASSUME Period(x) <= Period(e), NEW j \in DueSlots(Period(e), b) PROVE x \in Due(h, j)
  <2>1. Period(e) % Period(x) = 0
    BY <1>1, <1>2, <1>5, PeriodFacts
  <2>2. j \in DueSlots(Period(x), h.branch[x])
    BY <1>1, <1>2, <1>3, <2>1, SlotsNest
  <2> QED
    BY <1>1, <2>2 DEF Due
<1> QED
  BY <1>4, <1>5

(* What follows the place of e in one of its frames is behind the place of *)
(* e in any other, ...                                                     *)
LEMMA HereIsThere ==
    ASSUME DevOK, NEW h \in HcTypes, Tree(h), NEW e \in Ep, Type(e) = "interrupt",
           NEW b \in 0 .. Period(e) - 1,
           NEW i \in DueSlots(Period(e), b), NEW j \in DueSlots(Period(e), b),
           NEW c, c = Chain(h, i), Off(c, e), NEW k \in 0 .. Len(c), Place(c, e, dev.ep, k),
           NEW d, d = Chain(h, j), NEW l \in 0 .. Len(d), Place(d, e, dev.ep, l),
           At(c, k + 1) # None
    PROVE  k + 1 \in DOMAIN c /\ \E n \in DOMAIN d : n >= l + 1 /\ d[n] = c[k + 1]
<1>1. i \in Slots /\ j \in Slots
  BY DEF DueSlots
<1>2. /\ c \in Seq(Ep) /\ DOMAIN c = 1 .. Len(c) /\ Len(c) \in Nat /\ Elements(c) = Due(h, i)
      /\ d \in Seq(Ep) /\ DOMAIN d = 1 .. Len(d) /\ Len(d) \in Nat /\ Elements(d) = Due(h, j)
  BY <1>1 DEF Tree, Sound, Follows
<1>a. /\ DOMAIN c = 1 .. Len(c) /\ Len(c) \in Nat /\ k \in 0 .. Len(c)
      /\ DOMAIN d = 1 .. Len(d) /\ Len(d) \in Nat /\ l \in 0 .. Len(d)
  BY <1>2
<1>3. k + 1 \in DOMAIN c
  BY DEF At
<1> DEFINE x == c[k + 1]
<1>4. x \in Due(h, i) /\ x # e /\ x \in Ep
  BY <1>2, <1>3 DEF Off, Elements
<1>5. dev.ep[x].period < dev.ep[e].period /\ dev.ep[x].period \in Nat /\ dev.ep[e].period \in Nat
  <2>1. k # Len(c)
    <3> DEFINE L == Len(c)
    <3>1. k + 1 \in 1 .. L /\ L \in Nat /\ k \in 0 .. L
      BY <1>a, <1>3
    <3> HIDE DEF L
    <3>2. k # L
      BY <3>1
    <3> QED
      BY <3>2 DEF L
  <2> QED
    BY <1>4, <2>1, DeviceFacts DEF Place
<1> HIDE DEF x
<1>6. x \in Due(h, j)
  BY <1>4, <1>5, DueNest DEF Tree, Period
<1>7. PICK n \in DOMAIN d : d[n] = x
  BY <1>2, <1>6 DEF Elements
<1>8. ~(n <= l)
  <2>1. SUFFICES ASSUME n <= l PROVE FALSE
    OBVIOUS
  <2>2. n \in 1 .. l
    BY <1>a, <1>7, <2>1
  <2>3. dev.ep[d[n]].period >= dev.ep[e].period
    BY <2>2 DEF Place
  <2> QED
    BY <1>5, <1>7, <2>3
<1>9. n >= l + 1
  BY <1>2, <1>8
<1> QED
  BY <1>3, <1>7, <1>9 DEF x

(* ... and right behind it.                                                *)
LEMMA HereIsSame ==
    ASSUME DevOK, NEW h \in HcTypes, Tree(h), NEW e \in Ep, Type(e) = "interrupt",
           NEW b \in 0 .. Period(e) - 1,
           NEW i \in DueSlots(Period(e), b), NEW j \in DueSlots(Period(e), b),
           NEW c, c = Chain(h, i), Off(c, e), NEW k \in 0 .. Len(c), Place(c, e, dev.ep, k),
           NEW d, d = Chain(h, j), Off(d, e), NEW l \in 0 .. Len(d), Place(d, e, dev.ep, l)
    PROVE  At(c, k + 1) = At(d, l + 1)
<1>1. i \in Slots /\ j \in Slots
  BY DEF DueSlots
<1>2. /\ Follows(h, i, c) /\ Follows(h, j, d)
      /\ DOMAIN c = 1 .. Len(c) /\ Len(c) \in Nat /\ Distinct(c)
      /\ DOMAIN d = 1 .. Len(d) /\ Len(d) \in Nat /\ Distinct(d)
      /\ \A n \in DOMAIN c : c[n] # None
  BY <1>1, Sl811ScheduleAssumption DEF Tree, Sound, Follows
<1>3. At(c, k + 1) # None
        => k + 1 \in DOMAIN c /\ \E n \in DOMAIN d : n >= l + 1 /\ d[n] = c[k + 1]
  BY HereIsThere
<1>4. At(d, l + 1) # None
        => l + 1 \in DOMAIN d /\ \E m \in DOMAIN c : m >= k + 1 /\ c[m] = d[l + 1]
  BY HereIsThere
<1>5. CASE At(c, k + 1) = None
  <2>1. k + 1 \notin DOMAIN c
    BY <1>2, <1>5 DEF At
  <2> QED
    BY <1>2, <1>4, <1>5, <2>1
<1>6. CASE At(c, k + 1) # None
  <2>1. PICK n \in DOMAIN d : n >= l + 1 /\ d[n] = c[k + 1]
    BY <1>3, <1>6
  <2>2. k + 1 \in DOMAIN c /\ l + 1 \in DOMAIN d
    BY <1>2, <1>3, <1>6, <2>1
  <2>3. At(d, l + 1) # None
    BY <1>1, <2>2, Sl811ScheduleAssumption DEF At, Tree, Sound, Follows
  <2>4. PICK m \in DOMAIN c : m >= k + 1 /\ c[m] = d[l + 1]
    BY <1>4, <2>3
  <2> DEFINE t == m - (k + 1)
  <2>5. t \in Nat /\ (k + 1) + t = m
    BY <1>2, <2>4
  <2> HIDE DEF t
  <2>6. At(c, m) = At(d, n + t)
    <3> DEFINE a == k + 1
    <3>1. a \in DOMAIN c /\ c[a] = d[n]
      BY <2>1, <2>2
    <3>2. a + t = m
      BY <2>5
    <3> HIDE DEF a
    <3>0. Follows(h, i, c) /\ Follows(h, j, d) /\ t \in Nat /\ n \in DOMAIN d
      BY <1>2, <2>1, <2>5
    <3>3. At(c, a + t) = At(d, n + t)
      BY ONLY <3>0, <3>1, TailsAgree
    <3> QED
      BY <3>2, <3>3
  <2>7. n + t \in DOMAIN d /\ d[n + t] = d[l + 1]
    BY <1>2, <2>4, <2>6 DEF At
  <2>8. n + t = l + 1
    BY <1>2, <2>2, <2>7 DEF Distinct
  <2>9. n = l + 1
    BY <1>2, <2>1, <2>5, <2>8
  <2> QED
    BY <2>1, <2>2, <2>9 DEF At
<1> QED
  BY <1>5, <1>6

(* The chain stays ordered when e comes to its place.                      *)
LEMMA SlowFirstIns ==
    ASSUME DevOK, NEW c \in Seq(Ep), Distinct(c), SlowFirst(c), NEW e \in Ep, Off(c, e),
           NEW k \in 0 .. Len(c), Place(c, e, dev.ep, k)
    PROVE  SlowFirst(Ins(c, k, e))
<1> DEFINE x == Ins(c, k, e)
           L == Len(c)
           P(n) == Period(c[n])
<1>1. L \in Nat /\ DOMAIN c = 1 .. L /\ \A n \in 1 .. L : c[n] \in Ep /\ c[n] # e
  BY DEF Off
<1>2. Period(e) \in Nat /\ \A n \in 1 .. L : P(n) \in Nat
  BY <1>1, DeviceFacts DEF Period
<1>3. /\ DOMAIN x = 1 .. L + 1 /\ x[k + 1] = e
      /\ \A m \in 1 .. k : x[m] = c[m]
      /\ \A m \in k + 1 .. L : x[m + 1] = c[m]
  BY InsFacts
<1>4. \A m, n \in 1 .. L : m < n => P(m) >= P(n)
  BY <1>1 DEF SlowFirst
<1>5. \A n \in 1 .. k : P(n) >= Period(e)
  BY DEF Place, Period
<1>6. \A n \in k + 1 .. L : P(n) <= Period(e)
  <2> SUFFICES ASSUME NEW n \in k + 1 .. L PROVE P(n) <= Period(e)
    OBVIOUS
  <2>1. k + 1 \in 1 .. L /\ k # L /\ n \in 1 .. L
    <3>1. L \in Nat /\ k \in 0 .. L
      BY SMTT(30), <1>1
    <3> HIDE DEF L
    <3> QED
      BY <3>1
  <2>2. P(k + 1) < Period(e)
    BY <1>1, <2>1 DEF Place, Period
  <2>3. P(n) <= P(k + 1)
    BY <1>2, <1>4, <2>1
  <2> HIDE DEF P
  <2> QED
    BY <1>2, <2>1, <2>2, <2>3
<1> HIDE DEF x, L
<1>k. k \in 0 .. L
  BY DEF L
<1>7. ASSUME NEW m \in 1 .. L + 1, NEW n \in 1 .. L + 1, m < n
      PROVE  Period(x[m]) >= Period(x[n])
  <2>1. CASE n <= k
    <3>1. m \in 1 .. k /\ n \in 1 .. k /\ m \in 1 .. L /\ n \in 1 .. L
      BY <1>1, <1>k, <1>7, <2>1
    <3> QED
      BY <1>3, <1>4, <1>7, <3>1
  <2>2. CASE n = k + 1
    <3>1. m \in 1 .. k
      BY <1>1, <1>k, <1>7, <2>2
    <3> QED
      BY <1>3, <1>5, <2>2, <3>1
  <2>3. CASE n > k + 1
    <3> DEFINE q == n - 1
    <3>1. q \in k + 1 .. L /\ q \in 1 .. L /\ q + 1 = n
      BY <1>1, <1>k, <2>3
    <3> HIDE DEF q
    <3>2. x[n] = c[q]
      BY <1>3, <3>1
    <3>3. CASE m <= k
      <4>1. m \in 1 .. k /\ m \in 1 .. L /\ m < q
        BY <1>1, <1>k, <3>1, <3>3
      <4> QED
        BY <1>3, <1>4, <3>1, <3>2, <4>1
    <3>4. CASE m = k + 1
      BY <1>2, <1>3, <1>6, <3>1, <3>2, <3>4
    <3>5. CASE m > k + 1
      <4> DEFINE r == m - 1
      <4>1. r \in k + 1 .. L /\ r \in 1 .. L /\ r + 1 = m /\ r < q
        BY <1>1, <1>k, <1>7, <3>1, <3>5
      <4> HIDE DEF r
      <4> QED
        BY <1>3, <1>4, <3>1, <3>2, <4>1
    <3> QED
      BY <1>k, <1>1, <3>3, <3>4, <3>5
  <2> QED
    BY <1>k, <1>1, <2>1, <2>2, <2>3
<1> QED
  BY <1>3, <1>7 DEF SlowFirst, x

(* ... and when it leaves.                                                 *)
LEMMA SlowFirstOut ==
    ASSUME DevOK, NEW c \in Seq(Ep), Distinct(c), NEW e \in Ep, Off(c, e),
           NEW k \in 0 .. Len(c), SlowFirst(Ins(c, k, e))
    PROVE  SlowFirst(c)
<1> DEFINE x == Ins(c, k, e)
           L == Len(c)
           At2(n) == IF n <= k THEN n ELSE n + 1
<1>1. L \in Nat /\ DOMAIN c = 1 .. L /\ k \in 0 .. L
  OBVIOUS
<1>2. /\ DOMAIN x = 1 .. L + 1
      /\ \A m \in 1 .. k : x[m] = c[m]
      /\ \A m \in k + 1 .. L : x[m + 1] = c[m]
  BY InsFacts
<1> HIDE DEF x, L
<1>3. \A n \in 1 .. L : At2(n) \in 1 .. L + 1 /\ x[At2(n)] = c[n]
  <2> SUFFICES ASSUME NEW n \in 1 .. L PROVE At2(n) \in 1 .. L + 1 /\ x[At2(n)] = c[n]
    OBVIOUS
  <2>1. CASE n <= k
    <3>1. n \in 1 .. k /\ At2(n) = n
      BY <1>1, <2>1
    <3> QED
      BY <1>1, <1>2, <3>1
  <2>2. CASE n > k
    <3>1. n \in k + 1 .. L /\ At2(n) = n + 1
      BY <1>1, <2>2
    <3> QED
      BY <1>1, <1>2, <3>1
  <2> QED
    BY <1>1, <2>1, <2>2
<1>4. \A m, n \in 1 .. L : m < n => At2(m) < At2(n)
  BY <1>1
<1> HIDE DEF At2
<1> QED
  BY <1>1, <1>2, <1>3, <1>4 DEF SlowFirst, x

(* The fields of the tree after an endpoint entered the frames, ...        *)
LEMMA LinkedFields ==
    ASSUME DevOK, NEW h \in HcTypes, NEW e \in Ep, NEW b \in 0 .. PeriodicSize - 1,
           NEW due, due = DueSlots(Period(e), b),
           NEW y, y = SchedulePeriodic(h, e, dev.ep, b)
    PROVE  /\ y \in HcTypes
           /\ LinkSlots(h, e, dev.ep, due) \in HcTypes
           /\ y.periodic = LinkSlots(h, e, dev.ep, due).periodic
           /\ y.next = LinkSlots(h, e, dev.ep, due).next
           /\ y.branch = [h.branch EXCEPT ![e] = b]
           /\ y.load = [i \in Slots |-> h.load[i] + (IF i \in due THEN dev.ep[e].load ELSE 0)]
           /\ y.count = h.count + 1 /\ y.nextp = h.nextp
<1> DEFINE r == LinkSlots(h, e, dev.ep, due)
           B == [r.branch EXCEPT ![e] = b]
           L == [i \in Slots |-> r.load[i] + (IF i \in due THEN dev.ep[e].load ELSE 0)]
           N == r.count + 1
           Q == r.irqen \union {"SOFINTR"}
<1>1. e \in Pointer \ {None} /\ PeriodicSize \in Nat
  BY Sl811ScheduleAssumption DEF Pointer
<1>2. /\ \A x \in Ep : dev.ep[x].period \in Nat
      /\ dev.ep[e].load \in Nat
  BY DeviceFacts
<1>3. r \in Rewired(h, Pointer)
  <2>1. Pointers(Pointer) /\ Within(h, Pointer) /\ h.next \in [Ep -> Pointer]
    BY SelfRewired DEF HcTypes
  <2> QED
    BY <1>1, <1>2, <2>1, LinkSlotsRewire
<1>4. /\ r \in HcTypes /\ r.branch = h.branch /\ r.load = h.load /\ r.count = h.count
      /\ r.nextp = h.nextp
  BY <1>3 DEF Rewired
<1>5. y = FramesChanged(r, B, L, N, Q)
  <2>1. y = [r EXCEPT !.branch[e] = b, !.load = L, !.count = N, !.irqen = Q]
    BY <1>4 DEF SchedulePeriodic, HcTypes, Period
  <2> HIDE DEF r, L, N, Q
  <2> QED
    BY <2>1, <1>4 DEF HcTypes, B, FramesChanged
<1> HIDE DEF r
<1>6. B \in [Ep -> 0 .. PeriodicSize] /\ N \in Int /\ Q \in SUBSET Interrupts
  <2>1. h.branch \in [Ep -> 0 .. PeriodicSize] /\ r.irqen \in SUBSET Interrupts /\ r.count \in Int
    BY <1>4 DEF HcTypes
  <2> QED
    BY <1>1, <1>4, <2>1 DEF Interrupts
<1>7. L \in [Slots -> Int]
  <2>1. h.load \in [Slots -> Int]
    BY DEF HcTypes
  <2> QED
    BY <1>2, <1>4, <2>1
<1>8. y.load = L
  <2> HIDE DEF B, N, Q, L
  <2> QED
    BY <1>5, <1>4 DEF FramesChanged, HcTypes
<1> HIDE DEF B, L, N, Q
<1>9. /\ y \in HcTypes /\ y.count = N /\ y.branch = B
      /\ y.periodic = r.periodic /\ y.next = r.next /\ y.nextp = r.nextp
  BY <1>4, <1>5, <1>6, <1>7, FramesChange
<1> QED
  BY <1>4, <1>8, <1>9 DEF B, L, N, r

(* ... and after it left them.                                             *)
LEMMA UnlinkedFields ==
    ASSUME DevOK, NEW h \in HcTypes, NEW e \in Ep,
           NEW due, due = DueSlots(Period(e), h.branch[e]),
           NEW y, y = DeschedulePeriodic(h, e, dev.ep)
    PROVE  /\ y \in HcTypes
           /\ UnlinkSlots(h, e, due) \in HcTypes
           /\ y.periodic = UnlinkSlots(h, e, due).periodic
           /\ y.next = UnlinkSlots(h, e, due).next
           /\ y.branch = [h.branch EXCEPT ![e] = PeriodicSize]
           /\ y.load = [i \in Slots |-> h.load[i] - (IF i \in due THEN dev.ep[e].load ELSE 0)]
           /\ y.count = h.count - 1
           /\ y.nextp = IF h.nextp = e THEN UnlinkSlots(h, e, due).next[e] ELSE h.nextp
<1> DEFINE r == UnlinkSlots(h, e, due)
           B == [r.branch EXCEPT ![e] = PeriodicSize]
           L == [i \in Slots |-> r.load[i] - (IF i \in due THEN dev.ep[e].load ELSE 0)]
           P == IF r.nextp = e THEN r.next[e] ELSE r.nextp
           N == r.count - 1
           Q == IF h.count = 1 THEN r.irqen \ {"SOFINTR"} ELSE r.irqen
<1>1. e \in Pointer \ {None} /\ PeriodicSize \in Nat
  BY Sl811ScheduleAssumption DEF Pointer
<1>2. dev.ep[e].load \in Nat
  BY DeviceFacts
<1>3. r \in Rewired(h, Pointer)
  <2>1. Pointers(Pointer) /\ Within(h, Pointer) /\ h.next \in [Ep -> Pointer]
    BY SelfRewired DEF HcTypes
  <2> QED
    BY <1>1, <2>1, UnlinkSlotsRewire
<1>4. /\ r \in HcTypes /\ r.branch = h.branch /\ r.load = h.load /\ r.count = h.count
      /\ r.nextp = h.nextp
  BY <1>3 DEF Rewired
<1>5. y = FramesLeft(r, B, L, N, P, Q)
  <2>1. y = [r EXCEPT !.branch[e] = PeriodicSize, !.load = L, !.count = N, !.nextp = P, !.irqen = Q]
    BY SMTT(60), <1>4 DEF DeschedulePeriodic, HcTypes, Period
  <2> HIDE DEF r, L, P, N, Q
  <2> QED
    BY SMTT(60), <2>1, <1>4 DEF HcTypes, B, FramesLeft
<1> HIDE DEF r
<1>6. B \in [Ep -> 0 .. PeriodicSize] /\ N \in Int /\ Q \in SUBSET Interrupts /\ P \in Pointer
  <2>1. /\ h.branch \in [Ep -> 0 .. PeriodicSize] /\ r.irqen \in SUBSET Interrupts /\ r.count \in Int
        /\ r.nextp \in Pointer /\ r.next \in [Ep -> Pointer]
    BY <1>4 DEF HcTypes
  <2> QED
    BY <1>1, <1>4, <2>1
<1>7. L \in [Slots -> Int]
  <2>1. h.load \in [Slots -> Int]
    BY DEF HcTypes
  <2> QED
    BY <1>2, <1>4, <2>1
<1>8. y.load = L
  <2> HIDE DEF B, N, Q, L, P
  <2> QED
    BY <1>5, <1>4 DEF FramesLeft, HcTypes
<1> HIDE DEF B, L, N, Q, P
<1>9. /\ y \in HcTypes /\ y.count = N /\ y.branch = B
      /\ y.periodic = r.periodic /\ y.next = r.next /\ y.nextp = P
  BY <1>4, <1>5, <1>6, <1>7, FramesLeave
<1> QED
  BY <1>4, <1>8, <1>9 DEF B, L, N, P, r

(* Two states with the same pointers have the same chains.                 *)
LEMMA SamePointers ==
    ASSUME NEW y, NEW r, y.periodic = r.periodic, y.next = r.next, NEW i, NEW c, Follows(r, i, c)
    PROVE  Follows(y, i, c)
BY DEF Follows

(* urb_enqueue keeps the tree when it schedules an endpoint on a branch    *)
(* that balance chose, ...                                                 *)
LEMMA LinkTree ==
    ASSUME DevOK, NEW h \in HcTypes, Tree(h), NEW e \in Ep, Type(e) = "interrupt",
           e \notin Frames(h), NEW b \in Branches(h, Period(e), dev.ep[e].load),
           NEW y, y = SchedulePeriodic(h, e, dev.ep, b)
    PROVE  Tree(y) /\ Frames(y) = Frames(h) \union {e}
<1> DEFINE due == DueSlots(Period(e), b)
           l == dev.ep[e].load
           C == [i \in Slots |-> Chain(h, i)]
           k == [i \in Slots |-> CHOOSE n \in 0 .. Len(C[i]) : Place(C[i], e, dev.ep, n)]
           H == At(C[b], k[b] + 1)
           r == LinkSlots(h, e, dev.ep, due)
<1>1. /\ Period(e) \in Nat /\ Period(e) \in 1 .. PeriodicSize /\ l \in Nat
      /\ PeriodicSize \in Nat /\ \A x \in Ep : dev.ep[x].period \in Nat
  BY PeriodFacts, DeviceFacts, Sl811ScheduleAssumption
<1>2. b \in 0 .. Period(e) - 1 /\ \A i \in due : h.load[i] + l <= MaxPeriodicLoad
  BY DEF Branches
<1>3. b \in 0 .. PeriodicSize - 1 /\ b \in Slots /\ b \in due
  <2>1. b \in 0 .. PeriodicSize - 1 /\ b - b = 0 /\ 0 % Period(e) = 0
    BY <1>1, <1>2
  <2> QED
    BY <2>1 DEF Slots, DueSlots
<1>4. due \subseteq Slots
  BY DEF DueSlots
<1>5. ASSUME NEW i \in Slots
      PROVE  /\ C[i] = Chain(h, i) /\ Follows(h, i, C[i])
             /\ C[i] \in Seq(Ep) /\ Distinct(C[i]) /\ Off(C[i], e)
             /\ Elements(C[i]) = Due(h, i) /\ SlowFirst(C[i])
             /\ h.load[i] = Reserved(C[i]) /\ h.load[i] <= MaxPeriodicLoad
  <2>1. C[i] = Chain(h, i) /\ Sound(h, i, C[i])
    BY DEF Tree
  <2>2. Off(C[i], e)
    <3> SUFFICES ASSUME NEW m \in DOMAIN C[i], C[i][m] = e PROVE FALSE
      BY DEF Off
    <3> QED
      BY <2>1 DEF Sound, Elements, Due
  <2> QED
    BY <2>1, <2>2 DEF Sound, Follows
<1> HIDE DEF C
<1>6. ASSUME NEW i \in Slots
      PROVE  k[i] \in 0 .. Len(C[i]) /\ Place(C[i], e, dev.ep, k[i])
  <2>1. \E n \in 0 .. Len(C[i]) : Place(C[i], e, dev.ep, n)
    BY <1>1, <1>5, PlaceExists
  <2> QED
    BY <2>1
<1> HIDE DEF k
<1>7. ASSUME NEW i \in due PROVE At(C[i], k[i] + 1) = H
  <2> DEFINE c == C[i]
             d == C[b]
             m == k[i]
             n == k[b]
  <2>1. /\ c = Chain(h, i) /\ Off(c, e) /\ m \in 0 .. Len(c) /\ Place(c, e, dev.ep, m)
        /\ d = Chain(h, b) /\ Off(d, e) /\ n \in 0 .. Len(d) /\ Place(d, e, dev.ep, n)
    BY <1>3, <1>4, <1>5, <1>6
  <2> HIDE DEF c, d, m, n
  <2>2. At(c, m + 1) = At(d, n + 1)
    BY <1>2, <1>3, <2>1, HereIsSame
  <2> QED
    BY <2>2 DEF c, d, m, n
<1>8. H \in Pointer /\ H # e
  <2>1. C[b] \in Seq(Ep) /\ Off(C[b], e)
    BY <1>3, <1>5
  <2>2. \A n \in DOMAIN C[b] : C[b][n] \in Ep /\ C[b][n] # e
    BY <2>1 DEF Off
  <2> QED
    BY <2>2, Sl811ScheduleAssumption DEF At, Pointer
<1> HIDE DEF H
<1>9. ASSUME NEW i \in due, NEW j \in Slots, k[i] # 0, OnList(C[j], C[i][k[i]])
      PROVE  j \in due
  <2> DEFINE x == C[i][k[i]]
  <2>1. i \in Slots /\ k[i] \in 0 .. Len(C[i]) /\ C[i] \in Seq(Ep)
    BY <1>4, <1>5, <1>6
  <2>2. k[i] \in DOMAIN C[i] /\ k[i] \in 1 .. k[i]
    BY <1>9, <2>1
  <2>3. x \in Due(h, i) /\ dev.ep[x].period >= dev.ep[e].period
    BY <1>5, <1>6, <2>1, <2>2 DEF Elements, Place
  <2>4. x \in Due(h, j)
    BY <1>5, <1>9 DEF OnList, Elements
  <2> HIDE DEF x
  <2> QED
    BY <1>2, <2>3, <2>4, DueNest DEF Tree, Period
<1>10. Shape(C, k, e, H, due)
  BY <1>4, <1>5, <1>6, <1>7, <1>8, <1>9 DEF Shape
<1>11. /\ \A i \in Slots \ due : Follows(r, i, C[i])
       /\ \A i \in due : Follows(r, i, Ins(C[i], k[i], e))
  <2>1. \A i \in due : Place(C[i], e, dev.ep, k[i])
    BY <1>4, <1>6
  <2>2. \A i \in Slots : Follows(h, i, C[i])
    BY <1>5
  <2> HIDE DEF due
  <2> QED
    BY <1>1, <1>10, <2>1, <2>2, LinkSlotsFollow
<1>12. /\ y \in HcTypes /\ y.periodic = r.periodic /\ y.next = r.next
       /\ y.branch = [h.branch EXCEPT ![e] = b]
       /\ y.load = [i \in Slots |-> h.load[i] + (IF i \in due THEN l ELSE 0)]
       /\ y.count = h.count + 1 /\ y.nextp = h.nextp
  BY <1>3, LinkedFields
<1> HIDE DEF r
<1>13. h.branch \in [Ep -> 0 .. PeriodicSize] /\ h.load \in [Slots -> Int] /\ h.count \in Int
  BY DEF HcTypes
<1>14. y.branch[e] = b /\ \A x \in Ep : x # e => y.branch[x] = h.branch[x]
  BY <1>12, <1>13
<1>15. Frames(y) = Frames(h) \union {e}
  BY <1>1, <1>3, <1>14 DEF Frames
<1>16. Placed(y)
  BY <1>2, <1>14, <1>15 DEF Placed, Tree, Frames
<1>17. y.count = Cardinality(Frames(y))
  <2>1. IsFiniteSet(Frames(h))
    BY FS_Subset, Sl811ScheduleAssumption DEF Frames
  <2>2. Cardinality(Frames(h) \union {e}) = Cardinality(Frames(h)) + 1
    BY <2>1, FS_AddElement
  <2> QED
    BY <1>12, <1>15, <2>2 DEF Tree
<1>18. y.nextp # None => y.nextp \in Frames(y)
  BY <1>12, <1>15 DEF Tree
<1>19. ASSUME NEW i \in Slots PROVE Sound(y, i, Chain(y, i))
  <2>1. CASE i \in due
    <3> DEFINE c == C[i]
               n == k[i]
               x == Ins(c, n, e)
    <3>1. /\ c \in Seq(Ep) /\ Distinct(c) /\ Off(c, e) /\ n \in 0 .. Len(c)
          /\ Elements(c) = Due(h, i) /\ SlowFirst(c) /\ Place(c, e, dev.ep, n)
          /\ h.load[i] = Reserved(c)
      BY <1>5, <1>6
    <3> HIDE DEF c, n
    <3>2. Elements(x) = Due(h, i) \union {e} /\ SlowFirst(x)
      BY <3>1, InsFacts, SlowFirstIns
    <3>3. Reserved(x) = h.load[i] + l
      BY <3>1, ReservedIns
    <3>4. Follows(y, i, x)
      <4>1. Follows(r, i, x)
        BY <1>11, <2>1 DEF c, n
      <4> QED
        BY <1>12, <4>1, SamePointers
    <3>5. Chain(y, i) = x
      BY <1>12, <3>4, ChainIs
    <3> HIDE DEF x
    <3>6. Due(y, i) = Due(h, i) \union {e}
      BY <1>14, <1>15, <2>1 DEF Due, Frames
    <3>7. y.load[i] = h.load[i] + l /\ y.load[i] <= MaxPeriodicLoad
      BY <1>2, <1>12, <2>1
    <3> QED
      BY <3>2, <3>3, <3>4, <3>5, <3>6, <3>7 DEF Sound
  <2>2. CASE i \notin due
    <3>1. Follows(y, i, C[i])
      <4>1. Follows(r, i, C[i])
        BY <1>11, <2>2
      <4> QED
        BY <1>12, <4>1, SamePointers
    <3>2. Chain(y, i) = C[i]
      BY <1>12, <3>1, ChainIs
    <3>3. Due(y, i) = Due(h, i)
      <4>1. e \notin Due(y, i)
        BY <1>14, <2>2 DEF Due
      <4>2. e \notin Due(h, i)
        BY DEF Due
      <4> QED
        BY <1>14, <1>15, <4>1, <4>2 DEF Due, Frames
    <3>4. y.load[i] = h.load[i]
      BY <1>12, <1>13, <2>2
    <3> QED
      BY <1>5, <3>1, <3>2, <3>3, <3>4 DEF Sound
  <2> QED
    BY <2>1, <2>2
<1> QED
  BY <1>15, <1>16, <1>17, <1>18, <1>19 DEF Tree

(* A list without one of its elements, which came at that place.           *)
LEMMA WithoutIs ==
    ASSUME NEW c \in Seq(Ep), Distinct(c), NEW e \in Ep, e \in Elements(c),
           NEW d, d = Without(c, e)
    PROVE  /\ d \in Seq(Ep) /\ Distinct(d) /\ Off(d, e) /\ Elements(d) = Elements(c) \ {e}
           /\ \E k \in 0 .. Len(d) : /\ c = Ins(d, k, e)
                                     /\ At(c, k + 2) = At(d, k + 1)
                                     /\ c[k + 1] = e /\ k + 1 \in DOMAIN c
<1> DEFINE L == Len(c)
<1>1. OnList(c, e)
  BY DEF OnList, Elements
<1>2. PICK n \in 1 .. L : /\ c[n] = e
                          /\ d = [k \in 1 .. L - 1 |-> IF k < n THEN c[k] ELSE c[k + 1]]
  BY <1>1, WithoutPosition
<1>3. L \in Nat /\ DOMAIN c = 1 .. L /\ n \in 1 .. L /\ \A m \in 1 .. L : c[m] \in Ep
  OBVIOUS
<1>4. c = [m \in 1 .. L |-> c[m]]
  OBVIOUS
<1>d. \A i, j \in 1 .. L : c[i] = c[j] => i = j
  BY <1>3 DEF Distinct
<1> HIDE DEF L
<1>5. /\ \A k \in 1 .. L - 1 : d[k] = IF k < n THEN c[k] ELSE c[k + 1]
      /\ DOMAIN d = 1 .. L - 1
  BY <1>2
<1> DEFINE Of(m) == IF m < n THEN m ELSE m + 1
<1>6. \A m \in 1 .. L - 1 : Of(m) \in 1 .. L /\ Of(m) # n /\ d[m] = c[Of(m)]
  BY <1>3, <1>5
<1>7. \A m \in 1 .. L - 1 : d[m] \in Ep
  <2> HIDE DEF Of
  <2> QED
    BY <1>3, <1>6
<1>8. d \in Seq(Ep) /\ Len(d) = L - 1
  BY <1>2, <1>3, <1>7
<1>9. Distinct(d)
  <2> SUFFICES ASSUME NEW i \in 1 .. L - 1, NEW j \in 1 .. L - 1, d[i] = d[j] PROVE i = j
    BY <1>5 DEF Distinct
  <2>1. Of(i) = Of(j)
    <3> HIDE DEF Of
    <3> QED
      BY <1>d, <1>6
  <2> QED
    BY <1>3, <2>1
<1>10. Off(d, e)
  <2> SUFFICES ASSUME NEW m \in 1 .. L - 1, d[m] = e PROVE FALSE
    BY <1>5 DEF Off
  <2> HIDE DEF Of
  <2> QED
    BY <1>2, <1>d, <1>6
<1> DEFINE k == n - 1
<1>11. k \in 0 .. Len(d) /\ k + 1 = n
  BY <1>3, <1>8
<1> DEFINE x == Ins(d, k, e)
<1>12. c = x
  <2>1. x = [m \in 1 .. L |-> IF m <= k THEN d[m] ELSE IF m = k + 1 THEN e ELSE d[m - 1]]
    <3>1. Len(d) + 1 = L
      BY <1>3, <1>8
    <3> QED
      BY <3>1 DEF Ins
  <2>2. ASSUME NEW m \in 1 .. L
        PROVE  c[m] = IF m <= k THEN d[m] ELSE IF m = k + 1 THEN e ELSE d[m - 1]
    <3>1. CASE m < n
      <4>1. m \in 1 .. L - 1 /\ m <= k
        BY <1>3, <3>1
      <4> QED
        BY <1>5, <3>1, <4>1
    <3>2. CASE m = n
      <4>1. ~(m <= k) /\ m = k + 1
        BY <1>3, <3>2
      <4> QED
        BY <1>2, <3>2, <4>1
    <3>3. CASE m > n
      <4>1. m - 1 \in 1 .. L - 1 /\ ~(m - 1 < n) /\ (m - 1) + 1 = m /\ ~(m <= k) /\ m # k + 1
        BY <1>3, <3>3
      <4> QED
        BY <1>5, <4>1
    <3> QED
      BY <1>3, <3>1, <3>2, <3>3
  <2> HIDE DEF x, k
  <2> QED
    BY <1>4, <2>1, <2>2
<1>13. At(c, k + 2) = At(d, k + 1)
  <2>1. k + 1 = n /\ k + 2 = n + 1
    BY <1>3
  <2>2. CASE n = L
    <3>1. n + 1 \notin DOMAIN c /\ n \notin DOMAIN d
      BY <1>3, <1>5, <2>2
    <3> QED
      BY <2>1, <3>1 DEF At
  <2>3. CASE n # L
    <3>1. n + 1 \in DOMAIN c /\ n \in DOMAIN d /\ n \in 1 .. L - 1
      BY <1>3, <1>5, <2>3
    <3>2. d[n] = c[n + 1]
      BY <1>3, <1>5, <3>1
    <3> QED
      BY <2>1, <3>1, <3>2 DEF At
  <2> QED
    BY <2>2, <2>3
<1>14. Elements(c) = Elements(d) \union {e}
  BY <1>8, <1>9, <1>10, <1>11, <1>12, InsFacts
<1>15. e \notin Elements(d)
  BY <1>10 DEF Off, Elements
<1> HIDE DEF k, x
<1>16. c[k + 1] = e /\ k + 1 \in DOMAIN c
  BY <1>2, <1>3, <1>11
<1> QED
  BY <1>8, <1>9, <1>10, <1>11, <1>12, <1>13, <1>14, <1>15, <1>16 DEF x

(* ... and finish_request keeps it when it takes an endpoint out.          *)
LEMMA UnlinkTree ==
    ASSUME DevOK, NEW h \in HcTypes, Tree(h), NEW e \in Frames(h),
           NEW y, y = DeschedulePeriodic(h, e, dev.ep)
    PROVE  Tree(y) /\ Frames(y) = Frames(h) \ {e}
<1> DEFINE b == h.branch[e]
           due == DueSlots(Period(e), b)
           l == dev.ep[e].load
           C == [i \in Slots |-> IF i \in due THEN Without(Chain(h, i), e) ELSE Chain(h, i)]
           k == [i \in Slots |-> CHOOSE n \in 0 .. Len(C[i]) : Chain(h, i) = Ins(C[i], n, e)]
           H == h.next[e]
           r == UnlinkSlots(h, e, due)
<1>1. /\ e \in Ep /\ Type(e) = "interrupt" /\ b \in 0 .. Period(e) - 1 /\ b < PeriodicSize
  BY DEF Tree, Placed, Frames
<1>2. /\ Period(e) \in Nat /\ Period(e) \in 1 .. PeriodicSize /\ l \in Nat
      /\ PeriodicSize \in Nat
  BY <1>1, PeriodFacts, DeviceFacts, Sl811ScheduleAssumption
<1>3. b \in 0 .. PeriodicSize - 1 /\ b \in Slots /\ b \in due
  <2>1. b \in 0 .. PeriodicSize - 1 /\ b - b = 0 /\ 0 % Period(e) = 0
    BY <1>1, <1>2
  <2> QED
    BY <2>1 DEF Slots, DueSlots
<1>4. due \subseteq Slots
  BY DEF DueSlots
<1>5. ASSUME NEW i \in Slots PROVE Sound(h, i, Chain(h, i)) /\ (e \in Due(h, i) <=> i \in due)
  BY DEF Tree, Due
<1>6. ASSUME NEW i \in due
      PROVE  /\ C[i] \in Seq(Ep) /\ Distinct(C[i]) /\ Off(C[i], e)
             /\ Elements(C[i]) = Due(h, i) \ {e}
             /\ k[i] \in 0 .. Len(C[i]) /\ Chain(h, i) = Ins(C[i], k[i], e)
             /\ At(C[i], k[i] + 1) = H
  <2> DEFINE c == Chain(h, i)
             d == C[i]
  <2>1. /\ c \in Seq(Ep) /\ Distinct(c) /\ e \in Elements(c) /\ Elements(c) = Due(h, i)
        /\ d = Without(c, e) /\ Follows(h, i, c)
    BY <1>4, <1>5 DEF Sound, Follows
  <2> HIDE DEF c, d
  <2>2. /\ d \in Seq(Ep) /\ Distinct(d) /\ Off(d, e) /\ Elements(d) = Due(h, i) \ {e}
        /\ \E n \in 0 .. Len(d) : c = Ins(d, n, e)
    BY <1>1, <2>1, WithoutIs
  <2>3. k[i] \in 0 .. Len(d) /\ c = Ins(d, k[i], e)
    <3>1. k[i] = CHOOSE n \in 0 .. Len(d) : c = Ins(d, n, e)
      BY <1>4 DEF c, d
    <3> HIDE DEF k
    <3> QED
      BY <2>2, <3>1
  <2> HIDE DEF k
  <2>4. At(d, k[i] + 1) = H
    BY <1>1, <2>1, <2>2, <2>3, FollowsIns
  <2> QED
    BY <2>2, <2>3, <2>4 DEF c, d
<1>7. ASSUME NEW i \in Slots, i \notin due
      PROVE  /\ C[i] = Chain(h, i) /\ Follows(h, i, C[i])
             /\ C[i] \in Seq(Ep) /\ Distinct(C[i]) /\ Off(C[i], e)
  <2>1. C[i] = Chain(h, i) /\ Follows(h, i, C[i]) /\ e \notin Elements(C[i])
    BY <1>5, <1>7 DEF Sound
  <2> HIDE DEF C
  <2> QED
    BY <2>1 DEF Follows, Off, Elements
<1> HIDE DEF C, k
<1>8. H \in Pointer /\ H # e
  <2>1. C[b] \in Seq(Ep) /\ Off(C[b], e) /\ At(C[b], k[b] + 1) = H
    BY <1>3, <1>6
  <2>2. \A n \in DOMAIN C[b] : C[b][n] \in Ep /\ C[b][n] # e
    BY <2>1 DEF Off
  <2> QED
    BY <1>1, <2>1, <2>2, Sl811ScheduleAssumption DEF At, Pointer
<1>H. H # None => H \in Frames(h)
  <2>1. C[b] \in Seq(Ep) /\ At(C[b], k[b] + 1) = H /\ Elements(C[b]) = Due(h, b) \ {e}
    BY <1>3, <1>6
  <2>2. H # None => H \in Elements(C[b])
    BY <2>1 DEF At, Elements
  <2> QED
    BY <2>1, <2>2 DEF Due
<1>9. ASSUME NEW i \in due, NEW j \in Slots, k[i] # 0, OnList(C[j], C[i][k[i]])
      PROVE  j \in due
  <2> DEFINE c == C[i]
             n == k[i]
             p == c[n]
             x == Ins(c, n, e)
  <2>1. /\ c \in Seq(Ep) /\ Distinct(c) /\ Off(c, e) /\ n \in 0 .. Len(c) /\ n # 0
        /\ SlowFirst(x) /\ Elements(c) = Due(h, i) \ {e}
    BY <1>4, <1>5, <1>6, <1>9 DEF Sound
  <2> HIDE DEF c, n
  <2>2. n \in DOMAIN c /\ n \in 1 .. n /\ n \in Nat
    BY <2>1
  <2>3. /\ DOMAIN x = 1 .. Len(c) + 1 /\ x[n + 1] = e /\ x[n] = p
    BY <1>1, <2>1, <2>2, InsFacts
  <2>4. Period(p) >= Period(e)
    <3>1. n \in DOMAIN x /\ n + 1 \in DOMAIN x /\ n < n + 1
      BY <2>1, <2>2, <2>3
    <3> HIDE DEF x, p
    <3> QED
      BY <2>1, <2>3, <3>1 DEF SlowFirst
  <2>5. p \in Due(h, i)
    BY <2>1, <2>2 DEF Elements
  <2>6. p \in Due(h, j)
    <3>1. p \in Elements(C[j])
      BY <1>9 DEF OnList, Elements, c, n
    <3>2. Elements(C[j]) \subseteq Due(h, j)
      <4>1. CASE j \in due
        BY <1>6, <4>1
      <4>2. CASE j \notin due
        BY <1>5, <1>7, <4>2 DEF Sound
      <4> QED
        BY <4>1, <4>2
    <3> QED
      BY <3>1, <3>2
  <2> HIDE DEF p
  <2> QED
    BY <1>1, <2>4, <2>5, <2>6, DueNest DEF Tree
<1>10. Shape(C, k, e, H, due)
  BY <1>1, <1>4, <1>6, <1>7, <1>8, <1>9 DEF Shape
<1>11. (\A i \in Slots : Follows(r, i, C[i])) /\ r.next[e] = H
  <2>1. \A i \in Slots \ due : Follows(h, i, C[i])
    BY <1>7
  <2>2. \A i \in due : Follows(h, i, Ins(C[i], k[i], e))
    BY <1>4, <1>5, <1>6 DEF Sound
  <2> HIDE DEF due, H
  <2> QED
    BY <1>3, <1>10, <2>1, <2>2, UnlinkSlotsFollow
<1>12. /\ y \in HcTypes /\ y.periodic = r.periodic /\ y.next = r.next
       /\ y.branch = [h.branch EXCEPT ![e] = PeriodicSize]
       /\ y.load = [i \in Slots |-> h.load[i] - (IF i \in due THEN l ELSE 0)]
       /\ y.count = h.count - 1
       /\ y.nextp = IF h.nextp = e THEN r.next[e] ELSE h.nextp
  BY <1>1, UnlinkedFields
<1> HIDE DEF r, H
<1>13. h.branch \in [Ep -> 0 .. PeriodicSize] /\ h.load \in [Slots -> Int] /\ h.count \in Int
  BY DEF HcTypes
<1>14. y.branch[e] = PeriodicSize /\ \A x \in Ep : x # e => y.branch[x] = h.branch[x]
  BY <1>1, <1>12, <1>13
<1>15. Frames(y) = Frames(h) \ {e}
  BY <1>1, <1>2, <1>14 DEF Frames
<1>16. Placed(y)
  BY <1>14, <1>15 DEF Placed, Tree, Frames
<1>17. y.count = Cardinality(Frames(y))
  <2>1. IsFiniteSet(Frames(h))
    BY FS_Subset, Sl811ScheduleAssumption DEF Frames
  <2>2. Cardinality(Frames(h) \ {e}) = Cardinality(Frames(h)) - 1
    BY <2>1, FS_RemoveElement
  <2> QED
    BY <1>12, <1>15, <2>2 DEF Tree
<1>18. y.nextp # None => y.nextp \in Frames(y)
  BY <1>8, <1>H, <1>11, <1>12, <1>15 DEF Tree
<1>20. \A i \in Slots : Due(y, i) = Due(h, i) \ {e}
  BY <1>14, <1>15 DEF Due, Frames
<1>19. ASSUME NEW i \in Slots PROVE Sound(y, i, Chain(y, i))
  <2>f. Follows(y, i, C[i])
    <3>1. Follows(r, i, C[i])
      BY <1>11
    <3> QED
      BY <1>12, <3>1, SamePointers
  <2>c. Chain(y, i) = C[i]
    BY <1>12, <2>f, ChainIs
  <2>h. Sound(h, i, Chain(h, i))
    BY <1>5
  <2>1. CASE i \in due
    <3> DEFINE c == C[i]
               n == k[i]
               x == Ins(c, n, e)
    <3>1. /\ c \in Seq(Ep) /\ Distinct(c) /\ Off(c, e) /\ n \in 0 .. Len(c)
          /\ Elements(c) = Due(h, i) \ {e} /\ Chain(h, i) = x
      BY <1>6, <2>1
    <3> HIDE DEF c, n
    <3>2. SlowFirst(c)
      BY <1>1, <2>h, <3>1, SlowFirstOut DEF Sound
    <3>3. Reserved(c) \in Int /\ Reserved(x) = Reserved(c) + l
      BY <1>1, <3>1, ReservedIns
    <3> HIDE DEF x
    <3>4. Reserved(c) = h.load[i] - l /\ h.load[i] - l <= MaxPeriodicLoad
      BY SMTT(30), <1>2, <1>13, <2>h, <3>1, <3>3, Sl811ScheduleAssumption DEF Sound
    <3>5. y.load[i] = h.load[i] - l
      BY <1>12, <2>1
    <3>6. y.load[i] = Reserved(c) /\ y.load[i] <= MaxPeriodicLoad
      BY <3>4, <3>5
    <3> QED
      BY <1>20, <2>f, <2>c, <3>1, <3>2, <3>6 DEF Sound, c
  <2>2. CASE i \notin due
    <3>1. C[i] = Chain(h, i)
      BY <1>7, <2>2
    <3>2. y.load[i] = h.load[i]
      BY <1>12, <1>13, <2>2
    <3>3. Due(y, i) = Due(h, i)
      BY <1>5, <1>20, <2>2
    <3> QED
      BY <2>f, <2>c, <2>h, <3>1, <3>2, <3>3 DEF Sound
  <2> QED
    BY <2>1, <2>2
<1> QED
  BY <1>15, <1>16, <1>17, <1>18, <1>19 DEF Tree

(* What the tree depends on is the same.                                   *)
SameTree(g, h) ==
    /\ g.periodic = h.periodic /\ g.next = h.next /\ g.branch = h.branch
    /\ g.load = h.load /\ g.count = h.count

(* A tree whose endpoints' pointers are the same, but for endpoints that   *)
(* are in no frame.                                                        *)
LEMMA TreeStays ==
    ASSUME NEW h, Tree(h), NEW g \in HcTypes, g.periodic = h.periodic,
           g.load = h.load, g.count = h.count, Frames(g) = Frames(h),
           \A e \in Frames(h) : g.next[e] = h.next[e] /\ g.branch[e] = h.branch[e],
           g.nextp # None => g.nextp \in Frames(h)
    PROVE  Tree(g)
<1>1. Placed(g)
  BY DEF Tree, Placed
<1>2. ASSUME NEW i \in Slots PROVE Sound(g, i, Chain(g, i))
  <2> DEFINE c == Chain(h, i)
  <2>1. Sound(h, i, c)
    BY DEF Tree
  <2> HIDE DEF c
  <2>2. /\ c \in Seq(Ep) /\ Distinct(c) /\ h.periodic[i] = At(c, 1)
        /\ \A n \in DOMAIN c : h.next[c[n]] = At(c, n + 1)
        /\ Elements(c) = Due(h, i)
    BY <2>1 DEF Sound, Follows
  <2>3. \A n \in DOMAIN c : c[n] \in Frames(h)
    BY <2>2 DEF Elements, Due
  <2>4. Follows(g, i, c)
    BY <2>2, <2>3 DEF Follows
  <2>5. Chain(g, i) = c
    BY <2>4, ChainIs
  <2>6. Due(g, i) = Due(h, i)
    BY DEF Due
  <2> QED
    BY <2>1, <2>4, <2>5, <2>6 DEF Sound
<1> QED
  BY <1>1, <1>2 DEF Tree

(* The frames are those of the branches.                                   *)
LEMMA SameFrames == ASSUME NEW h, NEW g, g.branch = h.branch PROVE Frames(g) = Frames(h)
BY DEF Frames

(* ... or are all the same.                                                *)
LEMMA TreeSame ==
    ASSUME NEW h, Tree(h), NEW g \in HcTypes, SameTree(g, h),
           g.nextp = h.nextp \/ g.nextp \in Frames(h) \union {None}
    PROVE  Tree(g) /\ Frames(g) = Frames(h)
<1>1. Frames(g) = Frames(h)
  BY SameFrames DEF SameTree
<1>2. g.nextp # None => g.nextp \in Frames(h)
  BY DEF Tree
<1> QED
  BY <1>1, <1>2, TreeStays DEF SameTree

(* An endpoint's pointer leads to one that is in the frames as well, ...   *)
LEMMA NextInFrames ==
    ASSUME DevOK, NEW h, Tree(h), NEW e \in Frames(h), h.next[e] # None
    PROVE  h.next[e] \in Frames(h)
<1> DEFINE b == h.branch[e]
           c == Chain(h, b)
<1>1. e \in Ep /\ Type(e) = "interrupt" /\ b \in 0 .. Period(e) - 1 /\ b < PeriodicSize
  BY DEF Tree, Placed, Frames
<1>2. Period(e) \in Nat /\ Period(e) \in 1 .. PeriodicSize /\ PeriodicSize \in Nat
  BY <1>1, PeriodFacts, Sl811ScheduleAssumption
<1>3. b \in Slots /\ b \in DueSlots(Period(e), b)
  <2>1. b \in 0 .. PeriodicSize - 1 /\ b - b = 0 /\ 0 % Period(e) = 0
    BY <1>1, <1>2
  <2> QED
    BY <2>1 DEF Slots, DueSlots
<1>4. Sound(h, b, c) /\ e \in Due(h, b)
  BY <1>3 DEF Tree, Due
<1> HIDE DEF b, c
<1>5. PICK n \in DOMAIN c : c[n] = e
  BY <1>4 DEF Sound, Elements
<1>6. h.next[e] = At(c, n + 1) /\ Elements(c) = Due(h, b)
  BY <1>4, <1>5 DEF Sound, Follows
<1>7. n + 1 \in DOMAIN c /\ h.next[e] = c[n + 1]
  BY <1>6 DEF At
<1>8. h.next[e] \in Due(h, b)
  BY <1>6, <1>7 DEF Elements
<1> QED
  BY <1>8 DEF Due

(* ... and a frame's to one of them.                                       *)
LEMMA FirstInFrames ==
    ASSUME NEW h, Tree(h), NEW i \in Slots, h.periodic[i] # None
    PROVE  h.periodic[i] \in Frames(h)
<1> DEFINE c == Chain(h, i)
<1>1. Sound(h, i, c)
  BY DEF Tree
<1> HIDE DEF c
<1>2. h.periodic[i] = At(c, 1) /\ Elements(c) = Due(h, i)
  BY <1>1 DEF Sound, Follows
<1>3. 1 \in DOMAIN c /\ h.periodic[i] = c[1]
  BY <1>2 DEF At
<1>4. h.periodic[i] \in Due(h, i)
  BY <1>2, <1>3 DEF Elements
<1> QED
  BY <1>4 DEF Due

(* The tree is what the property says of it.                               *)
LEMMA TreeIsSound ==
    ASSUME hc \in HcTypes, MadeInv(hc), Tree(hc)
    PROVE  PeriodicTreeSound
<1>1. ASSUME NEW i \in Slots, NEW c, c = Chain(hc, i), NEW due,
             due = {e \in Ep : /\ hc.branch[e] < PeriodicSize
                               /\ i \in DueSlots(dev.ep[e].period, hc.branch[e])}
      PROVE  /\ Elements(c) = due /\ Len(c) = Cardinality(due)
             /\ \A m, n \in DOMAIN c : m < n => dev.ep[c[m]].period >= dev.ep[c[n]].period
             /\ hc.load[i] = Reserved(c) /\ hc.load[i] <= MaxPeriodicLoad
  <2>1. Sound(hc, i, c)
    BY <1>1 DEF Tree
  <2>2. due = Due(hc, i)
    BY <1>1 DEF Due, Frames, Period
  <2>3. c \in Seq(Ep) /\ Distinct(c) /\ Elements(c) = due
    BY <2>1, <2>2 DEF Sound, Follows
  <2>4. Len(c) = Cardinality(due)
    <3> DEFINE L == Len(c)
    <3>1. L \in Nat /\ DOMAIN c = 1 .. L /\ c \in [1 .. L -> Elements(c)]
      BY <2>3 DEF Elements
    <3>2. c \in Bijection(1 .. L, Elements(c))
      BY <2>3, <3>1 DEF Bijection, Injection, Surjection, IsInjective, Distinct, Elements
    <3>3. IsFiniteSet(1 .. L) /\ Cardinality(1 .. L) = L
      BY <3>1, FS_Interval
    <3>4. Cardinality(Elements(c)) = L
      <4>1. ExistsBijection(1 .. L, Elements(c))
        BY <3>2 DEF ExistsBijection
      <4> QED
        BY <3>3, <4>1, FS_Bijection
    <3> QED
      BY <2>3, <3>4
  <2>5. \A m, n \in DOMAIN c : m < n => dev.ep[c[m]].period >= dev.ep[c[n]].period
    BY <2>1 DEF Sound, SlowFirst, Period
  <2> QED
    BY <2>1, <2>3, <2>4, <2>5 DEF Sound
<1>2. hc.count = Cardinality({e \in Ep : hc.branch[e] < PeriodicSize})
  BY DEF Tree, Frames
<1>3. hc.nextp # None => hc.branch[hc.nextp] < PeriodicSize
  BY DEF Tree, Frames
<1>4. hc.nexta # None => InAsync(hc, hc.nexta)
  BY DEF MadeInv, InAsync
<1> QED
  BY <1>1, <1>2, <1>3, <1>4 DEF PeriodicTreeSound

(* Nothing of the tree changes.                                            *)
Still(g, h) == SameTree(g, h) /\ g.nextp = h.nextp

LEMMA StillTree ==
    ASSUME NEW h, Tree(h), NEW g \in HcTypes, Still(g, h)
    PROVE  Tree(g) /\ Frames(g) = Frames(h)
BY TreeSame DEF Still

(* urb_enqueue's making of an endpoint keeps the tree, ...                 *)
LEMMA AllocateTree ==
    ASSUME DevOK, NEW w, Sane(w), AllocInv(w.hc), Tree(w.hc), NEW u \in Urbs,
           NEW y, y = Allocate(w, u)
    PROVE  Tree(y.hc) /\ Frames(y.hc) = Frames(w.hc)
<1> DEFINE e == EpOf(u)
           h == w.hc
<1>1. w \in Worlds /\ h \in HcTypes /\ e \in Ep /\ PeriodicSize \in Nat
  BY UrbEp, Sl811ScheduleAssumption DEF Sane, Worlds
<1>2. /\ y \in Worlds /\ y.hc.periodic = h.periodic /\ y.hc.count = h.count
      /\ y.hc.nextp = h.nextp
      /\ ~h.alloc[e] => /\ y.hc.branch = [h.branch EXCEPT ![e] = PeriodicSize]
                        /\ y.hc.next = [h.next EXCEPT ![e] = None]
      /\ h.alloc[e] => y = w
  <2>1. CASE h.alloc[e]
    BY <1>1, <2>1 DEF Allocate
  <2>2. CASE ~h.alloc[e]
    <3>1. /\ y \in Worlds /\ SameBut(y, w) /\ SamePort(y.hc, h)
          /\ y.hc.irqen = h.irqen /\ y.hc.count = h.count
          /\ y.hc.active = h.active /\ y.hc.late = h.late /\ y.hc.async = h.async
          /\ y.hc.nexta = h.nexta /\ y.hc.nextp = h.nextp /\ y.hc.periodic = h.periodic
          /\ y.hc.alloc = [h.alloc EXCEPT ![e] = TRUE]
          /\ y.hc.pid = [h.pid EXCEPT ![e] = FirstPid(u)]
          /\ y.hc.branch = [h.branch EXCEPT ![e] = PeriodicSize]
          /\ y.hc.next = [h.next EXCEPT ![e] = None]
      BY <1>1, <2>2, AllocateFacts DEF SameBut
    <3> QED
      BY <2>2, <3>1
  <2> QED
    BY <2>1, <2>2
<1>3. y.hc \in HcTypes
  BY <1>2 DEF Worlds
<1>4. y.hc.load = h.load
  BY <1>1 DEF Allocate, Worlds, HcTypes
<1>5. CASE h.alloc[e]
  BY <1>2, <1>3, <1>4, <1>5, TreeSame DEF SameTree
<1>6. CASE ~h.alloc[e]
  <2>1. e \notin Frames(h)
    BY <1>1, <1>6 DEF AllocInv, Sched, Scheduled, Frames
  <2>2. h.branch \in [Ep -> 0 .. PeriodicSize] /\ h.next \in [Ep -> Pointer]
    BY <1>1 DEF HcTypes
  <2>3. /\ y.hc.branch[e] = PeriodicSize
        /\ \A x \in Ep : x # e => y.hc.branch[x] = h.branch[x] /\ y.hc.next[x] = h.next[x]
    BY <1>1, <1>2, <1>6, <2>2
  <2>4. Frames(y.hc) = Frames(h)
    BY <1>1, <2>1, <2>3 DEF Frames
  <2>5. \A x \in Frames(h) : y.hc.next[x] = h.next[x] /\ y.hc.branch[x] = h.branch[x]
    BY <2>1, <2>3 DEF Frames
  <2>6. y.hc.nextp # None => y.hc.nextp \in Frames(h)
    BY <1>2 DEF Tree
  <2> QED
    BY <1>2, <1>3, <1>4, <2>4, <2>5, <2>6, TreeStays
<1> QED
  BY <1>5, <1>6

(* ... so does its scheduling, ...                                         *)
LEMMA ScheduleTree ==
    ASSUME DevOK, NEW w, Sane(w), Tree(w.hc), NEW e \in Made(w.hc),
           NEW y \in Schedule(w, e)
    PROVE  Tree(y.hc) /\ Frames(y.hc) = Frames(w.hc) \union {x \in {e} : Type(x) = "interrupt"}
<1> DEFINE h == w.hc
<1>1. w \in Worlds /\ h \in HcTypes /\ e \in Ep /\ ListsInv(h)
  BY DEF Sane, Worlds, Made
<1>2. Sane(y)
  BY ScheduleFacts
<1>3. y.hc \in HcTypes
  BY <1>2 DEF Sane, Worlds
<1>4. CASE Type(e) # "interrupt"
  <2>1. y = [w EXCEPT !.hc = ScheduleAsync(h, e)]
    BY <1>4 DEF Schedule
  <2>2. y.hc = ScheduleAsync(h, e)
    BY <1>1, <2>1 DEF Worlds
  <2>3. Still(y.hc, h)
    BY <1>1, <2>2 DEF ScheduleAsync, Still, SameTree, HcTypes
  <2>4. {x \in {e} : Type(x) = "interrupt"} = {}
    BY <1>4
  <2> QED
    BY <1>3, <2>3, <2>4, StillTree
<1>5. CASE Type(e) = "interrupt" /\ h.branch[e] < PeriodicSize
  <2>1. y = w
    BY <1>5 DEF Schedule
  <2>2. e \in Frames(h)
    BY <1>1, <1>5 DEF Frames
  <2> QED
    BY <2>1, <2>2
<1>6. CASE Type(e) = "interrupt" /\ ~(h.branch[e] < PeriodicSize)
  <2>1. PICK b \in Branches(h, dev.ep[e].period, dev.ep[e].load) :
            y = [w EXCEPT !.hc = SchedulePeriodic(h, e, dev.ep, b)]
    BY <1>6 DEF Schedule
  <2>2. y.hc = SchedulePeriodic(h, e, dev.ep, b)
    BY <1>1, <2>1 DEF Worlds
  <2>3. e \notin Frames(h)
    BY <1>6 DEF Frames
  <2>4. b \in Branches(h, Period(e), dev.ep[e].load)
    BY <2>1 DEF Period
  <2>5. Tree(y.hc) /\ Frames(y.hc) = Frames(h) \union {e}
    BY <1>1, <1>6, <2>2, <2>3, <2>4, LinkTree
  <2> QED
    BY <1>6, <2>5
<1> QED
  BY <1>4, <1>5, <1>6

(* ... taken together: the URB's endpoint joins the frames, ...            *)
LEMMA AcceptTree ==
    ASSUME DevOK, NEW w, Sane(w), NEW open, NEW except, KeptInv(w, open, except),
           Tree(w.hc), NEW u \in Urbs, NEW y \in Accept(w, u)
    PROVE  /\ Tree(y.hc)
           /\ Frames(y.hc) = Frames(w.hc) \union {x \in {EpOf(u)} : Type(x) = "interrupt"}
           /\ Sane(y) /\ SameBut(y, w) /\ y.hc.active = w.hc.active
<1> DEFINE a == Allocate(w, u)
           e == EpOf(u)
<1>0. a = Allocate(w, u)
  OBVIOUS
<1>1. y \in Schedule(a, e)
  BY DEF Accept
<1> HIDE DEF a
<1>2. AllocInv(w.hc)
  BY DEF KeptInv
<1>3. Tree(a.hc) /\ Frames(a.hc) = Frames(w.hc)
  BY <1>0, <1>2, AllocateTree
<1>4. Sane(a) /\ SameBut(a, w) /\ a.hc.active = w.hc.active /\ e \in Made(a.hc)
  BY <1>0, AllocateKeeps
<1>5. Tree(y.hc) /\ Frames(y.hc) = Frames(a.hc) \union {x \in {e} : Type(x) = "interrupt"}
  BY <1>1, <1>3, <1>4, ScheduleTree
<1>6. Sane(y) /\ SameBut(y, a) /\ y.hc.active = a.hc.active
  BY <1>1, <1>4, ScheduleFacts
<1> QED
  BY <1>3, <1>4, <1>5, <1>6 DEF SameBut

(* ... or nothing does.                                                    *)
LEMMA RejectTree ==
    ASSUME DevOK, NEW w, Sane(w), NEW open, NEW except, KeptInv(w, open, except), Tree(w.hc),
           NEW u \in Urbs, NEW y, y = Reject(w, u)
    PROVE  Tree(y.hc) /\ Frames(y.hc) = Frames(w.hc)
<1> DEFINE a == IF Alive(w) THEN Allocate(w, u) ELSE w
<1>1. a = w \/ a = Allocate(w, u)
  OBVIOUS
<1>2. y = Refuse(a, u)
  BY DEF Reject
<1> HIDE DEF a
<1>3. Tree(a.hc) /\ Frames(a.hc) = Frames(w.hc)
  BY <1>1, AllocateTree DEF KeptInv
<1>4. Sane(a)
  BY <1>1, AllocateKeeps
<1>5. y.hc = a.hc
  BY <1>2, <1>4, RefuseFacts
<1> QED
  BY <1>3, <1>5

(* start leaves the schedules alone, ...                                   *)
LEMMA StartOnStill ==
    ASSUME NEW w, Sane(w), NEW e, NEW y \in StartOn(w, e)
    PROVE  Still(y.hc, w.hc) /\ (y.hc.active = w.hc.active \/ y.hc.active = e)
<1>1. w \in Worlds /\ w.hc \in HcTypes
  BY DEF Sane, Worlds
<1>2. CASE y = w
  BY <1>2 DEF Still, SameTree
<1>3. CASE y = Issue(w, e, Head(w.core.q[e]))
  <2> DEFINE g == [w.hc EXCEPT !.active = e, !.late = FALSE]
             k == [w.chip EXCEPT !.armed = TRUE,
                                 !.tok = [pid |-> w.hc.pid[e], urb |-> Head(w.core.q[e]),
                                          room |-> Room(w, e, Head(w.core.q[e]))]]
  <2>1. y = [w EXCEPT !.hc = g, !.chip = k]
    BY <1>3 DEF Issue
  <2>2. Still(g, w.hc) /\ g.active = e
    BY <1>1 DEF HcTypes, Still, SameTree
  <2> HIDE DEF g, k
  <2>3. y.hc = g
    BY <1>1, <2>1 DEF Worlds
  <2> QED
    BY <2>2, <2>3
<1>4. CASE y = [w EXCEPT !.hc.irqen = @ \union {"SOFINTR"}]
  <2> DEFINE Q == w.hc.irqen \union {"SOFINTR"}
             g == [w.hc EXCEPT !.irqen = Q]
  <2>1. y = [w EXCEPT !.hc = g]
    BY <1>1, <1>4 DEF Worlds, HcTypes
  <2> HIDE DEF Q
  <2>2. Still(g, w.hc) /\ g.active = w.hc.active
    BY <1>1 DEF HcTypes, Still, SameTree
  <2> HIDE DEF g
  <2>3. y.hc = g
    BY <1>1, <2>1 DEF Worlds
  <2> QED
    BY <2>2, <2>3
<1> QED
  BY <1>2, <1>3, <1>4 DEF StartOn

(* ... and the endpoint it takes from a frame's chain is scheduled.        *)
LEMMA StartTree ==
    ASSUME DevOK, NEW w, Sane(w), Tree(w.hc), NEW y \in StartTransfer(w)
    PROVE  /\ Tree(y.hc) /\ Frames(y.hc) = Frames(w.hc)
           /\ \/ y.hc.active = w.hc.active
              \/ w.hc.active = None /\ (Type(y.hc.active) = "interrupt" => y.hc.active \in Frames(w.hc))
<1> DEFINE h == w.hc
<1>1. w \in Worlds /\ h \in HcTypes /\ MadeInv(h) /\ ListsInv(h) /\ TokInv(w.chip)
  BY DEF Sane, Worlds
<1>2. Sane(y)
  BY StartTransferFacts
<1>3. y.hc \in HcTypes
  BY <1>2 DEF Sane, Worlds
<1>4. CASE y = w
  BY <1>4
<1>5. ASSUME NEW v, NEW e, NEW g, v = [w EXCEPT !.hc = g], y \in StartOn(v, e), g \in HcTypes,
             MadeInv(g), ListsInv(g), SameTree(g, h), g.nextp = h.nextp \/ g.nextp \in Frames(h) \union {None},
             g.active = h.active
      PROVE  Tree(y.hc) /\ Frames(y.hc) = Frames(h) /\ (y.hc.active = h.active \/ y.hc.active = e)
  <2>1. v \in Worlds /\ v.hc = g /\ SameBut(v, w)
    BY <1>1, <1>5, HcChange
  <2>2. Sane(v)
    BY <1>1, <1>5, <2>1 DEF Sane, SameBut
  <2>3. Still(y.hc, g) /\ (y.hc.active = g.active \/ y.hc.active = e)
    <3>1. Still(y.hc, v.hc) /\ (y.hc.active = v.hc.active \/ y.hc.active = e)
      BY ONLY DevOK, <1>5, <2>2, StartOnStill
    <3> QED
      BY <2>1, <3>1
  <2>4. Tree(g) /\ Frames(g) = Frames(h)
    BY <1>5, TreeSame
  <2> QED
    BY <1>3, <1>5, <2>3, <2>4, StillTree
<1>6. CASE ~("SUSPEND" \in h.port \/ h.active # None) /\ h.nextp # None
  <2> DEFINE g == [h EXCEPT !.nextp = h.next[h.nextp]]
             v == [w EXCEPT !.hc = g]
  <2>1. h.nextp \in Frames(h) /\ h.nextp \in Made(h) /\ h.nextp \in Ep
    BY <1>1, <1>6 DEF MadeInv, Made, Tree
  <2>2. h.next[h.nextp] \in Frames(h) \union {None} /\ h.next[h.nextp] \in Made(h) \union {None}
        /\ h.next[h.nextp] \in Pointer
    BY <1>1, <2>1, NextInFrames DEF MadeInv, HcTypes
  <2>3. y \in StartOn(v, h.nextp)
    <3>1. [w EXCEPT !.hc.nextp = w.hc.next[@]] = v
      BY <1>1 DEF Worlds, HcTypes
    <3> QED
      BY <1>6, <3>1 DEF StartTransfer
  <2>4. /\ g \in HcTypes /\ g.nextp = h.next[h.nextp] /\ g.active = h.active
        /\ g.alloc = h.alloc /\ g.pid = h.pid /\ g.async = h.async /\ g.nexta = h.nexta
        /\ g.periodic = h.periodic /\ g.next = h.next /\ g.branch = h.branch
        /\ g.load = h.load /\ g.count = h.count
    BY <1>1, <2>2 DEF HcTypes
  <2> HIDE DEF g
  <2>5. Made(g) = Made(h) /\ \A x : InAsync(g, x) <=> InAsync(h, x)
    BY <2>4 DEF Made, InAsync
  <2>6. MadeInv(g) /\ ListsInv(g)
    BY <1>1, <2>2, <2>4, <2>5 DEF MadeInv, ListsInv
  <2> HIDE DEF v
  <2>7. v = [w EXCEPT !.hc = g]
    BY DEF v
  <2>8. SameTree(g, h)
    BY <2>4 DEF SameTree
  <2>9. Tree(y.hc) /\ Frames(y.hc) = Frames(h) /\ (y.hc.active = h.active \/ y.hc.active = h.nextp)
    BY <1>5, <2>2, <2>3, <2>4, <2>6, <2>7, <2>8
  <2> QED
    BY <1>6, <2>1, <2>9
<1>7. CASE ~("SUSPEND" \in h.port \/ h.active # None) /\ h.nextp = None /\ h.async # <<>>
  <2> DEFINE e == IF h.nexta # None THEN h.nexta ELSE Head(h.async)
             n == AfterAsync(h, e)
             g == [h EXCEPT !.nexta = n]
             v == [w EXCEPT !.hc = g]
  <2>1. Head(h.async) = h.async[1] /\ 1 \in DOMAIN h.async
    <3> DEFINE s == h.async
    <3>1. s \in Seq(Ep) /\ s # <<>>
      BY <1>1, <1>7 DEF HcTypes
    <3> HIDE DEF s
    <3>2. Head(s) = s[1] /\ 1 \in DOMAIN s
      BY <3>1
    <3> QED
      BY <3>2 DEF s
  <2>2. InAsync(h, e)
    BY <1>1, <2>1 DEF InAsync, OnList, MadeInv
  <2>3. e \in Made(h) /\ e \in Ep
    BY <1>1, <2>2 DEF InAsync, OnList, MadeInv, Made
  <2>4. Type(e) # "interrupt"
    BY <1>1, <2>2, <2>3 DEF ListsInv
  <2> HIDE DEF e
  <2>5. n # None => OnList(h.async, n)
    BY <1>1, <2>2, AfterAsyncInList
  <2>6. n \in Pointer
    BY <1>1, <2>5 DEF Pointer, OnList, MadeInv, Made
  <2>7. y \in StartOn(v, e)
    <3>1. [w EXCEPT !.hc.nexta = AfterAsync(w.hc, e)] = v
      BY <1>1 DEF Worlds, HcTypes
    <3> QED
      BY <1>7, <3>1 DEF StartTransfer, e
  <2> HIDE DEF n
  <2>8. /\ g \in HcTypes /\ g.nexta = n /\ g.active = h.active
        /\ g.alloc = h.alloc /\ g.pid = h.pid /\ g.async = h.async /\ g.nextp = h.nextp
        /\ g.periodic = h.periodic /\ g.next = h.next /\ g.branch = h.branch
        /\ g.load = h.load /\ g.count = h.count
    BY <1>1, <2>6 DEF HcTypes
  <2> HIDE DEF g
  <2>9. Made(g) = Made(h) /\ \A x : InAsync(g, x) <=> InAsync(h, x)
    BY <2>8 DEF Made, InAsync
  <2>10. MadeInv(g) /\ ListsInv(g)
    BY <1>1, <2>5, <2>8, <2>9 DEF MadeInv, ListsInv
  <2> HIDE DEF v
  <2>11. v = [w EXCEPT !.hc = g]
    BY DEF v
  <2>12. SameTree(g, h)
    BY <2>8 DEF SameTree
  <2>13. Tree(y.hc) /\ Frames(y.hc) = Frames(h) /\ (y.hc.active = h.active \/ y.hc.active = e)
    BY <1>5, <2>7, <2>8, <2>10, <2>11, <2>12
  <2> QED
    BY <1>7, <2>4, <2>13
<1> QED
  BY <1>4, <1>6, <1>7 DEF StartTransfer

(* active_a of an interrupt endpoint is in the frames, or usbcore disables *)
(* it and its last URB is gone.                                            *)
ActiveIn(h, c) ==
    h.active # None /\ Type(h.active) = "interrupt"
        => h.active \in Frames(h) \/ (h.active \in c.closed /\ c.q[h.active] = <<>>)

(* An URB of the frames that was unlinked before urb_enqueue took it is of *)
(* an endpoint that usbcore disables, or was disabled since.               *)
LateIn(h, c, open) ==
    \A u \in open : LET e == EpOf(u) IN
        OnList(c.q[e], u) /\ Type(e) = "interrupt" /\ c.status[u] # "busy"
            => \/ e \in c.closed
               \/ /\ Head(c.q[e]) = u
                  /\ \/ e \notin Frames(h) /\ h.active # e
                     \/ \E v : v # u /\ OnList(c.q[e], v)

(* The frames are right in a world, whichever handler left it.             *)
TreeInv(w, open) ==
    Tree(w.hc) /\ (Happens("overtake") => ActiveIn(w.hc, w.core) /\ LateIn(w.hc, w.core, open))

(* What the frames' invariant is told by.                                  *)
LEMMA TreeInvMoves ==
    ASSUME DevOK, NEW h, NEW c, NEW open \in SUBSET Urbs, ActiveIn(h, c), LateIn(h, c, open),
           NEW g, NEW d, Frames(g) = Frames(h), g.active \in {h.active, None},
           d.q = c.q, c.closed \subseteq d.closed,
           \A u \in open : \/ d.status[u] = c.status[u]
                           \/ EpOf(u) \in d.closed
                           \/ ~OnList(d.q[EpOf(u)], u)
    PROVE  ActiveIn(g, d) /\ LateIn(g, d, open)
<1>1. ActiveIn(g, d)
  BY DEF ActiveIn
<1>2. LateIn(g, d, open)
  <2> SUFFICES ASSUME NEW u \in open, OnList(d.q[EpOf(u)], u), Type(EpOf(u)) = "interrupt",
                      d.status[u] # "busy", EpOf(u) \notin d.closed
               PROVE  /\ Head(d.q[EpOf(u)]) = u
                      /\ \/ EpOf(u) \notin Frames(g) /\ g.active # EpOf(u)
                         \/ \E v : v # u /\ OnList(d.q[EpOf(u)], v)
    BY DEF LateIn
  <2>1. c.status[u] # "busy" /\ EpOf(u) \notin c.closed /\ OnList(c.q[EpOf(u)], u)
    OBVIOUS
  <2>2. /\ Head(c.q[EpOf(u)]) = u
        /\ \/ EpOf(u) \notin Frames(h) /\ h.active # EpOf(u)
           \/ \E v : v # u /\ OnList(c.q[EpOf(u)], v)
    BY <2>1 DEF LateIn
  <2>3. CASE EpOf(u) \notin Frames(h) /\ h.active # EpOf(u)
    <3>1. EpOf(u) \in Ep /\ None \notin Ep
      BY UrbEp, Sl811ScheduleAssumption
    <3>2. g.active # EpOf(u)
      BY <2>3, <3>1
    <3> QED
      BY <2>2, <2>3, <3>2
  <2> QED
    BY <2>2, <2>3
<1> QED
  BY <1>1, <1>2

(* The next packet is one of the frames' or of the round's.                *)
LEMMA StartTreeInv ==
    ASSUME DevOK, NEW w, Sane(w), NEW open \in SUBSET Urbs, TreeInv(w, open),
           NEW y \in StartTransfer(w)
    PROVE  TreeInv(y, open) /\ Frames(y.hc) = Frames(w.hc)
<1>1. /\ Tree(y.hc) /\ Frames(y.hc) = Frames(w.hc)
      /\ \/ y.hc.active = w.hc.active
         \/ w.hc.active = None /\ (Type(y.hc.active) = "interrupt" => y.hc.active \in Frames(w.hc))
  BY StartTree DEF TreeInv
<1>2. y.core = w.core
  BY StartTransferFacts DEF Started
<1>3. ASSUME Happens("overtake") PROVE ActiveIn(y.hc, y.core) /\ LateIn(y.hc, y.core, open)
  <2>1. ActiveIn(w.hc, w.core) /\ LateIn(w.hc, w.core, open)
    BY <1>3 DEF TreeInv
  <2>2. ActiveIn(y.hc, y.core)
    BY <1>1, <1>2, <2>1 DEF ActiveIn
  <2>3. \A e : e \notin Frames(w.hc) /\ w.hc.active # e /\ Type(e) = "interrupt" => y.hc.active # e
    BY <1>1
  <2>4. LateIn(y.hc, y.core, open)
    BY <1>1, <1>2, <2>1, <2>3 DEF LateIn
  <2> QED
    BY <2>2, <2>4
<1> QED
  BY <1>1, <1>3 DEF TreeInv

(* An endpoint joins the frames with the URB that urb_enqueue takes.       *)
LEMMA AcceptTreeInv ==
    ASSUME DevOK, NEW w, Sane(w), NEW kept, NEW except, KeptInv(w, kept, except),
           NEW open \in SUBSET Urbs, TreeInv(w, open), NEW u \in Urbs, Queued(w.core, u),
           w.core.status[u] = "busy" \/ u \notin open, NEW y \in Accept(w, u)
    PROVE  /\ TreeInv(y, open) /\ Sane(y) /\ SameBut(y, w) /\ y.hc.active = w.hc.active
           /\ Frames(w.hc) \subseteq Frames(y.hc)
           /\ Type(EpOf(u)) = "interrupt" => EpOf(u) \in Frames(y.hc)
<1>1. /\ Tree(y.hc)
      /\ Frames(y.hc) = Frames(w.hc) \union {x \in {EpOf(u)} : Type(x) = "interrupt"}
      /\ Sane(y) /\ SameBut(y, w) /\ y.hc.active = w.hc.active
  BY AcceptTree DEF TreeInv
<1>2. y.core = w.core
  BY <1>1 DEF SameBut
<1>3. ASSUME Happens("overtake") PROVE ActiveIn(y.hc, y.core) /\ LateIn(y.hc, y.core, open)
  <2>1. ActiveIn(w.hc, w.core) /\ LateIn(w.hc, w.core, open)
    BY <1>3 DEF TreeInv
  <2>2. ActiveIn(y.hc, y.core)
    BY <1>1, <1>2, <2>1 DEF ActiveIn
  <2>3. ASSUME NEW v \in open, OnList(w.core.q[EpOf(v)], v), Type(EpOf(v)) = "interrupt",
               w.core.status[v] # "busy", EpOf(v) \notin w.core.closed
        PROVE  /\ Head(w.core.q[EpOf(v)]) = v
               /\ \/ EpOf(v) \notin Frames(y.hc) /\ w.hc.active # EpOf(v)
                  \/ \E x : x # v /\ OnList(w.core.q[EpOf(v)], x)
    <3>1. v # u
      BY <2>3
    <3>2. /\ Head(w.core.q[EpOf(v)]) = v
          /\ \/ EpOf(v) \notin Frames(w.hc) /\ w.hc.active # EpOf(v)
             \/ \E x : x # v /\ OnList(w.core.q[EpOf(v)], x)
      BY <2>1, <2>3 DEF LateIn
    <3>3. CASE EpOf(v) = EpOf(u)
      BY <3>1, <3>2, <3>3 DEF Queued
    <3>4. CASE EpOf(v) # EpOf(u)
      BY <1>1, <3>2, <3>4
    <3> QED
      BY <3>3, <3>4
  <2>4. LateIn(y.hc, y.core, open)
    BY <1>1, <1>2, <2>3 DEF LateIn
  <2> QED
    BY <2>2, <2>4
<1> QED
  BY <1>1, <1>3 DEF TreeInv

(* Taking back what was just put at the end of a list.                     *)
LEMMA TakenBack ==
    ASSUME NEW S, NEW s \in Seq(S), NEW x \in S, Distinct(s), ~OnList(s, x)
    PROVE  Without(Append(s, x), x) = s
<1> DEFINE t == Append(s, x)
           L == Len(s)
<1>1. /\ t \in Seq(S) /\ Len(t) = L + 1 /\ L \in Nat /\ t[L + 1] = x
      /\ \A k \in 1 .. L : t[k] = s[k]
      /\ s = [k \in 1 .. L |-> s[k]] /\ DOMAIN s = 1 .. L
  OBVIOUS
<1>2. OnList(t, x)
  BY AppendFacts
<1> HIDE DEF t, L
<1>3. PICK n \in 1 .. Len(t) :
        /\ t[n] = x
        /\ Without(t, x) = [k \in 1 .. Len(t) - 1 |-> IF k < n THEN t[k] ELSE t[k + 1]]
  <2>1. t \in Seq(S)
    BY <1>1
  <2> QED
    BY ONLY <2>1, <1>2, WithoutPosition
<1>4. n = L + 1
  <2>1. n \in 1 .. L => s[n] = x
    BY <1>1, <1>3
  <2>2. n \notin 1 .. L
    BY <1>1, <2>1 DEF OnList
  <2> QED
    BY <1>1, <1>3, <2>2
<1>5. Without(t, x) = [k \in 1 .. L |-> s[k]]
  <2>1. Len(t) - 1 = L
    BY <1>1
  <2>2. \A k \in 1 .. L : (IF k < n THEN t[k] ELSE t[k + 1]) = s[k]
    BY <1>1, <1>4
  <2> QED
    BY <1>3, <2>1, <2>2
<1> QED
  BY <1>1, <1>5 DEF t

(* An URB is linked to an endpoint that is not being disabled.             *)
LEMMA LinkTreeInv ==
    ASSUME DevOK, NEW w, Sane(w), NEW open \in SUBSET Urbs, TreeInv(w, open),
           NEW u \in Urbs, ~Queued(w.core, u), EpOf(u) \notin w.core.closed,
           NEW y, y = Link(w, u)
    PROVE  TreeInv(y, open)
<1> DEFINE e == EpOf(u)
<1>1. /\ y.hc = w.hc /\ y.core.closed = w.core.closed
      /\ y.core.q[e] = Append(w.core.q[e], u)
      /\ \A x \in Ep : x # e => y.core.q[x] = w.core.q[x]
      /\ y.core.status[u] = "busy"
      /\ \A x \in Urbs : x # u => y.core.status[x] = w.core.status[x]
  BY LinkFacts
<1>2. e \in Ep /\ w \in Worlds /\ w.hc.active \in Pointer
  BY UrbEp DEF Sane, Worlds, HcTypes
<1>3. /\ \A x : OnList(y.core.q[e], x) <=> OnList(w.core.q[e], x) \/ x = u
      /\ w.core.q[e] # <<>> => Head(y.core.q[e]) = Head(w.core.q[e])
      /\ w.core.q[e] # <<>> <=> \E x \in Urbs : OnList(w.core.q[e], x)
  <2>1. w.core.q[e] \in Seq(Urbs)
    BY <1>2 DEF Worlds, CoreTypes
  <2>2. w.core.q[e] # <<>> <=> \E x \in Urbs : OnList(w.core.q[e], x)
    BY <1>2, QueueTypes
  <2> QED
    BY <1>1, <2>1, <2>2, AppendFacts
<1> HIDE DEF e
<1>4. ASSUME Happens("overtake") PROVE ActiveIn(y.hc, y.core) /\ LateIn(y.hc, y.core, open)
  <2>1. ActiveIn(w.hc, w.core) /\ LateIn(w.hc, w.core, open)
    BY <1>4 DEF TreeInv
  <2>2. ActiveIn(y.hc, y.core)
    BY <1>1, <1>2, <2>1 DEF ActiveIn, e, Pointer
  <2>3. ASSUME NEW v \in open, OnList(y.core.q[EpOf(v)], v), Type(EpOf(v)) = "interrupt",
               y.core.status[v] # "busy", EpOf(v) \notin w.core.closed
        PROVE  /\ Head(y.core.q[EpOf(v)]) = v
               /\ \/ EpOf(v) \notin Frames(w.hc) /\ w.hc.active # EpOf(v)
                  \/ \E x : x # v /\ OnList(y.core.q[EpOf(v)], x)
    <3>1. v # u /\ v \in Urbs /\ w.core.status[v] # "busy" /\ EpOf(v) \in Ep
      BY <1>1, <2>3, UrbEp
    <3>2. OnList(w.core.q[EpOf(v)], v)
      BY <1>1, <1>3, <2>3, <3>1
    <3>3. /\ Head(w.core.q[EpOf(v)]) = v
          /\ \/ EpOf(v) \notin Frames(w.hc) /\ w.hc.active # EpOf(v)
             \/ \E x : x # v /\ OnList(w.core.q[EpOf(v)], x)
      BY <2>1, <2>3, <3>1, <3>2 DEF LateIn
    <3>4. CASE EpOf(v) = e
      BY <1>3, <3>1, <3>2, <3>3, <3>4
    <3>5. CASE EpOf(v) # e
      BY <1>1, <3>1, <3>3, <3>5
    <3> QED
      BY <3>4, <3>5
  <2>4. LateIn(y.hc, y.core, open)
    BY <1>1, <2>3 DEF LateIn
  <2> QED
    BY <2>2, <2>4
<1> QED
  BY <1>1, <1>4 DEF TreeInv

(* What a submission of the completion handler leaves of the frames and    *)
(* the queues.                                                             *)
StillQueued(y, w) ==
    /\ \A e \in Ep, v \in Urbs : OnList(w.core.q[e], v) => OnList(y.core.q[e], v)
    /\ Frames(w.hc) \subseteq Frames(y.hc) /\ y.core.closed = w.core.closed
    /\ y.hc.active = w.hc.active \/ (y.hc.active \in Ep /\ y.core.q[y.hc.active] # <<>>)

(* The completion handler submits.                                         *)
LEMMA SubmittedTree ==
    ASSUME DevOK, NEW w, Sane(w), ~w.oops, NEW open \in SUBSET Urbs, NEW except,
           KeptInv(w, open, except), TreeInv(w, open), Happens("overtake") \/ open = {},
           NEW u \in Urbs, ~Queued(w.core, u), EpOf(u) \notin w.core.closed,
           Happens("plug") \/ w.chip.tok.pid # "none",
           NEW l, l = Link(w, u), NEW y \in Enqueue(l, u)
    PROVE  TreeInv(y, open) /\ StillQueued(y, w)
<1> DEFINE rest == open \ {u}
<1>1. /\ Sane(l) /\ l.hc = w.hc /\ l.oops = w.oops /\ l.core.closed = w.core.closed
      /\ l.core.q[EpOf(u)] = Append(w.core.q[EpOf(u)], u)
      /\ \A e \in Ep : e # EpOf(u) => l.core.q[e] = w.core.q[e]
      /\ l.core.status[u] = "busy"
      /\ \A x \in Urbs : x # u => l.core.status[x] = w.core.status[x]
  BY SMTT(30), LinkFacts
<1>2. KeptInv(l, open \union {u}, except) /\ Queued(l.core, u)
  BY LinkKeeps
<1>3. TreeInv(l, open)
  BY LinkTreeInv
<1>4. EpOf(u) \in Ep /\ w.core.q \in [Ep -> Seq(Urbs)] /\ w \in Worlds
  BY UrbEp DEF Sane, Worlds, CoreTypes
<1>5. \A e \in Ep, v \in Urbs : OnList(w.core.q[e], v) => OnList(l.core.q[e], v)
  <2>1. w.core.q[EpOf(u)] \in Seq(Urbs)
    BY <1>4
  <2>2. \A v : OnList(w.core.q[EpOf(u)], v) => OnList(l.core.q[EpOf(u)], v)
    BY <1>1, <2>1, AppendFacts
  <2> QED
    BY <1>1, <2>2
<1>6. CASE Accept(l, u) # {}
  <2>1. PICK x \in Accept(l, u) : y \in (IF x.oops THEN {x} ELSE StartTransfer(x))
    BY <1>6 DEF Enqueue, Then
  <2>2. /\ TreeInv(x, open) /\ Sane(x) /\ SameBut(x, l) /\ x.hc.active = l.hc.active
        /\ Frames(l.hc) \subseteq Frames(x.hc)
    BY <1>1, <1>2, <1>3, AcceptTreeInv
  <2>3. y \in StartTransfer(x)
    BY <1>1, <2>1, <2>2 DEF SameBut
  <2>4. TreeInv(y, open) /\ Frames(y.hc) = Frames(x.hc)
    BY <2>2, <2>3, StartTreeInv
  <2>5. y.core = x.core /\ (y.hc.active = x.hc.active \/ \E e \in Made(x.hc) : Issued(y, e))
    BY <2>2, <2>3, StartTransferFacts DEF Started
  <2>6. y.core = l.core
    BY <2>2, <2>5 DEF SameBut
  <2>7. y.hc.active = w.hc.active \/ (y.hc.active \in Ep /\ y.core.q[y.hc.active] # <<>>)
    BY <1>1, <2>2, <2>5 DEF Issued
  <2>8. Frames(w.hc) \subseteq Frames(y.hc)
    BY <1>1, <2>2, <2>4
  <2> QED
    BY <1>1, <1>5, <2>4, <2>6, <2>7, <2>8 DEF StillQueued
<1>7. CASE Accept(l, u) = {}
  <2>1. y = Reject(l, u)
    BY <1>7 DEF Enqueue
  <2>2. rest \union {u} = open \union {u} /\ rest \in SUBSET Urbs /\ u \notin rest
    OBVIOUS
  <2> HIDE DEF rest
  <2>3. Rejected(y, l, u, rest, except)
    <3>1. KeptInv(l, rest \union {u}, except)
      BY <1>2, <2>2
    <3> QED
      BY <1>1, <1>7, <2>1, <2>2, <3>1, RejectKeeps
  <2>4. /\ Sane(y) /\ y.hc.active = l.hc.active /\ y.core.closed = l.core.closed
        /\ y.core.q[EpOf(u)] = Without(l.core.q[EpOf(u)], u)
        /\ \A e \in Ep : e # EpOf(u) => y.core.q[e] = l.core.q[e]
        /\ \A x \in Urbs : x # u => y.core.status[x] = l.core.status[x]
    BY <2>3 DEF Rejected
  <2>5. Tree(l.hc) /\ Tree(y.hc) /\ Frames(y.hc) = Frames(l.hc)
    BY <1>1, <1>2, <1>3, <2>1, RejectTree DEF TreeInv
  <2>6. y.core.q = w.core.q
    <3>1. Without(Append(w.core.q[EpOf(u)], u), u) = w.core.q[EpOf(u)]
      <4>1. w.core.q[EpOf(u)] \in Seq(Urbs) /\ ~OnList(w.core.q[EpOf(u)], u)
        BY <1>4 DEF Queued
      <4>2. Distinct(w.core.q[EpOf(u)])
        BY <1>4 DEF KeptInv, QueuesInv
      <4> QED
        BY <4>1, <4>2, TakenBack
    <3>2. \A e \in Ep : y.core.q[e] = w.core.q[e]
      BY <1>1, <2>4, <3>1
    <3>3. y.core.q \in [Ep -> Seq(Urbs)]
      BY <2>4 DEF Sane, Worlds, CoreTypes
    <3> QED
      BY <1>4, <3>2, <3>3
  <2>7. \A v \in open : \/ y.core.status[v] = w.core.status[v]
                        \/ EpOf(v) \in y.core.closed
                        \/ ~OnList(y.core.q[EpOf(v)], v)
    BY <1>1, <2>4, <2>6 DEF Queued
  <2>8. ASSUME Happens("overtake") PROVE ActiveIn(y.hc, y.core) /\ LateIn(y.hc, y.core, open)
    <3>1. ActiveIn(w.hc, w.core) /\ LateIn(w.hc, w.core, open)
      BY <2>8 DEF TreeInv
    <3>2. Frames(y.hc) = Frames(w.hc) /\ y.hc.active = w.hc.active /\ y.core.closed = w.core.closed
      BY <1>1, <2>4, <2>5
    <3> QED
      BY <2>6, <2>7, <3>1, <3>2, TreeInvMoves
  <2> QED
    BY <1>1, <2>4, <2>5, <2>6, <2>8 DEF TreeInv, StillQueued
<1> QED
  BY <1>6, <1>7

(* An URB leaves its queue, the first of it if an URB may be late.         *)
LEMMA LeftTree ==
    ASSUME DevOK, NEW w, Sane(w), NEW open \in SUBSET Urbs, QueuesInv(w.core), NEW u \in Urbs,
           Queued(w.core, u), TreeInv(w, open \ {u}), open = {} \/ Head(w.core.q[EpOf(u)]) = u,
           NEW y, y = Left(w, u)
    PROVE  TreeInv(y, open)
<1> DEFINE e == EpOf(u)
<1>1. /\ y.hc = w.hc /\ y.core.closed = w.core.closed /\ y.core.status = w.core.status
      /\ y.core.q[e] = Without(w.core.q[e], u)
      /\ \A x \in Ep : x # e => y.core.q[x] = w.core.q[x]
  BY LeftFacts
<1>2. e \in Ep /\ w \in Worlds /\ w.hc.active \in Pointer /\ w.core.q[e] # <<>>
  <2>1. e \in Ep /\ w \in Worlds /\ w.hc.active \in Pointer
    BY UrbEp DEF Sane, Worlds, HcTypes
  <2> QED
    BY <2>1, QueueTypes DEF Queued
<1>3. \A x : OnList(y.core.q[e], x) <=> OnList(w.core.q[e], x) /\ x # u
  <2> HIDE DEF e
  <2>1. \A s : s = Without(w.core.q[e], u) =>
            \A x : OnList(s, x) <=> OnList(w.core.q[e], x) /\ x # u
    BY <1>2, WithoutInQueue
  <2> QED
    BY <1>1, <2>1
<1> HIDE DEF e
<1>4. ASSUME Happens("overtake") PROVE ActiveIn(y.hc, y.core) /\ LateIn(y.hc, y.core, open)
  <2>1. ActiveIn(w.hc, w.core) /\ LateIn(w.hc, w.core, open \ {u})
    BY <1>4 DEF TreeInv
  <2>2. ActiveIn(y.hc, y.core)
    BY <1>1, <1>2, <2>1 DEF ActiveIn, Pointer
  <2>3. ASSUME NEW v \in open, OnList(y.core.q[EpOf(v)], v), Type(EpOf(v)) = "interrupt",
               w.core.status[v] # "busy", EpOf(v) \notin w.core.closed
        PROVE  /\ Head(y.core.q[EpOf(v)]) = v
               /\ \/ EpOf(v) \notin Frames(w.hc) /\ w.hc.active # EpOf(v)
                  \/ \E x : x # v /\ OnList(y.core.q[EpOf(v)], x)
    <3>1. v \in Urbs /\ EpOf(v) \in Ep
      BY UrbEp
    <3>2. v # u
      BY <1>3, <2>3 DEF e
    <3>3. OnList(w.core.q[EpOf(v)], v)
      BY <1>1, <1>3, <2>3, <3>1
    <3>4. /\ Head(w.core.q[EpOf(v)]) = v
          /\ \/ EpOf(v) \notin Frames(w.hc) /\ w.hc.active # EpOf(v)
             \/ \E x : x # v /\ OnList(w.core.q[EpOf(v)], x)
      BY <2>1, <2>3, <3>2, <3>3 DEF LateIn
    <3>5. EpOf(v) # e
      BY <3>2, <3>4 DEF e
    <3> QED
      BY <1>1, <3>1, <3>4, <3>5
  <2>4. LateIn(y.hc, y.core, open)
    BY <1>1, <2>3 DEF LateIn
  <2> QED
    BY <2>2, <2>4
<1> QED
  BY <1>1, <1>4 DEF TreeInv

(* What a giveback leaves of the frames and the queues.                    *)
GivenTree(y, w, u, open) ==
    /\ TreeInv(y, open)
    /\ \A e \in Ep, v \in Urbs \ {u} : OnList(w.core.q[e], v) => OnList(y.core.q[e], v)
    /\ Frames(w.hc) \subseteq Frames(y.hc) /\ y.core.closed = w.core.closed
    /\ y.hc.active = w.hc.active \/ (y.hc.active \in Ep /\ y.core.q[y.hc.active] # <<>>)

(* The URB is given back, and its completion handler may submit.           *)
LEMMA GivebackTree ==
    ASSUME DevOK, NEW w, Sane(w), ~w.oops, NEW open \in SUBSET Urbs,
           KeptInv(w, open, {}), Happens("overtake") \/ open = {}, w.core.calls = open,
           NEW u \in Urbs, Queued(w.core, u), w.core.status[u] # "busy",
           TreeInv(w, open \ {u}), open = {} \/ Head(w.core.q[EpOf(u)]) = u,
           NEW y \in Giveback(w, u)
    PROVE  GivenTree(y, w, u, open)
<1> DEFINE left == Left(w, u)
           idle == {x \in Urbs : ~Queued(left.core, x) /\ (x = u \/ x \notin w.core.calls)
                                 /\ EpOf(x) \notin w.core.closed}
<1>1. y \in {left} \union UNION {Enqueue(Link(left, x), x) : x \in idle}
  BY DEF Giveback, Left
<1>2. /\ Sane(left) /\ left.hc = w.hc /\ left.oops = w.oops /\ left.core.closed = w.core.closed
      /\ left.core.q[EpOf(u)] = Without(w.core.q[EpOf(u)], u)
      /\ \A e \in Ep : e # EpOf(u) => left.core.q[e] = w.core.q[e]
  BY LeftFacts
<1>3. /\ KeptInv(left, open, {EpOf(u)})
      /\ Happens("plug") \/ left.chip.tok.pid # "none"
  BY LeftKeeps
<1>4. QueuesInv(w.core) /\ w \in Worlds /\ EpOf(u) \in Ep
  BY UrbEp DEF KeptInv, Sane
<1>5. TreeInv(left, open)
  BY <1>4, LeftTree
<1>6. \A e \in Ep, v \in Urbs \ {u} : OnList(w.core.q[e], v) => OnList(left.core.q[e], v)
  <2>1. \A v : OnList(left.core.q[EpOf(u)], v) <=> OnList(w.core.q[EpOf(u)], v) /\ v # u
    <3>1. \A s : s = Without(w.core.q[EpOf(u)], u) =>
              \A v : OnList(s, v) <=> OnList(w.core.q[EpOf(u)], v) /\ v # u
      BY <1>4, WithoutInQueue
    <3> QED
      BY <1>2, <3>1
  <2> QED
    BY <1>2, <2>1
<1> HIDE DEF left
<1>7. CASE y = left
  BY <1>2, <1>5, <1>6, <1>7 DEF GivenTree
<1>8. ASSUME NEW x \in idle, y \in Enqueue(Link(left, x), x)
      PROVE  TreeInv(y, open) /\ StillQueued(y, left)
  <2> DEFINE l == Link(left, x)
  <2>1. x \in Urbs /\ ~Queued(left.core, x) /\ EpOf(x) \notin left.core.closed /\ ~left.oops
    BY <1>2
  <2>2. l = Link(left, x) /\ y \in Enqueue(l, x)
    BY <1>8
  <2> HIDE DEF l
  <2> QED
    BY <1>2, <1>3, <1>5, <2>1, <2>2, SubmittedTree
<1>9. ASSUME TreeInv(y, open), StillQueued(y, left)
      PROVE  GivenTree(y, w, u, open)
  BY <1>2, <1>6, <1>9 DEF StillQueued, GivenTree
<1> QED
  BY <1>1, <1>7, <1>8, <1>9

(* finish_request takes an endpoint that is left without URBs out of the   *)
(* frames; active_a may then name one that is in no frame.                 *)
LEMMA DescheduleTree ==
    ASSUME DevOK, NEW w, Sane(w), ~w.oops, NEW open \in SUBSET Urbs,
           TreeInv(w, open), NEW e \in Made(w.hc),
           Type(e) = "interrupt" => e \in Frames(w.hc), NEW y, y = Deschedule(w, e), ~y.oops
    PROVE  /\ Tree(y.hc)
           /\ Happens("overtake") =>
                /\ LateIn(y.hc, y.core, open)
                /\ w.hc.active # e \/ e \in w.core.closed \/ w.core.q[e] # <<>>
                    => ActiveIn(y.hc, y.core)
<1>1. w \in Worlds /\ w.hc \in HcTypes /\ e \in Ep /\ MadeInv(w.hc) /\ ListsInv(w.hc)
  BY DEF Sane, Worlds, Made
<1>2. CASE w.core.q[e] # <<>>
  <2>1. y = w
    BY <1>2 DEF Deschedule
  <2> QED
    BY <2>1 DEF TreeInv
<1>3. CASE w.core.q[e] = <<>> /\ InAsync(w.hc, e)
  <2> DEFINE g == DescheduleAsync(w.hc, e)
  <2>0. g \in HcTypes /\ g.active = w.hc.active
    BY <1>1, <1>3, DescheduleAsyncFacts
  <2>1. y = [w EXCEPT !.hc = g]
    BY <1>1, <1>3 DEF Deschedule
  <2>2. Still(g, w.hc)
    BY <1>1 DEF DescheduleAsync, Still, SameTree, HcTypes
  <2> HIDE DEF g
  <2>3. y.hc = g /\ y.core = w.core
    BY <1>1, <2>1 DEF Worlds
  <2>4. Tree(g) /\ Frames(g) = Frames(w.hc)
    BY <2>0, <2>2, StillTree DEF TreeInv
  <2> QED
    BY <2>0, <2>3, <2>4 DEF TreeInv, ActiveIn, LateIn
<1>4. CASE w.core.q[e] = <<>> /\ ~InAsync(w.hc, e) /\ Type(e) = "interrupt"
  <2> DEFINE g == DeschedulePeriodic(w.hc, e, dev.ep)
  <2>1. y = [w EXCEPT !.hc = g]
    BY <1>1, <1>4 DEF Deschedule
  <2>2. Tree(g) /\ Frames(g) = Frames(w.hc) \ {e}
    BY <1>1, <1>4, UnlinkTree DEF TreeInv
  <2>3. g \in HcTypes /\ g.active = w.hc.active
    BY <1>1, <1>4, DeschedulePeriodicFacts
  <2> HIDE DEF g
  <2>4. y.hc = g /\ y.core = w.core
    BY <1>1, <2>1 DEF Worlds
  <2>5. ASSUME Happens("overtake")
        PROVE  /\ LateIn(y.hc, y.core, open)
               /\ w.hc.active # e \/ e \in w.core.closed => ActiveIn(y.hc, y.core)
    <3>1. ActiveIn(w.hc, w.core) /\ LateIn(w.hc, w.core, open)
      BY <2>5 DEF TreeInv
    <3>2. ASSUME NEW v \in open, EpOf(v) \notin Frames(w.hc)
          PROVE  EpOf(v) \notin Frames(g)
      BY <2>2, <3>2
    <3>3. LateIn(g, w.core, open)
      BY <2>3, <3>1, <3>2 DEF LateIn
    <3>4. w.hc.active # e \/ e \in w.core.closed => ActiveIn(g, w.core)
      BY <1>4, <2>2, <2>3, <3>1 DEF ActiveIn
    <3> QED
      BY <2>4, <3>3, <3>4
  <2> QED
    BY <1>4, <2>2, <2>4, <2>5
<1>5. CASE w.core.q[e] = <<>> /\ ~InAsync(w.hc, e) /\ Type(e) # "interrupt"
  <2>1. y = Oops(w)
    BY <1>5 DEF Deschedule
  <2>2. y.oops
    BY <1>1, <2>1 DEF Oops, Worlds
  <2> QED
    BY <2>2
<1> QED
  BY <1>2, <1>3, <1>4, <1>5

(* finish_request: the frames stay right, if an interrupt endpoint whose   *)
(* URB it finishes is in them; and active_a stays in them if the endpoint  *)
(* is not the active one, has another URB or is being disabled.            *)
LEMMA FinishTree ==
    ASSUME DevOK, NEW w, Sane(w), ~w.oops, NEW open \in SUBSET Urbs,
           KeptInv(w, open, {}), Happens("overtake") \/ open = {}, w.core.calls = open,
           NEW u \in Urbs, EpOf(u) \in Made(w.hc), Queued(w.core, u),
           NEW st \in Statuses, st # "busy" \/ w.core.status[u] # "busy",
           TreeInv(w, open \ {u}), open = {} \/ Head(w.core.q[EpOf(u)]) = u,
           Type(EpOf(u)) = "interrupt" => EpOf(u) \in Frames(w.hc),
           NEW y \in FinishRequest(w, EpOf(u), u, st), ~y.oops
    PROVE  /\ Tree(y.hc)
           /\ Happens("overtake") =>
                /\ LateIn(y.hc, y.core, open)
                /\ (\/ EpOf(u) \in w.core.closed
                    \/ w.hc.active # EpOf(u)
                    \/ \E v \in Urbs : v # u /\ OnList(w.core.q[EpOf(u)], v))
                    => ActiveIn(y.hc, y.core)
<1> DEFINE e == EpOf(u)
           done == Finished(w, e, u, st)
<1>1. PICK x \in Giveback(done, u) : y \in (IF x.oops THEN {x} ELSE {Deschedule(x, e)})
  BY DEF FinishRequest, Finished, Then
<1>2. /\ Sane(done) /\ KeptInv(done, open, {}) /\ done.core.status[u] # "busy"
  BY FinishedKeeps
<1>3. FinishedAs(done, w, e, u, st)
  BY FinishedFacts
<1> HIDE DEF done
<1>4. /\ done.chip = w.chip /\ done.oops = w.oops
      /\ done.core.calls = w.core.calls /\ done.core.closed = w.core.closed
      /\ done.core.q = w.core.q /\ Made(done.hc) = Made(w.hc)
      /\ done.hc.active = w.hc.active
      /\ \A v \in Urbs : v # u => done.core.status[v] = w.core.status[v]
  BY <1>3 DEF FinishedAs
<1>5. Still(done.hc, w.hc)
  <2>1. done.hc = [w.hc EXCEPT !.pid = done.hc.pid] /\ w.hc \in HcTypes
    BY <1>3 DEF FinishedAs, Sane, Worlds
  <2> DEFINE P == done.hc.pid
             h == w.hc
             g == [h EXCEPT !.pid = P]
  <2> HIDE DEF P
  <2>2. Still(g, h)
    BY <2>1 DEF HcTypes, Still, SameTree
  <2>3. done.hc = g
    BY <2>1 DEF P
  <2> QED
    BY <2>2, <2>3
<1>6. Tree(done.hc) /\ Frames(done.hc) = Frames(w.hc)
  <2>1. done.hc \in HcTypes
    BY <1>2 DEF Sane, Worlds
  <2> QED
    BY <1>5, <2>1, StillTree DEF TreeInv
<1>7. TreeInv(done, open \ {u})
  <2>1. ASSUME Happens("overtake")
        PROVE  ActiveIn(done.hc, done.core) /\ LateIn(done.hc, done.core, open \ {u})
    <3>1. ActiveIn(w.hc, w.core) /\ LateIn(w.hc, w.core, open \ {u})
      BY <2>1 DEF TreeInv
    <3>2. \A v \in open \ {u} : done.core.status[v] = w.core.status[v]
      BY <1>4
    <3> QED
      BY <1>4, <1>6, <3>1, <3>2 DEF ActiveIn, LateIn
  <2> QED
    BY <1>6, <2>1 DEF TreeInv
<1>8. Queued(done.core, u) /\ (open = {} \/ Head(done.core.q[e]) = u)
  BY <1>4 DEF Queued
<1>9. GivenBack(x, done, u, open, {e}) /\ ~x.oops
  BY <1>2, <1>4, <1>8, GivebackKeeps
<1>10. /\ Sane(x) /\ SamePids(x, done)
       /\ TreeInv(x, open)
       /\ \A z \in Ep, v \in Urbs \ {u} : OnList(done.core.q[z], v) => OnList(x.core.q[z], v)
       /\ Frames(done.hc) \subseteq Frames(x.hc) /\ x.core.closed = done.core.closed
       /\ x.hc.active = done.hc.active \/ (x.hc.active \in Ep /\ x.core.q[x.hc.active] # <<>>)
  <2>1. Sane(x) /\ SamePids(x, done)
    BY <1>9 DEF GivenBack
  <2>2. GivenTree(x, done, u, open)
    BY <1>1, <1>2, <1>4, <1>7, <1>8, GivebackTree
  <2> QED
    BY <2>1, <2>2 DEF GivenTree
<1>11. y = Deschedule(x, e) /\ e \in Made(x.hc) /\ e \in Ep
  BY <1>1, <1>4, <1>9, <1>10, UrbEp DEF SamePids
<1>12. Type(e) = "interrupt" => e \in Frames(x.hc)
  BY <1>6, <1>10
<1>13. /\ Tree(y.hc)
       /\ Happens("overtake") =>
            /\ LateIn(y.hc, y.core, open)
            /\ x.hc.active # e \/ e \in x.core.closed \/ x.core.q[e] # <<>>
                 => ActiveIn(y.hc, y.core)
  BY <1>9, <1>10, <1>11, <1>12, DescheduleTree
<1>14. ASSUME \/ e \in w.core.closed
              \/ w.hc.active # e
              \/ \E v \in Urbs : v # u /\ OnList(w.core.q[e], v)
       PROVE  x.hc.active # e \/ e \in x.core.closed \/ x.core.q[e] # <<>>
  <2>1. CASE e \in w.core.closed
    BY <1>4, <1>10, <2>1
  <2>2. CASE w.hc.active # e
    BY <1>4, <1>10, <2>2
  <2>3. CASE \E v \in Urbs : v # u /\ OnList(w.core.q[e], v)
    <3>1. PICK v \in Urbs : v # u /\ OnList(w.core.q[e], v)
      BY <2>3
    <3>2. OnList(x.core.q[e], v) /\ x \in Worlds
      BY <1>4, <1>10, <1>11, <3>1 DEF Sane
    <3> QED
      BY <1>11, <3>1, <3>2, QueueTypes
  <2> QED
    BY <1>14, <2>1, <2>2, <2>3
<1> QED
  BY <1>13, <1>14

(* done() counts an error, ...                                             *)
LEMMA StillErrs ==
    ASSUME NEW w \in Worlds, NEW e, NEW k, NEW y, y = ErrsAs(w, e, k)
    PROVE  Still(y.hc, w.hc)
<1> DEFINE R == [w.hc.errs EXCEPT ![e] = k]
           h == w.hc
           g == [h EXCEPT !.errs = R]
<1>1. h \in HcTypes
  BY DEF Worlds
<1>2. y = [w EXCEPT !.hc = g]
  BY DEF ErrsAs, Worlds, HcTypes
<1> HIDE DEF R
<1>3. Still(g, h)
  BY <1>1 DEF HcTypes, Still, SameTree
<1> HIDE DEF g
<1>4. y.hc = g
  BY <1>2 DEF Worlds
<1> QED
  BY <1>3, <1>4

(* ... chooses the next packet's kind, and                                 *)
LEMMA StillPid ==
    ASSUME NEW w \in Worlds, NEW e, NEW p, NEW y, y = [w EXCEPT !.hc.pid[e] = p]
    PROVE  Still(y.hc, w.hc)
<1> DEFINE R == [w.hc.pid EXCEPT ![e] = p]
           h == w.hc
           g == [h EXCEPT !.pid = R]
<1>1. h \in HcTypes
  BY DEF Worlds
<1>2. y = [w EXCEPT !.hc = g]
  BY DEF Worlds, HcTypes
<1> HIDE DEF R
<1>3. Still(g, h)
  BY <1>1 DEF HcTypes, Still, SameTree
<1> HIDE DEF g
<1>4. y.hc = g
  BY <1>2 DEF Worlds
<1> QED
  BY <1>3, <1>4

(* ... sets the status of a control URB.                                   *)
LEMMA StillStatus ==
    ASSUME NEW w \in Worlds, NEW u, NEW s, NEW e,
           NEW y, y = [w EXCEPT !.core.status[u] = s, !.hc.pid[e] = "ACK"]
    PROVE  Still(y.hc, w.hc)
<1> DEFINE R == [w.hc.pid EXCEPT ![e] = "ACK"]
           S == [w.core.status EXCEPT ![u] = s]
           h == w.hc
           g == [h EXCEPT !.pid = R]
           c == [w.core EXCEPT !.status = S]
<1>1. h \in HcTypes
  BY DEF Worlds
<1>2. y = [w EXCEPT !.core = c, !.hc = g]
  BY DEF Worlds, HcTypes
<1> HIDE DEF R, S
<1>3. Still(g, h)
  BY <1>1 DEF HcTypes, Still, SameTree
<1> HIDE DEF g, c
<1>4. y.hc = g
  BY <1>2 DEF Worlds
<1> QED
  BY <1>3, <1>4

(* Frames are left alone from one world to a third.                        *)
LEMMA StillTwice ==
    ASSUME NEW f, NEW g, NEW h, Still(g, h), Still(f, g)
    PROVE  Still(f, h)
BY DEF Still, SameTree

(* What done() makes of an OUT packet, ...                                 *)
LEMMA AckedOutStill ==
    ASSUME NEW w \in Worlds, NEW u, NEW e, NEW j, j = AckedOut(w, e, u)
    PROVE  Still(j.w.hc, w.hc) /\ ~j.keep
<1> DEFINE sent == w.core.actual[u] + w.chip.tok.room
           c == [w.core EXCEPT !.actual[u] = sent]
           moved == [w EXCEPT !.core.actual[u] = sent]
           ended == [moved EXCEPT !.hc.pid[e] = "ACK"]
<1>1. w.hc \in HcTypes
  BY DEF Worlds
<1>2. j.w = moved \/ j.w = ended
  BY DEF AckedOut
<1>3. ~j.keep
  BY DEF AckedOut
<1>4. moved = [w EXCEPT !.core = c]
  BY DEF Worlds
<1> HIDE DEF c, sent
<1>5. moved.hc = w.hc
  BY <1>4 DEF Worlds
<1> DEFINE P == [w.hc.pid EXCEPT ![e] = "ACK"]
           g == [w.hc EXCEPT !.pid = P]
<1>6. ended = [w EXCEPT !.core = c, !.hc = g]
  BY <1>1, <1>4 DEF Worlds, HcTypes
<1> HIDE DEF P, moved, ended
<1>7. Still(g, w.hc)
  BY <1>1 DEF HcTypes, Still, SameTree
<1> HIDE DEF g
<1>8. ended.hc = g
  BY <1>6 DEF Worlds
<1>9. Still(w.hc, w.hc)
  BY DEF Still, SameTree
<1> QED
  BY <1>2, <1>3, <1>5, <1>7, <1>8, <1>9

(* ... of an IN packet, which is kept only for the STATUS of a control URB,*)
LEMMA AckedInStill ==
    ASSUME NEW w \in Worlds, NEW u, NEW e, NEW j, j = AckedIn(w, e, u)
    PROVE  Still(j.w.hc, w.hc) /\ (j.keep => Type(e) = "control")
<1> DEFINE tooMuch == w.chip.res.n > w.chip.tok.room
           got == Least(w.chip.res.n, w.chip.tok.room)
           c == [w.core EXCEPT !.actual[u] = @ + got,
                               !.status[u] = IF tooMuch THEN "overflow" ELSE @]
           moved == [w EXCEPT !.core = c]
           verdict == IF moved.core.actual[u] = dev.urb[u].len THEN "ok"
                      ELSE IF got = MaxPacket THEN "busy"
                      ELSE IF dev.urb[u].strict THEN "short" ELSE "ok"
           t == IF moved.core.status[u] = "busy" THEN verdict ELSE moved.core.status[u]
           S == [c.status EXCEPT ![u] = t]
           d == [c EXCEPT !.status = S]
           ended == [moved EXCEPT !.core.status[u] = IF @ = "busy" THEN verdict ELSE @,
                                  !.hc.pid[e] = "ACK"]
<1>1. w.hc \in HcTypes /\ w.core \in CoreTypes
  BY SMTT(30) DEF Worlds
<1>2. /\ j.w = moved \/ j.w = ended
      /\ j.keep => Type(e) = "control"
  BY DEF AckedIn
<1> HIDE DEF c, verdict
<1>3. moved.hc = w.hc /\ moved.core = c
  BY DEF Worlds
<1> DEFINE P == [w.hc.pid EXCEPT ![e] = "ACK"]
           g == [w.hc EXCEPT !.pid = P]
           b == [c EXCEPT !.status[u] = IF @ = "busy" THEN verdict ELSE @]
<1>4. ended = [w EXCEPT !.core = b, !.hc = g]
  BY <1>1, <1>3 DEF Worlds, HcTypes
<1> HIDE DEF P, b
<1> HIDE DEF moved, ended
<1>5. Still(g, w.hc)
  BY <1>1 DEF HcTypes, Still, SameTree
<1> HIDE DEF g
<1>6. ended.hc = g
  BY <1>4 DEF Worlds
<1>7. Still(w.hc, w.hc)
  BY DEF Still, SameTree
<1> QED
  BY <1>2, <1>3, <1>5, <1>6, <1>7

(* ... and of any packet.                                                  *)
LEMMA JudgeStill ==
    ASSUME DevOK, NEW w, Sane(w), NEW u \in Urbs, NEW e \in Made(w.hc), NEW j, j = Judge(w, e, u)
    PROVE  Still(j.w.hc, w.hc) /\ (j.keep => Type(e) = "control" /\ w.hc.pid[e] = "IN")
<1> DEFINE calm == ErrsAs(w, e, 0)
           struck == w.hc.errs[e] + 1
           hit == ErrsAs(w, e, struck)
           st == w.chip.res.st
           pid == w.hc.pid[e]
<1>1. /\ e \in Ep /\ pid \in Pids /\ st \in {"ack", "nak", "stall", "error"}
      /\ w \in Worlds
  BY DEF Sane, Worlds, Made, HcTypes, ChipTypes, Pids
<1>2. Still(calm.hc, w.hc) /\ calm \in Worlds
  <2>1. \A y : y = calm => Still(y.hc, w.hc) /\ Judged(y, w, u)
    BY <1>1, StillErrs, ErrsSet
  <2> HIDE DEF calm
  <2> QED
    BY <2>1 DEF Judged, Sane
<1>3. Still(hit.hc, w.hc)
  <2>1. \A y : y = hit => Still(y.hc, w.hc)
    <3> HIDE DEF struck
    <3> QED
      BY <1>1, StillErrs
  <2> HIDE DEF hit
  <2> QED
    BY <2>1
<1> HIDE DEF hit, calm
<1>4. /\ Still(AckedOut(calm, e, u).w.hc, w.hc) /\ ~AckedOut(calm, e, u).keep
      /\ Still(AckedIn(calm, e, u).w.hc, w.hc)
      /\ AckedIn(calm, e, u).keep => Type(e) = "control"
  BY <1>2, AckedOutStill, AckedInStill, StillTwice
<1>5. Still(AckedSetup(calm, e, u).w.hc, w.hc) /\ ~AckedSetup(calm, e, u).keep
  <2> DEFINE p == IF dev.urb[u].len = calm.core.actual[u] THEN "ACK"
                  ELSE IF dev.urb[u].in THEN "IN" ELSE "OUT"
             x == [calm EXCEPT !.hc.pid[e] = p]
  <2>1. AckedSetup(calm, e, u).w = x /\ ~AckedSetup(calm, e, u).keep
    BY DEF AckedSetup
  <2> HIDE DEF p
  <2>2. \A y : y = x => Still(y.hc, calm.hc)
    BY <1>2, StillPid
  <2> HIDE DEF x
  <2> QED
    BY <1>2, <2>1, <2>2, StillTwice
<1>6. CASE st = "nak"
  <2>1. j = [w |-> calm, verdict |-> "busy", keep |-> FALSE]
    BY <1>6 DEF Judge, ErrsAs, calm
  <2> QED
    BY <1>2, <2>1
<1>7. CASE st = "ack"
  <2>1. j = CASE pid = "OUT" -> AckedOut(calm, e, u)
              [] pid = "IN" -> AckedIn(calm, e, u)
              [] pid = "SETUP" -> AckedSetup(calm, e, u)
              [] pid = "ACK" -> [w |-> calm, verdict |-> "ok", keep |-> FALSE]
    BY <1>7 DEF Judge, ErrsAs, calm
  <2>2. CASE pid = "OUT"
    BY <1>4, <2>1, <2>2
  <2>3. CASE pid = "IN"
    BY <1>4, <2>1, <2>3
  <2>4. CASE pid = "SETUP"
    BY <1>5, <2>1, <2>4
  <2>5. CASE pid = "ACK"
    <3>1. j = [w |-> calm, verdict |-> "ok", keep |-> FALSE]
      BY <2>1, <2>5
    <3> QED
      BY <1>2, <3>1
  <2> QED
    BY <1>1, <2>2, <2>3, <2>4, <2>5 DEF Pids
<1>8. CASE st = "stall"
  <2>1. j = [w |-> calm, verdict |-> "stall", keep |-> FALSE]
    BY <1>8 DEF Judge, ErrsAs, calm
  <2> QED
    BY <1>2, <2>1
<1>9. CASE st = "error"
  <2>1. j = IF struck >= 3 THEN [w |-> calm, verdict |-> "error", keep |-> FALSE]
            ELSE [w |-> hit, verdict |-> "busy", keep |-> FALSE]
    BY <1>9 DEF Judge, ErrsAs, calm, hit
  <2>2. j.w \in {calm, hit} /\ ~j.keep
    BY <2>1
  <2> QED
    BY <1>2, <1>3, <2>2
<1> QED
  BY <1>1, <1>6, <1>7, <1>8, <1>9

(* The interrupt endpoint of the packet under way is in the frames.        *)
LEMMA ActiveInFrames ==
    ASSUME NEW w, NEW open \in SUBSET Urbs, Good(w, open), ~w.oops, TreeInv(w, open),
           Happens("overtake") \/ open = {}, NEW e, e = w.hc.active, e # None,
           w.core.q[e] # <<>>, Type(e) = "interrupt"
    PROVE  e \in Frames(w.hc)
<1>1. /\ w \in Worlds /\ KeptInv(w, open, {}) /\ e \in Ep /\ ListsInv(w.hc)
  BY DEF Good, Sane, MadeInv, Made
<1>2. CASE Happens("overtake")
  BY <1>2 DEF TreeInv, ActiveIn
<1>3. CASE ~Happens("overtake")
  <2>1. open = {} /\ \E x \in Urbs : OnList(w.core.q[e], x)
    BY <1>1, <1>3, QueueTypes
  <2>2. HasTaken(w.core, e, open)
    BY <2>1 DEF HasTaken
  <2>3. Scheduled(w.hc, e)
    BY <1>1, <2>2 DEF KeptInv, ServedInv, Sched
  <2> QED
    BY <1>1, <2>3 DEF Scheduled, ListsInv, Frames
<1> QED
  BY <1>2, <1>3

(* done() keeps the frames right; active_a no longer names an endpoint that*)
(* is in the frames if its last URB was given back.                        *)
LEMMA DoneTree ==
    ASSUME DevOK, NEW w, NEW open \in SUBSET Urbs, Good(w, open), ~w.oops,
           Happens("overtake") \/ open = {}, TreeInv(w, open),
           NEW y \in Done(w, w.hc.active), ~y.oops
    PROVE  Tree(y.hc) /\ (Happens("overtake") => LateIn(y.hc, y.core, open))
<1> DEFINE e == w.hc.active
           u == Head(w.core.q[e])
           j == Judge(w, e, u)
<1>1. /\ Sane(w) /\ w \in Worlds /\ w.core.calls = open /\ KeptInv(w, open, {})
      /\ e \in Made(w.hc) \union {None}
  BY DEF Good, Sane, MadeInv
<1>2. CASE e = None
  BY <1>2 DEF Done, TreeInv
<1>3. CASE e # None /\ w.core.q[e] = <<>>
  <2>1. y = [w EXCEPT !.oops = TRUE]
    BY SMTT(30), <1>3 DEF Done, Oops
  <2> QED
    BY <1>1, <2>1 DEF Worlds
<1>4. CASE e # None /\ w.core.q[e] # <<>>
  <2>1. e \in Made(w.hc) /\ e \in Ep
    BY <1>1, <1>4 DEF Made
  <2>2. u \in Urbs /\ OnList(w.core.q[e], u)
    BY <1>1, <1>4, <2>1, HeadIsUrb, QueueTypes
  <2>3. EpOf(u) = e
    BY SMTT(30), <1>1, <2>1, <2>2 DEF KeptInv, QueuesInv
  <2>4. Judged(j.w, w, u) /\ j.verdict \in Statuses
    BY SMTT(30), <1>1, <2>1, <2>2, JudgeFacts
  <2>5. Still(j.w.hc, w.hc) /\ (j.keep => Type(e) = "control")
    BY SMTT(30), <1>1, <2>1, <2>2, JudgeStill
  <2>6. y \in IF ~j.keep /\ (j.verdict # "busy" \/ j.w.core.status[u] # "busy")
              THEN FinishRequest(j.w, e, u, j.verdict)
              ELSE {j.w}
    BY <1>4 DEF Done
  <2> HIDE DEF j
  <2>7. /\ Sane(j.w) /\ KeptInv(j.w, open, {}) /\ j.w.core.calls = open /\ ~j.w.oops
    BY SMTT(30), <2>2, <2>4, JudgedKeeps
  <2>8. /\ j.w.core.closed = w.core.closed /\ j.w.core.q = w.core.q
        /\ Made(j.w.hc) = Made(w.hc) /\ j.w.hc.active = e /\ j.w.hc \in HcTypes
        /\ \A x \in Urbs : x # u => j.w.core.status[x] = w.core.status[x]
    BY <2>4, <2>7 DEF Judged, Sane, Worlds
  <2>9. Tree(j.w.hc) /\ Frames(j.w.hc) = Frames(w.hc)
    BY <2>5, <2>8, StillTree DEF TreeInv
  <2>10. TreeInv(j.w, open \ {u})
    <3>1. ASSUME Happens("overtake")
          PROVE  ActiveIn(j.w.hc, j.w.core) /\ LateIn(j.w.hc, j.w.core, open \ {u})
      <4>1. ActiveIn(w.hc, w.core) /\ LateIn(w.hc, w.core, open)
        BY <3>1 DEF TreeInv
      <4> HIDE DEF u
      <4>2. \A x \in open \ {u} : j.w.core.status[x] = w.core.status[x]
        BY <2>8
      <4>3. LateIn(j.w.hc, j.w.core, open \ {u})
        BY <2>8, <2>9, <4>1, <4>2 DEF LateIn
      <4> QED
        BY <2>8, <2>9, <4>1, <4>3 DEF ActiveIn
    <3> QED
      BY <2>9, <3>1 DEF TreeInv
  <2>11. CASE ~(~j.keep /\ (j.verdict # "busy" \/ j.w.core.status[u] # "busy"))
    <3>1. y = j.w
      BY <2>6, <2>11
    <3>2. ASSUME Happens("overtake") PROVE LateIn(j.w.hc, j.w.core, open)
      <4>1. LateIn(j.w.hc, j.w.core, open \ {u})
        BY <2>10, <3>2 DEF TreeInv
      <4> HIDE DEF u
      <4>2. j.w.core.status[u] # "busy" => Type(EpOf(u)) # "interrupt"
        BY <2>3, <2>5, <2>11
      <4> QED
        BY <4>1, <4>2 DEF LateIn
    <3> QED
      BY SMTT(30), <2>9, <3>1, <3>2
  <2>12. CASE ~j.keep /\ (j.verdict # "busy" \/ j.w.core.status[u] # "busy")
    <3>0. Type(e) = "interrupt" => e \in Frames(w.hc)
      BY SMTT(30), <1>4, ActiveInFrames
    <3>1. Queued(j.w.core, u) /\ Head(j.w.core.q[EpOf(u)]) = u
      BY <2>2, <2>3, <2>8 DEF Queued
    <3> HIDE DEF u, e
    <3>2. EpOf(u) \in Made(j.w.hc) /\ y \in FinishRequest(j.w, EpOf(u), u, j.verdict)
      BY <2>1, <2>3, <2>6, <2>8, <2>12
    <3>3. Type(EpOf(u)) = "interrupt" => EpOf(u) \in Frames(j.w.hc)
      BY <2>3, <2>9, <3>0
    <3> QED
      BY <2>2, <2>4, <2>7, <2>10, <2>12, <3>1, <3>2, <3>3, FinishTree
  <2> QED
    BY <2>11, <2>12
<1> QED
  BY <1>2, <1>3, <1>4

(* A world whose frames are those of another, ...                          *)
LEMMA StillTreeInv ==
    ASSUME DevOK, NEW w, NEW open \in SUBSET Urbs, TreeInv(w, open), NEW y, y.hc \in HcTypes,
           Still(y.hc, w.hc), y.hc.active \in {w.hc.active, None}, y.core = w.core
    PROVE  TreeInv(y, open)
<1>1. Tree(y.hc) /\ Frames(y.hc) = Frames(w.hc)
  BY StillTree DEF TreeInv
<1>2. ASSUME Happens("overtake") PROVE ActiveIn(y.hc, y.core) /\ LateIn(y.hc, y.core, open)
  <2>1. ActiveIn(w.hc, w.core) /\ LateIn(w.hc, w.core, open)
    BY <1>2 DEF TreeInv
  <2> QED
    BY <1>1, <2>1, TreeInvMoves
<1> QED
  BY <1>1, <1>2 DEF TreeInv

(* ... and where no packet is under way any more.                          *)
LEMMA IdleTreeInv ==
    ASSUME DevOK, NEW w, NEW open \in SUBSET Urbs, Tree(w.hc),
           Happens("overtake") => LateIn(w.hc, w.core, open), NEW y, y.hc \in HcTypes,
           Still(y.hc, w.hc), y.hc.active = None, y.core = w.core
    PROVE  TreeInv(y, open)
<1>1. Tree(y.hc) /\ Frames(y.hc) = Frames(w.hc)
  BY StillTree
<1>2. \A u \in open : EpOf(u) # None
  BY UrbEp, Sl811ScheduleAssumption
<1>3. ASSUME Happens("overtake") PROVE ActiveIn(y.hc, y.core) /\ LateIn(y.hc, y.core, open)
  <2>1. LateIn(w.hc, w.core, open)
    BY <1>3
  <2>2. LateIn(y.hc, y.core, open)
    BY <1>1, <1>2, <2>1 DEF LateIn
  <2> QED
    BY <2>2 DEF ActiveIn
<1> QED
  BY <1>1, <1>3 DEF TreeInv

(* Fewer URBs whose submission is under way.                               *)
LEMMA FewerOpen ==
    ASSUME NEW w, NEW open, TreeInv(w, open), NEW u
    PROVE  TreeInv(w, open \ {u})
BY DEF TreeInv, LateIn

(* The interrupt of a packet that ended leaves the frames right, ...       *)
LEMMA IrqDoneTree ==
    ASSUME DevOK, NEW w, NEW open \in SUBSET Urbs, Good(w, open), ~w.oops,
           Happens("overtake") \/ open = {}, TreeInv(w, open), NEW y \in IrqDone(w), ~y.oops
    PROVE  TreeInv(y, open)
<1>1. PICK x \in Done(w, w.hc.active) :
          y \in (IF x.oops THEN {x} ELSE {[x EXCEPT !.hc.active = None]})
  BY DEF IrqDone, Then
<1>2. DoneAs(x, w, open)
  BY <1>1, DoneKeeps
<1>3. ~x.oops /\ y = [x EXCEPT !.hc.active = None]
  BY <1>1
<1>4. x \in Worlds /\ x.hc \in HcTypes
  BY <1>2 DEF DoneAs, Sane, Worlds
<1>5. Tree(x.hc) /\ (Happens("overtake") => LateIn(x.hc, x.core, open))
  BY <1>1, <1>3, DoneTree
<1> DEFINE g == [x.hc EXCEPT !.active = None]
<1>6. g \in HcTypes /\ Still(g, x.hc) /\ g.active = None
  BY <1>4 DEF HcTypes, Still, SameTree, Pointer
<1>7. y = [x EXCEPT !.hc = g]
  BY <1>3
<1> HIDE DEF g
<1>8. y.hc = g /\ y.core = x.core
  BY <1>4, <1>7 DEF Worlds
<1> QED
  BY <1>5, <1>6, <1>8, IdleTreeInv

(* ... so does that of a new frame, ...                                    *)
LEMMA IrqSofTree ==
    ASSUME DevOK, NEW w, NEW open \in SUBSET Urbs, Good(w, open), TreeInv(w, open),
           NEW y, y = IrqSof(w)
    PROVE  TreeInv(y, open)
<1> DEFINE h == w.hc
           first == h.periodic[h.frame]
           f == (h.frame + 1) % (PeriodicSize - 1)
           n == IF first # None THEN first ELSE h.nextp
           g == [h EXCEPT !.frame = f, !.nextp = n]
<1>1. w \in Worlds /\ h \in HcTypes /\ MadeInv(h)
  BY DEF Good, Sane, Worlds
<1>2. PeriodicSize \in Nat /\ PeriodicSize >= 2
  BY Sl811ScheduleAssumption
<1>3. f \in 0 .. PeriodicSize - 2
  <2>1. h.frame \in Int
    BY <1>1, <1>2 DEF HcTypes
  <2> QED
    BY <1>2, <2>1
<1>4. h.frame \in Slots
  BY <1>1, <1>2 DEF HcTypes, Slots
<1>5. n = h.nextp \/ n \in Frames(h)
  BY <1>4, FirstInFrames DEF TreeInv
<1>6. n \in Pointer
  BY <1>1, <1>5 DEF HcTypes, Frames, Pointer
<1>7. y = [w EXCEPT !.hc = g]
  BY DEF IrqSof
<1> HIDE DEF f, n
<1>8. g \in HcTypes /\ SameTree(g, h) /\ g.active = h.active /\ g.nextp = n
  BY <1>1, <1>3, <1>6 DEF HcTypes, SameTree
<1> HIDE DEF g
<1>9. y.hc = g /\ y.core = w.core
  BY <1>1, <1>7 DEF Worlds
<1>10. Tree(g) /\ Frames(g) = Frames(h)
  BY <1>5, <1>8, TreeSame DEF TreeInv
<1>11. ASSUME Happens("overtake") PROVE ActiveIn(g, w.core) /\ LateIn(g, w.core, open)
  <2>1. ActiveIn(w.hc, w.core) /\ LateIn(w.hc, w.core, open)
    BY <1>11 DEF TreeInv
  <2> QED
    BY <1>8, <1>10, <2>1, TreeInvMoves
<1> QED
  BY <1>9, <1>10, <1>11 DEF TreeInv

(* ... that of a device that comes or goes, ...                            *)
LEMMA IrqInsRmvTree ==
    ASSUME DevOK, NEW w, NEW open \in SUBSET Urbs, Good(w, open), ~w.oops,
           Happens("plug") \/ w.hc.active = None,
           Happens("overtake") \/ open = {}, TreeInv(w, open), NEW y \in IrqInsRmv(w), ~y.oops
    PROVE  TreeInv(y, open)
<1> DEFINE e == w.hc.active
           u == Head(w.core.q[e])
           v == Quiet(w)
           z == Disarmed(v)
           To(x) == [x EXCEPT !.hc = [x.hc EXCEPT
                        !.active = None, !.port = @ \union {"C_CONNECTION", "CONNECTION"}]]
<1>1. /\ Sane(w) /\ w \in Worlds /\ w.hc \in HcTypes /\ w.core.calls = open
      /\ KeptInv(w, open, {}) /\ e \in Made(w.hc) \union {None}
  BY DEF Good, Sane, MadeInv, Worlds
<1>v. v = Quiet(w)
  OBVIOUS
<1>z. z = Disarmed(v)
  OBVIOUS
<1>0. y \in IF e = None THEN {To(v)}
            ELSE IF w.core.q[e] = <<>> THEN {[w EXCEPT !.oops = TRUE]}
            ELSE UNION {IF x.oops THEN {x} ELSE {To(x)} : x \in FinishRequest(z, e, u, "shutdown")}
  BY Zenon DEF IrqInsRmv, Then, Oops, Quiet, Disarmed
<1> HIDE DEF v, z
<1>t. ASSUME NEW x \in Worlds
      PROVE  /\ To(x).hc \in HcTypes /\ Still(To(x).hc, x.hc) /\ To(x).hc.active = None
             /\ To(x).core = x.core
  <2> DEFINE P == x.hc.port \union {"C_CONNECTION", "CONNECTION"}
             g == [x.hc EXCEPT !.active = None, !.port = P]
             t == To(x)
  <2>1. x.hc \in HcTypes
    BY <1>t DEF Worlds
  <2>2. P \in SUBSET Ports
    BY <2>1 DEF HcTypes, Ports, Changes
  <2>3. t = [x EXCEPT !.hc = g]
    OBVIOUS
  <2> HIDE DEF P
  <2>4. g \in HcTypes /\ Still(g, x.hc) /\ g.active = None
    BY <2>1, <2>2 DEF HcTypes, Still, SameTree, Pointer
  <2> HIDE DEF g, t
  <2>5. t.hc = g /\ t.core = x.core
    BY <1>t, <2>3 DEF Worlds
  <2>6. t = To(x)
    BY DEF t
  <2> HIDE DEF To
  <2> QED
    BY <2>4, <2>5, <2>6
<1> HIDE DEF To
<1>2. IF e = None THEN y = To(v)
      ELSE IF w.core.q[e] = <<>> THEN y = [w EXCEPT !.oops = TRUE]
      ELSE \E x \in FinishRequest(z, e, u, "shutdown") : y = IF x.oops THEN x ELSE To(x)
  BY <1>0
<1>3. v \in Worlds /\ v.hc \in HcTypes /\ Still(v.hc, w.hc) /\ v.hc.active = e /\ v.core = w.core
  <2> DEFINE g == [w.hc EXCEPT !.ctrl1 = {}, !.irqen = {"INSRMV"}]
  <2>1. g \in HcTypes /\ Still(g, w.hc) /\ g.active = w.hc.active
    BY <1>1 DEF HcTypes, Interrupts, Still, SameTree
  <2>2. v = [w EXCEPT !.hc = g]
    BY <1>v DEF Quiet
  <2> HIDE DEF g
  <2> QED
    BY <1>1, <2>1, <2>2 DEF Worlds
<1>4. TreeInv(v, open)
  BY <1>3, StillTreeInv
<1>5. CASE e = None
  <2>1. y = To(v)
    BY <1>2, <1>5
  <2>2. y.hc \in HcTypes /\ Still(y.hc, v.hc) /\ y.hc.active = None /\ y.core = v.core
    BY <1>3, <1>t, <2>1
  <2> QED
    BY <1>4, <2>2, StillTreeInv
<1>6. CASE e # None /\ w.core.q[e] = <<>>
  <2>1. y = [w EXCEPT !.oops = TRUE]
    BY <1>2, <1>6
  <2> QED
    BY <1>1, <2>1 DEF Worlds
<1>7. CASE e # None /\ w.core.q[e] # <<>>
  <2>1. PICK x \in FinishRequest(z, e, u, "shutdown") : y = IF x.oops THEN x ELSE To(x)
    BY <1>2, <1>7
  <2>2. e \in Made(w.hc) /\ e \in Ep
    BY <1>1, <1>7 DEF Made
  <2>3. u \in Urbs /\ OnList(w.core.q[e], u)
    BY <1>1, <1>7, <2>2, HeadIsUrb, QueueTypes
  <2>4. EpOf(u) = e
    BY <1>1, <2>2, <2>3 DEF KeptInv, QueuesInv
  <2>5. Happens("plug")
    BY <1>7
  <2>6. Type(e) = "interrupt" => e \in Frames(w.hc)
    BY <1>7, ActiveInFrames
  <2>7. Good(v, open) /\ SameBut(v, w)
    BY <1>v, <2>5, QuietPlug
  <2>8. TokInv(v.chip) /\ ~v.oops
    BY <2>7 DEF Good, Sane, SameBut
  <2>9. /\ z \in Worlds /\ z.hc = v.hc /\ z.core = v.core /\ z.oops = v.oops /\ TokInv(z.chip)
    BY <1>3, <1>z, <2>8, DisarmedFacts
  <2>10. Good(z, open)
    <3>1. /\ Sane(v) /\ v.core.calls = open /\ KeptInv(v, open, {}) /\ ~v.oops
          /\ ActiveInv(v.hc, v.core, open)
      BY <2>7, <2>8 DEF Good
    <3>2. SameLists(z.hc, v.hc)
      BY <2>9 DEF SameLists
    <3> QED
      BY <2>5, <2>9, <3>1, <3>2, PlugStays
  <2>11. /\ Sane(z) /\ ~z.oops /\ KeptInv(z, open, {}) /\ z.core.calls = open
    BY <2>8, <2>9, <2>10 DEF Good
  <2>12. Made(v.hc) = Made(w.hc) /\ Frames(v.hc) = Frames(w.hc)
    <3>1. SameLists(v.hc, w.hc)
      BY <1>v, <2>5, QuietPlug
    <3>2. Frames(v.hc) = Frames(w.hc)
      BY <1>3, SameFrames DEF Still, SameTree
    <3> QED
      BY <3>1, <3>2 DEF SameLists, Made
  <2>13. TreeInv(z, open \ {u})
    <3>1. TreeInv(z, open)
      BY <1>4, <2>9 DEF TreeInv
    <3> QED
      BY <3>1, FewerOpen
  <2>14. Head(z.core.q[EpOf(u)]) = u
    BY <1>3, <2>4, <2>9
  <2> HIDE DEF u, e
  <2>15. EpOf(u) \in Made(z.hc) /\ Queued(z.core, u) /\ (Type(EpOf(u)) = "interrupt" => EpOf(u) \in Frames(z.hc))
    BY <1>3, <2>2, <2>3, <2>4, <2>6, <2>9, <2>12 DEF Queued
  <2>16. "shutdown" \in Statuses /\ "shutdown" # "busy"
    BY DEF Statuses
  <2>17. x \in FinishRequest(z, EpOf(u), u, "shutdown")
    BY <2>1, <2>4
  <2>18. ~x.oops /\ y = To(x)
    BY <2>1
  <2>19. Tree(x.hc) /\ (Happens("overtake") => LateIn(x.hc, x.core, open))
    BY <2>3, <2>11, <2>13, <2>14, <2>15, <2>16, <2>17, <2>18, FinishTree
  <2>20. x \in Worlds
    <3>1. Finishing(x, z, u, open)
      BY <2>3, <2>11, <2>15, <2>16, <2>17, FinishKeeps
    <3> QED
      BY <3>1 DEF Finishing, Sane
  <2>21. y.hc \in HcTypes /\ Still(y.hc, x.hc) /\ y.hc.active = None /\ y.core = x.core
    BY <1>t, <2>18, <2>20
  <2> QED
    BY <2>19, <2>21, IdleTreeInv
<1> QED
  BY <1>5, <1>6, <1>7

(* ... that of a resume signal, ...                                        *)
LEMMA IrqWakeupTree ==
    ASSUME DevOK, NEW w, NEW open \in SUBSET Urbs, Good(w, open), TreeInv(w, open),
           NEW y, y = IrqWakeup(w)
    PROVE  TreeInv(y, open)
<1>1. CASE "SUSPEND" \notin w.hc.port
  BY <1>1 DEF IrqWakeup
<1>2. CASE "SUSPEND" \in w.hc.port
  <2> DEFINE P == w.hc.port \union {"C_SUSPEND"}
             g == [w.hc EXCEPT !.port = P]
  <2>1. w \in Worlds /\ w.hc \in HcTypes
    BY DEF Good, Sane, Worlds
  <2>2. y = [w EXCEPT !.hc = g]
    BY <1>2 DEF IrqWakeup
  <2>3. P \in SUBSET Ports
    BY <2>1 DEF HcTypes, Ports, Changes
  <2> HIDE DEF P
  <2>4. g \in HcTypes /\ Still(g, w.hc) /\ g.active = w.hc.active
    BY <2>1, <2>3 DEF HcTypes, Still, SameTree
  <2> HIDE DEF g
  <2>5. y.hc = g /\ y.core = w.core
    BY <2>1, <2>2 DEF Worlds
  <2> QED
    BY <2>4, <2>5, StillTreeInv
<1> QED
  BY <1>1, <1>2

(* ... and the handler's leave.                                            *)
LEMMA IrqExitTree ==
    ASSUME DevOK, NEW w, NEW open \in SUBSET Urbs, Good(w, open), TreeInv(w, open),
           NEW y \in IrqExit(w)
    PROVE  TreeInv(y, open)
<1> DEFINE Q == IF w.hc.count = 0 /\ w.hc.async = <<>> THEN w.hc.irqen \ {"SOFINTR"} ELSE w.hc.irqen
           pd == IF w.chip.pend \cap w.hc.irqen = {} THEN {} ELSE w.chip.pend
           g == [w.hc EXCEPT !.irqen = Q]
           k == [w.chip EXCEPT !.pend = pd]
<1>1. w \in Worlds /\ w.hc \in HcTypes
  BY DEF Good, Sane, Worlds
<1>2. y = [w EXCEPT !.hc = g, !.chip = k]
  <2> DEFINE off == IF w.hc.count = 0 /\ w.hc.async = <<>>
                    THEN [w EXCEPT !.hc.irqen = @ \ {"SOFINTR"}] ELSE w
  <2>1. off = [w EXCEPT !.hc = g]
    BY <1>1 DEF Worlds, HcTypes
  <2>2. y = [off EXCEPT !.chip.pend = IF @ \cap w.hc.irqen = {} THEN {} ELSE @]
    BY DEF IrqExit
  <2> HIDE DEF off, g
  <2>3. off.chip = w.chip
    BY <1>1, <2>1 DEF Worlds
  <2>4. y = [off EXCEPT !.chip = k]
    BY <2>2, <2>3
  <2> HIDE DEF k
  <2> QED
    BY <2>1, <2>4
<1>3. Q \in SUBSET Interrupts
  BY <1>1 DEF HcTypes
<1> HIDE DEF Q, pd
<1>4. g \in HcTypes /\ Still(g, w.hc) /\ g.active = w.hc.active
  BY <1>1, <1>3 DEF HcTypes, Still, SameTree
<1> HIDE DEF g, k
<1>5. y.hc = g /\ y.core = w.core
  BY <1>1, <1>2 DEF Worlds
<1> QED
  BY <1>4, <1>5, StillTreeInv

(* The world a handler left is good, and unless it used what is gone the   *)
(* frames are right.                                                       *)
LeftSound(w, open) == Good(w, open) /\ (~w.oops => TreeInv(w, open))

(* One pass of sl811h_irq leaves the frames right.                         *)
LEMMA IrqPassTree ==
    ASSUME DevOK, NEW w, NEW open \in SUBSET Urbs, Good(w, open), ~w.oops,
           Happens("overtake") \/ open = {}, NEW irqstat, TreeInv(w, open),
           ~Happens("plug") /\ "INSRMV" \in irqstat
                => /\ w.chip.tok.pid = "none" /\ w.chip.attached /\ ~w.hc.timer
                   /\ w.chip.pend = {} /\ "DONE_A" \notin irqstat,
           NEW y \in IrqPass(w, irqstat)
    PROVE  LeftSound(y, open)
<1> DEFINE a(x) == IF "DONE_A" \in irqstat THEN IrqDone(x) ELSE {x}
           b(x) == {IF "SOFINTR" \in irqstat THEN IrqSof(x) ELSE x}
           c(x) == IF "INSRMV" \in irqstat THEN IrqInsRmv(x)
                   ELSE {IF "RD" \in irqstat THEN IrqWakeup(x) ELSE x}
           taken(x) == irqstat \ (IF "INSRMV" \notin irqstat /\ "SUSPEND" \notin x.hc.port
                                  THEN {"RD"} ELSE {})
           s(x) == IF taken(x) # {} /\ "ENABLE" \in x.hc.port THEN StartTransfer(x) ELSE {x}
           A == UNION {IF x.oops THEN {x} ELSE a(x) : x \in {w}}
           B == UNION {IF x.oops THEN {x} ELSE b(x) : x \in A}
           C == UNION {IF x.oops THEN {x} ELSE c(x) : x \in B}
           S == UNION {IF x.oops THEN {x} ELSE s(x) : x \in C}
<1>1. y \in UNION {IF x.oops THEN {x} ELSE IrqExit(x) : x \in S}
  BY Zenon DEF IrqPass, Then
<1> HIDE DEF S
<1>2. PICK x4 \in S : y \in IF x4.oops THEN {x4} ELSE IrqExit(x4)
  BY <1>1
<1> HIDE DEF C, s
<1>3. PICK x3 \in C : x4 \in IF x3.oops THEN {x3} ELSE s(x3)
  BY <1>2 DEF S
<1> HIDE DEF B, c
<1>4. PICK x2 \in B : x3 \in IF x2.oops THEN {x2} ELSE c(x2)
  BY <1>3 DEF C
<1> HIDE DEF A, b
<1>5. PICK x1 \in A : x2 \in IF x1.oops THEN {x1} ELSE b(x1)
  BY <1>4 DEF B
<1> HIDE DEF a
<1>6. x1 \in a(w)
  BY <1>5 DEF A
<1>start. ASSUME LeftSound(x3, open) PROVE LeftSound(y, open)
  <2>1. LeftSound(x4, open)
    <3>1. CASE x3.oops
      BY <1>3, <1>start, <3>1
    <3>2. CASE ~x3.oops /\ x4 = x3
      BY <1>start, <3>2
    <3>3. CASE ~x3.oops /\ x4 \in StartTransfer(x3)
      <4>1. Good(x3, open) /\ TreeInv(x3, open) /\ Sane(x3)
        BY <1>start, <3>3 DEF LeftSound, Good
      <4>2. Good(x4, open)
        BY <3>3, <4>1, StartGood
      <4>3. TreeInv(x4, open)
        BY <3>3, <4>1, StartTreeInv
      <4> QED
        BY <4>2, <4>3 DEF LeftSound
    <3> QED
      BY <1>3, <3>1, <3>2, <3>3 DEF s
  <2>2. CASE x4.oops
    BY <1>2, <2>1, <2>2
  <2>3. CASE ~x4.oops
    <3>1. y \in IrqExit(x4) /\ Good(x4, open) /\ TreeInv(x4, open)
      BY <1>2, <2>1, <2>3 DEF LeftSound
    <3> QED
      BY <2>3, <3>1, IrqExitGood, IrqExitTree DEF LeftSound
  <2> QED
    BY <2>2, <2>3
<1>Idle. CASE ~Happens("plug") /\ "INSRMV" \in irqstat
  <2>1. x1 = w
    BY <1>6, <1>Idle DEF a
  <2>2. x2 = w \/ x2 = IrqSof(w)
    BY <1>5, <2>1 DEF b
  <2>3. /\ Good(x2, open) /\ ~x2.oops /\ x2.chip = w.chip /\ x2.hc.timer = w.hc.timer
        /\ x2.hc.active = w.hc.active
    BY <2>2, IrqSofGood DEF SameBut, SamePort
  <2>4. x3 \in IrqInsRmv(x2)
    BY <1>4, <1>Idle, <2>3 DEF c
  <2>5. Good(x3, open)
    BY <1>Idle, <2>3, <2>4, InsRmvIdle
  <2>6. TreeInv(x2, open)
    BY <2>2, IrqSofTree
  <2>7. w.hc.active = None
    BY <1>Idle DEF Good, KeptInv, PortInv, Idle
  <2>8. LeftSound(x3, open)
    BY <2>3, <2>4, <2>5, <2>6, <2>7, IrqInsRmvTree DEF LeftSound
  <2> QED
    BY <1>start, <2>8
<1>Other. CASE Happens("plug") \/ "INSRMV" \notin irqstat
  <2>1. LeftSound(x1, open)
    <3>1. x1 = w \/ x1 \in IrqDone(w)
      BY <1>6 DEF a
    <3> QED
      BY <3>1, IrqDoneGood, IrqDoneTree DEF LeftSound
  <2>2. LeftSound(x2, open)
    <3>1. x2 = x1 \/ (x2 = IrqSof(x1) /\ ~x1.oops)
      BY <1>5 DEF b
    <3>2. CASE x2 = IrqSof(x1) /\ ~x1.oops
      <4>1. Good(x1, open) /\ TreeInv(x1, open)
        BY <2>1, <3>2 DEF LeftSound
      <4> QED
        BY <3>2, <4>1, IrqSofGood, IrqSofTree DEF LeftSound
    <3> QED
      BY <2>1, <3>1, <3>2
  <2>3. LeftSound(x3, open)
    <3>1. CASE x2.oops
      BY <1>4, <2>2, <3>1
    <3>2. CASE ~x2.oops /\ "INSRMV" \in irqstat
      <4>1. x3 \in IrqInsRmv(x2) /\ Good(x2, open) /\ TreeInv(x2, open) /\ Happens("plug")
        BY <1>4, <1>Other, <2>2, <3>2 DEF c, LeftSound
      <4> QED
        BY <3>2, <4>1, IrqInsRmvPlug, IrqInsRmvTree DEF LeftSound
    <3>3. CASE ~x2.oops /\ "INSRMV" \notin irqstat
      <4>1. (x3 = IrqWakeup(x2) \/ x3 = x2) /\ Good(x2, open) /\ TreeInv(x2, open)
        BY <1>4, <2>2, <3>3 DEF c, LeftSound
      <4> QED
        BY <3>3, <4>1, IrqWakeupGood, IrqWakeupTree DEF LeftSound
    <3> QED
      BY <3>1, <3>2, <3>3
  <2> QED
    BY <1>start, <2>3
<1> QED
  BY <1>Idle, <1>Other

(* checkdone and the reading of the status leave the driver alone.         *)
LEMMA SameHcTree ==
    ASSUME DevOK, NEW w, NEW open \in SUBSET Urbs, TreeInv(w, open), w.hc \in HcTypes,
           NEW y, y.hc = w.hc, y.core = w.core
    PROVE  TreeInv(y, open)
<1>1. Still(y.hc, w.hc)
  BY DEF Still, SameTree
<1> QED
  BY <1>1, StillTreeInv

LEMMA CheckDoneSame ==
    ASSUME NEW w \in Worlds, NEW y, y = CheckDone(w)
    PROVE  y.hc = w.hc /\ y.core = w.core
<1> DEFINE r == IF w.chip.armed THEN [st |-> "error", n |-> 0] ELSE w.chip.res
           k == [w.chip EXCEPT !.armed = FALSE, !.res = r]
<1>1. y = w \/ y = [w EXCEPT !.chip = k]
  BY DEF CheckDone, Worlds, ChipTypes
<1> HIDE DEF k
<1> QED
  BY <1>1 DEF Worlds

(* sl811h_irq leaves the frames right.                                     *)
LEMMA IrqTree ==
    ASSUME DevOK, Good(World, core.calls), ~oops, TreeInv(World, core.calls),
           Happens("overtake") \/ core.calls = {}, Irq
    PROVE  \E y : Becomes(y) /\ LeftSound(y, core.calls)
<1> DEFINE irqstat == chip.pend \cap hc.irqen
           read == Read(World)
           overdue == hc.active # None /\ hc.late
           open == core.calls
<1>1. PICK y \in IF irqstat # {} THEN IrqPass(read, irqstat)
                 ELSE UNION {IrqPass(CheckDone(x), IF overdue THEN {"DONE_A"} ELSE {}) :
                                 x \in Slips(read)} :
          Becomes(y)
  BY DEF Irq, Read
<1>2. /\ World.hc = hc /\ World.core = core /\ World.chip = chip /\ World.oops = oops
      /\ hc \in HcTypes
  BY WorldFacts
<1>3. open \in SUBSET Urbs /\ World.core.calls = open
  BY <1>2 DEF Good, Sane, Worlds, CoreTypes
<1>4. /\ Good(read, open) /\ ~read.oops /\ read.hc = hc /\ read.core = core
      /\ read.chip.pend = {} /\ read.chip.tok = chip.tok /\ read.chip.attached = chip.attached
      /\ read.bus = bus
  <2>1. read.bus = World.bus /\ World.bus = bus
    BY DEF Read, World
  <2> QED
    BY <1>2, <2>1, ReadGood
<1>r. TreeInv(read, open) /\ read \in Worlds /\ read.hc \in HcTypes
  <2>1. TreeInv(World, open)
    OBVIOUS
  <2>2. read \in Worlds
    BY <1>4 DEF Good, Sane
  <2> HIDE DEF read, open
  <2> QED
    BY <1>2, <1>3, <1>4, <2>1, <2>2, SameHcTree
<1>5. ~Happens("plug") /\ "INSRMV" \in irqstat
        => chip.tok.pid = "none" /\ chip.attached /\ ~hc.timer /\ "DONE_A" \notin irqstat
  <2>1. PortInv(hc, core, chip)
    BY <1>2 DEF Good, KeptInv
  <2> QED
    BY <2>1 DEF PortInv, Idle, Live
<1> HIDE DEF irqstat, read, open, overdue
<1>6. CASE irqstat # {}
  <2>1. y \in IrqPass(read, irqstat)
    BY <1>1, <1>6
  <2>2. LeftSound(y, open)
    BY <1>3, <1>4, <1>5, <1>r, <2>1, IrqPassTree DEF open
  <2> QED
    BY <1>1, <2>2 DEF open
<1>7. CASE irqstat = {}
  <2> DEFINE st == IF overdue THEN {"DONE_A"} ELSE {}
  <2>p. PICK x \in Slips(read) : y \in IrqPass(CheckDone(x), st)
    BY <1>1, <1>7
  <2>x. Good(x, open) /\ ~x.oops /\ x.hc = read.hc /\ x.core = read.core
    BY <1>4, <2>p, SlipsGood
  <2> DEFINE z == CheckDone(x)
  <2>1. y \in IrqPass(z, st) /\ "INSRMV" \notin st
    BY <2>p
  <2>z. z = CheckDone(x)
    OBVIOUS
  <2> HIDE DEF z, st
  <2>2. Good(z, open) /\ ~z.oops
    BY <2>x, <2>z, CheckDoneGood
  <2>3. z.hc = read.hc /\ z.core = read.core
    <3>1. x \in Worlds
      BY <2>x DEF Good, Sane
    <3> QED
      BY <2>x, <2>z, <3>1, CheckDoneSame
  <2>4. TreeInv(z, open)
    BY <1>3, <1>r, <2>3, SameHcTree
  <2>5. LeftSound(y, open)
    BY <1>3, <2>1, <2>2, <2>4, IrqPassTree DEF open
  <2> QED
    BY <1>1, <2>5 DEF open
<1> QED
  BY <1>6, <1>7

(* The steps that leave the schedules alone: the timer, ...                *)
LEMMA TimerStill ==
    ASSUME hc \in HcTypes, Timer
    PROVE  Still(hc', hc) /\ hc'.active = hc.active /\ core' = core /\ dev' = dev
<1> DEFINE off == [hc EXCEPT !.timer = FALSE]
<1>1. PICK P, I, D : hc' = [off EXCEPT !.port = P, !.irqen = I, !.ctrl1 = D]
  BY DEF Timer, Becomes, World
<1>2. core' = core /\ dev' = dev
  BY DEF Timer, Becomes, World
<1> QED
  BY <1>1, <1>2 DEF HcTypes, Still, SameTree

(* ... the hub driver ...                                                  *)
LEMMA HubDriverStill ==
    ASSUME hc \in HcTypes, HubDriver
    PROVE  Still(hc', hc) /\ hc'.active = hc.active /\ core' = core /\ dev' = dev
<1> DEFINE Goal == Still(hc', hc) /\ hc'.active = hc.active /\ core' = core /\ dev' = dev
<1>1. \/ ClearPortChange \/ SetPortReset \/ ClearPortEnable \/ SetPortSuspend
      \/ ClearPortSuspend \/ Resume \/ \E on \in BOOLEAN : SetPortPower(on)
  BY DEF HubDriver
<1>2. CASE ClearPortChange
  BY <1>2 DEF ClearPortChange, Hub, HcTypes, Still, SameTree
<1>3. CASE SetPortReset
  BY <1>3 DEF SetPortReset, Hub, HcTypes, Still, SameTree
<1>4. CASE ClearPortEnable
  BY <1>4 DEF ClearPortEnable, Hub, HcTypes, Still, SameTree
<1>5. CASE SetPortSuspend
  BY <1>5 DEF SetPortSuspend, Hub, HcTypes, Still, SameTree
<1>6. CASE ClearPortSuspend
  BY <1>6 DEF ClearPortSuspend, Hub, HcTypes, Still, SameTree
<1>7. CASE Resume
  BY <1>7 DEF Resume, Powered, PortPower, HcTypes, Still, SameTree
<1>8. CASE \E on \in BOOLEAN : SetPortPower(on)
  BY <1>8 DEF SetPortPower, Powered, PortPower, HcTypes, Still, SameTree
<1> QED
  BY <1>1, <1>2, <1>3, <1>4, <1>5, <1>6, <1>7, <1>8

(* ... and the chip.                                                       *)
LEMMA ChipStill ==
    ASSUME hc \in HcTypes, Chip
    PROVE  Still(hc', hc) /\ hc'.active = hc.active /\ core' = core /\ dev' = dev
<1>1. (hc' = hc \/ hc' = [hc EXCEPT !.late = TRUE]) /\ core' = core /\ dev' = dev
  <2>1. CASE Answer
    BY <2>1, AnsweredIs DEF Answer
  <2>2. CASE Chip /\ ~Answer
    BY <2>2 DEF Chip, Kicked, Frame, RemoteWakeup, Plug, LoseDone, Overdue, Pends
  <2> QED
    BY <2>1, <2>2
<1> QED
  BY <1>1 DEF HcTypes, Still, SameTree

(* What is said of the frames is about the device, which stays the same.   *)
LEMMA TreeDeviceStays ==
    ASSUME dev' = dev, NEW y, NEW open, TreeInv(y, open)
    PROVE  TreeInv(y, open)'
<1>1. \A u : EpOf(u)' = EpOf(u)
  BY DEF EpOf
<1>2. \A e : Type(e)' = Type(e)
  BY DEF Type
<1>3. \A event : Happens(event)' <=> Happens(event)
  BY DEF Happens
<1>4. \A e : Period(e)' = Period(e)
  BY DEF Period
<1>5. \A c : Reserved(c)' = Reserved(c)
  BY DEF Reserved
<1>6. \A h, i : Due(h, i)' = Due(h, i)
  BY <1>4 DEF Due
<1>7. \A c : SlowFirst(c)' <=> SlowFirst(c)
  BY <1>4 DEF SlowFirst
<1>8. \A h, i, c : Sound(h, i, c)' <=> Sound(h, i, c)
  BY <1>5, <1>6, <1>7 DEF Sound
<1>9. Tree(y.hc)' <=> Tree(y.hc)
  BY <1>2, <1>4, <1>8 DEF Tree, Placed
<1>10. ActiveIn(y.hc, y.core)' <=> ActiveIn(y.hc, y.core)
  BY <1>2 DEF ActiveIn
<1>11. LateIn(y.hc, y.core, open)' <=> LateIn(y.hc, y.core, open)
  BY <1>1, <1>2 DEF LateIn
<1> QED
  BY <1>3, <1>9, <1>10, <1>11 DEF TreeInv

(* The next world is one whose frames are right.                           *)
LEMMA TreeNext ==
    ASSUME NEW y \in Worlds, Becomes(y), NEW open, y.core.calls = open, ~y.oops => TreeInv(y, open)
    PROVE  ~oops' => TreeInv(World, core.calls)'
<1>1. World' = y /\ dev' = dev /\ core'.calls = open /\ oops' = y.oops
  BY BecomesWorld DEF Becomes
<1>2. ASSUME ~oops' PROVE TreeInv(y, open)'
  BY <1>1, <1>2, TreeDeviceStays
<1> QED
  BY <1>1, <1>2

(* A step that leaves the schedules alone.                                 *)
LEMMA QuietTree ==
    ASSUME DevOK, Good(World, core.calls), ~oops, TreeInv(World, core.calls),
           NEW y, Becomes(y), Good(y, core.calls), Still(hc', hc), hc'.active = hc.active, core' = core
    PROVE  ~oops' => TreeInv(World, core.calls)'
<1> DEFINE open == core.calls
           w == World
<1>1. w.hc = hc /\ w.core = core /\ open \in SUBSET Urbs
  BY WorldFacts
<1>2. y \in Worlds /\ y.core.calls = open /\ y.hc \in HcTypes
  BY DEF Good, Sane, Worlds
<1>3. y.hc = hc' /\ y.core = core'
  BY DEF Becomes
<1>4. TreeInv(w, open) /\ Becomes(y)
  OBVIOUS
<1>5. Still(y.hc, w.hc) /\ y.hc.active = w.hc.active /\ y.core = w.core
  BY <1>1, <1>3
<1> HIDE DEF open, w
<1>6. TreeInv(y, open)
  BY <1>1, <1>2, <1>4, <1>5, StillTreeInv
<1> QED
  BY <1>2, <1>4, <1>6, TreeNext

(* The first half of usb_submit_urb leaves the frames right, ...           *)
LEMMA SubmitTree ==
    ASSUME DevOK, Good(World, core.calls), ~oops, TreeInv(World, core.calls),
           NEW u \in Urbs, Submit(u)
    PROVE  ~oops' => TreeInv(World, core.calls)'
<1> DEFINE z == Link(World, u)
           one == {u}
           none == {}
           y == Calling(z, one)
           w == World
<1>1. /\ ~Queued(core, u) /\ core.calls = {} /\ EpOf(u) \notin core.closed /\ Becomes(y)
  BY DEF Submit, Calling
<1>2. /\ w.hc = hc /\ w.core = core /\ w \in Worlds /\ Sane(w)
  BY WorldFacts
<1>z. z = Link(w, u)
  OBVIOUS
<1>y. y = Calling(z, one)
  OBVIOUS
<1>n. none \in SUBSET Urbs /\ none = core.calls /\ one \in SUBSET Urbs /\ TreeInv(w, none)
  BY <1>1
<1>o. \A x : x \in one <=> x = u
  OBVIOUS
<1> HIDE DEF y, z, none, one, w
<1>3. TreeInv(z, none)
  BY <1>1, <1>2, <1>n, <1>z, LinkTreeInv
<1>4. Sane(z) /\ z \in Worlds /\ z.core.status[u] = "busy"
  BY <1>2, <1>z, LinkFacts DEF Sane
<1>5. /\ y \in Worlds /\ y.hc = z.hc /\ y.core.q = z.core.q /\ y.core.status = z.core.status
      /\ y.core.closed = z.core.closed /\ y.core.calls = one
  BY <1>4, <1>n, <1>y DEF Calling, Worlds, CoreTypes
<1>6. TreeInv(y, one)
  <2>1. Tree(y.hc)
    BY <1>3, <1>5 DEF TreeInv
  <2>2. Happens("overtake") => ActiveIn(y.hc, y.core)
    BY <1>3, <1>5 DEF TreeInv, ActiveIn
  <2>3. LateIn(y.hc, y.core, one)
    BY <1>4, <1>5, <1>o DEF LateIn
  <2> QED
    BY <2>1, <2>2, <2>3 DEF TreeInv
<1> QED
  BY <1>1, <1>5, <1>6, TreeNext

(* ... and so does the second half.                                        *)
LEMMA LinkedTree ==
    ASSUME DevOK, NEW w, Sane(w), ~w.oops, NEW none, none = {}, NEW u \in Urbs,
           KeptInv(w, none \union {u}, {}), w.core.calls = {}, TreeInv(w, none \union {u}),
           NEW y \in EnqueueLinked(w, u), ~y.oops
    PROVE  TreeInv(y, none)
<1>n. none \in SUBSET Urbs /\ u \notin none /\ (Happens("overtake") \/ none = {})
      /\ none \ {u} = none
  OBVIOUS
<1>q. Queued(w.core, u) \/ (Happens("overtake") /\ w.core.status[u] # "busy")
  BY DEF KeptInv, OpenInv
<1>t. TreeInv(w, none)
  BY DEF TreeInv, LateIn
<1>l. \A h, c : LateIn(h, c, none)
  BY DEF LateIn
<1>w. w \in Worlds /\ EpOf(u) \in Ep /\ QueuesInv(w.core)
  BY UrbEp DEF Sane, KeptInv
<1>1. CASE Accept(w, u) = {}
  <2>1. y = Reject(w, u)
    BY <1>1 DEF EnqueueLinked, Enqueue
  <2>2. Rejected(y, w, u, none, {})
    BY <1>1, <1>n, <2>1, RejectKeeps
  <2>3. Tree(y.hc) /\ Frames(y.hc) = Frames(w.hc)
    BY <1>t, <2>1, RejectTree DEF TreeInv
  <2>4. ASSUME Happens("overtake") PROVE ActiveIn(y.hc, y.core)
    <3>1. ActiveIn(w.hc, w.core)
      BY <1>t, <2>4 DEF TreeInv
    <3>2. /\ y.hc.active = w.hc.active /\ y.core.closed = w.core.closed /\ y \in Worlds
          /\ y.core.q[EpOf(u)] = Without(w.core.q[EpOf(u)], u)
          /\ \A e \in Ep : e # EpOf(u) => y.core.q[e] = w.core.q[e]
      BY <2>2 DEF Rejected, Sane
    <3>3. w.core.q[EpOf(u)] = <<>> => y.core.q[EpOf(u)] = <<>>
      <4>1. \A s : s = Without(w.core.q[EpOf(u)], u)
                => \A x : OnList(s, x) <=> OnList(w.core.q[EpOf(u)], x) /\ x # u
        BY <1>w, WithoutInQueue
      <4>2. \A x : OnList(y.core.q[EpOf(u)], x) => OnList(w.core.q[EpOf(u)], x)
        BY <3>2, <4>1
      <4>3. /\ w.core.q[EpOf(u)] # <<>> <=> \E x \in Urbs : OnList(w.core.q[EpOf(u)], x)
            /\ y.core.q[EpOf(u)] # <<>> <=> \E x \in Urbs : OnList(y.core.q[EpOf(u)], x)
        BY <1>w, <3>2, QueueTypes
      <4> QED
        BY <4>2, <4>3
    <3>4. w.hc.active # None => w.hc.active \in Ep
      BY <1>w DEF Worlds, HcTypes, Pointer
    <3> QED
      BY <2>3, <3>1, <3>2, <3>3, <3>4 DEF ActiveIn
  <2> QED
    BY <1>l, <2>3, <2>4 DEF TreeInv
<1>2. CASE w.core.status[u] = "busy" /\ Accept(w, u) # {}
  <2>1. y \in UNION {IF x.oops THEN {x} ELSE StartTransfer(x) : x \in Accept(w, u)}
        /\ Queued(w.core, u)
    BY <1>2, <1>q, Zenon DEF EnqueueLinked, Enqueue, Then
  <2>2. PICK x \in Accept(w, u) : y \in IF x.oops THEN {x} ELSE StartTransfer(x)
    BY <2>1
  <2>3. TreeInv(x, none) /\ Sane(x) /\ SameBut(x, w)
    BY <1>n, <1>t, <2>1, <2>2, AcceptTreeInv
  <2>4. y \in StartTransfer(x)
    BY <2>2, <2>3 DEF SameBut
  <2> QED
    BY <1>n, <2>3, <2>4, StartTreeInv
<1>3. CASE Accept(w, u) # {} /\ w.core.status[u] # "busy"
  <2>1. y \in UNION {IF x.oops THEN {x} ELSE FinishRequest(x, EpOf(u), u, "ok") : x \in Accept(w, u)}
    BY <1>3, Zenon DEF EnqueueLinked, Then
  <2>2. PICK x \in Accept(w, u) : y \in IF x.oops THEN {x} ELSE FinishRequest(x, EpOf(u), u, "ok")
    BY <2>1
  <2>3. Sane(x) /\ SameBut(x, w) /\ EpOf(u) \in Made(x.hc)
    BY <2>2, AcceptSane
  <2>4. y \in FinishRequest(x, EpOf(u), u, "ok") /\ ~x.oops /\ x.core = w.core
    BY <2>2, <2>3 DEF SameBut
  <2>5. Queued(w.core, u)
    BY <2>3, <2>4, AbsentGivenBack
  <2>6. KeptInv(x, none, {}) /\ x.hc.active = w.hc.active
    BY <1>n, <2>2, <2>5, AcceptKeeps
  <2>7. /\ TreeInv(x, none)
        /\ Type(EpOf(u)) = "interrupt" => EpOf(u) \in Frames(x.hc)
    BY <1>n, <1>t, <2>2, <2>5, AcceptTreeInv
  <2>8. "ok" \in Statuses /\ "ok" # "busy"
    BY DEF Statuses
  <2>9. /\ TreeInv(x, none \ {u}) /\ Queued(x.core, u) /\ x.core.calls = none
        /\ x.core.status[u] # "busy"
    BY <1>3, <1>n, <2>4, <2>5, <2>7
  <2>10. /\ Tree(y.hc)
         /\ Happens("overtake") =>
                /\ LateIn(y.hc, y.core, none)
                /\ (\/ EpOf(u) \in x.core.closed
                    \/ x.hc.active # EpOf(u)
                    \/ \E v \in Urbs : v # u /\ OnList(x.core.q[EpOf(u)], v))
                    => ActiveIn(y.hc, y.core)
    BY <1>n, <2>3, <2>4, <2>6, <2>7, <2>8, <2>9, FinishTree
  <2>11. ASSUME Happens("overtake") PROVE ActiveIn(y.hc, y.core)
    <3>1. CASE Type(EpOf(u)) = "interrupt"
      <4>1. LateIn(w.hc, w.core, none \union {u})
        BY <2>11 DEF TreeInv
      <4>2. \/ EpOf(u) \in w.core.closed
            \/ w.hc.active # EpOf(u)
            \/ \E v : v # u /\ OnList(w.core.q[EpOf(u)], v)
        BY <1>3, <2>5, <3>1, <4>1 DEF LateIn, Queued
      <4>3. \A v : OnList(w.core.q[EpOf(u)], v) => v \in Urbs
        BY <1>w, QueueTypes
      <4> QED
        BY <2>4, <2>6, <2>10, <2>11, <4>2, <4>3
    <3>2. CASE Type(EpOf(u)) # "interrupt"
      <4>1. CASE x.hc.active # EpOf(u)
        BY <2>10, <2>11, <4>1
      <4>2. CASE x.hc.active = EpOf(u)
        <5>1. EpOf(u) # None
          BY <1>w, Sl811ScheduleAssumption
        <5>2. Finishing(y, x, u, none)
          BY <1>n, <2>3, <2>4, <2>6, <2>8, <2>9, FinishKeeps
        <5>3. y.hc.active = x.hc.active
          BY <4>2, <5>1, <5>2 DEF Finishing
        <5> QED
          BY <3>2, <4>2, <5>3 DEF ActiveIn
      <4> QED
        BY <4>1, <4>2
    <3> QED
      BY <3>1, <3>2
  <2> QED
    BY <1>l, <2>10, <2>11 DEF TreeInv
<1> QED
  BY <1>1, <1>2, <1>3

(* ... wherever it finds the URB.                                          *)
LEMMA UrbEnqueueTree ==
    ASSUME DevOK, Good(World, core.calls), ~oops, Single(core.calls),
           TreeInv(World, core.calls), NEW u \in Urbs, UrbEnqueue(u)
    PROVE  ~oops' => TreeInv(World, core.calls)'
<1> DEFINE w == Calling(World, {})
           none == {}
           v == World
<1>1. PICK y \in EnqueueLinked(w, u) : Becomes(y)
  BY DEF UrbEnqueue, Calling
<1>2. /\ v.oops = oops /\ Sane(v) /\ v.hc = hc /\ v.core = core
      /\ KeptInv(v, core.calls, {}) /\ ActiveInv(hc, core, core.calls)
  BY WorldFacts
<1>3. core.calls = none \union {u} /\ none = {} /\ none \in SUBSET Urbs
  BY DEF Single, UrbEnqueue
<1>w. w = Calling(v, none)
  OBVIOUS
<1>t. TreeInv(v, none \union {u})
  BY <1>3
<1> HIDE DEF w, none, v
<1>4. KeptInv(v, none \union {u}, {}) /\ ActiveInv(v.hc, v.core, none \union {u})
  BY <1>2, <1>3
<1>5. /\ Sane(w) /\ KeptInv(w, none \union {u}, {}) /\ w.oops = v.oops /\ w.core.calls = none
      /\ ActiveInv(w.hc, w.core, none \union {u})
      /\ w.hc = v.hc /\ w.core.q = v.core.q /\ w.core.status = v.core.status
      /\ w.core.closed = v.core.closed
  BY <1>2, <1>3, <1>4, <1>w, CallingFacts
<1>6. Good(y, none)
  BY <1>1, <1>2, <1>3, <1>5, LinkedGood
<1>7. TreeInv(w, none \union {u})
  BY <1>5, <1>t DEF TreeInv, ActiveIn, LateIn
<1>8. ~y.oops => TreeInv(y, none)
  BY <1>1, <1>2, <1>3, <1>5, <1>7, LinkedTree
<1>9. y \in Worlds /\ y.core.calls = none
  BY <1>6 DEF Good, Sane
<1> QED
  BY <1>1, <1>8, <1>9, TreeNext

(* A step that leaves the driver's endpoints and the queues alone.         *)
LEMMA StatusTree ==
    ASSUME DevOK, Good(World, core.calls), ~oops, TreeInv(World, core.calls),
           NEW y, Becomes(y), Good(y, core.calls), y.hc = hc, y.core.q = core.q,
           core.closed \subseteq y.core.closed,
           \A u \in core.calls : y.core.status[u] = core.status[u] \/ EpOf(u) \in y.core.closed
    PROVE  ~oops' => TreeInv(World, core.calls)'
<1> DEFINE open == core.calls
<1>1. World.hc = hc /\ World.core = core /\ open \in SUBSET Urbs
  BY WorldFacts
<1>2. y \in Worlds /\ y.core.calls = open
  BY DEF Good, Sane
<1>3. Tree(hc) /\ (Happens("overtake") => ActiveIn(hc, core) /\ LateIn(hc, core, open))
  BY <1>1 DEF TreeInv
<1>4. ASSUME Happens("overtake") PROVE ActiveIn(hc, y.core) /\ LateIn(hc, y.core, open)
  BY <1>1, <1>3, <1>4, TreeInvMoves
<1>5. TreeInv(y, open)
  BY <1>3, <1>4 DEF TreeInv
<1> QED
  BY <1>2, <1>5, TreeNext

(* The frames are right in every environment but the one in which a driver *)
(* may unlink an URB whose submission the interrupt overtook.              *)
Unraced == ~(Happens("race") /\ Happens("overtake"))

(* usb_unlink_urb leaves the frames right, ...                             *)
LEMMA UnlinkTreeStep ==
    ASSUME DevOK, Good(World, core.calls), ~oops, TreeInv(World, core.calls),
           NEW u \in Urbs, Unlink(u), Unraced
    PROVE  ~oops' => TreeInv(World, core.calls)'
<1>1. PICK y : Becomes(y) /\ Good(y, core.calls)
  BY UnlinkGood
<1>2. y.hc = hc /\ y.core = [core EXCEPT !.status[u] = "unlinked"]
  BY <1>1 DEF Unlink, Becomes
<1>3. core \in CoreTypes /\ core.calls \in SUBSET Urbs
  BY WorldFacts
<1>4. /\ y.core.q = core.q /\ y.core.closed = core.closed
      /\ \A x \in Urbs : x # u => y.core.status[x] = core.status[x]
  BY <1>2, <1>3 DEF CoreTypes
<1>5. ~Happens("overtake") \/ u \notin core.calls
  BY DEF Unlink, Happens, Unraced
<1>6. u \notin core.calls => \A x \in core.calls : y.core.status[x] = core.status[x]
  BY <1>3, <1>4
<1>7. CASE u \notin core.calls
  BY <1>1, <1>2, <1>4, <1>6, <1>7, StatusTree
<1>8. CASE ~Happens("overtake")
  <2>1. y \in Worlds /\ y.core.calls = core.calls
    BY <1>1 DEF Good, Sane
  <2>2. World.hc = hc
    BY WorldFacts
  <2>3. TreeInv(y, core.calls)
    BY <1>2, <1>8, <2>2 DEF TreeInv
  <2> QED
    BY <1>1, <2>1, <2>3, TreeNext
<1> QED
  BY <1>5, <1>7, <1>8

(* ... and so do the close of an endpoint ...                              *)
LEMMA CloseTree ==
    ASSUME DevOK, Good(World, core.calls), ~oops, TreeInv(World, core.calls),
           NEW e \in Ep, Close(e)
    PROVE  ~oops' => TreeInv(World, core.calls)'
<1> DEFINE S == [u \in Urbs |-> IF EpOf(u) = e /\ Queued(core, u) /\ core.status[u] = "busy"
                                THEN "unlinked" ELSE core.status[u]]
           L == core.closed \union {e}
<1>1. PICK y : Becomes(y) /\ Good(y, core.calls)
  BY CloseGood
<1>3. core \in CoreTypes /\ core.calls \in SUBSET Urbs
  BY WorldFacts
<1>2. y.hc = hc /\ y.core = [core EXCEPT !.closed = L, !.status = S]
  BY <1>1, <1>3 DEF Close, Becomes, CoreTypes
<1>5. \A x \in Urbs : S[x] = core.status[x] \/ EpOf(x) \in L
  OBVIOUS
<1>6. core.closed \subseteq L
  OBVIOUS
<1> HIDE DEF S, L
<1>4. y.core.q = core.q /\ y.core.closed = L /\ y.core.status = S
  BY <1>2, <1>3 DEF CoreTypes
<1>7. \A x \in core.calls : y.core.status[x] = core.status[x] \/ EpOf(x) \in y.core.closed
  BY <1>3, <1>4, <1>5
<1> QED
  BY <1>1, <1>2, <1>4, <1>6, <1>7, StatusTree

(* ... and endpoint_disable, or it uses what is gone.                      *)
LEMMA EndpointDisableTree ==
    ASSUME DevOK, Good(World, core.calls), ~oops, Single(core.calls),
           TreeInv(World, core.calls), NEW e \in Ep, EndpointDisable(e)
    PROVE  ~oops' => TreeInv(World, core.calls)'
<1> DEFINE open == core.calls
           A == [hc.alloc EXCEPT ![e] = FALSE]
           L == core.closed \ {e}
           o == Scheduled(hc, e) \/ hc.active = e
<1>1. PICK y : Becomes(y) /\ Good(y, core.calls)
  BY EndpointDisableGood
<1>2. /\ World.hc = hc /\ World.core = core /\ hc \in HcTypes /\ core \in CoreTypes
      /\ core.calls \in SUBSET Urbs /\ World \in Worlds
      /\ KeptInv(World, core.calls, {})
  BY WorldFacts
<1>3. /\ y.hc = [hc EXCEPT !.alloc = A] /\ y.core = [core EXCEPT !.closed = L] /\ y.oops = o
  <2>1. /\ hc' = [hc EXCEPT !.alloc[e] = FALSE] /\ core' = [core EXCEPT !.closed = @ \ {e}]
        /\ oops' = o
    BY DEF EndpointDisable, Becomes, World
  <2> QED
    BY <1>1, <2>1 DEF Becomes
<1>4. y \in Worlds /\ y.core.calls = core.calls /\ y.hc \in HcTypes
  BY <1>1 DEF Good, Sane, Worlds
<1>5. \A x \in Ep : x # e => (x \in core.closed <=> x \in L)
  OBVIOUS
<1> HIDE DEF A, L
<1>6. /\ Still(y.hc, hc) /\ y.hc.active = hc.active
      /\ y.core.q = core.q /\ y.core.status = core.status /\ y.core.closed = L
  BY <1>2, <1>3 DEF HcTypes, CoreTypes, Still, SameTree
<1>7. ASSUME ~y.oops PROVE TreeInv(y, core.calls)
  <2>1. ~Scheduled(hc, e) /\ hc.active # e
    BY <1>3, <1>7
  <2>2. Tree(hc)
    BY <1>2 DEF TreeInv
  <2>3. Tree(y.hc) /\ Frames(y.hc) = Frames(hc)
    BY <1>4, <1>6, <2>2, StillTree
  <2>4. e \notin Frames(hc) /\ e \notin Sched(hc)
    BY <2>1 DEF Frames, Scheduled, Sched
  <2>5. ASSUME Happens("overtake") PROVE ActiveIn(y.hc, y.core) /\ LateIn(y.hc, y.core, open)
    <3>1. ActiveIn(hc, core) /\ LateIn(hc, core, open)
      BY <1>2, <2>5 DEF TreeInv
    <3>2. hc.active # None => hc.active \in Ep
      BY <1>2 DEF HcTypes, Pointer
    <3>3. ActiveIn(y.hc, y.core)
      BY <1>5, <1>6, <2>1, <2>3, <3>1, <3>2 DEF ActiveIn
    <3>4. ASSUME NEW u \in open, OnList(core.q[EpOf(u)], u), Type(EpOf(u)) = "interrupt",
                 core.status[u] # "busy"
          PROVE  \/ EpOf(u) \in L
                 \/ /\ Head(core.q[EpOf(u)]) = u
                    /\ \/ EpOf(u) \notin Frames(hc) /\ hc.active # EpOf(u)
                       \/ \E v : v # u /\ OnList(core.q[EpOf(u)], v)
      <4>1. CASE EpOf(u) # e
        BY <1>2, <1>5, <3>1, <3>4, <4>1, UrbEp DEF LateIn
      <4>2. CASE EpOf(u) = e
        <5>1. ~HasTaken(core, e, open)
          BY <1>2, <2>4 DEF KeptInv, ServedInv
        <5>2. OnList(core.q[e], Head(core.q[e])) /\ Head(core.q[e]) \in Urbs
          <6>1. core.q[e] # <<>>
            BY <1>2, <3>4, <4>2, QueueTypes
          <6> QED
            BY <1>2, <6>1, QueueTypes
        <5>3. Head(core.q[e]) \in open
          BY <5>1, <5>2 DEF HasTaken
        <5>4. Head(core.q[e]) = u
          BY <3>4, <5>3 DEF Single
        <5> QED
          BY <2>1, <2>4, <4>2, <5>4
      <4> QED
        BY <4>1, <4>2
    <3>5. LateIn(y.hc, y.core, open)
      BY <1>6, <2>3, <3>4 DEF LateIn
    <3> QED
      BY <3>3, <3>5
  <2> QED
    BY <2>3, <2>5 DEF TreeInv
<1> QED
  BY <1>1, <1>4, <1>7, TreeNext

(* Nothing is in the frames at first.                                      *)
LEMMA InitTree ==
    ASSUME Init, SlInv
    PROVE  TreeInv(World, core.calls)
<1>1. /\ World.hc = hc /\ World.core = core /\ hc \in HcTypes /\ DevOK
  BY WorldFacts DEF Init, SlInv
<1>2. /\ hc.active = None /\ hc.nextp = None /\ hc.count = 0
      /\ hc.branch = [e \in Ep |-> PeriodicSize]
      /\ hc.periodic = [i \in Slots |-> None] /\ hc.load = [i \in Slots |-> 0]
      /\ core.calls = {}
  BY DEF Init
<1>3. Frames(hc) = {}
  BY <1>2, Sl811ScheduleAssumption DEF Frames
<1>4. ASSUME NEW i \in Slots PROVE Sound(hc, i, Chain(hc, i))
  <2>1. <<>> \in Seq(Ep) /\ Len(<<>>) = 0 /\ DOMAIN <<>> = {} /\ Distinct(<<>>)
    BY DEF Distinct
  <2>2. Follows(hc, i, <<>>)
    BY <1>2, <2>1 DEF Follows, At
  <2>3. Chain(hc, i) = <<>>
    BY <1>1, <2>2, ChainIs
  <2>4. Reserved(<<>>) = 0
    <3>1. PICK f : SumsOf(f, <<>>) /\ Reserved(<<>>) = f[Len(<<>>)]
      BY <1>1, <2>1, ReservedIs
    <3> QED
      BY <2>1, <3>1 DEF SumsOf
  <2>5. Elements(<<>>) = Due(hc, i) /\ SlowFirst(<<>>)
    BY <1>3, <2>1 DEF Elements, Due, SlowFirst
  <2>6. hc.load[i] = 0 /\ 0 <= MaxPeriodicLoad
    BY <1>2, Sl811ScheduleAssumption
  <2> QED
    BY <2>2, <2>3, <2>4, <2>5, <2>6 DEF Sound
<1>5. Tree(hc)
  BY <1>2, <1>3, <1>4, FS_EmptySet DEF Tree, Placed
<1>6. ActiveIn(hc, core) /\ LateIn(hc, core, {})
  BY <1>2 DEF ActiveIn, LateIn
<1> QED
  BY <1>1, <1>2, <1>5, <1>6 DEF TreeInv

(* The inductive invariant of the frames.                                  *)
FramesRight == SlInv /\ (~oops /\ Unraced => TreeInv(World, core.calls))

(* Every step keeps it.                                                    *)
LEMMA StepTree ==
    ASSUME FramesRight, [Next]_vars
    PROVE  FramesRight'
<1>1. DevOK /\ Good(World, core.calls) /\ Single(core.calls) /\ SlInv
  BY DEF FramesRight, SlInv
<1>2. SlInv'
  BY <1>1, StepGood
<1> SUFFICES ASSUME Unraced' PROVE ~oops' => TreeInv(World, core.calls)'
  BY <1>2 DEF FramesRight
<1>3. CASE UNCHANGED vars
  <2>1. Becomes(World) /\ World \in Worlds /\ World.core.calls = core.calls /\ dev' = dev
    BY <1>1, <1>3 DEF Becomes, World, vars, Good, Sane
  <2>2. Unraced
    BY <2>1 DEF Unraced, Happens
  <2>3. ~World.oops => TreeInv(World, core.calls)
    BY <2>2 DEF FramesRight, World
  <2> QED
    BY <2>1, <2>3, TreeNext
<1>4. CASE Next
  <2>1. ~oops
    BY <1>4 DEF Next
  <2>d. dev' = dev
    BY <1>4, NextDevice
  <2>2. Unraced
    BY <2>d DEF Unraced, Happens
  <2>3. TreeInv(World, core.calls) /\ hc \in HcTypes
    BY <1>1, <2>1, <2>2, WorldFacts DEF FramesRight
  <2>4. ASSUME NEW u \in Urbs, Submit(u) PROVE ~oops' => TreeInv(World, core.calls)'
    BY <1>1, <2>1, <2>3, <2>4, SubmitTree
  <2>5. ASSUME NEW u \in Urbs, UrbEnqueue(u) PROVE ~oops' => TreeInv(World, core.calls)'
    BY <1>1, <2>1, <2>3, <2>5, UrbEnqueueTree
  <2>6. ASSUME NEW u \in Urbs, Unlink(u) PROVE ~oops' => TreeInv(World, core.calls)'
    BY <1>1, <2>1, <2>2, <2>3, <2>6, UnlinkTreeStep
  <2>7. ASSUME NEW e \in Ep, Close(e) PROVE ~oops' => TreeInv(World, core.calls)'
    BY <1>1, <2>1, <2>3, <2>7, CloseTree
  <2>8. ASSUME NEW e \in Ep, EndpointDisable(e) PROVE ~oops' => TreeInv(World, core.calls)'
    BY <1>1, <2>1, <2>3, <2>8, EndpointDisableTree
  <2>9. ASSUME Irq, Happens("overtake") \/ core.calls = {}
        PROVE  ~oops' => TreeInv(World, core.calls)'
    <3>1. PICK y : Becomes(y) /\ LeftSound(y, core.calls)
      BY <1>1, <2>1, <2>3, <2>9, IrqTree
    <3>2. y \in Worlds /\ y.core.calls = core.calls /\ (~y.oops => TreeInv(y, core.calls))
      BY <3>1 DEF LeftSound, Good, Sane
    <3> QED
      BY <3>1, <3>2, TreeNext
  <2>10. CASE Timer
    <3>1. PICK y : Becomes(y) /\ Good(y, core.calls)
      BY <1>1, <2>1, <2>10, TimerGood
    <3> QED
      BY <1>1, <2>1, <2>3, <2>10, <3>1, TimerStill, QuietTree
  <2>11. CASE HubDriver
    <3>1. PICK y : Becomes(y) /\ Good(y, core.calls)
      BY <1>1, <2>1, <2>11, HubDriverGood
    <3> QED
      BY <1>1, <2>1, <2>3, <2>11, <3>1, HubDriverStill, QuietTree
  <2>12. CASE Chip
    <3>1. PICK y : Becomes(y) /\ Good(y, core.calls)
      BY <1>1, <2>1, <2>12, ChipStepGood
    <3> QED
      BY <1>1, <2>1, <2>3, <2>12, <3>1, ChipStill, QuietTree
  <2> QED
    BY <1>4, <2>4, <2>5, <2>6, <2>7, <2>8, <2>9, <2>10, <2>11, <2>12 DEF Next, Driver, Happens
<1> QED
  BY <1>3, <1>4

(* The chain of every frame has the endpoints due in it, each once and the *)
(* slow ones first, however they come and go and share their `next`        *)
(* pointers, what is reserved of a frame is what they need and no more     *)
(* than may be, and the next periodic packet is picked from what is        *)
(* scheduled (urb_enqueue, balance, finish_request); for every number of   *)
(* endpoints and frames, given that of two periods one divides the other,  *)
(* which is what usb_submit_urb and urb_enqueue make of every interval.    *)
THEOREM PeriodicTreeIsSound == Spec => []PeriodicTreeSound
<1>1. Init => FramesRight
  BY InitGood, InitTree DEF FramesRight
<1>2. FramesRight /\ [Next]_vars => FramesRight'
  BY StepTree
<1>3. FramesRight => PeriodicTreeSound
  <2> SUFFICES ASSUME FramesRight PROVE PeriodicTreeSound
    OBVIOUS
  <2>1. CASE ~oops /\ Unraced
    <3>1. hc \in HcTypes /\ MadeInv(hc) /\ World.hc = hc
      BY <2>1, WorldFacts DEF FramesRight, SlInv
    <3>2. Tree(hc)
      BY <2>1, <3>1 DEF FramesRight, TreeInv
    <3> QED
      BY <3>1, <3>2, TreeIsSound
  <2>2. CASE oops \/ ~Unraced
    BY <2>2 DEF PeriodicTreeSound, Unraced, Happens
  <2> QED
    BY <2>1, <2>2
<1> QED
  BY <1>1, <1>2, <1>3, PTL DEF Spec

---------------------------------------------------------------------------
(* Work goes on.                                                           *)

(* What no handler takes back but finish_request: schedules grow, no       *)
(* interrupt is disabled, and a packet that is issued is of an endpoint of *)
(* the schedules.                                                          *)
Onward(y, w) ==
    /\ Sched(w.hc) \subseteq Sched(y.hc) /\ w.hc.irqen \subseteq y.hc.irqen
    /\ SamePort(y.hc, w.hc) /\ SamePids(y, w)
    /\ y.hc.active = w.hc.active \/ (w.hc.active = None /\ y.hc.active \in Sched(y.hc))

(* An URB that was unlinked before urb_enqueue took it is a control URB    *)
(* whose endpoint is served, unless it left the queue.                     *)
Overtaken(h, c, open) ==
    \A u \in open : LET e == EpOf(u) IN
        OnList(c.q[e], u) /\ c.status[u] # "busy" => Type(e) = "control" /\ e \in Sched(h)

(* active_a is in the round, or a control transfer just ended.             *)
Attended(h) ==
    h.active # None /\ Type(h.active) # "interrupt"
        => \/ h.active \in Sched(h)
           \/ Type(h.active) = "control" /\ h.pid[h.active] = "SETUP"

(* An enabled port listens to the packets' ends.                           *)
Listening(h) == "ENABLE" \in h.port => "DONE_A" \in h.irqen

(* A packet is under way or the next frame interrupts, ...                 *)
Mover(h) == h.active # None \/ "SOFINTR" \in h.irqen

(* ... while an endpoint waits to be served.                               *)
Moving(h) == Enabled(h) /\ Sched(h) # {} => Mover(h)

LEMMA OnwardTwice ==
    ASSUME NEW w, NEW x, NEW y, Onward(y, x), Onward(x, w)
    PROVE  Onward(y, w)
<1>1. SamePort(y.hc, w.hc)
  BY DEF Onward, SamePort
<1>2. SamePids(y, w)
  BY DEF Onward, SamePids
<1> QED
  BY <1>1, <1>2 DEF Onward

LEMMA OnwardKeeps ==
    ASSUME NEW w, AllocInv(w.hc), MadeInv(w.hc), ~Happens("plug"), NEW y, Onward(y, w)
    PROVE  /\ Attended(w.hc) => Attended(y.hc)
           /\ Listening(w.hc) => Listening(y.hc)
           /\ Mover(w.hc) => Mover(y.hc)
<1>1. ASSUME Attended(w.hc) PROVE Attended(y.hc)
  <2>1. CASE y.hc.active = w.hc.active /\ w.hc.active # None
    <3>1. w.hc.active \in Made(w.hc) /\ w.hc.active \in Ep
      BY <2>1 DEF MadeInv, Made
    <3>2. y.hc.pid[w.hc.active] = w.hc.pid[w.hc.active]
      BY <3>1 DEF AllocInv, Onward, SamePids
    <3> QED
      BY <1>1, <2>1, <3>2 DEF Attended, Onward
  <2>2. CASE y.hc.active \in Sched(y.hc) \/ y.hc.active = None
    BY <2>2 DEF Attended
  <2> QED
    BY <2>1, <2>2 DEF Onward
<1>2. ASSUME Listening(w.hc) PROVE Listening(y.hc)
  BY <1>2 DEF Listening, Onward, SamePort
<1>3. ASSUME Mover(w.hc) PROVE Mover(y.hc)
  BY <1>3 DEF Mover, Onward
<1> QED
  BY <1>1, <1>2, <1>3

(* urb_enqueue makes and schedules an endpoint, ...                        *)
LEMMA AcceptOnward ==
    ASSUME DevOK, NEW w, Sane(w), NEW open, NEW except, KeptInv(w, open, except), NEW u \in Urbs,
           NEW y \in Accept(w, u)
    PROVE  Onward(y, w) /\ SameBut(y, w) /\ Sane(y)
<1> DEFINE v == Allocate(w, u)
           e == EpOf(u)
<1>1. y \in Schedule(v, e)
  BY DEF Accept
<1>v. v = Allocate(w, u)
  OBVIOUS
<1> HIDE DEF v
<1>2. /\ Sane(v) /\ SameBut(v, w) /\ SamePort(v.hc, w.hc) /\ SamePids(v, w) /\ e \in Made(v.hc)
      /\ v.hc.active = w.hc.active /\ v.hc.irqen = w.hc.irqen /\ Sched(v.hc) = Sched(w.hc)
  BY <1>v, AllocateKeeps
<1>3. /\ Sane(y) /\ SameBut(y, v) /\ SamePort(y.hc, v.hc) /\ y.hc.active = v.hc.active
      /\ y.hc.alloc = v.hc.alloc /\ y.hc.pid = v.hc.pid
      /\ v.hc.irqen \subseteq y.hc.irqen /\ Sched(y.hc) = Sched(v.hc) \union {e}
  BY <1>1, <1>2, ScheduleFacts
<1>4. SamePids(y, w)
  BY <1>2, <1>3 DEF SamePids, Made
<1>5. SamePort(y.hc, w.hc) /\ SameBut(y, w)
  BY <1>2, <1>3 DEF SamePort, SameBut
<1> QED
  BY <1>2, <1>3, <1>4, <1>5 DEF Onward

(* ... or takes the URB back, ...                                          *)
LEMMA RejectOnward ==
    ASSUME DevOK, NEW w, Sane(w), NEW open, NEW except, KeptInv(w, open, except), NEW u \in Urbs,
           NEW y, y = Reject(w, u)
    PROVE  /\ Onward(y, w) /\ Sched(y.hc) = Sched(w.hc)
           /\ y.hc.irqen = w.hc.irqen /\ y.hc.active = w.hc.active
<1> DEFINE a == IF Alive(w) THEN Allocate(w, u) ELSE w
<1>1. a = w \/ a = Allocate(w, u)
  OBVIOUS
<1>2. y = Refuse(a, u)
  BY DEF Reject
<1> HIDE DEF a
<1>3. /\ Sane(a) /\ SamePort(a.hc, w.hc) /\ SamePids(a, w)
      /\ a.hc.active = w.hc.active /\ a.hc.irqen = w.hc.irqen /\ Sched(a.hc) = Sched(w.hc)
  <2>1. CASE a = w
    BY <2>1 DEF SamePort, SamePids
  <2>2. CASE a = Allocate(w, u)
    BY <2>2, AllocateKeeps
  <2> QED
    BY <1>1, <2>1, <2>2
<1>4. y.hc = a.hc
  BY <1>2, <1>3, RefuseFacts
<1> QED
  BY <1>3, <1>4 DEF Onward, SamePids

(* start issues the packet of the endpoint, if it has an URB, or has the   *)
(* next frame interrupt.                                                   *)
LEMMA StartOnPicks ==
    ASSUME NEW w \in Worlds, NEW e, NEW y \in StartOn(w, e)
    PROVE  \/ y.hc.active = e
           \/ y.hc.active = w.hc.active /\ (w.core.q[e] = <<>> \/ "SOFINTR" \in y.hc.irqen)
<1>1. w.hc \in HcTypes
  BY DEF Worlds
<1>2. CASE w.core.q[e] = <<>>
  <2>1. y = w
    BY <1>2 DEF StartOn
  <2> QED
    BY <1>2, <2>1
<1>3. CASE y = Issue(w, e, Head(w.core.q[e]))
  <2> DEFINE g == [w.hc EXCEPT !.active = e, !.late = FALSE]
             k == [w.chip EXCEPT !.armed = TRUE,
                                 !.tok = [pid |-> w.hc.pid[e], urb |-> Head(w.core.q[e]),
                                          room |-> Room(w, e, Head(w.core.q[e]))]]
  <2>1. y = [w EXCEPT !.hc = g, !.chip = k]
    BY <1>3 DEF Issue
  <2>2. g.active = e
    BY <1>1 DEF HcTypes
  <2> HIDE DEF g, k
  <2>3. y.hc = g
    BY <2>1 DEF Worlds
  <2> QED
    BY <2>2, <2>3
<1>4. CASE y = [w EXCEPT !.hc.irqen = @ \union {"SOFINTR"}]
  <2> DEFINE Q == w.hc.irqen \union {"SOFINTR"}
             g == [w.hc EXCEPT !.irqen = Q]
  <2>1. y = [w EXCEPT !.hc = g]
    BY <1>1, <1>4 DEF Worlds, HcTypes
  <2>q. "SOFINTR" \in Q
    OBVIOUS
  <2> HIDE DEF Q
  <2>2. g.irqen = Q /\ g.active = w.hc.active
    BY <1>1 DEF HcTypes
  <2> HIDE DEF g
  <2>3. y.hc = g
    BY <2>1 DEF Worlds
  <2> QED
    BY <2>q, <2>2, <2>3
<1> QED
  BY <1>2, <1>3, <1>4 DEF StartOn

(* The choice of the next packet: of an endpoint that is scheduled; and if *)
(* none is issued, the port sleeps, a packet is under way, the next frame  *)
(* interrupts, none but frames wait, or an endpoint has no URB.            *)
LEMMA StartPicks ==
    ASSUME DevOK, NEW w, Sane(w), Tree(w.hc), NEW y \in StartTransfer(w)
    PROVE  \/ w.hc.active = None /\ y.hc.active \in Sched(w.hc)
           \/ /\ y.hc.active = w.hc.active
              /\ \/ "SUSPEND" \in w.hc.port
                 \/ w.hc.active # None
                 \/ "SOFINTR" \in y.hc.irqen
                 \/ Sched(w.hc) \subseteq Frames(w.hc)
                 \/ \E e \in Sched(w.hc) : w.core.q[e] = <<>>
<1> DEFINE h == w.hc
<1>1. w \in Worlds /\ h \in HcTypes /\ MadeInv(h)
  BY DEF Sane, Worlds
<1>2. CASE "SUSPEND" \in h.port \/ h.active # None
  <2>1. y = w
    BY <1>2 DEF StartTransfer
  <2> QED
    BY <1>2, <2>1
<1>3. ASSUME NEW v, NEW e, NEW g, v = [w EXCEPT !.hc = g], y \in StartOn(v, e), g \in HcTypes,
             g.active = h.active, e \in Sched(h), h.active = None
      PROVE  \/ y.hc.active \in Sched(h)
             \/ /\ y.hc.active = h.active
                /\ \/ "SOFINTR" \in y.hc.irqen
                   \/ \E x \in Sched(h) : w.core.q[x] = <<>>
  <2>1. v \in Worlds /\ v.hc = g /\ v.core = w.core
    BY <1>1, <1>3, HcChange DEF SameBut
  <2>2. \/ y.hc.active = e
        \/ y.hc.active = v.hc.active /\ (v.core.q[e] = <<>> \/ "SOFINTR" \in y.hc.irqen)
    BY <1>3, <2>1, StartOnPicks
  <2> QED
    BY <1>3, <2>1, <2>2
<1>4. CASE ~("SUSPEND" \in h.port \/ h.active # None) /\ h.nextp # None
  <2> DEFINE g == [h EXCEPT !.nextp = h.next[h.nextp]]
             v == [w EXCEPT !.hc = g]
  <2>1. h.nextp \in Frames(h) /\ h.nextp \in Ep
    BY <1>4 DEF Tree, Frames
  <2>2. h.next[h.nextp] \in Pointer /\ h.nextp \in Sched(h)
    BY <1>1, <2>1 DEF HcTypes, Frames, Sched, Scheduled
  <2>3. y \in StartOn(v, h.nextp)
    <3>1. [w EXCEPT !.hc.nextp = w.hc.next[@]] = v
      BY <1>1 DEF Worlds, HcTypes
    <3> QED
      BY <1>4, <3>1 DEF StartTransfer
  <2>4. g \in HcTypes /\ g.active = h.active
    BY <1>1, <2>2 DEF HcTypes
  <2> HIDE DEF g, v
  <2>5. v = [w EXCEPT !.hc = g]
    BY DEF v
  <2> QED
    BY <1>3, <1>4, <2>2, <2>3, <2>4, <2>5
<1>5. CASE ~("SUSPEND" \in h.port \/ h.active # None) /\ h.nextp = None /\ h.async # <<>>
  <2> DEFINE e == IF h.nexta # None THEN h.nexta ELSE Head(h.async)
             n == AfterAsync(h, e)
             g == [h EXCEPT !.nexta = n]
             v == [w EXCEPT !.hc = g]
  <2>1. Head(h.async) = h.async[1] /\ 1 \in DOMAIN h.async
    <3> DEFINE s == h.async
    <3>1. s \in Seq(Ep) /\ s # <<>>
      BY <1>1, <1>5 DEF HcTypes
    <3> HIDE DEF s
    <3>2. Head(s) = s[1] /\ 1 \in DOMAIN s
      BY <3>1
    <3> QED
      BY <3>2 DEF s
  <2>2. InAsync(h, e)
    BY <1>1, <2>1 DEF InAsync, OnList, MadeInv
  <2>3. e \in Ep /\ e \in Sched(h)
    BY <1>1, <2>2 DEF InAsync, OnList, MadeInv, Made, Sched, Scheduled
  <2> HIDE DEF e
  <2>5. n # None => OnList(h.async, n)
    BY <1>1, <2>2, AfterAsyncInList
  <2>6. n \in Pointer
    BY <1>1, <2>5 DEF Pointer, OnList, MadeInv, Made
  <2>7. y \in StartOn(v, e)
    <3>1. [w EXCEPT !.hc.nexta = AfterAsync(w.hc, e)] = v
      BY <1>1 DEF Worlds, HcTypes
    <3> QED
      BY <1>5, <3>1 DEF StartTransfer, e
  <2> HIDE DEF n
  <2>8. g \in HcTypes /\ g.active = h.active
    BY <1>1, <2>6 DEF HcTypes
  <2> HIDE DEF g, v
  <2>9. v = [w EXCEPT !.hc = g]
    BY DEF v
  <2> QED
    BY <1>3, <1>5, <2>3, <2>7, <2>8, <2>9
<1>6. CASE h.async = <<>> /\ ~("SUSPEND" \in h.port \/ h.active # None) /\ h.nextp = None
  <2>1. y = w
    BY <1>6 DEF StartTransfer
  <2>2. \A x : ~InAsync(h, x)
    BY <1>6, EmptyLists DEF InAsync
  <2>3. Sched(h) \subseteq Frames(h)
    BY <2>2 DEF Sched, Scheduled, Frames
  <2> QED
    BY <2>1, <2>3
<1> QED
  BY <1>2, <1>4, <1>5, <1>6

(* start_transfer goes onward, ...                                         *)
LEMMA StartOnward ==
    ASSUME DevOK, NEW w, Sane(w), Tree(w.hc), NEW y \in StartTransfer(w)
    PROVE  Onward(y, w)
<1>1. Started(y, w)
  BY StartTransferFacts
<1>2. y.hc.active = w.hc.active \/ (w.hc.active = None /\ y.hc.active \in Sched(w.hc))
  BY StartPicks
<1> QED
  BY <1>1, <1>2 DEF Started, Onward, SamePids, Made

(* Endpoints in the frames are counted.                                    *)
LEMMA CountsFrames ==
    ASSUME NEW h, Tree(h), Frames(h) # {}
    PROVE  h.count > 0
<1>1. IsFiniteSet(Frames(h))
  BY FS_Subset, Sl811ScheduleAssumption DEF Frames
<1>2. Cardinality(Frames(h)) \in Nat /\ Cardinality(Frames(h)) # 0
  BY <1>1, FS_CardinalityType, FS_EmptySet
<1> QED
  BY <1>2 DEF Tree

(* A port that is enabled does not sleep where nobody suspends it.         *)
LEMMA EnabledAwake ==
    ASSUME NEW w, PortInv(w.hc, w.core, w.chip), Enabled(w.hc),
           ~Happens("plug"), ~Happens("suspend")
    PROVE  "SUSPEND" \notin w.hc.port
BY DEF PortInv, Idle, Live, Enabled

(* ... and does not leave an endpoint waiting for nothing.                 *)
LEMMA StartMoves ==
    ASSUME DevOK, NEW w, Sane(w), Tree(w.hc), NEW open, KeptInv(w, open, {}), Listening(w.hc),
           ~Happens("plug"), ~Happens("suspend"), NEW y \in StartTransfer(w)
    PROVE  Moving(y.hc)
<1>1. Started(y, w)
  BY StartTransferFacts
<1>2. /\ SamePort(y.hc, w.hc) /\ w.hc.irqen \subseteq y.hc.irqen /\ Sched(y.hc) = Sched(w.hc)
  BY <1>1 DEF Started
<1> SUFFICES ASSUME Enabled(w.hc), Sched(w.hc) # {} PROVE Mover(y.hc)
  BY <1>2 DEF Moving, Enabled, SamePort
<1>3. "SUSPEND" \notin w.hc.port
  BY EnabledAwake DEF KeptInv
<1>4. \A e \in Sched(w.hc) : e # None /\ w.core.q[e] # <<>>
  BY Sl811ScheduleAssumption DEF KeptInv, BusyInv, Sched
<1>5. CASE Sched(w.hc) \subseteq Frames(w.hc)
  <2>1. w.hc.count > 0
    BY <1>5, CountsFrames
  <2>2. "SOFINTR" \in w.hc.irqen
    BY <2>1 DEF KeptInv, FramesInv, Listening, Enabled
  <2> QED
    BY <1>2, <2>2 DEF Mover
<1>6. CASE ~(Sched(w.hc) \subseteq Frames(w.hc))
  BY <1>3, <1>4, <1>6, StartPicks DEF Mover
<1> QED
  BY <1>5, <1>6

(* What is said of overtaken submissions is about those that are late.     *)
LEMMA OvertakenStays ==
    ASSUME NEW h, NEW c, NEW open, Overtaken(h, c, open), NEW g, NEW d, NEW o,
           Sched(h) \subseteq Sched(g),
           \A u \in o : OnList(d.q[EpOf(u)], u) /\ d.status[u] # "busy"
               => u \in open /\ OnList(c.q[EpOf(u)], u) /\ c.status[u] # "busy"
    PROVE  Overtaken(g, d, o)
BY DEF Overtaken

(* The completion handler's submission goes onward, ...                    *)
LEMMA SubmittedOnward ==
    ASSUME DevOK, NEW w, Sane(w), ~w.oops, NEW open \in SUBSET Urbs, NEW except,
           KeptInv(w, open, except), Tree(w.hc), Overtaken(w.hc, w.core, open),
           NEW u \in Urbs, ~Queued(w.core, u), Happens("plug") \/ w.chip.tok.pid # "none",
           NEW l, l = Link(w, u), NEW y \in Enqueue(l, u)
    PROVE  Onward(y, w) /\ Overtaken(y.hc, y.core, open)
<1>1. /\ Sane(l) /\ l.hc = w.hc /\ l.oops = w.oops
      /\ l.core.q[EpOf(u)] = Append(w.core.q[EpOf(u)], u)
      /\ \A e \in Ep : e # EpOf(u) => l.core.q[e] = w.core.q[e]
      /\ l.core.status[u] = "busy"
      /\ \A x \in Urbs : x # u => l.core.status[x] = w.core.status[x]
  BY SMTT(30), LinkFacts
<1>2. KeptInv(l, open \union {u}, except) /\ Queued(l.core, u)
  BY LinkKeeps
<1>3. EpOf(u) \in Ep /\ w \in Worlds /\ l \in Worlds /\ QueuesInv(l.core)
  BY <1>1, <1>2, UrbEp DEF Sane, KeptInv
<1>4. \A v \in Urbs : v # u /\ OnList(l.core.q[EpOf(v)], v) => OnList(w.core.q[EpOf(v)], v)
  <2>1. w.core.q[EpOf(u)] \in Seq(Urbs)
    BY <1>3, QueueTypes
  <2>2. \A v : v # u /\ OnList(l.core.q[EpOf(u)], v) => OnList(w.core.q[EpOf(u)], v)
    BY <1>1, <2>1, AppendFacts
  <2> QED
    BY <1>1, <2>2, UrbEp
<1>5. CASE Accept(l, u) # {}
  <2>1. PICK x \in Accept(l, u) : y \in (IF x.oops THEN {x} ELSE StartTransfer(x))
    BY <1>5 DEF Enqueue, Then
  <2>2. Onward(x, l) /\ SameBut(x, l) /\ Sane(x)
    BY <1>1, <1>2, AcceptOnward
  <2>3. Tree(x.hc)
    BY <1>1, <1>2, AcceptTree
  <2>4. y \in StartTransfer(x)
    BY <1>1, <2>1, <2>2 DEF SameBut
  <2>5. Onward(y, x) /\ Started(y, x)
    BY <2>2, <2>3, <2>4, StartOnward, StartTransferFacts
  <2>6. Onward(y, l)
    BY <2>2, <2>5, OnwardTwice
  <2>7. Onward(y, w)
    BY <1>1, <2>6 DEF Onward, SamePids
  <2>8. y.core = l.core
    BY <2>2, <2>5 DEF SameBut, Started
  <2>9. \A v \in open : OnList(y.core.q[EpOf(v)], v) /\ y.core.status[v] # "busy"
              => v \in open /\ OnList(w.core.q[EpOf(v)], v) /\ w.core.status[v] # "busy"
    BY <1>1, <1>4, <2>8
  <2> QED
    BY <2>7, <2>9, OvertakenStays DEF Onward
<1>6. CASE Accept(l, u) = {}
  <2> DEFINE rest == open \ {u}
  <2>1. y = Reject(l, u)
    BY <1>6 DEF Enqueue
  <2>2. rest \union {u} = open \union {u} /\ rest \in SUBSET Urbs /\ u \notin rest
    OBVIOUS
  <2> HIDE DEF rest
  <2>3. Rejected(y, l, u, rest, except)
    <3>1. KeptInv(l, rest \union {u}, except)
      BY <1>2, <2>2
    <3> QED
      BY <1>1, <1>6, <2>1, <2>2, <3>1, RejectKeeps
  <2>4. /\ y.core.q[EpOf(u)] = Without(l.core.q[EpOf(u)], u)
        /\ \A e \in Ep : e # EpOf(u) => y.core.q[e] = l.core.q[e]
        /\ \A x \in Urbs : x # u => y.core.status[x] = l.core.status[x]
    BY <2>3 DEF Rejected
  <2>5. Onward(y, l)
    BY <1>1, <1>2, <2>1, RejectOnward
  <2>6. Onward(y, w)
    BY <1>1, <2>5 DEF Onward, SamePids
  <2>7. \A v : OnList(y.core.q[EpOf(u)], v) <=> OnList(l.core.q[EpOf(u)], v) /\ v # u
    <3>1. \A s : s = Without(l.core.q[EpOf(u)], u)
              => \A x : OnList(s, x) <=> OnList(l.core.q[EpOf(u)], x) /\ x # u
      BY <1>3, WithoutInQueue
    <3> QED
      BY <2>4, <3>1
  <2>8. \A v \in open : OnList(y.core.q[EpOf(v)], v) /\ y.core.status[v] # "busy"
              => v \in open /\ OnList(w.core.q[EpOf(v)], v) /\ w.core.status[v] # "busy"
    BY <1>1, <1>4, <2>4, <2>7, UrbEp
  <2> QED
    BY <2>6, <2>8, OvertakenStays DEF Onward
<1> QED
  BY <1>5, <1>6

(* ... and so does the URB's return, ...                                   *)
LEMMA GivebackOnward ==
    ASSUME DevOK, NEW w, Sane(w), ~w.oops, NEW open \in SUBSET Urbs,
           KeptInv(w, open, {}), Happens("overtake") \/ open = {}, w.core.calls = open,
           NEW u \in Urbs, Queued(w.core, u), w.core.status[u] # "busy",
           Tree(w.hc), Overtaken(w.hc, w.core, open \ {u}), NEW y \in Giveback(w, u)
    PROVE  Onward(y, w) /\ Overtaken(y.hc, y.core, open)
<1> DEFINE left == Left(w, u)
           idle == {x \in Urbs : ~Queued(left.core, x) /\ (x = u \/ x \notin w.core.calls)
                                 /\ EpOf(x) \notin w.core.closed}
<1>1. y \in {left} \union UNION {Enqueue(Link(left, x), x) : x \in idle}
  BY DEF Giveback, Left
<1>2. /\ Sane(left) /\ left.hc = w.hc /\ left.oops = w.oops
      /\ left.core.q[EpOf(u)] = Without(w.core.q[EpOf(u)], u)
      /\ \A e \in Ep : e # EpOf(u) => left.core.q[e] = w.core.q[e]
      /\ left.core.status = w.core.status
  BY LeftFacts
<1>3. /\ KeptInv(left, open, {EpOf(u)})
      /\ Happens("plug") \/ left.chip.tok.pid # "none"
  BY LeftKeeps
<1>4. QueuesInv(w.core) /\ w \in Worlds /\ EpOf(u) \in Ep
  BY UrbEp DEF KeptInv, Sane
<1>5. \A v : OnList(left.core.q[EpOf(u)], v) <=> OnList(w.core.q[EpOf(u)], v) /\ v # u
  <2>1. \A s : s = Without(w.core.q[EpOf(u)], u) =>
            \A v : OnList(s, v) <=> OnList(w.core.q[EpOf(u)], v) /\ v # u
    BY <1>4, WithoutInQueue
  <2> QED
    BY <1>2, <2>1
<1> HIDE DEF left
<1>6. Overtaken(left.hc, left.core, open)
  <2>1. \A v \in open : OnList(left.core.q[EpOf(v)], v) /\ left.core.status[v] # "busy"
            => v \in open \ {u} /\ OnList(w.core.q[EpOf(v)], v) /\ w.core.status[v] # "busy"
    BY <1>2, <1>5, UrbEp
  <2> QED
    BY <1>2, <2>1, OvertakenStays
<1>7. CASE y = left
  BY <1>2, <1>6, <1>7 DEF Onward, SamePort, SamePids
<1>8. ASSUME NEW x \in idle, y \in Enqueue(Link(left, x), x)
      PROVE  Onward(y, w) /\ Overtaken(y.hc, y.core, open)
  <2> DEFINE l == Link(left, x)
  <2>1. x \in Urbs /\ ~Queued(left.core, x) /\ ~left.oops /\ Tree(left.hc)
    BY <1>2
  <2>2. l = Link(left, x) /\ y \in Enqueue(l, x)
    BY <1>8
  <2> HIDE DEF l
  <2>3. Onward(y, left) /\ Overtaken(y.hc, y.core, open)
    BY <1>2, <1>3, <1>6, <2>1, <2>2, SubmittedOnward
  <2> QED
    BY <1>2, <2>3 DEF Onward, SamePids
<1> QED
  BY <1>1, <1>7, <1>8

(* What is left when finish_request took an endpoint out.                  *)
OutOf(y, w, e) ==
    /\ y.core = w.core /\ SamePort(y.hc, w.hc) /\ y.hc.active = w.hc.active /\ y.hc.pid = w.hc.pid
    /\ Sched(w.hc) \ {e} \subseteq Sched(y.hc) /\ w.hc.irqen \ {"SOFINTR"} \subseteq y.hc.irqen
    /\ w.core.q[e] # <<>> => Sched(y.hc) = Sched(w.hc)
    /\ Type(e) # "interrupt" => y.hc.irqen = w.hc.irqen

LEMMA DescheduleOut ==
    ASSUME DevOK, NEW w, Sane(w), ~w.oops, NEW e \in Made(w.hc), NEW y, y = Deschedule(w, e), ~y.oops
    PROVE  OutOf(y, w, e)
<1>1. w \in Worlds /\ w.hc \in HcTypes /\ e \in Ep /\ MadeInv(w.hc) /\ ListsInv(w.hc)
  BY DEF Sane, Worlds, Made
<1>2. CASE w.core.q[e] # <<>>
  <2>1. y = w
    BY <1>2 DEF Deschedule
  <2> QED
    BY <1>2, <2>1 DEF OutOf, SamePort
<1>3. CASE w.core.q[e] = <<>> /\ InAsync(w.hc, e)
  <2> DEFINE g == DescheduleAsync(w.hc, e)
  <2>1. y = [w EXCEPT !.hc = g]
    BY <1>1, <1>3 DEF Deschedule
  <2>2. /\ SamePort(g, w.hc) /\ g.active = w.hc.active /\ g.pid = w.hc.pid
        /\ g.irqen = w.hc.irqen /\ Sched(g) = Sched(w.hc) \ {e}
    BY <1>1, <1>3, DescheduleAsyncFacts
  <2> HIDE DEF g
  <2>3. y.hc = g /\ y.core = w.core
    BY <1>1, <2>1 DEF Worlds
  <2> QED
    BY <1>3, <2>2, <2>3 DEF OutOf
<1>4. CASE w.core.q[e] = <<>> /\ ~InAsync(w.hc, e) /\ Type(e) = "interrupt"
  <2>1. Descheduled(y, w, e)
    BY <1>4, DescheduleFacts
  <2>2. w.hc.irqen \ {"SOFINTR"} \subseteq y.hc.irqen /\ Sched(y.hc) = Sched(w.hc) \ {e}
    BY <2>1 DEF Descheduled
  <2> QED
    BY <1>4, <2>1, <2>2 DEF OutOf, Descheduled
<1>5. CASE w.core.q[e] = <<>> /\ ~InAsync(w.hc, e) /\ Type(e) # "interrupt"
  <2>1. y = Oops(w)
    BY <1>5 DEF Deschedule
  <2>2. y.oops
    BY <1>1, <2>1 DEF Oops, Worlds
  <2> QED
    BY <2>2
<1> QED
  BY <1>2, <1>3, <1>4, <1>5

(* finish_request's first half leaves the frames alone, ...                *)
LEMMA FinishedStill ==
    ASSUME NEW w, Sane(w), Tree(w.hc), NEW e, NEW u, NEW st, NEW y, FinishedAs(y, w, e, u, st)
    PROVE  Tree(y.hc) /\ Frames(y.hc) = Frames(w.hc)
<1> DEFINE P == y.hc.pid
           h == w.hc
           g == [h EXCEPT !.pid = P]
<1>1. y.hc = g /\ h \in HcTypes /\ y.hc \in HcTypes
  BY DEF FinishedAs, Sane, Worlds
<1> HIDE DEF P
<1>2. Still(g, h)
  BY <1>1 DEF HcTypes, Still, SameTree
<1> QED
  BY <1>1, <1>2, StillTree

(* What finish_request leaves of what keeps work going.                    *)
Steady(y, w, u, open) ==
    /\ Overtaken(y.hc, y.core, open) /\ Listening(y.hc)
    /\ Type(EpOf(u)) = "control"
        => (Attended(w.hc) => Attended(y.hc)) /\ (Mover(w.hc) => Mover(y.hc))

LEMMA FinishedSteady ==
    ASSUME DevOK, NEW w, Sane(w), MadeInv(w.hc), NEW open \in SUBSET Urbs, NEW u \in Urbs,
           Overtaken(w.hc, w.core, open \ {u}), Listening(w.hc),
           NEW e, e = EpOf(u), NEW st, NEW y, FinishedAs(y, w, e, u, st)
    PROVE  /\ Overtaken(y.hc, y.core, open \ {u}) /\ Listening(y.hc)
           /\ Mover(w.hc) => Mover(y.hc)
           /\ Type(e) = "control" => (Attended(w.hc) => Attended(y.hc)) /\ y.hc.pid[e] = "SETUP"
<1>1. /\ y.core.q = w.core.q /\ Sched(y.hc) = Sched(w.hc) /\ SamePort(y.hc, w.hc)
      /\ y.hc.active = w.hc.active /\ y.hc.irqen = w.hc.irqen
      /\ \A x \in Urbs : x # u => y.core.status[x] = w.core.status[x]
      /\ \A x \in Ep : x # e => y.hc.pid[x] = w.hc.pid[x]
      /\ Type(e) = "control" => y.hc.pid[e] = "SETUP"
  BY DEF FinishedAs
<1>2. Overtaken(y.hc, y.core, open \ {u})
  <2> DEFINE o == open \ {u}
  <2>1. \A v \in o : v \in Urbs /\ v # u
    OBVIOUS
  <2>2. \A v \in o : OnList(y.core.q[EpOf(v)], v) /\ y.core.status[v] # "busy"
            => v \in o /\ OnList(w.core.q[EpOf(v)], v) /\ w.core.status[v] # "busy"
    BY <1>1, <2>1
  <2>3. Overtaken(w.hc, w.core, o) /\ Sched(w.hc) \subseteq Sched(y.hc)
    BY <1>1
  <2> HIDE DEF o
  <2>4. Overtaken(y.hc, y.core, o)
    BY <2>2, <2>3, OvertakenStays
  <2> QED
    BY <2>4 DEF o
<1>3. Listening(y.hc) /\ (Mover(w.hc) => Mover(y.hc))
  BY <1>1 DEF Listening, Mover, SamePort
<1>4. ASSUME Type(e) = "control", Attended(w.hc) PROVE Attended(y.hc)
  <2>1. w.hc.active # None => w.hc.active \in Ep
    BY DEF MadeInv, Made
  <2>2. CASE w.hc.active = e
    BY <1>1, <1>4, <2>2 DEF Attended
  <2>3. CASE w.hc.active # e
    BY <1>1, <1>4, <2>1, <2>3 DEF Attended
  <2> QED
    BY <2>2, <2>3
<1> QED
  BY <1>1, <1>2, <1>3, <1>4

(* ... and the second half takes only an endpoint out that has no URB.     *)
LEMMA OutSteady ==
    ASSUME DevOK, NEW w, NEW open \in SUBSET Urbs, w \in Worlds, NEW e \in Ep,
           Overtaken(w.hc, w.core, open), Listening(w.hc), NEW y, OutOf(y, w, e)
    PROVE  /\ Overtaken(y.hc, y.core, open) /\ Listening(y.hc)
           /\ Type(e) = "control"
                => /\ Mover(w.hc) => Mover(y.hc)
                   /\ Attended(w.hc) /\ w.hc.pid[e] = "SETUP" => Attended(y.hc)
<1>1. Overtaken(y.hc, y.core, open)
  <2> SUFFICES ASSUME NEW v \in open, OnList(y.core.q[EpOf(v)], v), y.core.status[v] # "busy"
               PROVE  Type(EpOf(v)) = "control" /\ EpOf(v) \in Sched(y.hc)
    BY DEF Overtaken
  <2>1. y.core = w.core
    BY DEF OutOf
  <2>2. Type(EpOf(v)) = "control" /\ EpOf(v) \in Sched(w.hc)
    BY <2>1 DEF Overtaken
  <2>3. CASE EpOf(v) = e
    <3>1. w.core.q[e] # <<>>
      BY <2>1, <2>3, QueueTypes
    <3> QED
      BY <2>2, <3>1 DEF OutOf
  <2>4. CASE EpOf(v) # e
    BY <2>2, <2>4 DEF OutOf
  <2> QED
    BY <2>2, <2>3, <2>4
<1>2. Listening(y.hc)
  <2>1. "DONE_A" \in w.hc.irqen => "DONE_A" \in y.hc.irqen
    BY DEF OutOf
  <2> QED
    BY <2>1 DEF Listening, OutOf, SamePort
<1>3. ASSUME Type(e) = "control", Mover(w.hc) PROVE Mover(y.hc)
  BY <1>3 DEF Mover, OutOf
<1>4. ASSUME Type(e) = "control", Attended(w.hc), w.hc.pid[e] = "SETUP" PROVE Attended(y.hc)
  BY <1>4 DEF Attended, OutOf
<1> QED
  BY <1>1, <1>2, <1>3, <1>4

(* finish_request: what was overtaken is still served, and after a control *)
(* URB a packet is still under way or the next frame interrupts.           *)
LEMMA FinishSteady ==
    ASSUME DevOK, NEW w, Sane(w), ~w.oops, NEW open \in SUBSET Urbs,
           KeptInv(w, open, {}), Happens("overtake") \/ open = {}, w.core.calls = open,
           NEW u \in Urbs, EpOf(u) \in Made(w.hc), Queued(w.core, u),
           NEW st \in Statuses, st # "busy" \/ w.core.status[u] # "busy", Tree(w.hc),
           ~Happens("plug"), Overtaken(w.hc, w.core, open \ {u}), Listening(w.hc),
           NEW y \in FinishRequest(w, EpOf(u), u, st), ~y.oops
    PROVE  Steady(y, w, u, open)
<1> DEFINE e == EpOf(u)
           done == Finished(w, e, u, st)
<1>1. PICK x \in Giveback(done, u) : y \in (IF x.oops THEN {x} ELSE {Deschedule(x, e)})
  BY DEF FinishRequest, Finished, Then
<1>2. /\ Sane(done) /\ KeptInv(done, open, {}) /\ done.core.status[u] # "busy"
  BY FinishedKeeps
<1>3. FinishedAs(done, w, e, u, st)
  BY FinishedFacts
<1> HIDE DEF done
<1>4. /\ done.oops = w.oops /\ done.core.calls = w.core.calls
      /\ done.core.q = w.core.q /\ Made(done.hc) = Made(w.hc)
  BY <1>3 DEF FinishedAs
<1>5. Tree(done.hc)
  BY <1>3, FinishedStill
<1>6. MadeInv(w.hc) /\ e \in Ep
  BY UrbEp DEF Sane
<1> HIDE DEF e
<1>7. e = EpOf(u)
  BY DEF e
<1>8. /\ Overtaken(done.hc, done.core, open \ {u}) /\ Listening(done.hc)
      /\ Mover(w.hc) => Mover(done.hc)
      /\ Type(e) = "control" => (Attended(w.hc) => Attended(done.hc)) /\ done.hc.pid[e] = "SETUP"
  BY <1>3, <1>6, <1>7, FinishedSteady
<1>9. Queued(done.core, u)
  BY <1>4 DEF Queued
<1>10. GivenBack(x, done, u, open, {EpOf(u)}) /\ ~x.oops
  BY <1>1, <1>2, <1>4, <1>9, GivebackKeeps
<1>11. Onward(x, done) /\ Overtaken(x.hc, x.core, open)
  BY <1>1, <1>2, <1>4, <1>5, <1>8, <1>9, GivebackOnward
<1>12. AllocInv(done.hc) /\ MadeInv(done.hc)
  BY <1>2 DEF KeptInv, Sane
<1>13. /\ Attended(done.hc) => Attended(x.hc)
       /\ Listening(done.hc) => Listening(x.hc)
       /\ Mover(done.hc) => Mover(x.hc)
  BY <1>11, <1>12, OnwardKeeps
<1>14. e \in Made(done.hc) /\ done.hc.alloc[e]
  <2>1. e \in Made(done.hc)
    BY <1>4, <1>7
  <2> QED
    BY <1>12, <2>1 DEF AllocInv
<1>15. Sane(x) /\ x \in Worlds /\ e \in Made(x.hc) /\ x.hc.pid[e] = done.hc.pid[e]
  BY <1>6, <1>10, <1>14 DEF GivenBack, SamePids, Sane
<1>16. OutOf(y, x, e)
  BY <1>1, <1>10, <1>15, DescheduleOut
<1>17. /\ Overtaken(y.hc, y.core, open) /\ Listening(y.hc)
       /\ Type(e) = "control"
            => /\ Mover(x.hc) => Mover(y.hc)
               /\ Attended(x.hc) /\ x.hc.pid[e] = "SETUP" => Attended(y.hc)
  BY <1>6, <1>8, <1>11, <1>13, <1>15, <1>16, OutSteady
<1> QED
  BY <1>7, <1>8, <1>13, <1>15, <1>17 DEF Steady

(* What keeps work going, but for the next packet.                         *)
WorkInv(w, open) == Overtaken(w.hc, w.core, open) /\ Attended(w.hc) /\ Listening(w.hc)

(* What it is told by, ...                                                 *)
LEMMA WorkStays ==
    ASSUME NEW w, NEW open, Overtaken(w.hc, w.core, open), Listening(w.hc), NEW y, y.core = w.core,
           Sched(w.hc) \subseteq Sched(y.hc),
           y.hc.active = None \/ (Attended(w.hc) /\ y.hc.active = w.hc.active /\ y.hc.pid = w.hc.pid),
           "ENABLE" \in y.hc.port => "ENABLE" \in w.hc.port,
           "DONE_A" \in w.hc.irqen => "DONE_A" \in y.hc.irqen
    PROVE  WorkInv(y, open)
<1>1. Overtaken(y.hc, y.core, open)
  BY DEF Overtaken
<1>2. Attended(y.hc)
  BY DEF Attended
<1> QED
  BY <1>1, <1>2 DEF WorkInv, Listening

(* ... and what the next packet is.                                        *)
LEMMA MovingStays ==
    ASSUME NEW h, NEW g, Moving(h), Sched(g) \subseteq Sched(h), Enabled(g) => Enabled(h),
           g.active = h.active, h.irqen \subseteq g.irqen
    PROVE  Moving(g)
BY DEF Moving, Mover

(* The schedules are those of two lists.                                   *)
LEMMA SchedSame ==
    ASSUME NEW h, NEW g, g.async = h.async, g.branch = h.branch
    PROVE  Sched(g) = Sched(h)
BY DEF Sched, Scheduled, InAsync

(* done() keeps work going, though no packet is under way after it.        *)
LEMMA DoneSteady ==
    ASSUME DevOK, NEW w, NEW open \in SUBSET Urbs, Good(w, open), ~w.oops,
           Happens("overtake") \/ open = {}, Tree(w.hc), WorkInv(w, open), ~Happens("plug"),
           NEW y \in Done(w, w.hc.active), ~y.oops
    PROVE  Overtaken(y.hc, y.core, open) /\ Listening(y.hc)
<1> DEFINE e == w.hc.active
           u == Head(w.core.q[e])
           j == Judge(w, e, u)
<1>1. /\ Sane(w) /\ w \in Worlds /\ w.core.calls = open /\ KeptInv(w, open, {})
      /\ e \in Made(w.hc) \union {None}
  BY DEF Good, Sane, MadeInv
<1>0. Overtaken(w.hc, w.core, open) /\ Listening(w.hc) /\ Attended(w.hc)
  BY DEF WorkInv
<1>2. CASE e = None
  BY <1>0, <1>2 DEF Done
<1>3. CASE e # None /\ w.core.q[e] = <<>>
  <2>1. y = [w EXCEPT !.oops = TRUE]
    BY <1>3 DEF Done, Oops
  <2> QED
    BY <1>1, <2>1 DEF Worlds
<1>4. CASE e # None /\ w.core.q[e] # <<>>
  <2>1. e \in Made(w.hc) /\ e \in Ep
    BY <1>1, <1>4 DEF Made
  <2>2. u \in Urbs /\ OnList(w.core.q[e], u)
    BY <1>1, <1>4, <2>1, HeadIsUrb, QueueTypes
  <2>3. EpOf(u) = e
    BY SMTT(30), <1>1, <2>1, <2>2 DEF KeptInv, QueuesInv
  <2>4. Judged(j.w, w, u) /\ j.verdict \in Statuses
    BY SMTT(30), <1>1, <2>1, <2>2, JudgeFacts
  <2>5. Still(j.w.hc, w.hc) /\ (j.keep => Type(e) = "control" /\ w.hc.pid[e] = "IN")
    BY SMTT(30), <1>1, <2>1, <2>2, JudgeStill
  <2>6. y \in IF ~j.keep /\ (j.verdict # "busy" \/ j.w.core.status[u] # "busy")
              THEN FinishRequest(j.w, e, u, j.verdict)
              ELSE {j.w}
    BY <1>4 DEF Done
  <2> HIDE DEF j
  <2>7. /\ Sane(j.w) /\ KeptInv(j.w, open, {}) /\ j.w.core.calls = open /\ ~j.w.oops
    BY SMTT(30), <2>2, <2>4, JudgedKeeps
  <2>8. /\ j.w.core.q = w.core.q /\ Made(j.w.hc) = Made(w.hc) /\ Sched(j.w.hc) = Sched(w.hc)
        /\ j.w.hc.irqen = w.hc.irqen /\ SamePort(j.w.hc, w.hc) /\ j.w.hc \in HcTypes
        /\ \A x \in Urbs : x # u => j.w.core.status[x] = w.core.status[x]
    BY <2>4, <2>7 DEF Judged, Sane, Worlds
  <2>9. Tree(j.w.hc)
    BY <2>5, <2>8, StillTree
  <2>10. Listening(j.w.hc)
    BY <1>0, <2>8 DEF Listening, SamePort
  <2> HIDE DEF u
  <2>11. Overtaken(j.w.hc, j.w.core, open \ {u})
    <3>1. \A v \in open \ {u} : j.w.core.status[v] = w.core.status[v]
      BY <2>8
    <3> QED
      BY <1>0, <2>8, <3>1 DEF Overtaken
  <2>12. CASE ~(~j.keep /\ (j.verdict # "busy" \/ j.w.core.status[u] # "busy"))
    <3>1. y = j.w
      BY <2>6, <2>12
    <3>2. j.w.core.status[u] # "busy" => Type(e) = "control" /\ e \in Sched(w.hc)
      BY <1>0, <1>4, <2>5, <2>12 DEF Attended
    <3>3. Overtaken(j.w.hc, j.w.core, open)
      BY <2>3, <2>8, <2>11, <3>2 DEF Overtaken
    <3> QED
      BY <2>10, <3>1, <3>3
  <2>13. CASE ~j.keep /\ (j.verdict # "busy" \/ j.w.core.status[u] # "busy")
    <3>1. Queued(j.w.core, u)
      BY <2>2, <2>3, <2>8 DEF Queued
    <3>2. EpOf(u) \in Made(j.w.hc) /\ y \in FinishRequest(j.w, EpOf(u), u, j.verdict)
      BY <2>1, <2>3, <2>6, <2>8, <2>13
    <3>3. Steady(y, j.w, u, open)
      BY <2>2, <2>4, <2>7, <2>9, <2>10, <2>11, <2>13, <3>1, <3>2, FinishSteady
    <3> QED
      BY <3>3 DEF Steady
  <2> QED
    BY <2>12, <2>13
<1> QED
  BY <1>2, <1>3, <1>4

(* The interrupt of a packet that ended keeps work going, ...              *)
LEMMA IrqDoneSteady ==
    ASSUME DevOK, NEW w, NEW open \in SUBSET Urbs, Good(w, open), ~w.oops,
           Happens("overtake") \/ open = {}, Tree(w.hc), WorkInv(w, open), ~Happens("plug"),
           NEW y \in IrqDone(w), ~y.oops
    PROVE  WorkInv(y, open)
<1>1. PICK x \in Done(w, w.hc.active) :
          y \in (IF x.oops THEN {x} ELSE {[x EXCEPT !.hc.active = None]})
  BY DEF IrqDone, Then
<1>2. DoneAs(x, w, open)
  BY <1>1, DoneKeeps
<1>3. ~x.oops /\ y = [x EXCEPT !.hc.active = None]
  BY <1>1
<1>4. x \in Worlds /\ x.hc \in HcTypes
  BY <1>2 DEF DoneAs, Sane, Worlds
<1>5. Overtaken(x.hc, x.core, open) /\ Listening(x.hc)
  BY <1>1, <1>3, DoneSteady
<1> DEFINE h == x.hc
           g == [h EXCEPT !.active = None]
<1>6. /\ g.async = h.async /\ g.branch = h.branch /\ g.active = None
      /\ g.port = h.port /\ g.irqen = h.irqen
  BY <1>4 DEF HcTypes
<1>7. y = [x EXCEPT !.hc = g]
  BY <1>3
<1> HIDE DEF g
<1>8. y.hc = g /\ y.core = x.core
  BY <1>4, <1>7 DEF Worlds
<1>9. Sched(g) = Sched(h)
  BY <1>6, SchedSame
<1> QED
  BY <1>5, <1>6, <1>8, <1>9, WorkStays

(* ... so does that of a new frame, ...                                    *)
LEMMA IrqSofSteady ==
    ASSUME NEW w, w \in Worlds, NEW open, WorkInv(w, open), NEW y, y = IrqSof(w)
    PROVE  WorkInv(y, open) /\ (Moving(w.hc) => Moving(y.hc))
<1> DEFINE h == w.hc
           first == h.periodic[h.frame]
           f == (h.frame + 1) % (PeriodicSize - 1)
           n == IF first # None THEN first ELSE h.nextp
           g == [h EXCEPT !.frame = f, !.nextp = n]
<1>1. h \in HcTypes
  BY DEF Worlds
<1>2. y = [w EXCEPT !.hc = g]
  BY DEF IrqSof
<1> HIDE DEF f, n
<1>3. /\ g.async = h.async /\ g.branch = h.branch /\ g.active = h.active /\ g.pid = h.pid
      /\ g.port = h.port /\ g.irqen = h.irqen /\ g.running = h.running
  BY <1>1 DEF HcTypes
<1> HIDE DEF g
<1>4. y.hc = g /\ y.core = w.core
  BY <1>1, <1>2 DEF Worlds
<1>5. Sched(g) = Sched(h)
  BY <1>3, SchedSame
<1>6. WorkInv(y, open)
  BY <1>3, <1>4, <1>5, WorkStays DEF WorkInv
<1>7. Moving(h) => Moving(g)
  BY <1>3, <1>5, MovingStays DEF Enabled
<1> QED
  BY <1>4, <1>6, <1>7

(* ... that of a resume signal, ...                                        *)
LEMMA IrqWakeupSteady ==
    ASSUME NEW w, w \in Worlds, NEW open, WorkInv(w, open), NEW y, y = IrqWakeup(w)
    PROVE  WorkInv(y, open) /\ (Moving(w.hc) => Moving(y.hc))
<1>1. CASE "SUSPEND" \notin w.hc.port
  BY <1>1 DEF IrqWakeup
<1>2. CASE "SUSPEND" \in w.hc.port
  <2> DEFINE h == w.hc
             P == h.port \union {"C_SUSPEND"}
             g == [h EXCEPT !.port = P]
  <2>1. h \in HcTypes
    BY DEF Worlds
  <2>2. y = [w EXCEPT !.hc = g]
    BY <1>2 DEF IrqWakeup
  <2>3. "ENABLE" \in P => "ENABLE" \in h.port
    OBVIOUS
  <2> HIDE DEF P
  <2>4. /\ g.async = h.async /\ g.branch = h.branch /\ g.active = h.active /\ g.pid = h.pid
        /\ g.port = P /\ g.irqen = h.irqen /\ g.running = h.running
    BY <2>1 DEF HcTypes
  <2> HIDE DEF g
  <2>5. y.hc = g /\ y.core = w.core
    BY <2>1, <2>2 DEF Worlds
  <2>6. Sched(g) = Sched(h)
    BY <2>4, SchedSame
  <2>7. WorkInv(y, open)
    BY <2>3, <2>4, <2>5, <2>6, WorkStays DEF WorkInv
  <2>8. Moving(h) => Moving(g)
    BY <2>3, <2>4, <2>6, MovingStays DEF Enabled
  <2> QED
    BY <2>5, <2>7, <2>8
<1> QED
  BY <1>1, <1>2

(* ... and that of a device that comes: nothing is queued yet, ...         *)
LEMMA InsRmvSteady ==
    ASSUME NEW w, NEW open, Good(w, open), ~w.oops, ~Happens("plug"), w.chip.tok.pid = "none",
           NEW y \in IrqInsRmv(w)
    PROVE  WorkInv(y, open) /\ Moving(y.hc)
<1> DEFINE P == w.hc.port \union {"C_CONNECTION", "CONNECTION"}
           I == {"INSRMV"}
           D == {}
           g == [w.hc EXCEPT !.ctrl1 = D, !.irqen = I, !.active = None, !.port = P]
<1>1. /\ w \in Worlds /\ w.hc \in HcTypes
      /\ "ENABLE" \notin w.hc.port /\ w.hc.active = None /\ open = {}
  BY DEF Good, KeptInv, PortInv, Idle, Sane, Worlds
<1>2. y = [w EXCEPT !.hc = g]
  BY <1>1 DEF IrqInsRmv, Worlds, HcTypes
<1>3. "ENABLE" \notin P
  BY <1>1
<1> HIDE DEF P, I, D
<1>4. g.port = P /\ g.active = None
  BY <1>1 DEF HcTypes
<1> HIDE DEF g
<1>5. y.hc = g
  BY <1>1, <1>2 DEF Worlds
<1> QED
  BY <1>1, <1>3, <1>4, <1>5 DEF WorkInv, Overtaken, Attended, Listening, Moving, Enabled

(* ... and the handler's leave, which stops the frames when nothing is in  *)
(* the schedules.                                                          *)
LEMMA IrqExitSteady ==
    ASSUME NEW w, w \in Worlds, NEW open, WorkInv(w, open), Tree(w.hc), NEW y \in IrqExit(w)
    PROVE  WorkInv(y, open) /\ (Moving(w.hc) => Moving(y.hc))
<1> DEFINE h == w.hc
           stop == h.count = 0 /\ h.async = <<>>
           Q == IF stop THEN h.irqen \ {"SOFINTR"} ELSE h.irqen
           pd == IF w.chip.pend \cap h.irqen = {} THEN {} ELSE w.chip.pend
           g == [h EXCEPT !.irqen = Q]
           k == [w.chip EXCEPT !.pend = pd]
<1>1. h \in HcTypes
  BY DEF Worlds
<1>2. y = [w EXCEPT !.hc = g, !.chip = k]
  <2> DEFINE off == IF h.count = 0 /\ h.async = <<>>
                    THEN [w EXCEPT !.hc.irqen = @ \ {"SOFINTR"}] ELSE w
  <2>1. off = [w EXCEPT !.hc = g]
    BY <1>1 DEF Worlds, HcTypes
  <2>2. y = [off EXCEPT !.chip.pend = IF @ \cap h.irqen = {} THEN {} ELSE @]
    BY DEF IrqExit
  <2> HIDE DEF off, g
  <2>3. off.chip = w.chip
    BY <1>1, <2>1 DEF Worlds
  <2>4. y = [off EXCEPT !.chip = k]
    BY <2>2, <2>3
  <2> HIDE DEF k
  <2> QED
    BY <2>1, <2>4
<1>3. /\ "DONE_A" \in h.irqen => "DONE_A" \in Q
      /\ stop \/ Q = h.irqen
  OBVIOUS
<1> HIDE DEF Q, pd
<1>4. /\ g.async = h.async /\ g.branch = h.branch /\ g.active = h.active /\ g.pid = h.pid
      /\ g.port = h.port /\ g.irqen = Q /\ g.running = h.running
  BY <1>1 DEF HcTypes
<1> HIDE DEF g, k
<1>5. y.hc = g /\ y.core = w.core
  BY <1>1, <1>2 DEF Worlds
<1>6. Sched(g) = Sched(h)
  BY <1>4, SchedSame
<1>7. WorkInv(y, open)
  BY <1>3, <1>4, <1>5, <1>6, WorkStays DEF WorkInv
<1>8. ASSUME Moving(h) PROVE Moving(g)
  <2>1. CASE stop
    <3>1. Frames(h) = {}
      BY <2>1, CountsFrames
    <3>2. \A x : ~InAsync(h, x)
      BY <2>1, EmptyLists DEF InAsync
    <3>3. Sched(h) = {}
      BY <3>1, <3>2 DEF Sched, Scheduled, Frames
    <3> QED
      BY <1>6, <3>3 DEF Moving
  <2>2. CASE Q = h.irqen
    BY <1>4, <1>6, <1>8, <2>2, MovingStays DEF Enabled
  <2> QED
    BY <1>3, <2>1, <2>2
<1> QED
  BY <1>5, <1>7, <1>8

(* The next packet keeps work going.                                       *)
LEMMA StartSteady ==
    ASSUME DevOK, NEW w, NEW open, Good(w, open), ~w.oops, Tree(w.hc), WorkInv(w, open),
           ~Happens("plug"), ~Happens("suspend"), NEW y \in StartTransfer(w)
    PROVE  WorkInv(y, open) /\ Moving(y.hc)
<1>1. Sane(w) /\ KeptInv(w, open, {}) /\ AllocInv(w.hc) /\ MadeInv(w.hc)
  BY DEF Good, KeptInv, Sane
<1>2. Onward(y, w) /\ y.core = w.core
  BY <1>1, StartOnward, StartTransferFacts DEF Started
<1>3. Attended(y.hc) /\ Listening(y.hc)
  BY <1>1, <1>2, OnwardKeeps DEF WorkInv
<1>4. Overtaken(y.hc, y.core, open)
  BY <1>2 DEF WorkInv, Overtaken, Onward
<1>5. Moving(y.hc)
  BY <1>1, StartMoves DEF WorkInv
<1> QED
  BY <1>3, <1>4, <1>5 DEF WorkInv

(* The world a handler left is sound, and unless it used what is gone what *)
(* keeps work going holds; and so it goes on.                              *)
LeftSteady(w, open) == LeftSound(w, open) /\ (~w.oops => WorkInv(w, open))
LeftMoving(w, open) == LeftSteady(w, open) /\ (~w.oops => Moving(w.hc))

(* One pass of sl811h_irq keeps work going.                                *)
LEMMA IrqPassSteady ==
    ASSUME DevOK, NEW w, NEW open \in SUBSET Urbs, Good(w, open), ~w.oops,
           Happens("overtake") \/ open = {}, NEW irqstat, TreeInv(w, open), WorkInv(w, open),
           ~Happens("plug"), ~Happens("suspend"), Moving(w.hc),
           "INSRMV" \in irqstat
                => /\ w.chip.tok.pid = "none" /\ w.chip.attached /\ ~w.hc.timer
                   /\ w.chip.pend = {} /\ "DONE_A" \notin irqstat,
           NEW y \in IrqPass(w, irqstat)
    PROVE  LeftMoving(y, open)
<1> DEFINE a(x) == IF "DONE_A" \in irqstat THEN IrqDone(x) ELSE {x}
           b(x) == {IF "SOFINTR" \in irqstat THEN IrqSof(x) ELSE x}
           c(x) == IF "INSRMV" \in irqstat THEN IrqInsRmv(x)
                   ELSE {IF "RD" \in irqstat THEN IrqWakeup(x) ELSE x}
           taken(x) == irqstat \ (IF "INSRMV" \notin irqstat /\ "SUSPEND" \notin x.hc.port
                                  THEN {"RD"} ELSE {})
           s(x) == IF taken(x) # {} /\ "ENABLE" \in x.hc.port THEN StartTransfer(x) ELSE {x}
           A == UNION {IF x.oops THEN {x} ELSE a(x) : x \in {w}}
           B == UNION {IF x.oops THEN {x} ELSE b(x) : x \in A}
           C == UNION {IF x.oops THEN {x} ELSE c(x) : x \in B}
           S == UNION {IF x.oops THEN {x} ELSE s(x) : x \in C}
<1>0. LeftSound(y, open)
  BY IrqPassTree
<1>1. y \in UNION {IF x.oops THEN {x} ELSE IrqExit(x) : x \in S}
  BY Zenon DEF IrqPass, Then
<1> HIDE DEF S
<1>2. PICK x4 \in S : y \in IF x4.oops THEN {x4} ELSE IrqExit(x4)
  BY <1>1
<1> HIDE DEF C, s
<1>3. PICK x3 \in C : x4 \in IF x3.oops THEN {x3} ELSE s(x3)
  BY <1>2 DEF S
<1> HIDE DEF B, c
<1>4. PICK x2 \in B : x3 \in IF x2.oops THEN {x2} ELSE c(x2)
  BY <1>3 DEF C
<1> HIDE DEF A, b
<1>5. PICK x1 \in A : x2 \in IF x1.oops THEN {x1} ELSE b(x1)
  BY <1>4 DEF B
<1> HIDE DEF a
<1>6. x1 \in a(w)
  BY <1>5 DEF A
<1> DEFINE settled(x) == "DONE_A" \notin irqstat \/ "ENABLE" \notin x.hc.port => Moving(x.hc)
<1>settled. \A x : settled(x) <=> ("DONE_A" \notin irqstat \/ "ENABLE" \notin x.hc.port => Moving(x.hc))
  OBVIOUS
<1>quiet. \A x : "ENABLE" \notin x.hc.port => Moving(x.hc)
  BY DEF Moving, Enabled
<1> HIDE DEF settled
<1>start. ASSUME LeftSteady(x3, open), ~x3.oops => settled(x3) PROVE LeftMoving(y, open)
  <2>1. LeftMoving(x4, open)
    <3>1. CASE x3.oops
      BY <1>3, <1>start, <3>1 DEF LeftMoving
    <3>2. CASE ~x3.oops /\ (taken(x3) = {} \/ "ENABLE" \notin x3.hc.port)
      <4>1. x4 = x3
        BY <1>3, <3>2 DEF s
      <4>2. taken(x3) = {} => "DONE_A" \notin irqstat
        OBVIOUS
      <4>3. Moving(x3.hc)
        BY <1>start, <1>settled, <3>2, <4>2
      <4> QED
        BY <1>start, <4>1, <4>3 DEF LeftMoving
    <3>3. CASE ~x3.oops /\ ~(taken(x3) = {} \/ "ENABLE" \notin x3.hc.port)
      <4>1. x4 \in StartTransfer(x3)
        BY <1>3, <3>3 DEF s
      <4>2. Good(x3, open) /\ TreeInv(x3, open) /\ Sane(x3) /\ WorkInv(x3, open) /\ Tree(x3.hc)
        BY <1>start, <3>3 DEF LeftSteady, LeftSound, Good, TreeInv
      <4>3. Good(x4, open)
        BY <3>3, <4>1, <4>2, StartGood
      <4>4. TreeInv(x4, open)
        BY <4>1, <4>2, StartTreeInv
      <4>5. WorkInv(x4, open) /\ Moving(x4.hc)
        BY <3>3, <4>1, <4>2, StartSteady
      <4> QED
        BY <4>3, <4>4, <4>5 DEF LeftMoving, LeftSteady, LeftSound
    <3> QED
      BY <3>1, <3>2, <3>3
  <2>2. CASE x4.oops
    BY <1>2, <2>1, <2>2
  <2>3. CASE ~x4.oops
    <3>1. y \in IrqExit(x4) /\ x4 \in Worlds /\ Tree(x4.hc) /\ WorkInv(x4, open) /\ Moving(x4.hc)
      BY <1>2, <2>1, <2>3 DEF LeftMoving, LeftSteady, LeftSound, Good, Sane, TreeInv
    <3>2. WorkInv(y, open) /\ Moving(y.hc)
      BY <3>1, IrqExitSteady
    <3> QED
      BY <1>0, <3>2 DEF LeftMoving, LeftSteady
  <2> QED
    BY <2>2, <2>3
<1>w. w \in Worlds /\ Tree(w.hc)
  BY DEF Good, Sane, TreeInv
<1>Idle. CASE "INSRMV" \in irqstat
  <2>1. x1 = w
    BY <1>6, <1>Idle DEF a
  <2>2. x2 = w \/ x2 = IrqSof(w)
    BY <1>5, <2>1 DEF b
  <2>3. /\ Good(x2, open) /\ ~x2.oops /\ x2.chip = w.chip /\ x2.hc.timer = w.hc.timer
        /\ x2.hc.active = w.hc.active
    BY <2>2, IrqSofGood DEF SameBut, SamePort
  <2>4. x3 \in IrqInsRmv(x2)
    BY <1>4, <1>Idle, <2>3 DEF c
  <2>5. Good(x3, open)
    BY <1>Idle, <2>3, <2>4, InsRmvIdle
  <2>6. TreeInv(x2, open)
    BY <2>2, IrqSofTree
  <2>7. w.hc.active = None
    BY <1>Idle DEF Good, KeptInv, PortInv, Idle
  <2>8. LeftSound(x3, open)
    BY <2>3, <2>4, <2>5, <2>6, <2>7, IrqInsRmvTree DEF LeftSound
  <2>9. WorkInv(x3, open) /\ Moving(x3.hc)
    BY <1>Idle, <2>3, <2>4, InsRmvSteady
  <2> QED
    BY <1>start, <1>settled, <2>8, <2>9 DEF LeftSteady
<1>Other. CASE "INSRMV" \notin irqstat
  <2>1. LeftSteady(x1, open) /\ (~x1.oops => settled(x1))
    <3>1. CASE "DONE_A" \notin irqstat
      <4>1. x1 = w
        BY <1>6, <3>1 DEF a
      <4> QED
        BY <1>settled, <4>1 DEF LeftSteady, LeftSound
    <3>2. CASE "DONE_A" \in irqstat
      <4>1. x1 \in IrqDone(w)
        BY <1>6, <3>2 DEF a
      <4>2. Good(x1, open) /\ (~x1.oops => TreeInv(x1, open))
        BY <4>1, IrqDoneGood, IrqDoneTree
      <4>3. ~x1.oops => WorkInv(x1, open)
        BY <1>w, <4>1, IrqDoneSteady
      <4> QED
        BY <1>settled, <1>quiet, <3>2, <4>2, <4>3 DEF LeftSteady, LeftSound
    <3> QED
      BY <3>1, <3>2
  <2>2. LeftSteady(x2, open) /\ (~x2.oops => settled(x2))
    <3>1. x2 = x1 \/ (x2 = IrqSof(x1) /\ ~x1.oops)
      BY <1>5 DEF b
    <3>2. CASE x2 = IrqSof(x1) /\ ~x1.oops
      <4>1. Good(x1, open) /\ TreeInv(x1, open) /\ x1 \in Worlds /\ WorkInv(x1, open) /\ settled(x1)
        BY <2>1, <3>2 DEF LeftSteady, LeftSound, Good, Sane
      <4>2. Good(x2, open) /\ TreeInv(x2, open)
        BY <3>2, <4>1, IrqSofGood, IrqSofTree
      <4>3. WorkInv(x2, open) /\ (Moving(x1.hc) => Moving(x2.hc))
        BY <3>2, <4>1, IrqSofSteady
      <4> QED
        BY <1>settled, <1>quiet, <4>1, <4>2, <4>3 DEF LeftSteady, LeftSound
    <3> QED
      BY <2>1, <3>1, <3>2
  <2>3. LeftSteady(x3, open) /\ (~x3.oops => settled(x3))
    <3>1. CASE x2.oops
      BY <1>4, <2>2, <3>1
    <3>2. CASE ~x2.oops
      <4>1. /\ x3 = IrqWakeup(x2) \/ x3 = x2
            /\ Good(x2, open) /\ TreeInv(x2, open) /\ x2 \in Worlds /\ WorkInv(x2, open) /\ settled(x2)
        BY <1>4, <1>Other, <2>2, <3>2 DEF c, LeftSteady, LeftSound, Good, Sane
      <4>2. CASE x3 = IrqWakeup(x2)
        <5>1. Good(x3, open) /\ TreeInv(x3, open)
          BY <3>2, <4>1, <4>2, IrqWakeupGood, IrqWakeupTree
        <5>2. WorkInv(x3, open) /\ (Moving(x2.hc) => Moving(x3.hc))
          BY <4>1, <4>2, IrqWakeupSteady
        <5> QED
          BY <1>settled, <1>quiet, <4>1, <5>1, <5>2 DEF LeftSteady, LeftSound
      <4> QED
        BY <2>2, <4>1, <4>2
    <3> QED
      BY <3>1, <3>2
  <2> QED
    BY <1>start, <2>3
<1> QED
  BY <1>Idle, <1>Other

(* sl811h_irq keeps work going.                                            *)
LEMMA IrqSteady ==
    ASSUME DevOK, Good(World, core.calls), ~oops, TreeInv(World, core.calls),
           WorkInv(World, core.calls), Moving(hc), ~Happens("plug"), ~Happens("suspend"),
           Happens("overtake") \/ core.calls = {}, Irq
    PROVE  \E y : Becomes(y) /\ LeftMoving(y, core.calls)
<1> DEFINE irqstat == chip.pend \cap hc.irqen
           read == Read(World)
           overdue == hc.active # None /\ hc.late
           open == core.calls
<1>1. PICK y \in IF irqstat # {} THEN IrqPass(read, irqstat)
                 ELSE UNION {IrqPass(CheckDone(x), IF overdue THEN {"DONE_A"} ELSE {}) :
                                 x \in Slips(read)} :
          Becomes(y)
  BY DEF Irq, Read
<1>2. /\ World.hc = hc /\ World.core = core /\ World.chip = chip /\ World.oops = oops
      /\ hc \in HcTypes
  BY WorldFacts
<1>3. open \in SUBSET Urbs /\ World.core.calls = open
  BY <1>2 DEF Good, Sane, Worlds, CoreTypes
<1>4. /\ Good(read, open) /\ ~read.oops /\ read.hc = hc /\ read.core = core
      /\ read.chip.pend = {} /\ read.chip.tok = chip.tok /\ read.chip.attached = chip.attached
      /\ read.bus = bus
  <2>1. read.bus = World.bus /\ World.bus = bus
    BY DEF Read, World
  <2> QED
    BY <1>2, <2>1, ReadGood
<1>r. TreeInv(read, open) /\ WorkInv(read, open) /\ read \in Worlds /\ read.hc \in HcTypes
  <2>1. TreeInv(World, open) /\ WorkInv(World, open)
    OBVIOUS
  <2>2. read \in Worlds
    BY <1>4 DEF Good, Sane
  <2> HIDE DEF read, open
  <2>3. WorkInv(read, open)
    BY <1>2, <1>4, <2>1 DEF WorkInv
  <2> QED
    BY <1>2, <1>3, <1>4, <2>1, <2>2, <2>3, SameHcTree
<1>5. "INSRMV" \in irqstat
        => chip.tok.pid = "none" /\ chip.attached /\ ~hc.timer /\ "DONE_A" \notin irqstat
  <2>1. PortInv(hc, core, chip)
    BY <1>2 DEF Good, KeptInv
  <2> QED
    BY <2>1 DEF PortInv, Idle, Live
<1> HIDE DEF irqstat, read, open, overdue
<1>6. CASE irqstat # {}
  <2>1. y \in IrqPass(read, irqstat)
    BY <1>1, <1>6
  <2>2. LeftMoving(y, open)
    BY <1>3, <1>4, <1>5, <1>r, <2>1, IrqPassSteady DEF open
  <2> QED
    BY <1>1, <2>2 DEF open
<1>7. CASE irqstat = {}
  <2> DEFINE st == IF overdue THEN {"DONE_A"} ELSE {}
  <2>p. PICK x \in Slips(read) : y \in IrqPass(CheckDone(x), st)
    BY <1>1, <1>7
  <2>x. Good(x, open) /\ ~x.oops /\ x.hc = read.hc /\ x.core = read.core
    BY <1>4, <2>p, SlipsGood
  <2> DEFINE z == CheckDone(x)
  <2>1. y \in IrqPass(z, st) /\ "INSRMV" \notin st
    BY <2>p
  <2>z. z = CheckDone(x)
    OBVIOUS
  <2> HIDE DEF z, st
  <2>2. Good(z, open) /\ ~z.oops
    BY <2>x, <2>z, CheckDoneGood
  <2>3. z.hc = read.hc /\ z.core = read.core
    <3>1. x \in Worlds
      BY <2>x DEF Good, Sane
    <3> QED
      BY <2>x, <2>z, <3>1, CheckDoneSame
  <2>4. TreeInv(z, open) /\ WorkInv(z, open) /\ Moving(z.hc)
    <3>1. WorkInv(z, open) /\ Moving(z.hc)
      BY <1>4, <1>r, <2>3 DEF WorkInv
    <3> QED
      BY <1>3, <1>r, <2>3, <3>1, SameHcTree
  <2>5. LeftMoving(y, open)
    BY <1>3, <2>1, <2>2, <2>4, IrqPassSteady DEF open
  <2> QED
    BY <1>1, <2>5 DEF open
<1> QED
  BY <1>6, <1>7

(* urb_enqueue of an URB linked earlier keeps work going.                  *)
LEMMA LinkedSteady ==
    ASSUME DevOK, NEW w, Sane(w), ~w.oops, NEW none, none = {}, NEW u \in Urbs,
           KeptInv(w, none \union {u}, {}), w.core.calls = {}, TreeInv(w, none \union {u}),
           WorkInv(w, none \union {u}), Moving(w.hc), ~Happens("plug"), ~Happens("suspend"),
           NEW y \in EnqueueLinked(w, u), ~y.oops
    PROVE  WorkInv(y, none) /\ Moving(y.hc)
<1>n. none \in SUBSET Urbs /\ u \notin none /\ (Happens("overtake") \/ none = {})
      /\ none \ {u} = none
  OBVIOUS
<1>q. Queued(w.core, u) \/ (Happens("overtake") /\ w.core.status[u] # "busy")
  BY DEF KeptInv, OpenInv
<1>t. TreeInv(w, none)
  BY DEF TreeInv, LateIn
<1>o. \A h, c : Overtaken(h, c, none)
  BY DEF Overtaken
<1>w. w \in Worlds /\ AllocInv(w.hc) /\ MadeInv(w.hc) /\ Attended(w.hc) /\ Listening(w.hc)
  BY DEF Sane, KeptInv, WorkInv
<1>1. CASE Accept(w, u) = {}
  <2>1. y = Reject(w, u)
    BY <1>1 DEF EnqueueLinked, Enqueue
  <2>2. Onward(y, w) /\ Sched(y.hc) = Sched(w.hc)
        /\ y.hc.irqen = w.hc.irqen /\ y.hc.active = w.hc.active
    BY <2>1, RejectOnward
  <2>3. Attended(y.hc) /\ Listening(y.hc)
    BY <1>w, <2>2, OnwardKeeps
  <2>4. Enabled(y.hc) => Enabled(w.hc)
    BY <2>2 DEF Onward, SamePort, Enabled
  <2>5. Moving(y.hc)
    BY <2>2, <2>4, MovingStays
  <2> QED
    BY <1>o, <2>3, <2>5 DEF WorkInv
<1>2. CASE w.core.status[u] = "busy" /\ Accept(w, u) # {}
  <2>1. y \in UNION {IF x.oops THEN {x} ELSE StartTransfer(x) : x \in Accept(w, u)}
        /\ Queued(w.core, u)
    BY <1>2, <1>q, Zenon DEF EnqueueLinked, Enqueue, Then
  <2>2. PICK x \in Accept(w, u) : y \in IF x.oops THEN {x} ELSE StartTransfer(x)
    BY <2>1
  <2>3. TreeInv(x, none) /\ Tree(x.hc) /\ Sane(x) /\ SameBut(x, w)
    BY <1>n, <1>t, <2>1, <2>2, AcceptTreeInv DEF TreeInv
  <2>4. y \in StartTransfer(x)
    BY <2>2, <2>3 DEF SameBut
  <2>5. KeptInv(x, none, {}) /\ AllocInv(x.hc) /\ MadeInv(x.hc)
    BY <1>n, <2>1, <2>2, <2>3, AcceptKeeps DEF KeptInv, Sane
  <2>6. Onward(x, w)
    BY <2>2, AcceptOnward
  <2>7. Attended(x.hc) /\ Listening(x.hc)
    BY <1>w, <2>6, OnwardKeeps
  <2>8. Onward(y, x)
    BY <2>3, <2>4, StartOnward
  <2>9. Attended(y.hc) /\ Listening(y.hc)
    BY <2>5, <2>7, <2>8, OnwardKeeps
  <2>10. Moving(y.hc)
    BY <2>3, <2>4, <2>5, <2>7, StartMoves
  <2> QED
    BY <1>o, <2>9, <2>10 DEF WorkInv
<1>3. CASE Accept(w, u) # {} /\ w.core.status[u] # "busy"
  <2>1. y \in UNION {IF x.oops THEN {x} ELSE FinishRequest(x, EpOf(u), u, "ok") : x \in Accept(w, u)}
    BY <1>3, Zenon DEF EnqueueLinked, Then
  <2>2. PICK x \in Accept(w, u) : y \in IF x.oops THEN {x} ELSE FinishRequest(x, EpOf(u), u, "ok")
    BY <2>1
  <2>3. Sane(x) /\ SameBut(x, w) /\ EpOf(u) \in Made(x.hc)
    BY <2>2, AcceptSane
  <2>4. y \in FinishRequest(x, EpOf(u), u, "ok") /\ ~x.oops /\ x.core = w.core
    BY <2>2, <2>3 DEF SameBut
  <2>5. Queued(w.core, u)
    BY <2>3, <2>4, AbsentGivenBack
  <2>6. KeptInv(x, none, {})
    BY <1>n, <2>2, <2>5, AcceptKeeps
  <2>7. Tree(x.hc)
    BY <1>n, <1>t, <2>2, <2>5, AcceptTreeInv DEF TreeInv
  <2>8. "ok" \in Statuses /\ "ok" # "busy"
    BY DEF Statuses
  <2>9. /\ Queued(x.core, u) /\ x.core.calls = none /\ x.core.status[u] # "busy"
        /\ Overtaken(x.hc, x.core, none \ {u})
    BY <1>3, <1>n, <1>o, <2>4, <2>5
  <2>10. Onward(x, w)
    BY <2>2, AcceptOnward
  <2>11. Attended(x.hc) /\ Listening(x.hc) /\ (Mover(w.hc) => Mover(x.hc))
    BY <1>w, <2>10, OnwardKeeps
  <2>12. Steady(y, x, u, none)
    BY <1>n, <2>3, <2>4, <2>6, <2>7, <2>8, <2>9, <2>11, FinishSteady
  <2>13. Type(EpOf(u)) = "control" /\ EpOf(u) \in Sched(w.hc)
    BY <1>3, <2>5 DEF WorkInv, Overtaken, Queued
  <2>14. Enabled(w.hc)
    BY <1>3 DEF Accept, Alive, Enabled
  <2>15. Mover(w.hc)
    BY <2>13, <2>14 DEF Moving
  <2>16. Mover(y.hc) /\ Attended(y.hc) /\ Listening(y.hc)
    BY <2>11, <2>12, <2>13, <2>15 DEF Steady
  <2> QED
    BY <1>o, <2>16 DEF WorkInv, Moving
<1> QED
  BY <1>1, <1>2, <1>3

(* What is said of the work is about the device, which stays the same.     *)
LEMMA WorkDeviceStays ==
    ASSUME dev' = dev, NEW y, NEW open, WorkInv(y, open)
    PROVE  WorkInv(y, open)'
<1>1. \A u : EpOf(u)' = EpOf(u)
  BY DEF EpOf
<1>2. \A e : Type(e)' = Type(e)
  BY DEF Type
<1>3. Overtaken(y.hc, y.core, open)' <=> Overtaken(y.hc, y.core, open)
  BY <1>1, <1>2 DEF Overtaken
<1>4. Attended(y.hc)' <=> Attended(y.hc)
  BY <1>2 DEF Attended
<1> QED
  BY <1>3, <1>4 DEF WorkInv, Listening

(* The next world is one in which work goes on.                            *)
LEMMA WorkNext ==
    ASSUME NEW y \in Worlds, Becomes(y), NEW open, y.core.calls = open,
           ~y.oops => WorkInv(y, open) /\ Moving(y.hc)
    PROVE  ~oops' => WorkInv(World, core.calls)' /\ Moving(hc)'
<1>1. World' = y /\ dev' = dev /\ core'.calls = open /\ oops' = y.oops /\ hc' = y.hc
  BY BecomesWorld DEF Becomes
<1>2. ASSUME ~oops' PROVE WorkInv(y, open)'
  BY <1>1, <1>2, WorkDeviceStays
<1>3. ASSUME ~oops' PROVE Moving(hc)'
  BY <1>1, <1>3 DEF Moving, Mover, Enabled
<1> QED
  BY <1>1, <1>2, <1>3

(* urb_enqueue keeps work going, wherever it finds the URB.                *)
LEMMA UrbEnqueueSteady ==
    ASSUME DevOK, Good(World, core.calls), ~oops, Single(core.calls),
           TreeInv(World, core.calls), WorkInv(World, core.calls), Moving(hc),
           ~Happens("plug"), ~Happens("suspend"), NEW u \in Urbs, UrbEnqueue(u)
    PROVE  ~oops' => WorkInv(World, core.calls)' /\ Moving(hc)'
<1> DEFINE w == Calling(World, {})
           none == {}
           v == World
<1>1. PICK y \in EnqueueLinked(w, u) : Becomes(y)
  BY DEF UrbEnqueue, Calling
<1>2. /\ v.oops = oops /\ Sane(v) /\ v.hc = hc /\ v.core = core
      /\ KeptInv(v, core.calls, {}) /\ ActiveInv(hc, core, core.calls)
  BY WorldFacts
<1>3. core.calls = none \union {u} /\ none = {} /\ none \in SUBSET Urbs
  BY DEF Single, UrbEnqueue
<1>w. w = Calling(v, none)
  OBVIOUS
<1>t. TreeInv(v, none \union {u}) /\ WorkInv(v, none \union {u})
  BY <1>3
<1> HIDE DEF w, none, v
<1>4. KeptInv(v, none \union {u}, {}) /\ ActiveInv(v.hc, v.core, none \union {u})
  BY <1>2, <1>3
<1>5. /\ Sane(w) /\ KeptInv(w, none \union {u}, {}) /\ w.oops = v.oops /\ w.core.calls = none
      /\ ActiveInv(w.hc, w.core, none \union {u})
      /\ w.hc = v.hc /\ w.core.q = v.core.q /\ w.core.status = v.core.status
      /\ w.core.closed = v.core.closed
  BY <1>2, <1>3, <1>4, <1>w, CallingFacts
<1>6. Good(y, none)
  BY <1>1, <1>2, <1>3, <1>5, LinkedGood
<1>7. /\ TreeInv(w, none \union {u}) /\ WorkInv(w, none \union {u}) /\ Moving(w.hc)
  BY <1>2, <1>5, <1>t DEF TreeInv, ActiveIn, LateIn, WorkInv, Overtaken
<1>8. ~y.oops => WorkInv(y, none) /\ Moving(y.hc)
  BY <1>1, <1>2, <1>3, <1>5, <1>7, LinkedSteady
<1>9. y \in Worlds /\ y.core.calls = none
  BY <1>6 DEF Good, Sane
<1> QED
  BY <1>1, <1>8, <1>9, WorkNext

(* The first half of usb_submit_urb keeps work going, ...                  *)
LEMMA SubmitSteady ==
    ASSUME DevOK, Good(World, core.calls), ~oops, WorkInv(World, core.calls), Moving(hc),
           NEW u \in Urbs, Submit(u)
    PROVE  ~oops' => WorkInv(World, core.calls)' /\ Moving(hc)'
<1> DEFINE w == World
           z == Link(w, u)
           one == {u}
           y == Calling(z, one)
<1>1. /\ w.hc = hc /\ w.core = core /\ w \in Worlds /\ Sane(w)
      /\ ~Queued(core, u) /\ Becomes(y)
  BY WorldFacts DEF Submit, Calling
<1>w. WorkInv(w, core.calls)
  OBVIOUS
<1>z. z = Link(w, u)
  OBVIOUS
<1>y. y = Calling(z, one) /\ one \in SUBSET Urbs /\ \A x : x \in one <=> x = u
  OBVIOUS
<1> HIDE DEF w, z, one, y
<1>2. Sane(z) /\ z \in Worlds /\ z.core.status[u] = "busy" /\ z.hc = w.hc
  BY <1>1, <1>z, LinkFacts DEF Sane
<1>3. /\ y \in Worlds /\ y.hc = z.hc /\ y.core.status = z.core.status /\ y.core.calls = one
  BY <1>2, <1>y DEF Calling, Worlds, CoreTypes
<1>4. Overtaken(y.hc, y.core, one)
  BY <1>2, <1>3, <1>y DEF Overtaken
<1>5. WorkInv(y, one) /\ Moving(y.hc)
  BY <1>1, <1>2, <1>3, <1>4, <1>w DEF WorkInv
<1> QED
  BY <1>1, <1>3, <1>5, WorkNext

(* ... and so does usb_unlink_urb, but for an URB that urb_enqueue has yet *)
(* to take, ...                                                            *)
LEMMA UnlinkSteady ==
    ASSUME DevOK, Good(World, core.calls), ~oops, WorkInv(World, core.calls), Moving(hc),
           ~Happens("race"), NEW u \in Urbs, Unlink(u)
    PROVE  ~oops' => WorkInv(World, core.calls)' /\ Moving(hc)'
<1> DEFINE open == core.calls
<1>1. PICK y : Becomes(y) /\ Good(y, open)
  BY UnlinkGood
<1>2. y.hc = hc /\ y.core = [core EXCEPT !.status[u] = "unlinked"]
  BY <1>1 DEF Unlink, Becomes
<1>3. core \in CoreTypes /\ open \in SUBSET Urbs /\ World.hc = hc /\ World.core = core
  BY WorldFacts
<1>4. u \notin open
  BY DEF Unlink, Happens
<1>5. y.core.q = core.q /\ \A x \in open : y.core.status[x] = core.status[x]
  BY <1>2, <1>3, <1>4 DEF CoreTypes
<1>6. y \in Worlds /\ y.core.calls = open
  BY <1>1 DEF Good, Sane
<1>w. WorkInv(World, open)
  OBVIOUS
<1> HIDE DEF open
<1>7. Overtaken(y.hc, y.core, open) /\ Attended(y.hc) /\ Listening(y.hc)
  BY <1>2, <1>3, <1>5, <1>w DEF WorkInv, Overtaken
<1>8. WorkInv(y, open) /\ Moving(y.hc)
  BY <1>2, <1>7 DEF WorkInv
<1> QED
  BY <1>1, <1>6, <1>8, WorkNext DEF open

(* ... a step that leaves the schedules alone and enables the port when    *)
(* they are empty, if at all, ...                                          *)
LEMMA QuietSteady ==
    ASSUME DevOK, Good(World, core.calls), ~oops, WorkInv(World, core.calls), Moving(hc),
           NEW y, Becomes(y), Good(y, core.calls), core' = core, Still(hc', hc),
           hc'.active = hc.active, hc'.async = hc.async, hc'.pid = hc.pid,
           "ENABLE" \in hc'.port
                => \/ Sched(hc) = {} /\ "DONE_A" \in hc'.irqen
                   \/ "ENABLE" \in hc.port /\ hc'.irqen = hc.irqen /\ hc'.running = hc.running
    PROVE  ~oops' => WorkInv(World, core.calls)' /\ Moving(hc)'
<1> DEFINE open == core.calls
           w == World
<1>1. w.hc = hc /\ w.core = core
  BY WorldFacts
<1>2. y \in Worlds /\ y.core.calls = open
  BY DEF Good, Sane
<1>3. y.hc = hc' /\ y.core = core'
  BY DEF Becomes
<1>4. Sched(y.hc) = Sched(hc)
  BY <1>3, SchedSame DEF Still, SameTree
<1>w. WorkInv(w, open) /\ Becomes(y)
  OBVIOUS
<1> HIDE DEF open, w
<1>5. Overtaken(y.hc, y.core, open) /\ Attended(y.hc) /\ Listening(y.hc)
  BY <1>1, <1>3, <1>4, <1>w DEF WorkInv, Overtaken, Attended, Listening
<1>6. Moving(y.hc)
  BY <1>3, <1>4 DEF Moving, Mover, Enabled
<1>7. WorkInv(y, open)
  BY <1>5 DEF WorkInv
<1> QED
  BY <1>2, <1>6, <1>7, <1>w, WorkNext

(* ... as the timer does, ...                                              *)
LEMMA TimerSteady ==
    ASSUME DevOK, Good(World, core.calls), ~oops, WorkInv(World, core.calls), Moving(hc),
           ~Happens("plug"), ~Happens("suspend"), Timer
    PROVE  ~oops' => WorkInv(World, core.calls)' /\ Moving(hc)'
<1> DEFINE off == [hc EXCEPT !.timer = FALSE]
           mask == {"CONNECTION", "ENABLE"}
<1>1. hc \in HcTypes /\ PortInv(hc, core, chip) /\ hc.timer
  BY WorldFacts DEF Timer
<1>2. Sched(hc) = {}
  BY <1>1 DEF PortInv, Idle, Live
<1>3. PICK P, I, D : /\ hc' = [off EXCEPT !.port = P, !.irqen = I, !.ctrl1 = D]
                     /\ "DONE_A" \in I \/ "ENABLE" \notin P
  <2> DEFINE To(P, I, D) == hc' = [off EXCEPT !.port = P, !.irqen = I, !.ctrl1 = D]
  <2>1. \/ \E Q, D : To(Q \ mask, {"INSRMV"}, D)
        \/ \E Q, D : To(Q, {"INSRMV", "RD", "DONE_A"}, D)
    BY DEF Timer, Becomes, World
  <2> HIDE DEF To
  <2>2. \E P, I, D : To(P, I, D) /\ ("DONE_A" \in I \/ "ENABLE" \notin P)
    <3>1. "DONE_A" \in {"INSRMV", "RD", "DONE_A"} /\ \A Q : "ENABLE" \notin Q \ mask
      OBVIOUS
    <3> QED
      BY <2>1, <3>1, Zenon
  <2> QED
    BY <2>2 DEF To
<1>4. hc'.port = P /\ hc'.irqen = I /\ hc'.async = hc.async /\ hc'.pid = hc.pid
  BY <1>1, <1>3 DEF HcTypes
<1>5. "ENABLE" \in hc'.port => "DONE_A" \in hc'.irqen
  BY <1>3, <1>4
<1>6. PICK y : Becomes(y) /\ Good(y, core.calls)
  BY TimerGood
<1>7. core' = core /\ Still(hc', hc) /\ hc'.active = hc.active
  BY <1>1, TimerStill
<1> QED
  BY <1>2, <1>4, <1>5, <1>6, <1>7, QuietSteady

(* ... the requests of the hub driver ...                                  *)
LEMMA HubDriverSteady ==
    ASSUME DevOK, Good(World, core.calls), ~oops, WorkInv(World, core.calls), Moving(hc),
           ~Happens("plug"), ~Happens("suspend"), HubDriver
    PROVE  ~oops' => WorkInv(World, core.calls)' /\ Moving(hc)'
<1> DEFINE Alike ==
             /\ hc'.async = hc.async /\ hc'.pid = hc.pid
             /\ "ENABLE" \in hc'.port
                  => "ENABLE" \in hc.port /\ hc'.irqen = hc.irqen /\ hc'.running = hc.running
<1>1. hc \in HcTypes
  BY WorldFacts
<1>2. \/ ClearPortChange \/ ("ENABLE" \notin hc.port /\ SetPortReset)
      \/ Resume \/ \E on \in BOOLEAN : SetPortPower(on)
  BY DEF HubDriver, Happens
<1>3. ASSUME ClearPortChange PROVE Alike
  BY <1>1, <1>3 DEF ClearPortChange, Hub, HcTypes
<1>4. ASSUME "ENABLE" \notin hc.port /\ SetPortReset PROVE Alike
  BY <1>1, <1>4 DEF SetPortReset, Hub, HcTypes
<1>5. ASSUME Resume PROVE Alike
  BY <1>1, <1>5 DEF Resume, Powered, PortPower, HcTypes
<1>6. ASSUME \E on \in BOOLEAN : SetPortPower(on) PROVE Alike
  BY <1>1, <1>6 DEF SetPortPower, Powered, PortPower, HcTypes
<1>7. Alike
  BY <1>2, <1>3, <1>4, <1>5, <1>6
<1>8. PICK y : Becomes(y) /\ Good(y, core.calls)
  BY HubDriverGood
<1>9. core' = core /\ Still(hc', hc) /\ hc'.active = hc.active
  BY <1>1, HubDriverStill
<1>10. /\ hc'.async = hc.async /\ hc'.pid = hc.pid
       /\ "ENABLE" \in hc'.port
            => "ENABLE" \in hc.port /\ hc'.irqen = hc.irqen /\ hc'.running = hc.running
  BY <1>7
<1> HIDE DEF Alike
<1> QED
  BY <1>8, <1>9, <1>10, QuietSteady

(* ... and what the chip does.                                             *)
LEMMA ChipSteady ==
    ASSUME DevOK, Good(World, core.calls), ~oops, WorkInv(World, core.calls), Moving(hc), Chip
    PROVE  ~oops' => WorkInv(World, core.calls)' /\ Moving(hc)'
<1>1. hc \in HcTypes
  BY WorldFacts
<1>2. hc' = hc \/ hc' = [hc EXCEPT !.late = TRUE]
  <2>1. CASE Answer
    BY <2>1, AnsweredIs DEF Answer
  <2>2. CASE ~Answer
    BY <2>2 DEF Chip, Kicked, Frame, RemoteWakeup, Plug, LoseDone, Overdue, Pends
  <2> QED
    BY <2>1, <2>2
<1>3. /\ hc'.async = hc.async /\ hc'.pid = hc.pid
      /\ hc'.port = hc.port /\ hc'.irqen = hc.irqen /\ hc'.running = hc.running
  BY <1>1, <1>2 DEF HcTypes
<1>4. PICK y : Becomes(y) /\ Good(y, core.calls)
  BY ChipStepGood
<1>5. core' = core /\ Still(hc', hc) /\ hc'.active = hc.active
  BY <1>1, ChipStill
<1> QED
  BY <1>3, <1>4, <1>5, QuietSteady

(* Nobody unplugs or suspends the device or unlinks an URB whose           *)
(* submission is under way.                                                *)
Tame == ~Happens("plug") /\ ~Happens("race") /\ ~Happens("suspend")

(* The inductive invariant of the work.                                    *)
WorkGoesOn == FramesRight /\ (~oops /\ Tame => WorkInv(World, core.calls) /\ Moving(hc))

(* Nothing waits at first.                                                 *)
LEMMA InitSteady ==
    ASSUME Init
    PROVE  WorkInv(World, core.calls) /\ Moving(hc)
<1>1. /\ World.hc = hc /\ World.core = core /\ core.calls = {} /\ hc.active = None
      /\ "ENABLE" \notin hc.port
  BY DEF Init, World
<1> QED
  BY <1>1 DEF WorkInv, Overtaken, Attended, Listening, Moving, Enabled

(* Every step keeps it.                                                    *)
LEMMA StepSteady ==
    ASSUME WorkGoesOn, [Next]_vars
    PROVE  WorkGoesOn'
<1>1. DevOK /\ Good(World, core.calls) /\ Single(core.calls) /\ FramesRight
  BY DEF WorkGoesOn, FramesRight, SlInv
<1>2. FramesRight'
  BY <1>1, StepTree
<1> DEFINE Goal == ~oops' => WorkInv(World, core.calls)' /\ Moving(hc)'
<1> SUFFICES ASSUME Tame' PROVE Goal
  BY <1>2 DEF WorkGoesOn
<1>3. CASE UNCHANGED vars
  <2>1. Becomes(World) /\ World \in Worlds /\ World.core.calls = core.calls /\ dev' = dev
    BY <1>1, <1>3 DEF Becomes, World, vars, Good, Sane
  <2>2. Tame
    BY <2>1 DEF Tame, Happens
  <2>3. ~World.oops => WorkInv(World, core.calls) /\ Moving(World.hc)
    BY <2>2 DEF WorkGoesOn, World
  <2> QED
    BY <2>1, <2>3, WorkNext
<1>4. CASE Next
  <2>1. ~oops /\ dev' = dev
    BY <1>4, NextDevice DEF Next
  <2>2. Tame /\ ~Happens("plug") /\ ~Happens("race") /\ ~Happens("suspend")
    BY <2>1 DEF Tame, Happens
  <2>3. /\ TreeInv(World, core.calls) /\ WorkInv(World, core.calls) /\ Moving(hc)
        /\ core.closed = {}
    BY <1>1, <2>1, <2>2, WorldFacts DEF WorkGoesOn, FramesRight, Unraced, PortInv
  <2>4. ASSUME NEW u \in Urbs, Submit(u) PROVE Goal
    BY <1>1, <2>1, <2>3, <2>4, SubmitSteady
  <2>5. ASSUME NEW u \in Urbs, UrbEnqueue(u) PROVE Goal
    BY <1>1, <2>1, <2>2, <2>3, <2>5, UrbEnqueueSteady
  <2>6. ASSUME NEW u \in Urbs, Unlink(u) PROVE Goal
    BY <1>1, <2>1, <2>2, <2>3, <2>6, UnlinkSteady
  <2>7. \A e \in Ep : ~Close(e) /\ ~EndpointDisable(e)
    BY <2>2, <2>3 DEF Close, EndpointDisable, Happens
  <2>8. ASSUME Irq, Happens("overtake") \/ core.calls = {} PROVE Goal
    <3>1. PICK y : Becomes(y) /\ LeftMoving(y, core.calls)
      BY <1>1, <2>1, <2>2, <2>3, <2>8, IrqSteady
    <3>2. /\ y \in Worlds /\ y.core.calls = core.calls
          /\ ~y.oops => WorkInv(y, core.calls) /\ Moving(y.hc)
      BY <3>1 DEF LeftMoving, LeftSteady, LeftSound, Good, Sane
    <3> QED
      BY <3>1, <3>2, WorkNext
  <2>9. CASE Timer
    BY <1>1, <2>1, <2>2, <2>3, <2>9, TimerSteady
  <2>10. CASE HubDriver
    BY <1>1, <2>1, <2>2, <2>3, <2>10, HubDriverSteady
  <2>11. CASE Chip
    BY <1>1, <2>1, <2>3, <2>11, ChipSteady
  <2> HIDE DEF Goal
  <2> QED
    BY <1>4, <2>4, <2>5, <2>6, <2>7, <2>8, <2>9, <2>10, <2>11 DEF Next, Driver, Happens
<1> QED
  BY <1>3, <1>4

(* While an endpoint waits in a schedule of an enabled port, a packet is   *)
(* under way or the next frame interrupts, through every order of          *)
(* submissions, completions and lost interrupts (start_transfer, done,     *)
(* sl811h_irq), unless the device is unplugged or suspended or an URB is   *)
(* unlinked before urb_enqueue took it.                                    *)
THEOREM NothingStalls == Spec => []NoStallUnlessRaced
<1>1. Init => WorkGoesOn
  BY InitGood, InitTree, InitSteady DEF WorkGoesOn, FramesRight
<1>2. WorkGoesOn /\ [Next]_vars => WorkGoesOn'
  BY StepSteady
<1>3. WorkGoesOn => NoStallUnlessRaced
  <2> SUFFICES ASSUME WorkGoesOn, dev.env \cap {"race", "plug", "suspend"} = {} PROVE NoStall
    BY DEF NoStallUnlessRaced
  <2>1. Tame
    BY DEF Tame, Happens
  <2>2. CASE oops
    BY <2>2 DEF NoStall
  <2>3. CASE ~oops
    <3>1. Moving(hc)
      BY <2>1, <2>3 DEF WorkGoesOn
    <3>2. Alive(World) <=> Enabled(hc)
      BY DEF Alive, World, Enabled
    <3> QED
      BY <3>1, <3>2 DEF NoStall, Moving, Mover, Sched
  <2> QED
    BY <2>2, <2>3
<1> QED
  BY <1>1, <1>2, <1>3, PTL DEF Spec

=============================================================================

----------------------------- MODULE Sl811_proofs -----------------------------
(* The inductive invariant of the host controller driver, SlInv, and what  *)
(* follows from it: that every handler of sl811_hcd keeps the types, the   *)
(* agreement of its schedules with the URB queues, and the endpoints and   *)
(* URBs it still uses. The lemmas go from the chain of a frame to the      *)
(* handlers: lists and frames, urb_enqueue, finish_request, done,          *)
(* sl811h_irq, the timer, the hub requests, the chip and the device, and   *)
(* the calls of usbcore.                                                   *)
EXTENDS Sl811, FiniteSetTheorems, WellFoundedInduction, TLAPS

(* A set of natural numbers has a least one, ...                           *)
LEMMA NaturalOrder == \E R : IsWellFoundedOn(R, Nat) /\ \A i, j \in Nat : j < i => <<j, i>> \in R
<1>1. \A i, j \in Nat : j < i => <<j, i>> \in OpToRel(<, Nat)
  BY DEF OpToRel
<1> QED
  BY <1>1, NatLessThanWellFounded, Zenon

(* ... hence every set of them that is not empty.                          *)
LEMMA LeastExists ==
    ASSUME NEW T \in SUBSET Nat, T # {}
    PROVE  \E i \in T : \A j \in T : i <= j
<1>1. PICK R : IsWellFoundedOn(R, Nat) /\ \A i, j \in Nat : j < i => <<j, i>> \in R
  BY NaturalOrder
<1>2. PICK i \in T : \A j \in T : ~ (<<j, i>> \in R)
  BY <1>1, WFMin, Zenon
<1>3. \A j \in T : ~ (j < i)
  BY <1>1, <1>2, Zenon
<1> QED
  BY <1>3

(* A loop that starts from x and has n iterations.                         *)
IsLoop(f, S, x, n, step) ==
    /\ f \in [0 .. n -> S]
    /\ f[0] = x
    /\ \A i \in 1 .. n : f[i] = step[i][f[i - 1]]

(* Such a loop exists, and it stays in S.                                  *)
LEMMA LoopIsDefined ==
    ASSUME NEW S, NEW x \in S, NEW n \in Nat, NEW step \in [1 .. n -> [S -> S]]
    PROVE  \E f : IsLoop(f, S, x, n, step)
<1> DEFINE Loop(m, f) == IsLoop(f, S, x, m, step)
           undefined == {m \in 0 .. n : \A f : ~Loop(m, f)}
<1>1. SUFFICES ASSUME \A f : ~Loop(n, f) PROVE FALSE
  OBVIOUS
<1>2. PICK m \in undefined : \A k \in undefined : m <= k
  <2>1. undefined \in SUBSET Nat /\ n \in undefined
    BY <1>1
  <2> HIDE DEF undefined
  <2> QED
    BY <2>1, LeastExists
<1>3. m \in 0 .. n /\ m # 0
  <2> DEFINE g == [i \in 0 .. 0 |-> x]
  <2>1. g \in [0 .. 0 -> S] /\ g[0] = x /\ 1 .. 0 = {}
    OBVIOUS
  <2>2. Loop(0, g)
    BY <2>1 DEF IsLoop
  <2>3. m \in 0 .. n /\ \A f : ~Loop(m, f)
    BY <1>2
  <2> QED
    BY <2>2, <2>3
<1>4. m - 1 \in 0 .. n /\ m - 1 \notin undefined
  <2> HIDE DEF undefined
  <2> QED
    BY <1>2, <1>3
<1>5. PICK f : Loop(m - 1, f)
  BY <1>4
<1> DEFINE g == [i \in 0 .. m |-> IF i = m THEN step[m][f[m - 1]] ELSE f[i]]
<1>6. f \in [0 .. m - 1 -> S] /\ f[0] = x /\ \A i \in 1 .. m - 1 : f[i] = step[i][f[i - 1]]
  BY <1>5 DEF IsLoop
<1>7. g \in [0 .. m -> S]
  <2>1. f[m - 1] \in S /\ step[m] \in [S -> S]
    BY <1>3, <1>6
  <2> QED
    BY <1>3, <1>6, <2>1
<1>8. g[0] = x
  BY <1>3, <1>6
<1>9. ASSUME NEW i \in 1 .. m PROVE g[i] = step[i][g[i - 1]]
  <2>1. g[i - 1] = f[i - 1]
    BY <1>3
  <2>2. CASE i = m
    BY <2>1, <2>2
  <2>3. CASE i # m
    <3>1. f[i] = step[i][f[i - 1]]
      BY <1>3, <1>6, <2>3
    <3>2. g[i] = f[i]
      BY <2>3
    <3> QED
      BY <2>1, <3>1, <3>2
  <2> QED
    BY <2>2, <2>3
<1> HIDE DEF g
<1>10. Loop(m, g)
  BY <1>7, <1>8, <1>9 DEF IsLoop
<1>11. m \in undefined
  BY <1>2
<1> QED
  BY <1>10, <1>11

-----------------------------------------------------------------------------
(* No element is twice on the list.                                        *)
Distinct(s) == \A i, j \in DOMAIN s : s[i] = s[j] => i = j

(* Lists without an element.                                               *)
LEMMA WithoutPosition ==
    ASSUME NEW S, NEW s \in Seq(S), NEW x, OnList(s, x)
    PROVE  \E n \in 1 .. Len(s) :
            /\ s[n] = x
            /\ Without(s, x) = [k \in 1 .. Len(s) - 1 |-> IF k < n THEN s[k] ELSE s[k + 1]]
<1> DEFINE p == CHOOSE n \in DOMAIN s : s[n] = x
<1>1. p \in DOMAIN s /\ s[p] = x
  BY DEF OnList
<1>2. Without(s, x) = [k \in 1 .. Len(s) - 1 |-> IF k < p THEN s[k] ELSE s[k + 1]]
  BY DEF Without
<1>3. DOMAIN s = 1 .. Len(s)
  OBVIOUS
<1> HIDE DEF p
<1> QED
  BY <1>1, <1>2, <1>3

(* Dropping an element leaves a list of the same kind, ...                 *)
LEMMA WithoutType ==
    ASSUME NEW S, NEW s \in Seq(S), NEW x
    PROVE  Without(s, x) \in Seq(S)
<1>1. CASE OnList(s, x)
  <2>1. PICK n \in 1 .. Len(s) :
            /\ s[n] = x
            /\ Without(s, x) = [k \in 1 .. Len(s) - 1 |-> IF k < n THEN s[k] ELSE s[k + 1]]
    BY <1>1, WithoutPosition
  <2>2. Len(s) - 1 \in Nat /\ \A k \in 1 .. Len(s) - 1 : s[k] \in S /\ s[k + 1] \in S
    BY <2>1
  <2> QED
    BY <2>1, <2>2
<1>2. CASE ~OnList(s, x)
  BY <1>2 DEF Without
<1> QED
  BY <1>1, <1>2

(* The others stay, in their order.                                        *)
LEMMA WithoutKeeps ==
    ASSUME NEW S, NEW s \in Seq(S), NEW x, NEW y, y # x
    PROVE  OnList(Without(s, x), y) <=> OnList(s, y)
<1>1. CASE OnList(s, x)
  <2>1. PICK n \in 1 .. Len(s) :
            /\ s[n] = x
            /\ Without(s, x) = [k \in 1 .. Len(s) - 1 |-> IF k < n THEN s[k] ELSE s[k + 1]]
    BY <1>1, WithoutPosition
  <2> DEFINE t == Without(s, x)
  <2>2. DOMAIN t = 1 .. Len(s) - 1 /\ DOMAIN s = 1 .. Len(s) /\ Len(s) \in Nat
    BY <2>1
  <2>3. ASSUME NEW k \in DOMAIN t, t[k] = y PROVE OnList(s, y)
    BY <2>1, <2>2, <2>3 DEF OnList
  <2>4. ASSUME NEW k \in DOMAIN s, s[k] = y PROVE OnList(t, y)
    <3>1. CASE k < n
      <4>1. k \in DOMAIN t /\ t[k] = y
        BY <2>1, <2>2, <2>4, <3>1
      <4> QED
        BY <4>1 DEF OnList
    <3>2. CASE k > n
      <4>1. k - 1 \in DOMAIN t /\ t[k - 1] = y
        BY <2>1, <2>2, <2>4, <3>2
      <4> QED
        BY <4>1 DEF OnList
    <3>3. k # n
      BY <2>1, <2>4
    <3> QED
      BY <2>2, <3>1, <3>2, <3>3
  <2> QED
    BY <2>3, <2>4 DEF OnList
<1>2. CASE ~OnList(s, x)
  BY <1>2 DEF Without
<1> QED
  BY <1>1, <1>2

(* ... without duplicates and without that element, ...                    *)
LEMMA WithoutDistinct ==
    ASSUME NEW S, NEW s \in Seq(S), NEW x, Distinct(s)
    PROVE  Distinct(Without(s, x)) /\ ~OnList(Without(s, x), x)
<1>1. CASE OnList(s, x)
  <2>1. PICK n \in 1 .. Len(s) :
            /\ s[n] = x
            /\ Without(s, x) = [k \in 1 .. Len(s) - 1 |-> IF k < n THEN s[k] ELSE s[k + 1]]
    BY <1>1, WithoutPosition
  <2> DEFINE t == Without(s, x)
  <2>2. DOMAIN t = 1 .. Len(s) - 1 /\ DOMAIN s = 1 .. Len(s) /\ Len(s) \in Nat
    BY <2>1
  <2>3. \A i, j \in 1 .. Len(s) : s[i] = s[j] => i = j
    BY <2>2 DEF Distinct
  <2>4. \A i, j \in DOMAIN t : t[i] = t[j] => i = j
    BY <2>1, <2>2, <2>3
  <2>5. \A k \in DOMAIN t : t[k] # x
    BY <2>1, <2>2, <2>3
  <2> QED
    BY <2>4, <2>5 DEF Distinct, OnList
<1>2. CASE ~OnList(s, x)
  BY <1>2 DEF Without
<1> QED
  BY <1>1, <1>2

(* The first stays the first; what follows it becomes the first.           *)
LEMMA WithoutHead ==
    ASSUME NEW S, NEW s \in Seq(S), NEW x, s # <<>>, Head(s) # x
    PROVE  Without(s, x) # <<>> /\ Head(Without(s, x)) = Head(s)
<1>1. CASE OnList(s, x)
  <2>1. PICK n \in 1 .. Len(s) :
            /\ s[n] = x
            /\ Without(s, x) = [k \in 1 .. Len(s) - 1 |-> IF k < n THEN s[k] ELSE s[k + 1]]
    BY <1>1, WithoutPosition
  <2>2. Head(s) = s[1] /\ n # 1
    BY <2>1
  <2>3. Without(s, x) \in Seq(S)
    BY WithoutType
  <2>4. Without(s, x)[1] = s[1] /\ Len(Without(s, x)) = Len(s) - 1 /\ Len(s) - 1 > 0
    BY <2>1, <2>2
  <2> QED
    BY <2>2, <2>3, <2>4
<1>2. CASE ~OnList(s, x)
  BY <1>2 DEF Without
<1> QED
  BY <1>1, <1>2

(* ... and, for the first element, the list's tail.                        *)
LEMMA WithoutFirst ==
    ASSUME NEW S, NEW s \in Seq(S), Distinct(s), s # <<>>
    PROVE  Without(s, Head(s)) = [k \in 1 .. Len(s) - 1 |-> s[k + 1]]
<1>1. Head(s) = s[1] /\ 1 \in DOMAIN s
  OBVIOUS
<1>2. OnList(s, Head(s))
  BY <1>1 DEF OnList
<1>3. PICK n \in 1 .. Len(s) :
            /\ s[n] = Head(s)
            /\ Without(s, Head(s)) = [k \in 1 .. Len(s) - 1 |-> IF k < n THEN s[k] ELSE s[k + 1]]
  BY <1>2, WithoutPosition
<1>4. n = 1
  BY <1>1, <1>3 DEF Distinct
<1> QED
  BY <1>3, <1>4

(* The walk down a frame's chain, one pointer after the other.             *)
IsWalk(f, h, i) ==
    f = [k \in 0 .. Cardinality(Ep) |->
            IF k = 0 THEN h.periodic[i] ELSE Follow(h, f[k - 1])]

(* Its pointers stay within any set M that the pointers of h do not leave. *)
Within(h, M) ==
    /\ None \in M /\ h.periodic \in [Slots -> M]
    /\ \A e \in M \ {None} : e \in Ep /\ h.next[e] \in M

(* The bound of the walk down a chain.                                     *)
LEMMA EpCardinality == Cardinality(Ep) \in Nat
BY Sl811ScheduleAssumption, FS_CardinalityType

(* A walk, unfolded.                                                       *)
LEMMA WalkFacts ==
    ASSUME NEW f, NEW h, NEW i, IsWalk(f, h, i)
    PROVE  /\ f = [k \in 0 .. Cardinality(Ep) |-> f[k]]
           /\ f[0] = h.periodic[i]
           /\ \A k \in 1 .. Cardinality(Ep) : f[k] = Follow(h, f[k - 1])
<1> DEFINE g == [k \in 0 .. Cardinality(Ep) |->
            IF k = 0 THEN h.periodic[i] ELSE Follow(h, f[k - 1])]
<1>1. f = g
  BY DEF IsWalk
<1>2. g = [k \in 0 .. Cardinality(Ep) |-> g[k]]
  OBVIOUS
<1>3. \A k \in 0 .. Cardinality(Ep) : g[k] = IF k = 0 THEN h.periodic[i] ELSE Follow(h, f[k - 1])
  OBVIOUS
<1> HIDE DEF g
<1>4. f = [k \in 0 .. Cardinality(Ep) |-> f[k]]
  BY <1>1, <1>2
<1>5. \A k \in 0 .. Cardinality(Ep) : f[k] = IF k = 0 THEN h.periodic[i] ELSE Follow(h, f[k - 1])
  BY <1>1, <1>3
<1>6. Cardinality(Ep) \in Nat
  BY EpCardinality
<1>7. ASSUME NEW k \in 1 .. Cardinality(Ep) PROVE f[k] = Follow(h, f[k - 1])
  <2>1. k \in 0 .. Cardinality(Ep) /\ k # 0
    BY <1>6
  <2> QED BY <1>5, <2>1
<1>8. f[0] = h.periodic[i]
  BY <1>5, <1>6
<1> QED
  BY <1>4, <1>7, <1>8

(* The chain is the walk up to its first NULL, the n-th pointer.           *)
IsChain(f, n, h, i) ==
    /\ IsWalk(f, h, i)
    /\ n \in 0 .. Cardinality(Ep) + 1
    /\ \A k \in 0 .. Cardinality(Ep) : f[k] # None <=> k < n
    /\ Chain(h, i) = [k \in 1 .. n |-> f[k - 1]]

(* Every frame's chain is such a walk, within the set its pointers stay in.*)
LEMMA ChainIsWalk ==
    ASSUME NEW h, NEW M, NEW i \in Slots, Within(h, M)
    PROVE  \E f, n : f \in [0 .. Cardinality(Ep) -> M] /\ IsChain(f, n, h, i)
<1> DEFINE N == Cardinality(Ep)
           first == h.periodic[i]
           turn == [e \in M |-> Follow(h, e)]
           step == [k \in 1 .. N |-> turn]
           r == CHOOSE f : IsWalk(f, h, i)
           length == CHOOSE n \in 0 .. N + 1 : \A k \in 0 .. N : r[k] # None <=> k < n
<1>1. N \in Nat /\ None \in M /\ first \in M
  BY EpCardinality DEF Within
<1>2. turn \in [M -> M] /\ \A e \in M : Follow(h, e) \in M
  BY DEF Within, Follow
<1>3. PICK f : IsLoop(f, M, first, N, step)
  <2> HIDE DEF turn, first, N
  <2>1. step \in [1 .. N -> [M -> M]]
    BY <1>2
  <2> HIDE DEF step
  <2> QED
    BY <1>1, <2>1, LoopIsDefined
<1>4. f \in [0 .. N -> M] /\ f[0] = first /\ \A k \in 1 .. N : f[k] = turn[f[k - 1]]
  <2> HIDE DEF turn, first, N
  <2> QED
    BY <1>3 DEF IsLoop
<1>5. \A k \in 1 .. N : f[k] = Follow(h, f[k - 1])
  <2>1. ASSUME NEW k \in 1 .. N PROVE f[k - 1] \in M
    BY <1>1, <1>4
  <2> HIDE DEF N, first
  <2> QED
    BY <1>4, <2>1
<1>6. IsWalk(f, h, i)
  <2>1. f = [k \in 0 .. N |-> f[k]]
    BY <1>4
  <2>2. \A k \in 0 .. N : f[k] = IF k = 0 THEN h.periodic[i] ELSE Follow(h, f[k - 1])
    <3> HIDE DEF N
    <3> QED
      BY <1>1, <1>4, <1>5
  <2> HIDE DEF N
  <2>3. f = [k \in 0 .. N |-> IF k = 0 THEN h.periodic[i] ELSE Follow(h, f[k - 1])]
    BY <2>1, <2>2
  <2> QED
    BY <2>3 DEF IsWalk, N
<1>7. IsWalk(r, h, i)
  BY <1>6
<1> HIDE DEF r, turn, step
<1>8. /\ r = [k \in 0 .. N |-> r[k]]
      /\ r[0] = first
      /\ \A k \in 1 .. N : r[k] = Follow(h, r[k - 1])
  <2> HIDE DEF N
  <2> QED
    BY <1>7, WalkFacts DEF N
<1>12. r \in [0 .. N -> M]
  <2> DEFINE bad == {k \in 0 .. N : r[k] \notin M}
  <2>2. SUFFICES ASSUME bad # {} PROVE FALSE
    <3> HIDE DEF N
    <3> QED
      BY <1>8
  <2>3. PICK k \in bad : \A j \in bad : k <= j
    <3>1. bad \in SUBSET Nat
      BY <1>1
    <3> HIDE DEF bad
    <3> QED
      BY <2>2, <3>1, LeastExists
  <2> HIDE DEF N, first
  <2>4. k \in 1 .. N /\ r[k] \notin M
    BY <1>1, <1>8, <2>3
  <2>5. r[k - 1] \in M
    BY <1>1, <2>3, <2>4
  <2> QED
    BY <1>2, <1>8, <2>4, <2>5
<1>9. \E n \in 0 .. N + 1 : \A k \in 0 .. N : r[k] # None <=> k < n
  <2> DEFINE ends == {k \in 0 .. N : r[k] = None}
  <2>1. \A k \in 1 .. N : r[k - 1] = None => r[k] = None
    BY <1>8 DEF Follow
  <2> HIDE DEF N
  <2>2. CASE ends = {}
    <3> USE DEF N
    <3>1. \A k \in 0 .. N : r[k] # None /\ k < N + 1
      BY <1>1, <2>2
    <3>2. N + 1 \in 0 .. N + 1
      BY <1>1
    <3> HIDE DEF N
    <3> QED
      BY <3>1, <3>2
  <2>3. CASE ends # {}
    <3>1. PICK n \in ends : \A j \in ends : n <= j
      <4>1. ends \in SUBSET Nat
        BY <1>1
      <4> HIDE DEF ends
      <4> QED
        BY <2>3, <4>1, LeastExists
    <3>2. ASSUME NEW k \in 0 .. N, k >= n, r[k] # None PROVE FALSE
      <4> DEFINE late == {j \in 0 .. N : j >= n /\ r[j] # None}
      <4>1. PICK j \in late : \A m \in late : j <= m
        <5>1. late \in SUBSET Nat /\ late # {}
          BY <1>1, <3>2
        <5> HIDE DEF late
        <5> QED
          BY <5>1, LeastExists
      <4>2. j \in 1 .. N /\ j - 1 >= n /\ r[j - 1] = None
        <5>1. j # n /\ n \in 0 .. N /\ j \in 0 .. N /\ j >= n
          BY <3>1, <4>1
        <5>2. j - 1 \in 0 .. N /\ j - 1 >= n /\ j \in 1 .. N
          BY <1>1, <5>1
        <5> QED
          BY <4>1, <5>2
      <4> QED
        BY <2>1, <4>1, <4>2
    <3>3. ASSUME NEW k \in 0 .. N PROVE r[k] # None <=> k < n
      BY <1>1, <3>1, <3>2, <3>3
    <3>4. n \in 0 .. N + 1
      BY <1>1, <3>1
    <3> QED
      BY <3>3, <3>4
  <2> QED
    BY <2>2, <2>3
<1>10. length \in 0 .. N + 1 /\ \A k \in 0 .. N : r[k] # None <=> k < length
  BY <1>9
<1>11. Chain(h, i) = [k \in 1 .. length |-> r[k - 1]]
  BY DEF Chain, IsWalk, r
<1> HIDE DEF length
<1>13. IsChain(r, length, h, i)
  BY <1>7, <1>10, <1>11 DEF IsChain
<1> QED
  BY <1>12, <1>13

(* So the chain is a list of endpoints of M.                               *)
LEMMA ChainWithin ==
    ASSUME NEW h, NEW M, NEW i \in Slots, Within(h, M)
    PROVE  Chain(h, i) \in Seq(M \ {None})
<1>5. PICK f, n : f \in [0 .. Cardinality(Ep) -> M] /\ IsChain(f, n, h, i)
  BY ChainIsWalk
<1>1. /\ f \in [0 .. Cardinality(Ep) -> M] /\ n \in 0 .. Cardinality(Ep) + 1
      /\ \A k \in 0 .. Cardinality(Ep) : f[k] # None <=> k < n
      /\ Chain(h, i) = [k \in 1 .. n |-> f[k - 1]]
  BY <1>5 DEF IsChain
<1> DEFINE N == Cardinality(Ep)
<1>2. N \in Nat
  BY EpCardinality
<1> HIDE DEF N
<1>3. ASSUME NEW k \in 1 .. n PROVE f[k - 1] \in M \ {None}
  <2>1. k - 1 \in 0 .. N /\ k - 1 < n
    BY <1>1, <1>2 DEF N
  <2> QED
    BY <1>1, <2>1 DEF N
<1>4. n \in Nat
  BY <1>1, <1>2 DEF N
<1> QED
  BY <1>1, <1>3, <1>4

(* g is h but for its frames' chains, which stay within M.                 *)
Rewired(h, M) ==
    {g \in HcTypes :
        /\ g.periodic \in [Slots -> M] /\ g.next \in [Ep -> M]
        /\ g.port = h.port /\ g.irqen = h.irqen /\ g.ctrl1 = h.ctrl1
        /\ g.running = h.running /\ g.timer = h.timer /\ g.active = h.active
        /\ g.late = h.late /\ g.async = h.async /\ g.nexta = h.nexta /\ g.load = h.load
        /\ g.nextp = h.nextp /\ g.frame = h.frame /\ g.count = h.count
        /\ g.alloc = h.alloc /\ g.pid = h.pid /\ g.errs = h.errs /\ g.branch = h.branch}

(* A set of endpoints, with NULL.                                          *)
Pointers(M) == M \subseteq Pointer /\ None \in M

(* A rewired schedule stays within M, ...                                  *)
LEMMA RewiredWithin ==
    ASSUME NEW h, NEW M, Pointers(M), NEW g \in Rewired(h, M)
    PROVE  Within(g, M)
BY DEF Within, Rewired, Pointers, Pointer

(* ... one that stores an endpoint through a pointer is rewired, ...       *)
LEMMA PointToRewires ==
    ASSUME NEW h, NEW M, Pointers(M), NEW g \in Rewired(h, M), NEW i \in Slots,
           NEW k, NEW e \in M
    PROVE  PointTo(g, i, k, e) \in Rewired(h, M)
<1>1. g \in HcTypes /\ g.periodic \in [Slots -> M] /\ g.next \in [Ep -> M]
  BY DEF Rewired
<1>2. CASE k = 0
  <2> DEFINE p == [g.periodic EXCEPT ![i] = e]
             x == [g EXCEPT !.periodic = p]
  <2>1. p \in [Slots -> M] /\ p \in [Slots -> Pointer]
    BY <1>1 DEF Pointers
  <2>2. PointTo(g, i, k, e) = x
    BY <1>1, <1>2 DEF PointTo
  <2> HIDE DEF p
  <2>3. x \in HcTypes /\ x.periodic = p
    BY <1>1, <2>1 DEF HcTypes
  <2>4. x \in Rewired(h, M)
    BY <1>1, <2>1, <2>3 DEF Rewired, HcTypes
  <2> QED
    BY <2>2, <2>4
<1>3. CASE k # 0
  <2> DEFINE f == Chain(g, i)[k]
             n == [g.next EXCEPT ![f] = e]
             x == [g EXCEPT !.next = n]
  <2> HIDE DEF f
  <2>3. n \in [Ep -> M] /\ n \in [Ep -> Pointer]
    BY <1>1 DEF Pointers
  <2>4. PointTo(g, i, k, e) = x
    BY <1>3 DEF PointTo, f
  <2> HIDE DEF n
  <2>5. x \in HcTypes /\ x.next = n
    BY <1>1, <2>3 DEF HcTypes
  <2>6. x \in Rewired(h, M)
    BY <1>1, <2>3, <2>5 DEF Rewired, HcTypes
  <2> QED
    BY <2>4, <2>6
<1> QED
  BY <1>2, <1>3

(* ... and so is one that sets an endpoint's next.                         *)
LEMMA NextRewires ==
    ASSUME NEW h, NEW M, Pointers(M), NEW g \in Rewired(h, M), NEW f, NEW e \in M
    PROVE  [g EXCEPT !.next[f] = e] \in Rewired(h, M)
<1> DEFINE n == [g.next EXCEPT ![f] = e]
           x == [g EXCEPT !.next = n]
<1>1. g \in HcTypes /\ g.next \in [Ep -> M]
  BY DEF Rewired
<1>2. n \in [Ep -> M] /\ n \in [Ep -> Pointer]
  BY <1>1 DEF Pointers
<1>3. [g EXCEPT !.next[f] = e] = x
  OBVIOUS
<1> HIDE DEF n
<1>4. x \in HcTypes /\ x.next = n
  BY <1>1, <1>2 DEF HcTypes
<1>5. x \in Rewired(h, M)
  BY <1>1, <1>2, <1>4 DEF Rewired, HcTypes
<1> QED
  BY <1>3, <1>5

(* The place of an endpoint in a chain: where the walk of urb_enqueue ends.*)
Place(c, e, d, n) ==
    /\ \A m \in 1 .. n : c[m] # e /\ d[c[m]].period >= d[e].period
    /\ n = Len(c) \/ c[n + 1] = e \/ d[c[n + 1]].period < d[e].period

(* The walk of urb_enqueue ends somewhere.                                 *)
LEMMA PlaceExists ==
    ASSUME NEW c \in Seq(Ep), NEW e \in Ep, NEW d, \A x \in Ep : d[x].period \in Nat
    PROVE  \E n \in 0 .. Len(c) : Place(c, e, d, n)
<1> DEFINE Stop(n) == n = Len(c) \/ c[n + 1] = e \/ d[c[n + 1]].period < d[e].period
           stops == {n \in 0 .. Len(c) : Stop(n)}
<1>1. Len(c) \in Nat /\ Len(c) \in stops
  OBVIOUS
<1>2. PICK n \in stops : \A m \in stops : n <= m
  <2>1. stops \in SUBSET Nat /\ stops # {}
    BY <1>1
  <2> HIDE DEF stops
  <2> QED
    BY <2>1, LeastExists
<1>3. n \in 0 .. Len(c) /\ Stop(n)
  BY <1>2
<1>4. ASSUME NEW m \in 1 .. n PROVE c[m] # e /\ d[c[m]].period >= d[e].period
  <2>1. m - 1 \in 0 .. Len(c) /\ m - 1 < n /\ m \in 1 .. Len(c)
    BY <1>1, <1>3
  <2>2. m - 1 \notin stops
    <3> HIDE DEF stops
    <3> QED
      BY <1>2, <1>3, <2>1
  <2>3. ~Stop(m - 1)
    BY <2>1, <2>2
  <2>4. (m - 1) + 1 = m
    BY <2>1
  <2>5. c[m] # e /\ ~(d[c[m]].period < d[e].period)
    BY <2>3, <2>4
  <2>6. d[c[m]].period \in Nat /\ d[e].period \in Nat
    BY <2>1
  <2> QED
    BY <2>5, <2>6
<1> QED
  BY <1>3, <1>4 DEF Place

(* Inserting an endpoint in a frame rewires, ...                           *)
LEMMA InsertRewires ==
    ASSUME NEW h, NEW M, Pointers(M), NEW g \in Rewired(h, M), NEW i \in Slots,
           NEW e \in M \ {None}, NEW d, \A x \in Ep : d[x].period \in Nat
    PROVE  InsertInSlot(g, i, e, d) \in Rewired(h, M)
<1> DEFINE c == Chain(g, i)
           k == CHOOSE n \in 0 .. Len(c) : Place(c, e, d, n)
           here == IF k = Len(c) THEN None ELSE c[k + 1]
           x == [g EXCEPT !.next[e] = here]
<1>1. c \in Seq(M \ {None}) /\ M \ {None} \subseteq Ep
  BY ChainWithin, RewiredWithin DEF Pointers, Pointer
<1>2. InsertInSlot(g, i, e, d) = IF here = e THEN g ELSE PointTo(x, i, k, e)
  BY DEF InsertInSlot, Place
<1> HIDE DEF c
<1>3. k \in 0 .. Len(c)
  <2>1. c \in Seq(Ep)
    BY <1>1
  <2>2. \E n \in 0 .. Len(c) : Place(c, e, d, n)
    BY <1>1, <2>1, PlaceExists
  <2> QED
    BY <2>2
<1> HIDE DEF k
<1>4. here \in M
  BY <1>1, <1>3 DEF Pointers
<1> HIDE DEF here
<1>5. x \in Rewired(h, M)
  BY <1>4, NextRewires
<1> HIDE DEF x
<1>6. PointTo(x, i, k, e) \in Rewired(h, M)
  BY <1>5, PointToRewires
<1> QED
  BY <1>2, <1>6

(* ... and so does removing it.                                            *)
LEMMA RemoveRewires ==
    ASSUME NEW h, NEW M, Pointers(M), NEW g \in Rewired(h, M), NEW i \in Slots, NEW e \in Ep
    PROVE  RemoveFromSlot(g, i, e) \in Rewired(h, M)
<1> DEFINE k == (CHOOSE n \in DOMAIN Chain(g, i) : Chain(g, i)[n] = e) - 1
<1>1. g.next[e] \in M
  BY DEF Rewired
<1>2. RemoveFromSlot(g, i, e) \in {g, PointTo(g, i, k, g.next[e])}
  BY DEF RemoveFromSlot
<1> HIDE DEF k
<1>3. PointTo(g, i, k, g.next[e]) \in Rewired(h, M)
  BY <1>1, PointToRewires
<1> QED
  BY <1>2, <1>3

(* The states after each frame of that loop.                               *)
IsLinkLoop(f, h, e, d, slots) ==
    f = [n \in 0 .. PeriodicSize |->
            IF n = 0 THEN h ELSE LinkSlot(f[n - 1], n - 1, e, d, slots)]

(* The loop of urb_enqueue over the frames, unfolded.                      *)
LEMMA LinkLoopFacts ==
    ASSUME NEW f, NEW h, NEW e, NEW d, NEW slots, IsLinkLoop(f, h, e, d, slots)
    PROVE  /\ f = [n \in 0 .. PeriodicSize |-> f[n]]
           /\ f[0] = h
           /\ \A n \in 1 .. PeriodicSize : f[n] = LinkSlot(f[n - 1], n - 1, e, d, slots)
<1> DEFINE g == [n \in 0 .. PeriodicSize |->
                    IF n = 0 THEN h ELSE LinkSlot(f[n - 1], n - 1, e, d, slots)]
<1>1. f = g
  BY DEF IsLinkLoop
<1>2. g = [n \in 0 .. PeriodicSize |-> g[n]]
  OBVIOUS
<1>3. \A n \in 0 .. PeriodicSize :
        g[n] = IF n = 0 THEN h ELSE LinkSlot(f[n - 1], n - 1, e, d, slots)
  OBVIOUS
<1> HIDE DEF g
<1>4. f = [n \in 0 .. PeriodicSize |-> f[n]]
  BY <1>1, <1>2
<1>5. \A n \in 0 .. PeriodicSize :
        f[n] = IF n = 0 THEN h ELSE LinkSlot(f[n - 1], n - 1, e, d, slots)
  BY <1>1, <1>3
<1>6. PeriodicSize \in Nat
  BY Sl811ScheduleAssumption
<1>7. ASSUME NEW n \in 1 .. PeriodicSize
      PROVE  f[n] = LinkSlot(f[n - 1], n - 1, e, d, slots)
  <2>1. n \in 0 .. PeriodicSize /\ n # 0
    BY <1>6
  <2> QED
    BY <1>5, <2>1
<1>8. f[0] = h
  BY <1>5, <1>6
<1> QED
  BY <1>4, <1>7, <1>8

(* A set of states that no turn of the loop leaves has the last one, and   *)
(* the loop is defined.                                                    *)
LEMMA LinkLoopIsDefined ==
    ASSUME NEW S, NEW h \in S, NEW e, NEW d, NEW slots,
           \A g \in S, i \in Slots : LinkSlot(g, i, e, d, slots) \in S
    PROVE  \E f : /\ IsLinkLoop(f, h, e, d, slots)
                  /\ f \in [0 .. PeriodicSize -> S]
                  /\ LinkSlots(h, e, d, slots) = f[PeriodicSize]
<1> DEFINE step == [n \in 1 .. PeriodicSize |-> [g \in S |-> LinkSlot(g, n - 1, e, d, slots)]]
           r == CHOOSE f : IsLinkLoop(f, h, e, d, slots)
<1>1. PeriodicSize \in Nat /\ \A n \in 1 .. PeriodicSize : n - 1 \in Slots
  BY Sl811ScheduleAssumption DEF Slots
<1>2. step \in [1 .. PeriodicSize -> [S -> S]]
  BY <1>1
<1>3. PICK f : IsLoop(f, S, h, PeriodicSize, step)
  <2> HIDE DEF step
  <2> QED
    BY <1>1, <1>2, LoopIsDefined
<1>4. /\ f \in [0 .. PeriodicSize -> S] /\ f[0] = h
      /\ \A n \in 1 .. PeriodicSize : f[n] = step[n][f[n - 1]]
  <2> HIDE DEF step
  <2> QED
    BY <1>3 DEF IsLoop
<1>5. \A n \in 1 .. PeriodicSize : f[n] = LinkSlot(f[n - 1], n - 1, e, d, slots)
  <2>1. ASSUME NEW n \in 1 .. PeriodicSize PROVE f[n - 1] \in S
    BY <1>1, <1>4
  <2> QED
    BY <1>4, <2>1
<1>6. IsLinkLoop(f, h, e, d, slots)
  <2>1. f = [n \in 0 .. PeriodicSize |-> f[n]]
    BY <1>4
  <2>2. \A n \in 0 .. PeriodicSize :
            f[n] = IF n = 0 THEN h ELSE LinkSlot(f[n - 1], n - 1, e, d, slots)
    BY <1>1, <1>4, <1>5
  <2>3. f = [n \in 0 .. PeriodicSize |->
                IF n = 0 THEN h ELSE LinkSlot(f[n - 1], n - 1, e, d, slots)]
    BY <2>1, <2>2
  <2> QED
    BY <2>3 DEF IsLinkLoop
<1>7. IsLinkLoop(r, h, e, d, slots)
  BY <1>6
<1>8. LinkSlots(h, e, d, slots) = r[PeriodicSize]
  BY DEF LinkSlots, IsLinkLoop
<1> HIDE DEF r
<1>9. /\ r = [n \in 0 .. PeriodicSize |-> r[n]]
      /\ r[0] = h
      /\ \A n \in 1 .. PeriodicSize : r[n] = LinkSlot(r[n - 1], n - 1, e, d, slots)
  BY <1>7, LinkLoopFacts
<1>10. \A n \in 0 .. PeriodicSize : r[n] \in S
  <2> DEFINE in == {n \in 0 .. PeriodicSize : r[n] \in S}
             out == {n \in 0 .. PeriodicSize : r[n] \notin S}
  <2>1. SUFFICES ASSUME out # {} PROVE FALSE
    OBVIOUS
  <2>2. PICK n \in out : \A m \in out : n <= m
    <3>1. out \in SUBSET Nat
      BY <1>1
    <3> HIDE DEF out
    <3> QED
      BY <2>1, <3>1, LeastExists
  <2>3. n \in 1 .. PeriodicSize /\ r[n] \notin S
    BY <1>1, <1>9, <2>2
  <2>4. r[n - 1] \in S
    BY <1>1, <2>2, <2>3
  <2> QED
    BY <1>1, <1>9, <2>3, <2>4
<1>11. r \in [0 .. PeriodicSize -> S]
  BY <1>9, <1>10
<1> QED
  BY <1>7, <1>8, <1>11

(* Linking an endpoint in its frames only rewires their chains.            *)
LEMMA LinkSlotsRewire ==
    ASSUME NEW h \in HcTypes, NEW M, Pointers(M), Within(h, M), h.next \in [Ep -> M],
           NEW e \in M \ {None}, NEW d, NEW slots, \A x \in Ep : d[x].period \in Nat
    PROVE  LinkSlots(h, e, d, slots) \in Rewired(h, M)
<1> DEFINE S == Rewired(h, M)
<1>1. h \in S
  BY DEF Rewired, Within
<1>2. ASSUME NEW g \in S, NEW i \in Slots
      PROVE  LinkSlot(g, i, e, d, slots) \in S
  BY InsertRewires DEF LinkSlot, Pointers, Pointer
<1> HIDE DEF S
<1>3. PICK f : /\ IsLinkLoop(f, h, e, d, slots)
               /\ f \in [0 .. PeriodicSize -> S]
               /\ LinkSlots(h, e, d, slots) = f[PeriodicSize]
  BY <1>1, <1>2, LinkLoopIsDefined
<1>4. PeriodicSize \in 0 .. PeriodicSize
  BY Sl811ScheduleAssumption
<1> QED
  BY <1>3, <1>4 DEF S

(* The states after each frame of that loop.                               *)
IsUnlinkLoop(f, h, e, slots) ==
    f = [n \in 0 .. PeriodicSize |->
            IF n = 0 THEN h ELSE UnlinkSlot(f[n - 1], n - 1, e, slots)]

(* The loop of finish_request over the frames, unfolded.                   *)
LEMMA UnlinkLoopFacts ==
    ASSUME NEW f, NEW h, NEW e, NEW slots, IsUnlinkLoop(f, h, e, slots)
    PROVE  /\ f = [n \in 0 .. PeriodicSize |-> f[n]]
           /\ f[0] = h
           /\ \A n \in 1 .. PeriodicSize : f[n] = UnlinkSlot(f[n - 1], n - 1, e, slots)
<1> DEFINE g == [n \in 0 .. PeriodicSize |->
                    IF n = 0 THEN h ELSE UnlinkSlot(f[n - 1], n - 1, e, slots)]
<1>1. f = g
  BY DEF IsUnlinkLoop
<1>2. g = [n \in 0 .. PeriodicSize |-> g[n]]
  OBVIOUS
<1>3. \A n \in 0 .. PeriodicSize :
        g[n] = IF n = 0 THEN h ELSE UnlinkSlot(f[n - 1], n - 1, e, slots)
  OBVIOUS
<1> HIDE DEF g
<1>4. f = [n \in 0 .. PeriodicSize |-> f[n]]
  BY <1>1, <1>2
<1>5. \A n \in 0 .. PeriodicSize :
        f[n] = IF n = 0 THEN h ELSE UnlinkSlot(f[n - 1], n - 1, e, slots)
  BY <1>1, <1>3
<1>6. PeriodicSize \in Nat
  BY Sl811ScheduleAssumption
<1>7. ASSUME NEW n \in 1 .. PeriodicSize
      PROVE  f[n] = UnlinkSlot(f[n - 1], n - 1, e, slots)
  <2>1. n \in 0 .. PeriodicSize /\ n # 0
    BY <1>6
  <2> QED
    BY <1>5, <2>1
<1>8. f[0] = h
  BY <1>5, <1>6
<1> QED
  BY <1>4, <1>7, <1>8

(* A set of states that no turn of the loop leaves has the last one, and   *)
(* the loop is defined.                                                    *)
LEMMA UnlinkLoopIsDefined ==
    ASSUME NEW S, NEW h \in S, NEW e, NEW slots,
           \A g \in S, i \in Slots : UnlinkSlot(g, i, e, slots) \in S
    PROVE  \E f : /\ IsUnlinkLoop(f, h, e, slots)
                  /\ f \in [0 .. PeriodicSize -> S]
                  /\ UnlinkSlots(h, e, slots) = f[PeriodicSize]
<1> DEFINE step == [n \in 1 .. PeriodicSize |-> [g \in S |-> UnlinkSlot(g, n - 1, e, slots)]]
           r == CHOOSE f : IsUnlinkLoop(f, h, e, slots)
<1>1. PeriodicSize \in Nat /\ \A n \in 1 .. PeriodicSize : n - 1 \in Slots
  BY Sl811ScheduleAssumption DEF Slots
<1>2. step \in [1 .. PeriodicSize -> [S -> S]]
  BY <1>1
<1>3. PICK f : IsLoop(f, S, h, PeriodicSize, step)
  <2> HIDE DEF step
  <2> QED
    BY <1>1, <1>2, LoopIsDefined
<1>4. /\ f \in [0 .. PeriodicSize -> S] /\ f[0] = h
      /\ \A n \in 1 .. PeriodicSize : f[n] = step[n][f[n - 1]]
  <2> HIDE DEF step
  <2> QED
    BY <1>3 DEF IsLoop
<1>5. \A n \in 1 .. PeriodicSize : f[n] = UnlinkSlot(f[n - 1], n - 1, e, slots)
  <2>1. ASSUME NEW n \in 1 .. PeriodicSize PROVE f[n - 1] \in S
    BY <1>1, <1>4
  <2> QED
    BY <1>4, <2>1
<1>6. IsUnlinkLoop(f, h, e, slots)
  <2>1. f = [n \in 0 .. PeriodicSize |-> f[n]]
    BY <1>4
  <2>2. \A n \in 0 .. PeriodicSize :
            f[n] = IF n = 0 THEN h ELSE UnlinkSlot(f[n - 1], n - 1, e, slots)
    BY <1>1, <1>4, <1>5
  <2>3. f = [n \in 0 .. PeriodicSize |->
                IF n = 0 THEN h ELSE UnlinkSlot(f[n - 1], n - 1, e, slots)]
    BY <2>1, <2>2
  <2> QED
    BY <2>3 DEF IsUnlinkLoop
<1>7. IsUnlinkLoop(r, h, e, slots)
  BY <1>6
<1>8. UnlinkSlots(h, e, slots) = r[PeriodicSize]
  BY DEF UnlinkSlots, IsUnlinkLoop
<1> HIDE DEF r
<1>9. /\ r = [n \in 0 .. PeriodicSize |-> r[n]]
      /\ r[0] = h
      /\ \A n \in 1 .. PeriodicSize : r[n] = UnlinkSlot(r[n - 1], n - 1, e, slots)
  BY <1>7, UnlinkLoopFacts
<1>10. \A n \in 0 .. PeriodicSize : r[n] \in S
  <2> DEFINE in == {n \in 0 .. PeriodicSize : r[n] \in S}
             out == {n \in 0 .. PeriodicSize : r[n] \notin S}
  <2>1. SUFFICES ASSUME out # {} PROVE FALSE
    OBVIOUS
  <2>2. PICK n \in out : \A m \in out : n <= m
    <3>1. out \in SUBSET Nat
      BY <1>1
    <3> HIDE DEF out
    <3> QED
      BY <2>1, <3>1, LeastExists
  <2>3. n \in 1 .. PeriodicSize /\ r[n] \notin S
    BY <1>1, <1>9, <2>2
  <2>4. r[n - 1] \in S
    BY <1>1, <2>2, <2>3
  <2> QED
    BY <1>1, <1>9, <2>3, <2>4
<1>11. r \in [0 .. PeriodicSize -> S]
  BY <1>9, <1>10
<1> QED
  BY <1>7, <1>8, <1>11

(* Unlinking it only rewires their chains.                                 *)
LEMMA UnlinkSlotsRewire ==
    ASSUME NEW h \in HcTypes, NEW M, Pointers(M), Within(h, M), h.next \in [Ep -> M],
           NEW e \in M \ {None}, NEW slots
    PROVE  UnlinkSlots(h, e, slots) \in Rewired(h, M)
<1> DEFINE S == Rewired(h, M)
<1>1. h \in S
  BY DEF Rewired, Within
<1>2. ASSUME NEW g \in S, NEW i \in Slots
      PROVE  UnlinkSlot(g, i, e, slots) \in S
  BY RemoveRewires DEF UnlinkSlot, Pointers, Pointer
<1> HIDE DEF S
<1>3. PICK f : /\ IsUnlinkLoop(f, h, e, slots)
               /\ f \in [0 .. PeriodicSize -> S]
               /\ UnlinkSlots(h, e, slots) = f[PeriodicSize]
  BY <1>1, <1>2, UnlinkLoopIsDefined
<1>4. PeriodicSize \in 0 .. PeriodicSize
  BY Sl811ScheduleAssumption
<1> QED
  BY <1>3, <1>4 DEF S

(* What the handlers work on.                                              *)
Worlds == [hc : HcTypes, core : CoreTypes, chip : ChipTypes, bus : BusTypes, oops : BOOLEAN]

(* Of the driver's state g and h, all but ... is the same.                 *)
SamePort(g, h) == g.port = h.port /\ g.running = h.running /\ g.timer = h.timer /\ g.ctrl1 = h.ctrl1

(* The hardware is one of the configurations of the model.                 *)
DevOK == dev \in Devices

(* What a configuration says of endpoints and URBs.                        *)
LEMMA DeviceFacts ==
    ASSUME DevOK
    PROVE  /\ dev.ep \in [Ep -> [type : {"control", "bulk", "interrupt"}, period : Nat,
                                 load : Nat, low : BOOLEAN]]
           /\ dev.urb \in [Urbs -> [ep : Ep, in : BOOLEAN, len : Nat, zlp : BOOLEAN,
                                    strict : BOOLEAN]]
           /\ \A e \in Ep : dev.ep[e].type = "interrupt" => dev.ep[e].period \in 1 .. PeriodicSize
           /\ \A u, v \in Urbs : dev.urb[u].ep = dev.urb[v].ep /\ dev.urb[u].in # dev.urb[v].in
                => dev.ep[dev.urb[u].ep].type = "control"
<1>1. DeviceType(dev)
  BY Sl811Assumption DEF DevOK
<1>2. PICK us \in SUBSET Urb : dev.urb \in [us -> [ep : Ep, in : BOOLEAN, len : Nat, zlp : BOOLEAN,
                                    strict : BOOLEAN]]
  BY <1>1 DEF DeviceType
<1>3. Urbs = us
  BY <1>2 DEF Urbs
<1> QED
  BY <1>1, <1>2, <1>3 DEF DeviceType, Urbs

(* urb_enqueue makes the endpoint if it is not there, and changes nothing  *)
(* else.                                                                   *)
LEMMA AllocateFacts ==
    ASSUME DevOK, NEW w \in Worlds, NEW u \in Urbs, NEW e, e = EpOf(u),
           NEW y, y = Allocate(w, u)
    PROVE  /\ y \in Worlds
           /\ y.core = w.core /\ y.chip = w.chip /\ y.bus = w.bus /\ y.oops = w.oops
           /\ SamePort(y.hc, w.hc)
           /\ y.hc.irqen = w.hc.irqen /\ y.hc.count = w.hc.count
           /\ y.hc.active = w.hc.active /\ y.hc.late = w.hc.late /\ y.hc.async = w.hc.async
           /\ y.hc.nexta = w.hc.nexta /\ y.hc.nextp = w.hc.nextp
           /\ y.hc.periodic = w.hc.periodic
           /\ y.hc.alloc = [w.hc.alloc EXCEPT ![e] = TRUE]
           /\ ~w.hc.alloc[e] => /\ y.hc.pid = [w.hc.pid EXCEPT ![e] = FirstPid(u)]
                                /\ y.hc.branch = [w.hc.branch EXCEPT ![e] = PeriodicSize]
                                /\ y.hc.next = [w.hc.next EXCEPT ![e] = None]
           /\ w.hc.alloc[e] => y.hc.pid = w.hc.pid /\ y.hc.branch = w.hc.branch /\ y.hc.next = w.hc.next
<1> DEFINE h == w.hc
<1>1. e \in Ep /\ h \in HcTypes /\ FirstPid(u) \in Pids
  BY DeviceFacts DEF EpOf, Worlds, FirstPid, Pids, Type
<1>2. CASE ~h.alloc[e]
  <2> DEFINE A == [h.alloc EXCEPT ![e] = TRUE]
             P == [h.pid EXCEPT ![e] = FirstPid(u)]
             R == [h.errs EXCEPT ![e] = 0]
             B == [h.branch EXCEPT ![e] = PeriodicSize]
             N == [h.next EXCEPT ![e] = None]
             g == [h EXCEPT !.alloc = A, !.pid = P, !.errs = R, !.branch = B, !.next = N]
  <2>1. /\ y.hc = g
        /\ y.core = w.core /\ y.chip = w.chip /\ y.bus = w.bus /\ y.oops = w.oops
        /\ y.hc \in HcTypes => y \in Worlds
    <3>1. y = [w EXCEPT !.hc = [h EXCEPT !.alloc[e] = TRUE, !.pid[e] = FirstPid(u), !.errs[e] = 0,
                                         !.branch[e] = PeriodicSize, !.next[e] = None]]
      BY <1>2 DEF Allocate
    <3>2. g = [h EXCEPT !.alloc[e] = TRUE, !.pid[e] = FirstPid(u), !.errs[e] = 0,
                        !.branch[e] = PeriodicSize, !.next[e] = None]
      BY <1>1 DEF HcTypes
    <3>3. y = [w EXCEPT !.hc = g]
      BY <3>1, <3>2
    <3> HIDE DEF g
    <3> QED
      BY <3>3 DEF Worlds
  <2>2. /\ A \in [Ep -> BOOLEAN] /\ P \in [Ep -> Pids \union {"none"}] /\ R \in [Ep -> 0 .. 2]
        /\ B \in [Ep -> 0 .. PeriodicSize] /\ N \in [Ep -> Pointer]
    BY <1>1, Sl811ScheduleAssumption DEF HcTypes, Pointer
  <2> HIDE DEF A, P, R, B, N
  <2>3. g \in HcTypes
    BY <1>1, <2>2 DEF HcTypes
  <2>4. /\ SamePort(g, h)
        /\ g.irqen = h.irqen /\ g.count = h.count /\ g.active = h.active /\ g.late = h.late
        /\ g.async = h.async /\ g.nexta = h.nexta /\ g.nextp = h.nextp
        /\ g.periodic = h.periodic
        /\ g.alloc = A /\ g.pid = P /\ g.branch = B /\ g.next = N
    BY <1>1 DEF HcTypes, SamePort
  <2> HIDE DEF g
  <2> QED
    BY <1>2, <2>1, <2>3, <2>4 DEF A, P, B, N
<1>3. CASE h.alloc[e]
  <2>1. y = w
    BY <1>1, <1>3 DEF Allocate
  <2>2. [h.alloc EXCEPT ![e] = TRUE] = h.alloc
    BY <1>1, <1>3 DEF HcTypes
  <2> QED
    BY <1>3, <2>1, <2>2 DEF SamePort
<1> QED
  BY <1>2, <1>3

(* The driver's endpoints that were ever made.                             *)
Made(h) == {e \in Ep : h.pid[e] # "none"}

(* The driver's pointers lead to endpoints that were made, and the next of *)
(* the round is in the list.                                               *)
MadeInv(h) ==
    /\ \A e \in Ep : h.alloc[e] => e \in Made(h)
    /\ h.active \in Made(h) \union {None} /\ h.nextp \in Made(h) \union {None}
    /\ \A i \in DOMAIN h.async : h.async[i] \in Made(h)
    /\ h.nexta # None => OnList(h.async, h.nexta)
    /\ h.periodic \in [Slots -> Made(h) \union {None}]
    /\ h.next \in [Ep -> Made(h) \union {None}]

(* Each endpoint is at most once in the schedule of its kind.              *)
ListsInv(h) ==
    /\ Distinct(h.async)
    /\ \A e \in Ep : /\ InAsync(h, e) => Type(e) # "interrupt"
                     /\ h.branch[e] < PeriodicSize => Type(e) = "interrupt"

(* The endpoints that are in a schedule.                                   *)
Sched(h) == {e \in Ep : Scheduled(h, e)}

(* The frames' chains stay within the endpoints that were made.            *)
LEMMA MadeWithin ==
    ASSUME NEW h \in HcTypes, MadeInv(h)
    PROVE  Pointers(Made(h) \union {None}) /\ Within(h, Made(h) \union {None})
BY Sl811ScheduleAssumption DEF MadeInv, Pointers, Pointer, Within, Made, HcTypes

(* An endpoint that enters the list of control and bulk endpoints.         *)
LEMMA ScheduleAsyncFacts ==
    ASSUME DevOK, NEW h \in HcTypes, MadeInv(h), ListsInv(h), NEW e \in Made(h),
           Type(e) # "interrupt", NEW g, g = ScheduleAsync(h, e)
    PROVE  /\ g \in HcTypes /\ MadeInv(g) /\ ListsInv(g)
           /\ SamePort(g, h) /\ g.active = h.active /\ g.late = h.late
           /\ g.nexta = h.nexta /\ g.nextp = h.nextp /\ g.frame = h.frame
           /\ g.alloc = h.alloc /\ g.pid = h.pid /\ g.errs = h.errs
           /\ g.count = h.count /\ g.irqen = h.irqen
           /\ Sched(g) = Sched(h) \union {e}
<1>1. e \in Ep
  BY DEF Made
<1>2. CASE InAsync(h, e)
  BY <1>1, <1>2 DEF ScheduleAsync, SamePort, Sched, Scheduled
<1>3. CASE ~InAsync(h, e)
  <2> DEFINE a == Append(h.async, e)
  <2>1. h.async \in Seq(Ep)
    BY DEF HcTypes
  <2>2. /\ a \in Seq(Ep) /\ DOMAIN a = 1 .. Len(h.async) + 1 /\ DOMAIN h.async = 1 .. Len(h.async)
        /\ \A i \in DOMAIN h.async : a[i] = h.async[i]
        /\ a[Len(h.async) + 1] = e /\ Len(h.async) \in Nat
    BY <1>1, <2>1
  <2>3. \A x : OnList(a, x) <=> OnList(h.async, x) \/ x = e
    BY <2>2 DEF OnList
  <2>4. Distinct(a)
    BY <1>3, <2>2 DEF ListsInv, Distinct, InAsync, OnList
  <2>5. \A i \in DOMAIN a : a[i] \in Made(h)
    BY <2>2 DEF MadeInv
  <2> HIDE DEF a
  <2>6. g = [h EXCEPT !.async = a]
    BY <1>3 DEF ScheduleAsync, a
  <2>7. /\ g \in HcTypes /\ g.async = a
        /\ SamePort(g, h) /\ g.active = h.active /\ g.late = h.late
        /\ g.nexta = h.nexta /\ g.nextp = h.nextp /\ g.frame = h.frame
        /\ g.alloc = h.alloc /\ g.pid = h.pid /\ g.errs = h.errs
        /\ g.count = h.count /\ g.irqen = h.irqen
        /\ g.periodic = h.periodic /\ g.next = h.next /\ g.branch = h.branch
    BY <2>2, <2>6 DEF HcTypes, SamePort
  <2>8. Made(g) = Made(h)
    BY <2>7 DEF Made
  <2>9. MadeInv(g)
    BY <2>3, <2>5, <2>7, <2>8 DEF MadeInv
  <2>10. \A x \in Ep : InAsync(g, x) <=> InAsync(h, x) \/ x = e
    BY <2>3, <2>7 DEF InAsync
  <2>11. ListsInv(g)
    BY <2>4, <2>7, <2>10 DEF ListsInv
  <2>12. Sched(g) = Sched(h) \union {e}
    BY <1>1, <2>7, <2>10 DEF Sched, Scheduled
  <2> QED
    BY <2>7, <2>9, <2>11, <2>12
<1> QED
  BY <1>2, <1>3

(* What changes when an endpoint enters or leaves the frames.              *)
FramesChanged(r, B, L, N, Q) ==
    [r EXCEPT !.branch = B, !.load = L, !.count = N, !.irqen = Q]

(* All the fields after an endpoint entered the frames, ...                *)
LEMMA FramesChange ==
    ASSUME NEW r \in HcTypes, NEW B \in [Ep -> 0 .. PeriodicSize], NEW L \in [Slots -> Int],
           NEW N \in Int, NEW Q \in SUBSET Interrupts,
           NEW g, g = FramesChanged(r, B, L, N, Q)
    PROVE  /\ g \in HcTypes /\ SamePort(g, r) /\ g.active = r.active /\ g.late = r.late
           /\ g.nexta = r.nexta /\ g.nextp = r.nextp /\ g.frame = r.frame /\ g.async = r.async
           /\ g.alloc = r.alloc /\ g.pid = r.pid /\ g.errs = r.errs
           /\ g.count = N /\ g.irqen = Q /\ g.branch = B
           /\ g.periodic = r.periodic /\ g.next = r.next
BY DEF HcTypes, SamePort, FramesChanged

(* An interrupt endpoint that enters the frames.                           *)
LEMMA SchedulePeriodicFacts ==
    ASSUME DevOK, NEW h \in HcTypes, MadeInv(h), ListsInv(h), NEW e \in Made(h),
           Type(e) = "interrupt", NEW b \in 0 .. PeriodicSize - 1,
           NEW g, g = SchedulePeriodic(h, e, dev.ep, b)
    PROVE  /\ g \in HcTypes /\ MadeInv(g) /\ ListsInv(g)
           /\ SamePort(g, h) /\ g.active = h.active /\ g.late = h.late
           /\ g.nexta = h.nexta /\ g.nextp = h.nextp /\ g.frame = h.frame
           /\ g.alloc = h.alloc /\ g.pid = h.pid /\ g.errs = h.errs
           /\ g.count = h.count + 1 /\ g.irqen = h.irqen \union {"SOFINTR"}
           /\ Sched(g) = Sched(h) \union {e}
<1> DEFINE M == Made(h) \union {None}
           due == DueSlots(dev.ep[e].period, b)
           r == LinkSlots(h, e, dev.ep, due)
           B == [r.branch EXCEPT ![e] = b]
           L == [i \in Slots |-> r.load[i] + (IF i \in due THEN dev.ep[e].load ELSE 0)]
           Q == r.irqen \union {"SOFINTR"}
           N == r.count + 1
<1>1. e \in Ep /\ e # None /\ PeriodicSize \in Nat
  BY Sl811ScheduleAssumption DEF Made
<1>2. /\ \A x \in Ep : dev.ep[x].period \in Nat
      /\ dev.ep[e].load \in Nat
  BY <1>1, DeviceFacts
<1>3. Pointers(M) /\ Within(h, M) /\ h.next \in [Ep -> M] /\ e \in M \ {None}
  BY <1>1, MadeWithin DEF MadeInv
<1>4. r \in Rewired(h, M)
  <2> HIDE DEF due, M
  <2> QED
    BY <1>2, <1>3, LinkSlotsRewire DEF r
<1>5. /\ r \in HcTypes /\ SamePort(r, h)
      /\ r.periodic \in [Slots -> M] /\ r.next \in [Ep -> M]
      /\ r.active = h.active /\ r.late = h.late /\ r.async = h.async
      /\ r.nexta = h.nexta /\ r.nextp = h.nextp /\ r.frame = h.frame
      /\ r.alloc = h.alloc /\ r.pid = h.pid /\ r.errs = h.errs /\ r.branch = h.branch
      /\ r.count = h.count /\ r.irqen = h.irqen /\ r.load = h.load
  BY <1>4 DEF Rewired, SamePort
<1>6. g = FramesChanged(r, B, L, N, Q)
  <2>1. g = [r EXCEPT !.branch[e] = b, !.load = L, !.count = N, !.irqen = Q]
    BY <1>5 DEF SchedulePeriodic, HcTypes
  <2> HIDE DEF r, L, Q, N
  <2> QED
    BY SMTT(30), <2>1, <1>5 DEF HcTypes, B, FramesChanged
<1>7. /\ B \in [Ep -> 0 .. PeriodicSize] /\ B[e] = b
      /\ \A x \in Ep : x # e => B[x] = h.branch[x]
  <2> HIDE DEF r
  <2> QED
    BY SMTT(30), <1>1, <1>5 DEF HcTypes
<1>8. L \in [Slots -> Int] /\ Q \in SUBSET Interrupts
  <2>1. r.load \in [Slots -> Int] /\ r.irqen \in SUBSET Interrupts
    BY <1>5 DEF HcTypes
  <2> HIDE DEF r, due
  <2> QED
    BY SMTT(30), <1>2, <2>1 DEF Interrupts
<1> HIDE DEF r, B, L, Q, due, M
<1>N. N \in Int /\ N = h.count + 1
  BY <1>5 DEF HcTypes
<1> HIDE DEF N
<1>9. /\ g \in HcTypes /\ SamePort(g, h) /\ g.active = h.active /\ g.late = h.late
      /\ g.nexta = h.nexta /\ g.nextp = h.nextp /\ g.frame = h.frame /\ g.async = h.async
      /\ g.alloc = h.alloc /\ g.pid = h.pid /\ g.errs = h.errs
      /\ g.count = N /\ g.irqen = Q /\ g.branch = B
      /\ g.periodic = r.periodic /\ g.next = r.next
  <2>1. r \in HcTypes /\ N \in Int
    BY <1>5, <1>N
  <2>2. /\ g \in HcTypes /\ SamePort(g, r) /\ g.active = r.active /\ g.late = r.late
        /\ g.nexta = r.nexta /\ g.nextp = r.nextp /\ g.frame = r.frame /\ g.async = r.async
        /\ g.alloc = r.alloc /\ g.pid = r.pid /\ g.errs = r.errs
        /\ g.count = N /\ g.irqen = Q /\ g.branch = B
        /\ g.periodic = r.periodic /\ g.next = r.next
    BY <1>6, <1>7, <1>8, <2>1, FramesChange
  <2> QED
    BY <1>5, <2>2 DEF SamePort
<1>10. Made(g) = Made(h)
  BY <1>9 DEF Made
<1>11. MadeInv(g)
  BY <1>5, <1>9, <1>10 DEF MadeInv, M
<1>12. \A x \in Ep : /\ InAsync(g, x) <=> InAsync(h, x)
                     /\ g.branch[x] < PeriodicSize <=> h.branch[x] < PeriodicSize \/ x = e
  BY <1>1, <1>7, <1>9 DEF InAsync
<1>13. ListsInv(g)
  BY <1>9, <1>12 DEF ListsInv
<1>14. Sched(g) = Sched(h) \union {e}
  BY <1>1, <1>12 DEF Sched, Scheduled
<1>15. Q = h.irqen \union {"SOFINTR"}
  BY <1>5 DEF Q
<1> QED
  BY <1>9, <1>11, <1>13, <1>14, <1>15, <1>N

(* What changes when an endpoint leaves the frames.                        *)
FramesLeft(r, B, L, N, P, Q) ==
    [r EXCEPT !.branch = B, !.load = L, !.count = N, !.nextp = P, !.irqen = Q]

(* ... and after it left them.                                             *)
LEMMA FramesLeave ==
    ASSUME NEW r \in HcTypes, NEW B \in [Ep -> 0 .. PeriodicSize], NEW L \in [Slots -> Int],
           NEW N \in Int, NEW P \in Pointer, NEW Q \in SUBSET Interrupts,
           NEW g, g = FramesLeft(r, B, L, N, P, Q)
    PROVE  /\ g \in HcTypes /\ SamePort(g, r) /\ g.active = r.active /\ g.late = r.late
           /\ g.nexta = r.nexta /\ g.nextp = P /\ g.frame = r.frame /\ g.async = r.async
           /\ g.alloc = r.alloc /\ g.pid = r.pid /\ g.errs = r.errs
           /\ g.count = N /\ g.irqen = Q /\ g.branch = B
           /\ g.periodic = r.periodic /\ g.next = r.next
BY DEF HcTypes, SamePort, FramesLeft

(* An interrupt endpoint that leaves the frames.                           *)
LEMMA DeschedulePeriodicFacts ==
    ASSUME DevOK, NEW h \in HcTypes, MadeInv(h), ListsInv(h), NEW e \in Made(h),
           Type(e) = "interrupt", NEW g, g = DeschedulePeriodic(h, e, dev.ep)
    PROVE  /\ g \in HcTypes /\ MadeInv(g) /\ ListsInv(g)
           /\ SamePort(g, h) /\ g.active = h.active /\ g.late = h.late
           /\ g.alloc = h.alloc /\ g.pid = h.pid /\ g.errs = h.errs
           /\ g.count = h.count - 1
           /\ g.irqen = IF h.count = 1 THEN h.irqen \ {"SOFINTR"} ELSE h.irqen
           /\ Sched(g) = Sched(h) \ {e}
<1> DEFINE M == Made(h) \union {None}
           due == DueSlots(dev.ep[e].period, h.branch[e])
           r == UnlinkSlots(h, e, due)
           B == [r.branch EXCEPT ![e] = PeriodicSize]
           L == [i \in Slots |-> r.load[i] - (IF i \in due THEN dev.ep[e].load ELSE 0)]
           P == IF r.nextp = e THEN r.next[e] ELSE r.nextp
           Q == IF h.count = 1 THEN r.irqen \ {"SOFINTR"} ELSE r.irqen
           N == r.count - 1
<1>1. e \in Ep /\ e # None /\ PeriodicSize \in Nat
  BY Sl811ScheduleAssumption DEF Made
<1>2. /\ \A x \in Ep : dev.ep[x].period \in Nat
      /\ dev.ep[e].load \in Nat
  BY <1>1, DeviceFacts
<1>3. Pointers(M) /\ Within(h, M) /\ h.next \in [Ep -> M] /\ e \in M \ {None}
  BY SMTT(30), <1>1, MadeWithin DEF MadeInv
<1>4. r \in Rewired(h, M)
  <2> HIDE DEF due, M
  <2> QED
    BY <1>2, <1>3, UnlinkSlotsRewire DEF r
<1>5. /\ r \in HcTypes /\ SamePort(r, h)
      /\ r.periodic \in [Slots -> M] /\ r.next \in [Ep -> M]
      /\ r.active = h.active /\ r.late = h.late /\ r.async = h.async
      /\ r.nexta = h.nexta /\ r.nextp = h.nextp /\ r.frame = h.frame
      /\ r.alloc = h.alloc /\ r.pid = h.pid /\ r.errs = h.errs /\ r.branch = h.branch
      /\ r.count = h.count /\ r.irqen = h.irqen /\ r.load = h.load
  BY <1>4 DEF Rewired, SamePort
<1>6. g = FramesLeft(r, B, L, N, P, Q)
  <2>1. g = [r EXCEPT !.branch[e] = PeriodicSize, !.load = L, !.count = N, !.nextp = P, !.irqen = Q]
    BY <1>5 DEF DeschedulePeriodic, HcTypes
  <2> HIDE DEF r, L, Q, N, P
  <2> QED
    BY SMTT(30), <2>1, <1>5 DEF HcTypes, B, FramesLeft
<1>7. /\ B \in [Ep -> 0 .. PeriodicSize] /\ B[e] = PeriodicSize
      /\ \A x \in Ep : x # e => B[x] = h.branch[x]
  <2> HIDE DEF r
  <2> QED
    BY <1>1, <1>5 DEF HcTypes
<1>8. L \in [Slots -> Int] /\ Q \in SUBSET Interrupts
  <2>1. r.load \in [Slots -> Int] /\ r.irqen \in SUBSET Interrupts
    BY <1>5 DEF HcTypes
  <2> HIDE DEF r, due
  <2> QED
    BY SMTT(30), <1>2, <2>1 DEF Interrupts
<1>9. P \in M /\ P \in Pointer
  BY SMTT(30), <1>1, <1>3, <1>5 DEF MadeInv, Pointers
<1>10. N \in Int /\ N = h.count - 1
  BY <1>5 DEF HcTypes
<1>11. Q = IF h.count = 1 THEN h.irqen \ {"SOFINTR"} ELSE h.irqen
  BY <1>5
<1> HIDE DEF r, B, L, Q, due, M, N, P
<1>12. /\ g \in HcTypes /\ SamePort(g, r) /\ g.active = r.active /\ g.late = r.late
       /\ g.nexta = r.nexta /\ g.nextp = P /\ g.frame = r.frame /\ g.async = r.async
       /\ g.alloc = r.alloc /\ g.pid = r.pid /\ g.errs = r.errs
       /\ g.count = N /\ g.irqen = Q /\ g.branch = B
       /\ g.periodic = r.periodic /\ g.next = r.next
  BY <1>5, <1>6, <1>7, <1>8, <1>9, <1>10, FramesLeave
<1>13. Made(g) = Made(h)
  BY <1>5, <1>12 DEF Made
<1>14. MadeInv(g)
  BY <1>5, <1>9, <1>12, <1>13 DEF MadeInv, M
<1>15. \A x \in Ep : /\ InAsync(g, x) <=> InAsync(h, x)
                     /\ g.branch[x] < PeriodicSize <=> h.branch[x] < PeriodicSize /\ x # e
  BY <1>1, <1>5, <1>7, <1>12 DEF InAsync
<1>16. ListsInv(g)
  BY <1>5, <1>12, <1>15 DEF ListsInv
<1>17. Sched(g) = Sched(h) \ {e}
  BY <1>1, <1>15 DEF Sched, Scheduled, ListsInv
<1> QED
  BY <1>5, <1>10, <1>11, <1>12, <1>14, <1>16, <1>17 DEF SamePort

(* An endpoint that leaves the list.                                       *)
LEMMA DescheduleAsyncFacts ==
    ASSUME NEW h \in HcTypes, MadeInv(h), ListsInv(h), NEW e \in Ep, InAsync(h, e),
           NEW g, g = DescheduleAsync(h, e)
    PROVE  /\ g \in HcTypes /\ MadeInv(g) /\ ListsInv(g)
           /\ SamePort(g, h) /\ g.active = h.active /\ g.late = h.late
           /\ g.alloc = h.alloc /\ g.pid = h.pid /\ g.errs = h.errs
           /\ g.count = h.count /\ g.irqen = h.irqen
           /\ Sched(g) = Sched(h) \ {e}
<1> DEFINE a == Without(h.async, e)
           n == IF h.nexta = e THEN None ELSE h.nexta
<1>1. h.async \in Seq(Ep) /\ h.nexta \in Pointer /\ Distinct(h.async)
  BY DEF HcTypes, ListsInv
<1>2. a \in Seq(Ep)
  BY <1>1, WithoutType
<1>3. Distinct(a) /\ ~OnList(a, e)
  BY <1>1, WithoutDistinct
<1>4. \A x : x # e => (OnList(a, x) <=> OnList(h.async, x))
  BY <1>1, WithoutKeeps
<1>5. \A i \in DOMAIN a : a[i] \in Made(h)
  <2> SUFFICES ASSUME NEW i \in DOMAIN a
               PROVE  a[i] \in Made(h)
    OBVIOUS
  <2>1. OnList(a, a[i])
    BY DEF OnList
  <2> HIDE DEF a
  <2>2. OnList(h.async, a[i])
    BY <1>3, <1>4, <2>1
  <2> QED
    BY <2>2 DEF OnList, MadeInv
<1>6. n \in Pointer /\ (n # None => n = h.nexta /\ n # e)
  BY <1>1 DEF Pointer
<1>7. g = [h EXCEPT !.async = a, !.nexta = n]
  BY DEF DescheduleAsync, HcTypes
<1> HIDE DEF a, n
<1>8. /\ g \in HcTypes /\ g.async = a /\ g.nexta = n
      /\ SamePort(g, h) /\ g.active = h.active /\ g.late = h.late /\ g.nextp = h.nextp
      /\ g.alloc = h.alloc /\ g.pid = h.pid /\ g.errs = h.errs
      /\ g.count = h.count /\ g.irqen = h.irqen
      /\ g.periodic = h.periodic /\ g.next = h.next /\ g.branch = h.branch
  BY ZenonT(60), <1>2, <1>6, <1>7 DEF HcTypes, SamePort
<1>9. Made(g) = Made(h)
  BY <1>8 DEF Made
<1>10. MadeInv(g)
  BY <1>4, <1>5, <1>6, <1>8, <1>9 DEF MadeInv
<1>11. \A x \in Ep : InAsync(g, x) <=> InAsync(h, x) /\ x # e
  BY <1>3, <1>4, <1>8 DEF InAsync
<1>12. ListsInv(g)
  BY <1>3, <1>8, <1>11 DEF ListsInv
<1>13. Sched(g) = Sched(h) \ {e}
  BY <1>8, <1>11 DEF Sched, Scheduled, ListsInv
<1> QED
  BY <1>8, <1>10, <1>12, <1>13

(* A packet on the wire is of an URB, and an armed chip has one.           *)
TokInv(k) ==
    /\ k.tok.pid \in Pids => k.tok.urb \in Urbs
    /\ k.armed => k.tok.pid # "none"

(* What the handlers may rely on whatever went wrong.                      *)
Sane(w) == w \in Worlds /\ MadeInv(w.hc) /\ ListsInv(w.hc) /\ TokInv(w.chip)

(* w and y differ in the driver's state alone.                             *)
SameBut(y, w) == y.core = w.core /\ y.chip = w.chip /\ y.bus = w.bus /\ y.oops = w.oops

(* A world whose driver state changes.                                     *)
LEMMA HcChange ==
    ASSUME NEW w \in Worlds, NEW g \in HcTypes, NEW y, y = [w EXCEPT !.hc = g]
    PROVE  y \in Worlds /\ y.hc = g /\ SameBut(y, w)
BY DEF Worlds, SameBut

(* urb_enqueue puts the endpoint in its schedule, and no other one.        *)
LEMMA ScheduleFacts ==
    ASSUME DevOK, NEW w, Sane(w), NEW e \in Made(w.hc), NEW y \in Schedule(w, e)
    PROVE  /\ Sane(y) /\ SameBut(y, w)
           /\ SamePort(y.hc, w.hc) /\ y.hc.active = w.hc.active /\ y.hc.late = w.hc.late
           /\ y.hc.nexta = w.hc.nexta /\ y.hc.nextp = w.hc.nextp
           /\ y.hc.alloc = w.hc.alloc /\ y.hc.pid = w.hc.pid /\ y.hc.errs = w.hc.errs
           /\ \/ y.hc.count = w.hc.count /\ y.hc.irqen = w.hc.irqen
              \/ y.hc.count = w.hc.count + 1 /\ y.hc.irqen = w.hc.irqen \union {"SOFINTR"}
           /\ Sched(y.hc) = Sched(w.hc) \union {e}
<1> DEFINE h == w.hc
<1>1. h \in HcTypes /\ MadeInv(h) /\ ListsInv(h) /\ TokInv(w.chip) /\ e \in Made(h) /\ e \in Ep
  BY DEF Sane, Worlds, Made
<1>2. CASE Type(e) # "interrupt"
  <2> DEFINE g == ScheduleAsync(h, e)
  <2>1. y = [w EXCEPT !.hc = g]
    BY <1>2 DEF Schedule
  <2>2. /\ g \in HcTypes /\ MadeInv(g) /\ ListsInv(g)
        /\ SamePort(g, h) /\ g.active = h.active /\ g.late = h.late
        /\ g.nexta = h.nexta /\ g.nextp = h.nextp /\ g.frame = h.frame
        /\ g.alloc = h.alloc /\ g.pid = h.pid /\ g.errs = h.errs
        /\ g.count = h.count /\ g.irqen = h.irqen
        /\ Sched(g) = Sched(h) \union {e}
    <3> HIDE DEF h
    <3> QED
      BY <1>1, <1>2, ScheduleAsyncFacts
  <2> HIDE DEF g
  <2>3. y \in Worlds /\ y.hc = g /\ SameBut(y, w)
    BY <2>1, <2>2, HcChange DEF Sane
  <2> QED
    BY <1>1, <2>2, <2>3 DEF Sane, SameBut
<1>3. CASE Type(e) = "interrupt" /\ h.branch[e] < PeriodicSize
  <2>1. y = w
    BY <1>3 DEF Schedule
  <2>2. e \in Sched(h)
    BY <1>1, <1>3 DEF Sched, Scheduled
  <2> QED
    BY <2>1, <2>2 DEF SamePort, SameBut
<1>4. CASE Type(e) = "interrupt" /\ ~(h.branch[e] < PeriodicSize)
  <2>1. PICK b \in Branches(h, dev.ep[e].period, dev.ep[e].load) :
            y = [w EXCEPT !.hc = SchedulePeriodic(h, e, dev.ep, b)]
    BY <1>4 DEF Schedule
  <2>2. dev.ep[e].period \in 1 .. PeriodicSize /\ PeriodicSize \in Nat
    BY <1>1, <1>4, DeviceFacts, Sl811ScheduleAssumption DEF Type
  <2>3. b \in 0 .. PeriodicSize - 1
    BY <2>1, <2>2 DEF Branches
  <2> DEFINE g == SchedulePeriodic(h, e, dev.ep, b)
  <2>4. /\ g \in HcTypes /\ MadeInv(g) /\ ListsInv(g)
        /\ SamePort(g, h) /\ g.active = h.active /\ g.late = h.late
        /\ g.nexta = h.nexta /\ g.nextp = h.nextp /\ g.frame = h.frame
        /\ g.alloc = h.alloc /\ g.pid = h.pid /\ g.errs = h.errs
        /\ g.count = h.count + 1 /\ g.irqen = h.irqen \union {"SOFINTR"}
        /\ Sched(g) = Sched(h) \union {e}
    <3> HIDE DEF h
    <3> QED
      BY <1>1, <1>4, <2>3, SchedulePeriodicFacts
  <2>5. y = [w EXCEPT !.hc = g]
    BY <2>1
  <2> HIDE DEF g
  <2>6. y \in Worlds /\ y.hc = g /\ SameBut(y, w)
    BY <2>4, <2>5, HcChange DEF Sane
  <2> QED
    BY <1>1, <2>4, <2>6 DEF Sane, SameBut
<1> QED
  BY <1>2, <1>3, <1>4

(* An endpoint that cannot be scheduled is an interrupt endpoint in no frame. *)
LEMMA NotScheduled ==
    ASSUME DevOK, NEW w, Sane(w), NEW e \in Ep, Schedule(w, e) = {}
    PROVE  e \notin Sched(w.hc)
BY DEF Schedule, Sched, Scheduled, Sane, ListsInv

(* finish_request takes an endpoint without URBs out of its schedule.      *)
Descheduled(y, w, e) ==
    /\ Sane(y) /\ y.core = w.core /\ y.chip = w.chip /\ y.bus = w.bus
    /\ \/ y.oops /\ e \notin Sched(w.hc)
       \/ /\ y.oops = w.oops /\ Sched(y.hc) = Sched(w.hc) \ {e}
          /\ \/ y.hc.count = w.hc.count /\ y.hc.irqen = w.hc.irqen
             \/ /\ y.hc.count = w.hc.count - 1
                /\ y.hc.irqen = IF w.hc.count = 1 THEN w.hc.irqen \ {"SOFINTR"}
                                ELSE w.hc.irqen
    /\ SamePort(y.hc, w.hc) /\ y.hc.active = w.hc.active /\ y.hc.late = w.hc.late
    /\ y.hc.alloc = w.hc.alloc /\ y.hc.pid = w.hc.pid /\ y.hc.errs = w.hc.errs

(* finish_request's removal is as described, or an oops for an endpoint in *)
(* no list.                                                                *)
LEMMA DescheduleFacts ==
    ASSUME DevOK, NEW w, Sane(w), NEW e \in Made(w.hc), w.core.q[e] = <<>>,
           NEW y, y = Deschedule(w, e)
    PROVE  Descheduled(y, w, e)
<1> DEFINE h == w.hc
<1>1. h \in HcTypes /\ MadeInv(h) /\ ListsInv(h) /\ TokInv(w.chip) /\ e \in Made(h) /\ e \in Ep
  BY DEF Sane, Worlds, Made
<1>2. CASE InAsync(h, e)
  <2> DEFINE g == DescheduleAsync(h, e)
  <2>1. y = [w EXCEPT !.hc = g]
    BY <1>2 DEF Deschedule
  <2>2. /\ g \in HcTypes /\ MadeInv(g) /\ ListsInv(g)
        /\ SamePort(g, h) /\ g.active = h.active /\ g.late = h.late
        /\ g.alloc = h.alloc /\ g.pid = h.pid /\ g.errs = h.errs
        /\ g.count = h.count /\ g.irqen = h.irqen
        /\ Sched(g) = Sched(h) \ {e}
    <3> HIDE DEF h
    <3> QED
      BY <1>1, <1>2, DescheduleAsyncFacts
  <2> HIDE DEF g
  <2>3. y \in Worlds /\ y.hc = g /\ SameBut(y, w)
    BY <2>1, <2>2, HcChange DEF Sane
  <2> QED
    BY <1>1, <2>2, <2>3 DEF Sane, SameBut, Descheduled
<1>3. CASE ~InAsync(h, e) /\ Type(e) = "interrupt"
  <2> DEFINE g == DeschedulePeriodic(h, e, dev.ep)
  <2>1. y = [w EXCEPT !.hc = g]
    BY <1>3 DEF Deschedule
  <2>2. /\ g \in HcTypes /\ MadeInv(g) /\ ListsInv(g)
        /\ SamePort(g, h) /\ g.active = h.active /\ g.late = h.late
        /\ g.alloc = h.alloc /\ g.pid = h.pid /\ g.errs = h.errs
        /\ g.count = h.count - 1
        /\ g.irqen = IF h.count = 1 THEN h.irqen \ {"SOFINTR"} ELSE h.irqen
        /\ Sched(g) = Sched(h) \ {e}
    <3> HIDE DEF h
    <3> QED
      BY ZenonT(60), <1>1, <1>3, DeschedulePeriodicFacts
  <2> HIDE DEF g
  <2>3. y \in Worlds /\ y.hc = g /\ SameBut(y, w)
    BY <2>1, <2>2, HcChange DEF Sane
  <2> QED
    BY <1>1, <2>2, <2>3 DEF Sane, SameBut, Descheduled
<1>4. CASE ~InAsync(h, e) /\ Type(e) # "interrupt"
  <2>1. y = [w EXCEPT !.oops = TRUE]
    BY <1>4 DEF Deschedule, Oops
  <2>2. /\ y \in Worlds /\ y.hc = w.hc /\ y.core = w.core /\ y.chip = w.chip /\ y.bus = w.bus
        /\ y.oops
    BY <2>1 DEF Sane, Worlds
  <2>3. e \notin Sched(h)
    BY <1>1, <1>4 DEF Sched, Scheduled, ListsInv
  <2> QED
    BY <1>1, <2>2, <2>3 DEF Sane, SamePort, Descheduled
<1> QED
  BY <1>2, <1>3, <1>4

(* The packet under way is that of the first URB of e.                     *)
Issued(y, e) ==
    /\ y.hc.active = e /\ y.chip.armed /\ e \in Ep /\ y.core.q[e] # <<>>
    /\ y.chip.tok = [pid |-> y.hc.pid[e], urb |-> Head(y.core.q[e]),
                     room |-> Room(y, e, Head(y.core.q[e]))]

(* What start leaves alone.                                                *)
Started(y, w) ==
    /\ y.core = w.core /\ y.bus = w.bus /\ y.oops = w.oops
    /\ y.chip.pend = w.chip.pend /\ y.chip.attached = w.chip.attached /\ y.chip.res = w.chip.res
    /\ SamePort(y.hc, w.hc) /\ y.hc.alloc = w.hc.alloc /\ y.hc.pid = w.hc.pid
    /\ y.hc.count = w.hc.count /\ w.hc.irqen \subseteq y.hc.irqen
    /\ y.hc.irqen \subseteq w.hc.irqen \union {"SOFINTR"}
    /\ Sched(y.hc) = Sched(w.hc) /\ y.hc.branch = w.hc.branch /\ y.hc.async = w.hc.async

(* The first of a queue that is not empty is an URB.                       *)
LEMMA HeadIsUrb ==
    ASSUME NEW w \in Worlds, NEW e \in Ep, w.core.q[e] # <<>>
    PROVE  /\ w.core.q[e] \in Seq(Urbs) /\ Len(w.core.q[e]) \in Nat \ {0}
           /\ Head(w.core.q[e]) \in Urbs /\ Head(w.core.q[e]) = w.core.q[e][1]
           /\ 1 \in DOMAIN w.core.q[e]
<1>1. w.core.q[e] \in Seq(Urbs)
  BY DEF Worlds, CoreTypes
<1> DEFINE s == w.core.q[e]
<1>2. s \in Seq(Urbs) /\ s # <<>>
  BY <1>1
<1> HIDE DEF s
<1>3. Len(s) \in Nat \ {0} /\ Head(s) = s[1] /\ s[1] \in Urbs /\ 1 \in DOMAIN s
  BY <1>2
<1> QED
  BY <1>2, <1>3 DEF s

(* The room of a packet is a number.                                       *)
LEMMA RoomType ==
    ASSUME DevOK, NEW w \in Worlds, NEW e, NEW u \in Urbs
    PROVE  Room(w, e, u) \in Int
<1>1. w.core.actual[u] \in Int /\ dev.urb[u].len \in Int /\ MaxPacket \in Int
  BY SMTT(30), DeviceFacts, Sl811Assumption DEF Worlds, CoreTypes
<1> QED
  BY <1>1 DEF Room, Least

(* start programs the packet of the first URB of e.                        *)
LEMMA IssueFacts ==
    ASSUME DevOK, NEW w, Sane(w), NEW e \in Made(w.hc), w.core.q[e] # <<>>,
           NEW y, y = Issue(w, e, Head(w.core.q[e]))
    PROVE  Sane(y) /\ Started(y, w) /\ Issued(y, e)
<1> DEFINE u == Head(w.core.q[e])
           h == w.hc
           k == w.chip
           tok == [pid |-> h.pid[e], urb |-> u, room |-> Room(w, e, u)]
           g == [h EXCEPT !.active = e, !.late = FALSE]
           c == [k EXCEPT !.armed = TRUE, !.tok = tok]
<1>1. w \in Worlds /\ h \in HcTypes /\ k \in ChipTypes /\ e \in Ep /\ h.pid[e] \in Pids /\ e \in Pointer
  BY DEF Sane, Worlds, Made, HcTypes, Pointer
<1>2. u \in Urbs
  BY <1>1, HeadIsUrb
<1>3. Room(w, e, u) \in Int
  BY <1>1, <1>2, RoomType
<1>4. tok \in [pid : Pids \union {"SOF", "none"}, urb : Urbs \union {None}, room : Int]
  BY <1>1, <1>2, <1>3
<1>5. y = [w EXCEPT !.hc = g, !.chip = c]
  BY DEF Issue
<1>6. /\ g \in HcTypes /\ g.active = e /\ g.alloc = h.alloc /\ g.pid = h.pid
      /\ SamePort(g, h) /\ g.count = h.count /\ g.irqen = h.irqen /\ g.async = h.async
      /\ g.branch = h.branch /\ g.nexta = h.nexta /\ g.nextp = h.nextp
      /\ g.periodic = h.periodic /\ g.next = h.next
  BY <1>1 DEF HcTypes, SamePort
<1>7. /\ c \in ChipTypes /\ c.armed = TRUE /\ c.tok = tok /\ c.pend = k.pend
      /\ c.attached = k.attached /\ c.res = k.res
  <2> HIDE DEF tok
  <2> QED
    BY <1>1, <1>4 DEF ChipTypes
<1> HIDE DEF g, c
<1>8. /\ y \in Worlds /\ y.hc = g /\ y.chip = c /\ y.core = w.core /\ y.bus = w.bus
      /\ y.oops = w.oops
  BY <1>1, <1>5, <1>6, <1>7 DEF Worlds
<1>9. Made(g) = Made(h) /\ Sched(g) = Sched(h) /\ \A x : InAsync(g, x) <=> InAsync(h, x)
  BY <1>6 DEF Made, Sched, Scheduled, InAsync
<1>10. MadeInv(g)
  BY <1>6, <1>9 DEF MadeInv, Sane
<1>11. ListsInv(g)
  BY <1>6, <1>9 DEF ListsInv, Sane
<1>12. TokInv(c)
  BY SMTT(30), <1>1, <1>2, <1>7 DEF TokInv, Pids
<1>13. Room(y, e, u) = Room(w, e, u)
  BY SMTT(30), <1>6, <1>8 DEF Room
<1>14. Issued(y, e)
  <2>1. y.hc.active = e /\ y.chip.armed /\ y.hc.pid = h.pid /\ y.core.q = w.core.q
    BY <1>6, <1>7, <1>8
  <2>2. y.chip.tok = tok
    BY <1>7, <1>8
  <2>3. y.chip.tok = [pid |-> y.hc.pid[e], urb |-> Head(y.core.q[e]),
                      room |-> Room(y, e, Head(y.core.q[e]))]
    BY <1>13, <2>1, <2>2, Zenon
  <2> QED
    BY <1>1, <2>1, <2>3 DEF Issued
<1> QED
  BY <1>6, <1>7, <1>8, <1>9, <1>10, <1>11, <1>12, <1>14 DEF Sane, Started

(* start, on one endpoint.                                                 *)
LEMMA StartOnFacts ==
    ASSUME DevOK, NEW w, Sane(w), NEW e \in Made(w.hc), NEW y \in StartOn(w, e)
    PROVE  /\ Sane(y) /\ Started(y, w)
           /\ \/ y.chip = w.chip /\ y.hc.active = w.hc.active /\ y.hc.late = w.hc.late
              \/ Issued(y, e)
<1>1. w \in Worlds /\ w.hc \in HcTypes
  BY DEF Sane, Worlds
<1>2. CASE w.core.q[e] = <<>>
  <2>1. y = w
    BY <1>2 DEF StartOn
  <2> QED
    BY <2>1 DEF Started, SamePort
<1>3. CASE w.core.q[e] # <<>> /\ y = Issue(w, e, Head(w.core.q[e]))
  BY <1>3, IssueFacts
<1>4. CASE y = [w EXCEPT !.hc.irqen = @ \union {"SOFINTR"}]
  <2> DEFINE Q == w.hc.irqen \union {"SOFINTR"}
             g == [w.hc EXCEPT !.irqen = Q]
  <2>1. Q \in SUBSET Interrupts
    BY <1>1 DEF HcTypes, Interrupts
  <2>2. y = [w EXCEPT !.hc = g]
    BY <1>1, <1>4 DEF Worlds, HcTypes
  <2> HIDE DEF Q
  <2>3. /\ g \in HcTypes /\ g.active = w.hc.active /\ g.late = w.hc.late /\ g.alloc = w.hc.alloc
        /\ g.pid = w.hc.pid /\ SamePort(g, w.hc) /\ g.count = w.hc.count /\ g.irqen = Q
        /\ g.async = w.hc.async /\ g.branch = w.hc.branch /\ g.nexta = w.hc.nexta
        /\ g.nextp = w.hc.nextp /\ g.periodic = w.hc.periodic /\ g.next = w.hc.next
    BY <1>1, <2>1 DEF HcTypes, SamePort
  <2> HIDE DEF g
  <2>4. y \in Worlds /\ y.hc = g /\ SameBut(y, w)
    BY <1>1, <2>2, <2>3, HcChange
  <2>5. Made(g) = Made(w.hc) /\ Sched(g) = Sched(w.hc)
        /\ \A x : InAsync(g, x) <=> InAsync(w.hc, x)
    BY <2>3 DEF Made, Sched, Scheduled, InAsync
  <2>6. MadeInv(g) /\ ListsInv(g)
    BY <2>3, <2>5 DEF MadeInv, ListsInv, Sane
  <2>7. Sane(y)
    BY <2>4, <2>6 DEF Sane, SameBut
  <2>8. Started(y, w)
    BY <2>3, <2>4, <2>5 DEF Started, SameBut, Q
  <2> QED
    BY <2>3, <2>4, <2>7, <2>8 DEF SameBut
<1> QED
  BY <1>2, <1>3, <1>4 DEF StartOn

(* The endpoint whose turn comes next is in the list, or none.             *)
LEMMA AfterAsyncInList ==
    ASSUME NEW h \in HcTypes, NEW e, InAsync(h, e)
    PROVE  AfterAsync(h, e) # None => OnList(h.async, AfterAsync(h, e))
<1> DEFINE n == CHOOSE i \in DOMAIN h.async : h.async[i] = e
           s == h.async
<1>1. s \in Seq(Ep)
  BY DEF HcTypes
<1>2. n \in DOMAIN s
  BY DEF InAsync, OnList
<1>3. AfterAsync(h, e) = IF n = Len(s) THEN None ELSE s[n + 1]
  BY DEF AfterAsync
<1> HIDE DEF n, s
<1>4. n # Len(s) => n + 1 \in DOMAIN s
  BY <1>1, <1>2
<1>5. AfterAsync(h, e) # None => OnList(s, AfterAsync(h, e))
  BY <1>3, <1>4 DEF OnList
<1> QED
  BY <1>5 DEF s

(* start_transfer: nothing, or a turn of a schedule, and maybe a packet.   *)
LEMMA StartTransferFacts ==
    ASSUME DevOK, NEW w, Sane(w), NEW y \in StartTransfer(w)
    PROVE  /\ Sane(y) /\ Started(y, w)
           /\ \/ y.chip = w.chip /\ y.hc.active = w.hc.active /\ y.hc.late = w.hc.late
              \/ /\ w.hc.active = None /\ "SUSPEND" \notin w.hc.port
                 /\ \E e \in Made(w.hc) : Issued(y, e)
<1> DEFINE h == w.hc
<1>1. w \in Worlds /\ h \in HcTypes /\ MadeInv(h) /\ ListsInv(h) /\ TokInv(w.chip)
  BY DEF Sane, Worlds
<1>2. CASE y = w
  BY <1>2 DEF Started, SamePort
<1>3. ASSUME NEW v, NEW e \in Made(h), NEW g, v = [w EXCEPT !.hc = g], y \in StartOn(v, e),
             g \in HcTypes, MadeInv(g), ListsInv(g), SamePort(g, h), Sched(g) = Sched(h),
             g.active = h.active, g.late = h.late, g.alloc = h.alloc, g.pid = h.pid,
             g.count = h.count, g.irqen = h.irqen, g.branch = h.branch, g.async = h.async,
             h.active = None, "SUSPEND" \notin h.port
      PROVE  /\ Sane(y) /\ Started(y, w)
             /\ \/ y.chip = w.chip /\ y.hc.active = h.active /\ y.hc.late = h.late
                \/ Issued(y, e)
  <2>1. v \in Worlds /\ v.hc = g /\ SameBut(v, w)
    BY <1>1, <1>3, HcChange
  <2>2. Sane(v)
    BY <1>1, <1>3, <2>1 DEF Sane, SameBut
  <2>3. Made(g) = Made(h)
    BY <1>3 DEF Made
  <2>4. /\ Sane(y) /\ Started(y, v)
        /\ \/ y.chip = v.chip /\ y.hc.active = v.hc.active /\ y.hc.late = v.hc.late
           \/ Issued(y, e)
    BY <1>3, <2>1, <2>2, <2>3, StartOnFacts
  <2>5. Started(y, w)
    BY <1>3, <2>1, <2>4 DEF Started, SameBut, SamePort
  <2> QED
    BY <1>3, <2>1, <2>4, <2>5 DEF SameBut
<1>4. CASE ~("SUSPEND" \in h.port \/ h.active # None) /\ h.nextp # None
  <2> DEFINE g == [h EXCEPT !.nextp = h.next[h.nextp]]
             v == [w EXCEPT !.hc = g]
  <2>1. h.nextp \in Made(h) /\ h.nextp \in Ep
    BY <1>1, <1>4 DEF MadeInv, Made
  <2>2. h.next[h.nextp] \in Pointer /\ h.next[h.nextp] \in Made(h) \union {None}
    BY <1>1, <2>1 DEF MadeInv, HcTypes
  <2>3. y \in StartOn(v, h.nextp)
    <3>1. [w EXCEPT !.hc.nextp = w.hc.next[@]] = v
      BY <1>1 DEF Worlds, HcTypes
    <3> QED
      BY <1>4, <3>1 DEF StartTransfer
  <2>4. /\ g \in HcTypes /\ SamePort(g, h) /\ g.nextp = h.next[h.nextp]
        /\ g.active = h.active /\ g.late = h.late /\ g.alloc = h.alloc /\ g.pid = h.pid
        /\ g.count = h.count /\ g.irqen = h.irqen /\ g.branch = h.branch /\ g.async = h.async
        /\ g.nexta = h.nexta /\ g.periodic = h.periodic /\ g.next = h.next
    BY <1>1, <2>2 DEF HcTypes, SamePort
  <2> HIDE DEF g
  <2>5. Made(g) = Made(h) /\ Sched(g) = Sched(h) /\ \A x : InAsync(g, x) <=> InAsync(h, x)
    BY <2>4 DEF Made, Sched, Scheduled, InAsync
  <2>6. MadeInv(g) /\ ListsInv(g)
    BY <1>1, <2>2, <2>4, <2>5 DEF MadeInv, ListsInv
  <2> HIDE DEF v
  <2>7. v = [w EXCEPT !.hc = g]
    BY DEF v
  <2>8. /\ Sane(y) /\ Started(y, w)
        /\ \/ y.chip = w.chip /\ y.hc.active = h.active /\ y.hc.late = h.late
           \/ Issued(y, h.nextp)
    BY <1>3, <1>4, <2>1, <2>3, <2>4, <2>5, <2>6, <2>7
  <2> QED
    BY <1>4, <2>1, <2>8
<1>5. CASE ~("SUSPEND" \in h.port \/ h.active # None) /\ h.nextp = None /\ h.async # <<>>
  <2> DEFINE e == IF h.nexta # None THEN h.nexta ELSE Head(h.async)
             n == AfterAsync(h, e)
             g == [h EXCEPT !.nexta = n]
             v == [w EXCEPT !.hc = g]
  <2>1. Head(h.async) = h.async[1] /\ 1 \in DOMAIN h.async
    <3> DEFINE s == h.async
    <3>1. s \in Seq(Ep) /\ s # <<>>
      BY <1>1, <1>5 DEF HcTypes
    <3> HIDE DEF s
    <3>2. Head(s) = s[1] /\ 1 \in DOMAIN s
      BY <3>1
    <3> QED
      BY <3>2 DEF s
  <2>2. InAsync(h, e)
    BY <1>1, <2>1 DEF InAsync, OnList, MadeInv
  <2>3. e \in Made(h)
    BY <1>1, <2>2 DEF InAsync, OnList, MadeInv
  <2> HIDE DEF e
  <2>4. n # None => OnList(h.async, n)
    BY <1>1, <2>2, AfterAsyncInList
  <2>5. n \in Pointer
    BY <1>1, <2>4 DEF Pointer, OnList, MadeInv, Made
  <2>6. y \in StartOn(v, e)
    <3>1. [w EXCEPT !.hc.nexta = AfterAsync(w.hc, e)] = v
      BY <1>1 DEF Worlds, HcTypes
    <3> QED
      BY <1>5, <3>1 DEF StartTransfer, e
  <2> HIDE DEF n
  <2>7. /\ g \in HcTypes /\ SamePort(g, h) /\ g.nexta = n
        /\ g.active = h.active /\ g.late = h.late /\ g.alloc = h.alloc /\ g.pid = h.pid
        /\ g.count = h.count /\ g.irqen = h.irqen /\ g.branch = h.branch /\ g.async = h.async
        /\ g.nextp = h.nextp /\ g.periodic = h.periodic /\ g.next = h.next
    BY <1>1, <2>5 DEF HcTypes, SamePort
  <2> HIDE DEF g
  <2>8. Made(g) = Made(h) /\ Sched(g) = Sched(h) /\ \A x : InAsync(g, x) <=> InAsync(h, x)
    BY <2>7 DEF Made, Sched, Scheduled, InAsync
  <2>9. MadeInv(g) /\ ListsInv(g)
    BY <1>1, <2>4, <2>7, <2>8 DEF MadeInv, ListsInv
  <2> HIDE DEF v
  <2>10. v = [w EXCEPT !.hc = g]
    BY DEF v
  <2>11. /\ Sane(y) /\ Started(y, w)
         /\ \/ y.chip = w.chip /\ y.hc.active = h.active /\ y.hc.late = h.late
            \/ Issued(y, e)
    BY <1>3, <1>5, <2>3, <2>6, <2>7, <2>8, <2>9, <2>10
  <2> QED
    BY <1>5, <2>3, <2>11
<1> QED
  BY <1>2, <1>4, <1>5 DEF StartTransfer

(* An event of the environment that the configuration allows.              *)
Happens(event) == event \in dev.env

(* Every URB is at most once in the queue of its endpoint.                 *)
QueuesInv(c) ==
    \A e \in Ep : Distinct(c.q[e]) /\ \A u : OnList(c.q[e], u) => EpOf(u) = e

(* What is on a list, ...                                                  *)
LEMMA OnListType ==
    ASSUME NEW S, NEW s \in Seq(S)
    PROVE  /\ \A x : OnList(s, x) => x \in S
           /\ s # <<>> <=> \E x : OnList(s, x)
           /\ s # <<>> => OnList(s, Head(s))
<1>1. /\ DOMAIN s = 1 .. Len(s) /\ Len(s) \in Nat /\ \A i \in DOMAIN s : s[i] \in S
      /\ s = <<>> <=> Len(s) = 0
      /\ s # <<>> => Head(s) = s[1]
  OBVIOUS
<1>2. s # <<>> => OnList(s, Head(s))
  BY <1>1 DEF OnList
<1> QED
  BY <1>1, <1>2 DEF OnList

(* ... and on one with an element at its end.                              *)
LEMMA AppendFacts ==
    ASSUME NEW S, NEW s \in Seq(S), NEW x \in S
    PROVE  /\ Append(s, x) \in Seq(S)
           /\ \A y : OnList(Append(s, x), y) <=> OnList(s, y) \/ y = x
           /\ Distinct(s) /\ ~OnList(s, x) => Distinct(Append(s, x))
           /\ Append(s, x) # <<>>
           /\ s # <<>> => Head(Append(s, x)) = Head(s)
           /\ s = <<>> => Head(Append(s, x)) = x
<1> DEFINE a == Append(s, x)
<1>1. /\ a \in Seq(S) /\ DOMAIN a = 1 .. Len(s) + 1 /\ DOMAIN s = 1 .. Len(s) /\ Len(s) \in Nat
      /\ \A i \in DOMAIN s : a[i] = s[i]
      /\ a[Len(s) + 1] = x /\ a # <<>> /\ Head(a) = a[1]
      /\ s # <<>> => Head(s) = s[1] /\ 1 \in DOMAIN s
      /\ s = <<>> => Len(s) = 0
  OBVIOUS
<1> HIDE DEF a
<1>2. \A y : OnList(a, y) <=> OnList(s, y) \/ y = x
  BY <1>1 DEF OnList
<1>3. Distinct(s) /\ ~OnList(s, x) => Distinct(a)
  BY <1>1 DEF Distinct, OnList
<1> QED
  BY <1>1, <1>2, <1>3 DEF a

(* What usbcore and the device keep changes, the driver and the chip do not. *)
CoreChanged(w, c, b) == [w EXCEPT !.core = c, !.bus = b]

(* A change of usbcore's state and of the device's is sane if it is typed. *)
LEMMA CoreChange ==
    ASSUME NEW w, Sane(w), NEW c \in CoreTypes, NEW b \in BusTypes, NEW y, y = CoreChanged(w, c, b)
    PROVE  /\ Sane(y) /\ y.core = c /\ y.bus = b
           /\ y.hc = w.hc /\ y.chip = w.chip /\ y.oops = w.oops
BY DEF Sane, Worlds, CoreChanged

(* usb_hcd_link_urb_to_ep, field by field, ...                             *)
LEMMA LinkFacts ==
    ASSUME DevOK, NEW w, Sane(w), NEW u \in Urbs, NEW y, y = Link(w, u)
    PROVE  /\ Sane(y) /\ y.hc = w.hc /\ y.chip = w.chip /\ y.oops = w.oops
           /\ y.core.calls = w.core.calls /\ y.core.closed = w.core.closed
           /\ y.core.q[EpOf(u)] = Append(w.core.q[EpOf(u)], u)
           /\ \A e \in Ep : e # EpOf(u) => y.core.q[e] = w.core.q[e]
           /\ y.core.status[u] = "busy" /\ y.core.actual[u] = 0 /\ y.bus[u] = Bare
           /\ \A x \in Urbs : x # u => /\ y.core.status[x] = w.core.status[x]
                                       /\ y.core.actual[x] = w.core.actual[x]
                                       /\ y.bus[x] = w.bus[x]
<1> DEFINE e == EpOf(u)
           Q == [w.core.q EXCEPT ![e] = Append(w.core.q[e], u)]
           S == [w.core.status EXCEPT ![u] = "busy"]
           A == [w.core.actual EXCEPT ![u] = 0]
           b == [w.bus EXCEPT ![u] = Bare]
           c == [w.core EXCEPT !.q = Q, !.status = S, !.actual = A]
<1>1. e \in Ep /\ w \in Worlds /\ w.core \in CoreTypes /\ w.bus \in BusTypes
  BY DeviceFacts DEF EpOf, Sane, Worlds
<1>2. /\ Q \in [Ep -> Seq(Urbs)] /\ S \in [Urbs -> Statuses] /\ A \in [Urbs -> Int]
      /\ Q[e] = Append(w.core.q[e], u) /\ S[u] = "busy" /\ A[u] = 0
      /\ \A x \in Ep : x # e => Q[x] = w.core.q[x]
      /\ \A x \in Urbs : x # u => S[x] = w.core.status[x] /\ A[x] = w.core.actual[x]
  BY <1>1 DEF CoreTypes, Statuses
<1>3. b \in BusTypes /\ b[u] = Bare /\ \A x \in Urbs : x # u => b[x] = w.bus[x]
  BY <1>1 DEF BusTypes, Bare
<1>4. y = CoreChanged(w, c, b)
  <2>1. c = [w.core EXCEPT !.q[e] = Append(@, u), !.status[u] = "busy", !.actual[u] = 0]
    BY <1>1 DEF CoreTypes
  <2> HIDE DEF c
  <2>2. y = [w EXCEPT !.core = c, !.bus[u] = Bare]
    BY <2>1 DEF Link
  <2> QED
    BY <1>1, <2>2 DEF CoreChanged, Worlds
<1> HIDE DEF Q, S, A, b
<1>5. c \in CoreTypes /\ c.q = Q /\ c.status = S /\ c.actual = A /\ c.calls = w.core.calls
      /\ c.closed = w.core.closed
  BY <1>1, <1>2 DEF CoreTypes
<1> HIDE DEF c
<1>6. /\ Sane(y) /\ y.core = c /\ y.bus = b
      /\ y.hc = w.hc /\ y.chip = w.chip /\ y.oops = w.oops
  BY <1>3, <1>4, <1>5, CoreChange
<1> QED
  BY <1>2, <1>3, <1>5, <1>6

(* ... the refusal of urb_enqueue, ...                                     *)
LEMMA RefuseFacts ==
    ASSUME DevOK, NEW w, Sane(w), NEW u \in Urbs, NEW y, y = Refuse(w, u)
    PROVE  /\ Sane(y) /\ y.hc = w.hc /\ y.chip = w.chip /\ y.oops = w.oops /\ y.bus = w.bus
           /\ y.core.calls = w.core.calls /\ y.core.closed = w.core.closed
           /\ y.core.q[EpOf(u)] = Without(w.core.q[EpOf(u)], u)
           /\ \A e \in Ep : e # EpOf(u) => y.core.q[e] = w.core.q[e]
           /\ y.core.status[u] = "refused" /\ y.core.actual = w.core.actual
           /\ \A x \in Urbs : x # u => y.core.status[x] = w.core.status[x]
<1> DEFINE e == EpOf(u)
           Q == [w.core.q EXCEPT ![e] = Without(w.core.q[e], u)]
           S == [w.core.status EXCEPT ![u] = "refused"]
           c == [w.core EXCEPT !.q = Q, !.status = S]
<1>1. e \in Ep /\ w \in Worlds /\ w.core \in CoreTypes /\ w.bus \in BusTypes
  BY DeviceFacts DEF EpOf, Sane, Worlds
<1>2. Without(w.core.q[e], u) \in Seq(Urbs)
  BY <1>1, WithoutType DEF CoreTypes
<1>3. /\ Q \in [Ep -> Seq(Urbs)] /\ S \in [Urbs -> Statuses]
      /\ Q[e] = Without(w.core.q[e], u) /\ S[u] = "refused"
      /\ \A x \in Ep : x # e => Q[x] = w.core.q[x]
      /\ \A x \in Urbs : x # u => S[x] = w.core.status[x]
  BY <1>1, <1>2 DEF CoreTypes, Statuses
<1>4. y = [w EXCEPT !.core = c]
  <2>1. c = [w.core EXCEPT !.q[e] = Without(@, u), !.status[u] = "refused"]
    BY <1>1 DEF CoreTypes
  <2> HIDE DEF c
  <2> QED
    BY <2>1 DEF Refuse
<1> HIDE DEF Q, S
<1>5. c \in CoreTypes /\ c.q = Q /\ c.status = S /\ c.actual = w.core.actual
      /\ c.calls = w.core.calls /\ c.closed = w.core.closed
  BY <1>1, <1>3 DEF CoreTypes
<1> HIDE DEF c
<1>6. /\ y \in Worlds /\ y.core = c /\ y.bus = w.bus
      /\ y.hc = w.hc /\ y.chip = w.chip /\ y.oops = w.oops
  BY <1>1, <1>4, <1>5 DEF Worlds
<1> QED
  BY <1>3, <1>5, <1>6 DEF Sane

(* usb_hcd_giveback_urb before the completion handler.                     *)
Left(w, u) == [w EXCEPT !.core.q[EpOf(u)] = Without(@, u)]

(* ... the URB's leaving at its giveback, ...                              *)
LEMMA LeftFacts ==
    ASSUME DevOK, NEW w, Sane(w), NEW u \in Urbs, NEW y, y = Left(w, u)
    PROVE  /\ Sane(y) /\ y.hc = w.hc /\ y.chip = w.chip /\ y.oops = w.oops /\ y.bus = w.bus
           /\ y.core.calls = w.core.calls /\ y.core.closed = w.core.closed
           /\ y.core.q[EpOf(u)] = Without(w.core.q[EpOf(u)], u)
           /\ \A e \in Ep : e # EpOf(u) => y.core.q[e] = w.core.q[e]
           /\ y.core.status = w.core.status /\ y.core.actual = w.core.actual
<1> DEFINE e == EpOf(u)
           Q == [w.core.q EXCEPT ![e] = Without(w.core.q[e], u)]
           c == [w.core EXCEPT !.q = Q]
<1>1. e \in Ep /\ w \in Worlds /\ w.core \in CoreTypes /\ w.bus \in BusTypes
  BY DeviceFacts DEF EpOf, Sane, Worlds
<1>2. Without(w.core.q[e], u) \in Seq(Urbs)
  BY <1>1, WithoutType DEF CoreTypes
<1>3. /\ Q \in [Ep -> Seq(Urbs)]
      /\ Q[e] = Without(w.core.q[e], u)
      /\ \A x \in Ep : x # e => Q[x] = w.core.q[x]
  BY <1>1, <1>2 DEF CoreTypes
<1>4. y = [w EXCEPT !.core = c]
  BY <1>1 DEF Left, CoreTypes, Worlds
<1> HIDE DEF Q
<1>5. c \in CoreTypes /\ c.q = Q /\ c.status = w.core.status /\ c.actual = w.core.actual
      /\ c.calls = w.core.calls /\ c.closed = w.core.closed
  BY <1>1, <1>3 DEF CoreTypes
<1> HIDE DEF c
<1>6. /\ y \in Worlds /\ y.core = c /\ y.bus = w.bus
      /\ y.hc = w.hc /\ y.chip = w.chip /\ y.oops = w.oops
  BY <1>1, <1>4, <1>5 DEF Worlds
<1> QED
  BY <1>3, <1>5, <1>6 DEF Sane

(* finish_request before the lock is released.                             *)
Finished(w, e, u, status) ==
    [w EXCEPT !.hc.pid[e] = IF Type(e) = "control" THEN "SETUP" ELSE @,
              !.core.status[u] = IF @ = "busy" THEN status ELSE @]

(* The fields after that.                                                  *)
FinishedAs(y, w, e, u, st) ==
    /\ Sane(y) /\ y.chip = w.chip /\ y.oops = w.oops /\ y.bus = w.bus
    /\ y.core.calls = w.core.calls /\ y.core.closed = w.core.closed
    /\ y.core.q = w.core.q /\ y.core.actual = w.core.actual
    /\ y.core.status[u] = IF w.core.status[u] = "busy" THEN st ELSE w.core.status[u]
    /\ \A x \in Urbs : x # u => y.core.status[x] = w.core.status[x]
    /\ y.hc = [w.hc EXCEPT !.pid = y.hc.pid]
    /\ y.hc.pid[e] = IF Type(e) = "control" THEN "SETUP" ELSE w.hc.pid[e]
    /\ \A x \in Ep : x # e => y.hc.pid[x] = w.hc.pid[x]
    /\ Made(y.hc) = Made(w.hc) /\ Sched(y.hc) = Sched(w.hc) /\ SamePort(y.hc, w.hc)
    /\ y.hc.active = w.hc.active /\ y.hc.late = w.hc.late /\ y.hc.alloc = w.hc.alloc
    /\ y.hc.count = w.hc.count /\ y.hc.irqen = w.hc.irqen

(* ... and finish_request before the lock is released.                     *)
LEMMA FinishedFacts ==
    ASSUME DevOK, NEW w, Sane(w), NEW u \in Urbs, NEW e \in Made(w.hc), NEW st \in Statuses,
           NEW y, y = Finished(w, e, u, st)
    PROVE  FinishedAs(y, w, e, u, st)
<1> DEFINE p == IF Type(e) = "control" THEN "SETUP" ELSE w.hc.pid[e]
           s == IF w.core.status[u] = "busy" THEN st ELSE w.core.status[u]
           P == [w.hc.pid EXCEPT ![e] = p]
           S == [w.core.status EXCEPT ![u] = s]
           g == [w.hc EXCEPT !.pid = P]
           c == [w.core EXCEPT !.status = S]
<1>1. w \in Worlds /\ w.core \in CoreTypes /\ w.hc \in HcTypes /\ e \in Ep
  BY DEF Sane, Worlds, Made
<1>2. p \in Pids /\ s \in Statuses
  BY <1>1 DEF Pids, Made, HcTypes, CoreTypes
<1>3. y = [w EXCEPT !.hc = g, !.core = c]
  BY <1>1 DEF Finished, Worlds, HcTypes, CoreTypes
<1> HIDE DEF p, s
<1>4. /\ P \in [Ep -> Pids \union {"none"}] /\ P[e] = p
      /\ \A x \in Ep : x # e => P[x] = w.hc.pid[x]
      /\ S \in [Urbs -> Statuses] /\ S[u] = s
      /\ \A x \in Urbs : x # u => S[x] = w.core.status[x]
  BY <1>1, <1>2 DEF HcTypes, CoreTypes
<1> HIDE DEF P, S
<1>5. /\ g \in HcTypes /\ g.pid = P
      /\ SamePort(g, w.hc) /\ g.active = w.hc.active /\ g.late = w.hc.late /\ g.alloc = w.hc.alloc
      /\ g.count = w.hc.count /\ g.irqen = w.hc.irqen /\ g.async = w.hc.async
      /\ g.branch = w.hc.branch /\ g.nexta = w.hc.nexta /\ g.nextp = w.hc.nextp
      /\ g.periodic = w.hc.periodic /\ g.next = w.hc.next
  BY <1>1, <1>4 DEF HcTypes, SamePort
<1>6. c \in CoreTypes /\ c.q = w.core.q /\ c.status = S /\ c.actual = w.core.actual
      /\ c.calls = w.core.calls /\ c.closed = w.core.closed
  BY <1>1, <1>4 DEF CoreTypes
<1>7. Made(g) = Made(w.hc)
  BY <1>1, <1>2, <1>4, <1>5 DEF Made, Pids
<1>8. Sched(g) = Sched(w.hc) /\ \A x : InAsync(g, x) <=> InAsync(w.hc, x)
  BY <1>5 DEF Sched, Scheduled, InAsync
<1>9. MadeInv(g) /\ ListsInv(g)
  BY <1>5, <1>7, <1>8 DEF MadeInv, ListsInv, Sane
<1>10. /\ y \in Worlds /\ y.hc = g /\ y.core = c /\ y.bus = w.bus
       /\ y.chip = w.chip /\ y.oops = w.oops
  <2> HIDE DEF g, c
  <2> QED
    BY <1>1, <1>3, <1>5, <1>6 DEF Worlds
<1>11. Sane(y)
  BY <1>9, <1>10 DEF Sane
<1>12. y.hc = [w.hc EXCEPT !.pid = y.hc.pid]
  BY <1>5, <1>10 DEF g
<1> HIDE DEF g, c
<1> QED
  BY <1>4, <1>5, <1>6, <1>7, <1>8, <1>10, <1>11, <1>12 DEF p, s, FinishedAs

(* The port is enabled and the controller runs.                            *)
Enabled(h) == "ENABLE" \in h.port /\ h.running

(* The URBs of `open` are linked, and their urb_enqueue is still to come.  *)
OpenInv(c, open) ==
    /\ \A u \in open : Queued(c, u) \/ (Happens("overtake") /\ c.status[u] # "busy")
    /\ ~Happens("plug") /\ ~Happens("race") /\ ~Happens("overtake")
            => \A u \in open : c.status[u] = "busy"

(* An endpoint of the schedules is there, and goes only when usbcore       *)
(* disables it.                                                            *)
AllocInv(h) ==
    /\ \A e \in Sched(h) : h.alloc[e]
    /\ ~Happens("plug") => \A e \in Made(h) : h.alloc[e]

(* An endpoint has an URB that urb_enqueue took.                           *)
HasTaken(c, e, open) == \E x \in Urbs \ open : OnList(c.q[e], x)

(* An endpoint with such an URB is in a schedule.                          *)
ServedInv(h, c, open) == \A e \in Ep : HasTaken(c, e, open) => e \in Sched(h)

(* An endpoint of a schedule has such an URB, but for those of `except`.   *)
BusyInv(h, c, open, except) ==
    \A e \in Sched(h) \ except :
        /\ ~Happens("overtake") => HasTaken(c, e, open)
        /\ ~Happens("plug") /\ Enabled(h) => c.q[e] # <<>>

(* While endpoints are in the frames the chip interrupts at every frame.   *)
FramesInv(h) ==
    h.count > 0 /\ "DONE_A" \in h.irqen /\ ~Happens("plug") /\ ~Happens("suspend")
        => "SOFINTR" \in h.irqen

(* Before the port is enabled nothing happens but plugging in.             *)
Idle(h, c, k) ==
    /\ "ENABLE" \notin h.port /\ "SUSPEND" \notin h.port /\ h.active = None /\ h.count = 0
    /\ Sched(h) = {} /\ c.calls = {} /\ \A e \in Ep : c.q[e] = <<>>
    /\ "DONE_A" \notin k.pend
    /\ "CONNECTION" \in h.port \/ h.timer \/ "INSRMV" \in k.pend => k.attached
    /\ "INSRMV" \in k.pend => "CONNECTION" \notin h.port /\ ~h.timer
    /\ ~Happens("suspend") => "RD" \notin k.pend /\ (h.timer => "SE0" \in h.ctrl1)
    /\ ~Happens("suspend") /\ ~Happens("power") => h.running

(* A port that was enabled is not enabled a second time.                   *)
Live(h, k) ==
    /\ k.attached /\ "INSRMV" \notin k.pend /\ "SE0" \notin h.ctrl1
    /\ "ENABLE" \notin h.port => {"CONNECTION", "SUSPEND"} \cap h.port = {} /\ ~h.timer
    /\ h.timer => "K" \in h.ctrl1
    /\ ~Happens("suspend") => "SUSPEND" \notin h.port /\ "RD" \notin k.pend /\ ~h.timer
    /\ ~Happens("suspend") /\ ~Happens("power") => h.running /\ "ENABLE" \in h.port

(* Without plugging in, the port's story is told by whether a packet was   *)
(* ever issued.                                                            *)
PortInv(h, c, k) ==
    ~Happens("plug") => /\ c.closed = {}
                        /\ IF k.tok.pid = "none" THEN Idle(h, c, k) ELSE Live(h, k)

(* The schedules agree with the queues, but for the endpoints of `except`. *)
KeptInv(w, open, except) ==
    /\ QueuesInv(w.core) /\ OpenInv(w.core, open)
    /\ AllocInv(w.hc) /\ ServedInv(w.hc, w.core, open) /\ BusyInv(w.hc, w.core, open, except)
    /\ FramesInv(w.hc) /\ PortInv(w.hc, w.core, w.chip)

(* The packet under way is of an URB that urb_enqueue took.                *)
ActiveInv(h, c, open) ==
    ~Happens("overtake") /\ h.active # None
        => c.q[h.active] # <<>> /\ Head(c.q[h.active]) \notin open

(* A queue holds URBs.                                                     *)
LEMMA QueueTypes ==
    ASSUME NEW w \in Worlds, NEW e \in Ep
    PROVE  /\ w.core.q[e] \in Seq(Urbs)
           /\ \A x : OnList(w.core.q[e], x) => x \in Urbs
           /\ w.core.q[e] # <<>> <=> \E x \in Urbs : OnList(w.core.q[e], x)
           /\ w.core.q[e] # <<>> => OnList(w.core.q[e], Head(w.core.q[e]))
<1>1. w.core.q[e] \in Seq(Urbs)
  BY DEF Worlds, CoreTypes
<1> DEFINE s == w.core.q[e]
<1> HIDE DEF s
<1>2. s \in Seq(Urbs)
  BY <1>1 DEF s
<1>3. /\ \A x : OnList(s, x) => x \in Urbs
      /\ s # <<>> <=> \E x : OnList(s, x)
      /\ s # <<>> => OnList(s, Head(s))
  BY <1>2, OnListType
<1> QED
  BY <1>2, <1>3 DEF s

(* The endpoint of an URB is one.                                          *)
LEMMA UrbEp == ASSUME DevOK, NEW u \in Urbs PROVE EpOf(u) \in Ep
BY DeviceFacts DEF EpOf

(* A queue without one of its URBs.                                        *)
LEMMA WithoutInQueue ==
    ASSUME NEW w \in Worlds, QueuesInv(w.core), NEW e \in Ep, NEW x,
           NEW s, s = Without(w.core.q[e], x)
    PROVE  /\ Distinct(s)
           /\ \A y : OnList(s, y) <=> OnList(w.core.q[e], y) /\ y # x
           /\ w.core.q[e] # <<>> /\ Head(w.core.q[e]) # x => s # <<>> /\ Head(s) = Head(w.core.q[e])
<1> DEFINE q == w.core.q[e]
<1>1. q \in Seq(Urbs) /\ Distinct(q)
  BY DEF Worlds, CoreTypes, QueuesInv
<1> HIDE DEF q
<1>2. s = Without(q, x)
  BY DEF q
<1>3. Distinct(s) /\ ~OnList(s, x)
  BY <1>1, <1>2, WithoutDistinct
<1>4. \A y : y # x => (OnList(s, y) <=> OnList(q, y))
  BY <1>1, <1>2, WithoutKeeps
<1>5. q # <<>> /\ Head(q) # x => s # <<>> /\ Head(s) = Head(q)
  BY <1>1, <1>2, WithoutHead
<1> QED
  BY <1>3, <1>4, <1>5 DEF q

(* An URB can only be on a queue of a port that was enabled.               *)
LEMMA LivePort ==
    ASSUME NEW w \in Worlds, PortInv(w.hc, w.core, w.chip), NEW e \in Ep, w.core.q[e] # <<>>
    PROVE  Happens("plug") \/ (w.chip.tok.pid # "none" /\ Live(w.hc, w.chip))
BY DEF PortInv, Idle

(* A live port stays so while the handlers leave it alone.                 *)
LEMMA PortStays ==
    ASSUME NEW w, NEW y, PortInv(w.hc, w.core, w.chip),
           Happens("plug") \/ w.chip.tok.pid # "none", y.core.closed = w.core.closed,
           y.chip.tok = w.chip.tok \/ y.chip.tok.pid # "none",
           y.chip.attached = w.chip.attached, y.chip.pend \subseteq w.chip.pend,
           SamePort(y.hc, w.hc)
    PROVE  PortInv(y.hc, y.core, y.chip)
<1> SUFFICES ASSUME ~Happens("plug")
             PROVE  y.core.closed = {} /\ y.chip.tok.pid # "none" /\ Live(y.hc, y.chip)
  BY DEF PortInv
<1>1. w.core.closed = {} /\ w.chip.tok.pid # "none" /\ Live(w.hc, w.chip)
  BY DEF PortInv
<1>2. y.chip.tok.pid # "none"
  BY <1>1
<1>3. Live(y.hc, y.chip)
  BY <1>1 DEF Live, SamePort
<1> QED
  BY <1>1, <1>2, <1>3

(* Linking an URB keeps all in agreement, as long as it is `open`.         *)
LEMMA LinkKeeps ==
    ASSUME DevOK, NEW w, Sane(w), NEW open \in SUBSET Urbs, NEW except, KeptInv(w, open, except),
           NEW u \in Urbs, ~Queued(w.core, u), Happens("plug") \/ w.chip.tok.pid # "none",
           NEW y, y = Link(w, u)
    PROVE  /\ KeptInv(y, open \union {u}, except) /\ Queued(y.core, u)
           /\ ActiveInv(w.hc, w.core, open) => ActiveInv(y.hc, y.core, open \union {u})
<1> DEFINE e == EpOf(u)
           q == w.core.q
           r == y.core.q
<1>1. /\ w \in Worlds /\ e \in Ep /\ QueuesInv(w.core) /\ OpenInv(w.core, open)
      /\ q[e] \in Seq(Urbs) /\ ~OnList(q[e], u)
  BY UrbEp, QueueTypes DEF Sane, KeptInv, Queued
<1>2. /\ Sane(y) /\ y.hc = w.hc /\ y.chip = w.chip /\ y.core.closed = w.core.closed
      /\ r[e] = Append(q[e], u) /\ \A x \in Ep : x # e => r[x] = q[x]
      /\ y.core.status[u] = "busy"
      /\ \A x \in Urbs : x # u => y.core.status[x] = w.core.status[x]
  BY LinkFacts
<1>3. /\ \A z : OnList(r[e], z) <=> OnList(q[e], z) \/ z = u
      /\ Distinct(r[e]) /\ r[e] # <<>>
      /\ q[e] # <<>> => Head(r[e]) = Head(q[e])
  BY <1>1, <1>2, AppendFacts DEF QueuesInv
<1>4. QueuesInv(y.core)
  BY <1>1, <1>2, <1>3 DEF QueuesInv
<1>5. \A x \in Urbs : Queued(y.core, x) <=> Queued(w.core, x) \/ x = u
  BY <1>1, <1>2, <1>3, UrbEp DEF Queued, QueuesInv
<1>6. OpenInv(y.core, open \union {u})
  BY <1>1, <1>2, <1>5 DEF OpenInv
<1>7. \A x \in Ep : HasTaken(y.core, x, open \union {u}) <=> HasTaken(w.core, x, open)
  <2> SUFFICES ASSUME NEW x \in Ep
               PROVE  HasTaken(y.core, x, open \union {u}) <=> HasTaken(w.core, x, open)
    OBVIOUS
  <2>1. \A z \in Urbs : z # u => (OnList(r[x], z) <=> OnList(q[x], z))
    BY <1>2, <1>3
  <2>2. ~OnList(q[x], u)
    BY <1>1 DEF QueuesInv
  <2> QED
    BY <2>1, <2>2 DEF HasTaken
<1>8. \A x \in Ep : q[x] # <<>> => r[x] # <<>>
  BY <1>2, <1>3
<1>9. ServedInv(y.hc, y.core, open \union {u}) /\ BusyInv(y.hc, y.core, open \union {u}, except)
  BY <1>2, <1>7, <1>8 DEF ServedInv, BusyInv, KeptInv, Sched
<1>10. PortInv(y.hc, y.core, y.chip)
  BY <1>2, PortStays DEF KeptInv, SamePort
<1>11. ASSUME ActiveInv(w.hc, w.core, open)
       PROVE  ActiveInv(y.hc, y.core, open \union {u})
  <2> SUFFICES ASSUME ~Happens("overtake"), w.hc.active # None
               PROVE  r[w.hc.active] # <<>> /\ Head(r[w.hc.active]) \notin open \union {u}
    BY <1>2 DEF ActiveInv
  <2>1. w.hc.active \in Ep
    BY DEF Sane, MadeInv, Made
  <2>2. q[w.hc.active] # <<>> /\ Head(q[w.hc.active]) \notin open
    BY <1>11 DEF ActiveInv
  <2>3. OnList(q[w.hc.active], Head(q[w.hc.active]))
    BY <1>1, <2>1, <2>2, QueueTypes
  <2>4. Head(q[w.hc.active]) # u
    BY <1>1, <2>1, <2>3 DEF QueuesInv
  <2> QED
    BY <1>2, <1>3, <2>1, <2>2, <2>4
<1> QED
  BY <1>2, <1>4, <1>5, <1>6, <1>9, <1>10, <1>11 DEF KeptInv

(* Endpoints that were there have the same nextpid.                        *)
SamePids(y, w) ==
    /\ \A e \in Ep : w.hc.alloc[e] => y.hc.alloc[e] /\ y.hc.pid[e] = w.hc.pid[e]
    /\ Made(w.hc) \subseteq Made(y.hc)

(* Making an endpoint keeps the invariant.                                 *)
LEMMA AllocateKeeps ==
    ASSUME DevOK, NEW w, Sane(w), NEW open, NEW except, KeptInv(w, open, except), NEW u \in Urbs,
           NEW y, y = Allocate(w, u)
    PROVE  /\ Sane(y) /\ KeptInv(y, open, except) /\ SameBut(y, w) /\ SamePort(y.hc, w.hc)
           /\ y.hc.active = w.hc.active /\ y.hc.late = w.hc.late
           /\ y.hc.count = w.hc.count /\ y.hc.irqen = w.hc.irqen
           /\ y.hc.alloc[EpOf(u)] /\ EpOf(u) \in Made(y.hc) /\ Sched(y.hc) = Sched(w.hc)
           /\ SamePids(y, w)
           /\ \A e \in Ep : y.hc.alloc[e] <=> w.hc.alloc[e] \/ e = EpOf(u)
           /\ ~w.hc.alloc[EpOf(u)] => y.hc.pid[EpOf(u)] = FirstPid(u)
<1> DEFINE e == EpOf(u)
           g == y.hc
           h == w.hc
<1>1. e \in Ep /\ w \in Worlds /\ h \in HcTypes /\ MadeInv(h) /\ ListsInv(h) /\ AllocInv(h)
  BY UrbEp DEF Sane, Worlds, KeptInv
<1>2. CASE h.alloc[e]
  <2>1. y = w
    BY <1>2 DEF Allocate
  <2>2. e \in Made(h)
    BY <1>1, <1>2 DEF MadeInv
  <2> QED
    BY <1>1, <1>2, <2>1, <2>2 DEF SameBut, SamePort, SamePids
<1>3. CASE ~h.alloc[e]
  <2>1. /\ y \in Worlds /\ SameBut(y, w) /\ SamePort(g, h)
        /\ g.irqen = h.irqen /\ g.count = h.count
        /\ g.active = h.active /\ g.late = h.late /\ g.async = h.async
        /\ g.nexta = h.nexta /\ g.nextp = h.nextp /\ g.periodic = h.periodic
        /\ g.alloc = [h.alloc EXCEPT ![e] = TRUE]
        /\ g.pid = [h.pid EXCEPT ![e] = FirstPid(u)]
        /\ g.branch = [h.branch EXCEPT ![e] = PeriodicSize]
        /\ g.next = [h.next EXCEPT ![e] = None]
    BY <1>1, <1>3, AllocateFacts DEF SameBut
  <2>2. /\ g.alloc[e] /\ g.pid[e] = FirstPid(u) /\ g.branch[e] = PeriodicSize /\ g.next[e] = None
        /\ g.next \in [Ep -> Pointer]
        /\ \A x \in Ep : x # e => /\ g.alloc[x] = h.alloc[x] /\ g.pid[x] = h.pid[x]
                                  /\ g.branch[x] = h.branch[x] /\ g.next[x] = h.next[x]
    BY <1>1, <2>1 DEF HcTypes, Worlds
  <2>3. FirstPid(u) # "none"
    BY DEF FirstPid
  <2>4. Made(g) = Made(h) \union {e}
    BY <1>1, <2>2, <2>3 DEF Made
  <2>5. e \notin Sched(h)
    BY <1>1, <1>3 DEF AllocInv
  <2>6. h.branch[e] \in 0 .. PeriodicSize /\ PeriodicSize \in Nat
    BY <1>1, Sl811ScheduleAssumption DEF HcTypes
  <2>7. /\ \A x : InAsync(g, x) <=> InAsync(h, x)
        /\ \A x \in Ep : g.branch[x] < PeriodicSize <=> h.branch[x] < PeriodicSize
    BY <1>1, <2>1, <2>2, <2>5, <2>6 DEF InAsync, Sched, Scheduled
  <2>8. Sched(g) = Sched(h)
    BY <2>7 DEF Sched, Scheduled
  <2>9. g.next \in [Ep -> Made(g) \union {None}]
    <3>1. \A x \in Ep : g.next[x] \in Made(g) \union {None}
      BY <1>1, <2>2, <2>4 DEF MadeInv
    <3> QED
      BY <2>2, <3>1
  <2>10. g.periodic \in [Slots -> Made(g) \union {None}]
    BY <1>1, <2>1, <2>4 DEF MadeInv
  <2>11. MadeInv(g)
    BY <1>1, <2>1, <2>2, <2>4, <2>9, <2>10 DEF MadeInv
  <2>12. ListsInv(g)
    BY <1>1, <2>1, <2>7 DEF ListsInv
  <2>13. Sane(y)
    BY <2>1, <2>11, <2>12 DEF Sane, SameBut
  <2>14. AllocInv(g)
    <3>1. Sched(h) \subseteq Ep /\ Made(h) \subseteq Ep
      BY DEF Sched, Made
    <3>2. /\ \A x \in Sched(h) : h.alloc[x]
          /\ ~Happens("plug") => \A x \in Made(h) : h.alloc[x]
      BY <1>1 DEF AllocInv
    <3>3. \A x \in Ep : h.alloc[x] => g.alloc[x]
      BY <1>3, <2>2
    <3> QED
      BY <2>2, <2>4, <2>8, <3>1, <3>2, <3>3 DEF AllocInv
  <2>15. KeptInv(y, open, except)
    <3>1. ServedInv(g, y.core, open) /\ BusyInv(g, y.core, open, except)
      BY <2>1, <2>8 DEF ServedInv, BusyInv, KeptInv, SameBut, SamePort, Enabled
    <3>2. FramesInv(g)
      BY <2>1 DEF FramesInv, KeptInv
    <3>3. PortInv(g, y.core, y.chip)
      <4>1. PortInv(h, w.core, w.chip) /\ y.core = w.core /\ y.chip = w.chip
        BY <2>1 DEF KeptInv, SameBut
      <4>2. /\ g.port = h.port /\ g.running = h.running /\ g.timer = h.timer /\ g.ctrl1 = h.ctrl1
            /\ g.active = h.active /\ g.count = h.count
        BY <2>1 DEF SamePort
      <4>3. Idle(h, w.core, w.chip) => Idle(g, w.core, w.chip)
        BY <2>8, <4>2 DEF Idle
      <4>4. Live(h, w.chip) => Live(g, w.chip)
        BY <4>2 DEF Live
      <4> QED
        BY <4>1, <4>3, <4>4 DEF PortInv
    <3> QED
      BY <2>1, <2>14, <3>1, <3>2, <3>3 DEF KeptInv, SameBut
  <2>16. SamePids(y, w)
    BY <1>3, <2>2, <2>4 DEF SamePids
  <2>17. \A x \in Ep : g.alloc[x] <=> h.alloc[x] \/ x = e
    BY <2>2
  <2> QED
    BY <1>1, <2>1, <2>2, <2>4, <2>8, <2>13, <2>15, <2>16, <2>17
<1> QED
  BY <1>2, <1>3

(* urb_enqueue up to the scheduling of the endpoint.                       *)
LEMMA AcceptKeeps ==
    ASSUME DevOK, NEW w, Sane(w), NEW u \in Urbs, NEW open \in SUBSET Urbs, u \notin open,
           NEW except, KeptInv(w, open \union {u}, except), Queued(w.core, u),
           NEW y \in Accept(w, u)
    PROVE  /\ Sane(y) /\ KeptInv(y, open, except) /\ SameBut(y, w) /\ SamePort(y.hc, w.hc)
           /\ y.hc.active = w.hc.active /\ y.hc.late = w.hc.late
           /\ y.hc.alloc[EpOf(u)] /\ EpOf(u) \in Made(y.hc)
           /\ Sched(y.hc) = Sched(w.hc) \union {EpOf(u)}
           /\ SamePids(y, w)
           /\ \A e \in Ep : y.hc.alloc[e] <=> w.hc.alloc[e] \/ e = EpOf(u)
           /\ ~w.hc.alloc[EpOf(u)] => y.hc.pid[EpOf(u)] = FirstPid(u)
<1> DEFINE e == EpOf(u)
           v == Allocate(w, u)
<1>1. Alive(w) /\ y \in Schedule(v, e)
  BY DEF Accept
<1>2. /\ Sane(v) /\ KeptInv(v, open \union {u}, except) /\ SameBut(v, w) /\ SamePort(v.hc, w.hc)
      /\ v.hc.active = w.hc.active /\ v.hc.late = w.hc.late
      /\ v.hc.count = w.hc.count /\ v.hc.irqen = w.hc.irqen
      /\ v.hc.alloc[e] /\ e \in Made(v.hc) /\ Sched(v.hc) = Sched(w.hc)
      /\ SamePids(v, w)
      /\ \A x \in Ep : v.hc.alloc[x] <=> w.hc.alloc[x] \/ x = e
      /\ ~w.hc.alloc[e] => v.hc.pid[e] = FirstPid(u)
  BY AllocateKeeps
<1> HIDE DEF v
<1>3. /\ Sane(y) /\ SameBut(y, v) /\ SamePort(y.hc, v.hc)
      /\ y.hc.active = v.hc.active /\ y.hc.late = v.hc.late
      /\ y.hc.alloc = v.hc.alloc /\ y.hc.pid = v.hc.pid
      /\ \/ y.hc.count = v.hc.count /\ y.hc.irqen = v.hc.irqen
         \/ y.hc.count = v.hc.count + 1 /\ y.hc.irqen = v.hc.irqen \union {"SOFINTR"}
      /\ Sched(y.hc) = Sched(v.hc) \union {e}
  BY <1>1, <1>2, ScheduleFacts
<1>4. SameBut(y, w) /\ SamePort(y.hc, w.hc) /\ SamePids(y, w)
  <2>1. Made(y.hc) = Made(v.hc)
    BY <1>3 DEF Made
  <2> QED
    BY <1>2, <1>3, <2>1 DEF SameBut, SamePort, SamePids
<1>5. e \in Ep /\ OnList(w.core.q[e], u) /\ w.core.q[e] # <<>> /\ w \in Worlds
  BY UrbEp, QueueTypes DEF Queued, Sane
<1>6. OpenInv(y.core, open) /\ QueuesInv(y.core)
  BY <1>2, <1>4 DEF KeptInv, OpenInv, SameBut
<1>7. AllocInv(y.hc)
  <2>1. Made(y.hc) = Made(v.hc)
    BY <1>3 DEF Made
  <2> QED
    BY <1>2, <1>3, <2>1 DEF AllocInv, KeptInv
<1>8. \A x \in Ep : /\ HasTaken(w.core, x, open \union {u}) => HasTaken(w.core, x, open)
                    /\ x # e => (HasTaken(w.core, x, open) => HasTaken(w.core, x, open \union {u}))
  <2>1. \A x \in Ep : x # e => ~OnList(w.core.q[x], u)
    BY <1>2 DEF KeptInv, QueuesInv, SameBut
  <2> QED
    BY <2>1 DEF HasTaken
<1>9. ServedInv(y.hc, y.core, open)
  BY <1>2, <1>3, <1>4, <1>8 DEF ServedInv, KeptInv, SameBut
<1>10. HasTaken(w.core, e, open)
  BY <1>5 DEF HasTaken
<1>11. BusyInv(y.hc, y.core, open, except)
  <2> SUFFICES ASSUME NEW x \in Sched(y.hc) \ except
               PROVE  /\ ~Happens("overtake") => HasTaken(w.core, x, open)
                      /\ ~Happens("plug") /\ Enabled(y.hc) => w.core.q[x] # <<>>
    BY <1>4 DEF BusyInv, SameBut
  <2>1. CASE x = e
    BY <1>5, <1>10, <2>1
  <2>2. CASE x # e
    <3>1. x \in Sched(v.hc) \ except /\ x \in Ep
      BY <1>3, <2>2 DEF Sched
    <3>2. Enabled(y.hc) <=> Enabled(v.hc)
      BY <1>3 DEF Enabled, SamePort
    <3>3. /\ ~Happens("overtake") => HasTaken(v.core, x, open \union {u})
          /\ ~Happens("plug") /\ Enabled(v.hc) => v.core.q[x] # <<>>
      BY <1>2, <3>1 DEF KeptInv, BusyInv
    <3> QED
      BY <1>2, <1>8, <3>1, <3>2, <3>3 DEF SameBut
  <2> QED
    BY <2>1, <2>2
<1>12. FramesInv(y.hc)
  BY <1>2, <1>3 DEF FramesInv, KeptInv
<1>13. Happens("plug") \/ w.chip.tok.pid # "none"
  BY <1>2, <1>5, LivePort DEF KeptInv, SameBut, SamePort, PortInv, Idle
<1>14. PortInv(y.hc, y.core, y.chip)
  <2>1. PortInv(v.hc, v.core, v.chip)
    BY <1>2 DEF KeptInv
  <2> QED
    <3>1. /\ y.core.closed = v.core.closed /\ y.chip = v.chip /\ SamePort(y.hc, v.hc)
          /\ Happens("plug") \/ v.chip.tok.pid # "none"
      BY <1>2, <1>3, <1>13 DEF SameBut
    <3> QED
      BY <2>1, <3>1, PortStays
<1>15. KeptInv(y, open, except)
  BY <1>6, <1>7, <1>9, <1>11, <1>12, <1>14 DEF KeptInv
<1>16. /\ y.hc.active = w.hc.active /\ y.hc.late = w.hc.late
       /\ y.hc.alloc[e] /\ e \in Made(y.hc) /\ Sched(y.hc) = Sched(w.hc) \union {e}
  <2>1. Made(y.hc) = Made(v.hc)
    BY <1>3 DEF Made
  <2> QED
    BY <1>2, <1>3, <2>1
<1>17. /\ \A x \in Ep : y.hc.alloc[x] <=> w.hc.alloc[x] \/ x = e
       /\ ~w.hc.alloc[e] => y.hc.pid[e] = FirstPid(u)
  BY <1>2, <1>3
<1>18. Sane(y)
  BY <1>3
<1> QED
  BY <1>4, <1>15, <1>16, <1>17, <1>18

(* What is left of a call of urb_enqueue that did not take u.              *)
Rejected(y, w, u, open, except) ==
    /\ Sane(y) /\ KeptInv(y, open, except) /\ SamePort(y.hc, w.hc)
    /\ y.hc.active = w.hc.active /\ y.hc.late = w.hc.late
    /\ y.chip = w.chip /\ y.oops = w.oops /\ y.bus = w.bus
    /\ y.core.calls = w.core.calls /\ y.core.closed = w.core.closed
    /\ y.core.q[EpOf(u)] = Without(w.core.q[EpOf(u)], u)
    /\ \A e \in Ep : e # EpOf(u) => y.core.q[e] = w.core.q[e]
    /\ y.core.status[u] = "refused" /\ y.core.actual = w.core.actual
    /\ \A x \in Urbs : x # u => y.core.status[x] = w.core.status[x]
    /\ Sched(y.hc) = Sched(w.hc) /\ SamePids(y, w)
    /\ \A e \in Ep : y.hc.alloc[e] /\ ~w.hc.alloc[e] => e = EpOf(u) /\ y.hc.pid[e] = FirstPid(u)
    /\ ActiveInv(w.hc, w.core, open \union {u}) => ActiveInv(y.hc, y.core, open)

(* An URB that urb_enqueue did not take leaves its queue.                  *)
LEMMA RejectKeeps ==
    ASSUME DevOK, NEW w, Sane(w), NEW u \in Urbs, NEW open \in SUBSET Urbs, u \notin open,
           NEW except, KeptInv(w, open \union {u}, except), Accept(w, u) = {},
           NEW y, y = Reject(w, u)
    PROVE  Rejected(y, w, u, open, except)
<1> DEFINE e == EpOf(u)
           v == IF Alive(w) THEN Allocate(w, u) ELSE w
           q == w.core.q
           r == y.core.q
<1>1. /\ Sane(v) /\ KeptInv(v, open \union {u}, except) /\ SameBut(v, w) /\ SamePort(v.hc, w.hc)
      /\ v.hc.active = w.hc.active /\ v.hc.late = w.hc.late
      /\ v.hc.count = w.hc.count /\ v.hc.irqen = w.hc.irqen
      /\ Sched(v.hc) = Sched(w.hc) /\ SamePids(v, w)
      /\ \A x \in Ep : v.hc.alloc[x] => w.hc.alloc[x] \/ (x = e /\ v.hc.pid[x] = FirstPid(u))
  <2>1. CASE Alive(w)
    BY <2>1, AllocateKeeps
  <2>2. CASE ~Alive(w)
    BY <2>2 DEF SameBut, SamePort, SamePids
  <2> QED
    BY <2>1, <2>2
<1>2. Alive(w) => e \notin Sched(w.hc)
  <2> SUFFICES ASSUME Alive(w) PROVE e \notin Sched(v.hc)
    BY <1>1
  <2>1. Schedule(v, e) = {}
    BY DEF Accept
  <2> QED
    BY <1>1, <2>1, NotScheduled, UrbEp
<1>3. y = Refuse(v, u)
  BY DEF Reject
<1> HIDE DEF v
<1>4. /\ Sane(y) /\ y.hc = v.hc /\ y.chip = v.chip /\ y.oops = v.oops /\ y.bus = v.bus
      /\ y.core.calls = v.core.calls /\ y.core.closed = v.core.closed
      /\ r[e] = Without(v.core.q[e], u)
      /\ \A x \in Ep : x # e => r[x] = v.core.q[x]
      /\ y.core.status[u] = "refused" /\ y.core.actual = v.core.actual
      /\ \A x \in Urbs : x # u => y.core.status[x] = v.core.status[x]
  BY <1>1, <1>3, RefuseFacts
<1>5. v.core = w.core /\ w \in Worlds /\ e \in Ep /\ QueuesInv(w.core) /\ y \in Worlds
  BY <1>1, <1>4, UrbEp DEF SameBut, Sane, KeptInv
<1>6. /\ Distinct(r[e])
      /\ \A z : OnList(r[e], z) <=> OnList(q[e], z) /\ z # u
      /\ q[e] # <<>> /\ Head(q[e]) # u => r[e] # <<>> /\ Head(r[e]) = Head(q[e])
  <2>1. r[e] = Without(q[e], u)
    BY <1>4, <1>5
  <2>2. w \in Worlds /\ QueuesInv(w.core) /\ e \in Ep
    BY <1>5
  <2> HIDE DEF e, r, q
  <2>3. q = w.core.q
    BY DEF q
  <2>4. \A s : s = Without(w.core.q[e], u) =>
            /\ Distinct(s)
            /\ \A z : OnList(s, z) <=> OnList(w.core.q[e], z) /\ z # u
            /\ w.core.q[e] # <<>> /\ Head(w.core.q[e]) # u => s # <<>> /\ Head(s) = Head(w.core.q[e])
    BY <2>2, WithoutInQueue
  <2> QED
    BY <2>1, <2>3, <2>4
<1>7. QueuesInv(y.core)
  <2> SUFFICES ASSUME NEW x \in Ep
               PROVE  Distinct(r[x]) /\ \A z : OnList(r[x], z) => EpOf(z) = x
    BY DEF QueuesInv
  <2>1. Distinct(q[x]) /\ \A z : OnList(q[x], z) => EpOf(z) = x
    BY <1>5 DEF QueuesInv
  <2>2. CASE x = e
    BY <1>6, <2>1, <2>2
  <2>3. CASE x # e
    BY <1>4, <1>5, <2>1, <2>3
  <2> QED
    BY <2>2, <2>3
<1>8. \A x \in Urbs : x # u => (Queued(y.core, x) <=> Queued(w.core, x))
  <2> SUFFICES ASSUME NEW x \in Urbs, x # u
               PROVE  OnList(r[EpOf(x)], x) <=> OnList(q[EpOf(x)], x)
    BY DEF Queued
  <2>1. CASE EpOf(x) = e
    BY <1>6, <2>1
  <2>2. CASE EpOf(x) # e
    BY <1>4, <1>5, <2>2, UrbEp
  <2> QED
    BY <2>1, <2>2
<1>9. OpenInv(y.core, open)
  <2>1. OpenInv(w.core, open \union {u})
    BY <1>1, <1>5 DEF KeptInv
  <2> QED
    BY <1>4, <1>5, <1>8, <2>1 DEF OpenInv
<1>10. \A x \in Ep : HasTaken(y.core, x, open) <=> HasTaken(w.core, x, open \union {u})
  <2>1. \A x \in Ep : \A z : OnList(r[x], z) <=> OnList(q[x], z) /\ z # u
    BY <1>4, <1>5, <1>6 DEF QueuesInv
  <2> QED
    BY <2>1 DEF HasTaken
<1>11. ServedInv(y.hc, y.core, open)
  BY <1>1, <1>4, <1>5, <1>10 DEF ServedInv, KeptInv
<1>12. BusyInv(y.hc, y.core, open, except)
  <2> SUFFICES ASSUME NEW x \in Sched(y.hc) \ except
               PROVE  /\ ~Happens("overtake") => HasTaken(y.core, x, open)
                      /\ ~Happens("plug") /\ Enabled(y.hc) => r[x] # <<>>
    BY DEF BusyInv
  <2>1. x \in Sched(v.hc) \ except /\ x \in Ep /\ x \in Sched(w.hc)
    BY <1>1, <1>4 DEF Sched
  <2>2. Enabled(y.hc) => Alive(w) /\ Enabled(v.hc)
    BY <1>1, <1>4 DEF Enabled, SamePort, Alive
  <2>3. /\ ~Happens("overtake") => HasTaken(w.core, x, open \union {u})
        /\ ~Happens("plug") /\ Enabled(v.hc) => q[x] # <<>>
    BY <1>1, <1>5, <2>1 DEF KeptInv, BusyInv
  <2>4. Enabled(y.hc) => r[x] = q[x]
    BY <1>2, <1>4, <1>5, <2>1, <2>2
  <2> QED
    BY <1>10, <2>1, <2>2, <2>3, <2>4
<1>13. PortInv(y.hc, y.core, y.chip)
  <2>1. PortInv(v.hc, v.core, v.chip)
    BY <1>1 DEF KeptInv
  <2>2. CASE Happens("plug") \/ v.chip.tok.pid # "none"
    BY <1>4, <2>1, <2>2, PortStays DEF SamePort
  <2>3. CASE ~Happens("plug") /\ v.chip.tok.pid = "none"
    <3>1. Idle(v.hc, v.core, v.chip) /\ v.core.closed = {}
      BY <2>1, <2>3 DEF PortInv
    <3>2. \A x \in Ep : q[x] = <<>>
      BY <1>5, <3>1 DEF Idle
    <3>3. \A x \in Ep : \A z \in Urbs : ~OnList(q[x], z)
      BY <1>5, <3>2, QueueTypes
    <3>4. \A x \in Ep : \A z \in Urbs : ~OnList(r[x], z)
      BY <1>4, <1>5, <1>6, <3>3
    <3>5. \A x \in Ep : r[x] = <<>>
      BY <1>5, <3>4, QueueTypes
    <3> QED
      BY <1>4, <2>3, <3>1, <3>5 DEF PortInv, Idle
  <2> QED
    BY <2>2, <2>3
<1>14. FramesInv(y.hc) /\ AllocInv(y.hc)
  BY <1>1, <1>4 DEF KeptInv
<1>15. KeptInv(y, open, except)
  BY <1>7, <1>9, <1>11, <1>12, <1>13, <1>14 DEF KeptInv
<1>16. ASSUME ActiveInv(w.hc, w.core, open \union {u})
       PROVE  ActiveInv(y.hc, y.core, open)
  <2> SUFFICES ASSUME ~Happens("overtake"), w.hc.active # None
               PROVE  r[w.hc.active] # <<>> /\ Head(r[w.hc.active]) \notin open
    BY <1>1, <1>4 DEF ActiveInv
  <2>1. w.hc.active \in Ep
    BY DEF Sane, MadeInv, Made
  <2>2. q[w.hc.active] # <<>> /\ Head(q[w.hc.active]) \notin open \union {u}
    BY <1>16 DEF ActiveInv
  <2> QED
    BY <1>4, <1>5, <1>6, <2>1, <2>2
<1>17. SamePids(y, w)
  BY <1>1, <1>4 DEF SamePids
<1>18. Sched(y.hc) = Sched(w.hc) /\ SamePort(y.hc, w.hc)
  BY <1>1, <1>4
<1>19. \A x \in Ep : y.hc.alloc[x] /\ ~w.hc.alloc[x] => x = e /\ y.hc.pid[x] = FirstPid(u)
  BY <1>1, <1>4
<1>20. /\ y.chip = w.chip /\ y.oops = w.oops /\ y.bus = w.bus
       /\ y.hc.active = w.hc.active /\ y.hc.late = w.hc.late
  BY <1>1, <1>4 DEF SameBut
<1> QED
  BY <1>4, <1>5, <1>15, <1>16, <1>17, <1>18, <1>19, <1>20 DEF Rejected

(* The port is no other while all that PortInv tells of it is the same.    *)
LEMMA PortSame ==
    ASSUME NEW w, NEW y, PortInv(w.hc, w.core, w.chip), y.core.closed = w.core.closed,
           y.core.calls = w.core.calls, y.core.q = w.core.q, y.chip = w.chip,
           SamePort(y.hc, w.hc), y.hc.active = w.hc.active, y.hc.count = w.hc.count,
           Sched(y.hc) = Sched(w.hc)
    PROVE  PortInv(y.hc, y.core, y.chip)
<1>1. /\ y.hc.port = w.hc.port /\ y.hc.running = w.hc.running
      /\ y.hc.timer = w.hc.timer /\ y.hc.ctrl1 = w.hc.ctrl1
  BY DEF SamePort
<1>2. Idle(w.hc, w.core, w.chip) => Idle(y.hc, y.core, y.chip)
  BY <1>1 DEF Idle
<1>3. Live(w.hc, w.chip) => Live(y.hc, y.chip)
  BY <1>1 DEF Live
<1> QED
  BY <1>2, <1>3 DEF PortInv

(* start_transfer leaves all in agreement, and picks an URB that was taken *)
(* where processes are not overtaken.                                      *)
LEMMA StartKeeps ==
    ASSUME DevOK, NEW w, Sane(w), NEW open, NEW except, KeptInv(w, open, except),
           Happens("overtake") \/ open = {}, NEW y \in StartTransfer(w)
    PROVE  /\ Sane(y) /\ Started(y, w) /\ KeptInv(y, open, except)
           /\ ActiveInv(w.hc, w.core, open) => ActiveInv(y.hc, y.core, open)
           /\ \/ y.chip = w.chip /\ y.hc.active = w.hc.active /\ y.hc.late = w.hc.late
              \/ w.hc.active = None /\ \E e \in Made(y.hc) : Issued(y, e)
<1>1. /\ Sane(y) /\ Started(y, w)
      /\ \/ y.chip = w.chip /\ y.hc.active = w.hc.active /\ y.hc.late = w.hc.late
         \/ w.hc.active = None /\ \E e \in Made(w.hc) : Issued(y, e)
  BY StartTransferFacts
<1>2. /\ y.core = w.core /\ SamePort(y.hc, w.hc) /\ y.hc.alloc = w.hc.alloc
      /\ y.hc.pid = w.hc.pid /\ y.hc.count = w.hc.count /\ w.hc.irqen \subseteq y.hc.irqen
      /\ y.hc.irqen \subseteq w.hc.irqen \union {"SOFINTR"}
      /\ Sched(y.hc) = Sched(w.hc)
  BY <1>1 DEF Started
<1>3. Made(y.hc) = Made(w.hc) /\ w \in Worlds
  BY <1>2 DEF Made, Sane
<1>4. QueuesInv(y.core) /\ OpenInv(y.core, open) /\ AllocInv(y.hc)
  BY <1>2, <1>3 DEF KeptInv, AllocInv
<1>5. ServedInv(y.hc, y.core, open) /\ BusyInv(y.hc, y.core, open, except)
  BY <1>2 DEF KeptInv, ServedInv, BusyInv, SamePort, Enabled
<1>6. FramesInv(y.hc)
  BY <1>2 DEF KeptInv, FramesInv
<1>7. PortInv(w.hc, w.core, w.chip)
  BY DEF KeptInv
<1>8. CASE y.chip = w.chip /\ y.hc.active = w.hc.active /\ y.hc.late = w.hc.late
  <2>1. PortInv(y.hc, y.core, y.chip)
    BY <1>2, <1>7, <1>8, PortSame
  <2>2. ActiveInv(w.hc, w.core, open) => ActiveInv(y.hc, y.core, open)
    BY <1>2, <1>8 DEF ActiveInv
  <2> QED
    BY <1>1, <1>4, <1>5, <1>6, <1>8, <2>1, <2>2 DEF KeptInv
<1>9. CASE w.hc.active = None /\ \E e \in Made(w.hc) : Issued(y, e)
  <2>1. PICK e \in Made(w.hc) : Issued(y, e)
    BY <1>9
  <2>2. /\ y.hc.active = e /\ e \in Ep /\ y.core.q[e] # <<>> /\ y.chip.tok.pid = y.hc.pid[e]
    BY <2>1 DEF Issued
  <2>3. y.chip.tok.pid # "none"
    BY <1>2, <2>1, <2>2 DEF Made
  <2>4. Happens("plug") \/ w.chip.tok.pid # "none"
    BY <1>2, <1>3, <1>7, <2>2, LivePort
  <2>5. y.chip.pend = w.chip.pend /\ y.chip.attached = w.chip.attached
    BY <1>1 DEF Started
  <2>6. PortInv(y.hc, y.core, y.chip)
    BY <1>2, <1>7, <2>3, <2>4, <2>5, PortStays
  <2>7. ActiveInv(y.hc, y.core, open)
    BY <2>2 DEF ActiveInv
  <2> QED
    BY <1>1, <1>3, <1>4, <1>5, <1>6, <1>9, <2>1, <2>6, <2>7 DEF KeptInv
<1> QED
  BY <1>1, <1>8, <1>9

(* What urb_enqueue does: u is taken, or comes back.                       *)
Enqueued(y, w, u, open, except) ==
    /\ Sane(y) /\ ~y.oops /\ KeptInv(y, open, except)
    /\ ActiveInv(w.hc, w.core, open \union {u}) => ActiveInv(y.hc, y.core, open)
    /\ SamePort(y.hc, w.hc) /\ SamePids(y, w) /\ y.bus = w.bus
    /\ y.core.calls = w.core.calls /\ y.core.closed = w.core.closed
    /\ y.core.actual = w.core.actual
    /\ \/ y.core = w.core /\ EpOf(u) \in Sched(y.hc)
       \/ /\ y.core.q[EpOf(u)] = Without(w.core.q[EpOf(u)], u)
          /\ \A e \in Ep : e # EpOf(u) => y.core.q[e] = w.core.q[e]
          /\ y.core.status[u] = "refused"
          /\ \A x \in Urbs : x # u => y.core.status[x] = w.core.status[x]
    /\ y.chip.pend = w.chip.pend /\ y.chip.attached = w.chip.attached
    /\ Sched(w.hc) \subseteq Sched(y.hc)
    /\ \/ y.chip = w.chip /\ y.hc.active = w.hc.active /\ y.hc.late = w.hc.late
       \/ w.hc.active = None /\ \E e \in Made(y.hc) : Issued(y, e)
    /\ \A e \in Ep : y.hc.alloc[e] /\ ~w.hc.alloc[e] => e = EpOf(u) /\ y.hc.pid[e] = FirstPid(u)

(* urb_enqueue keeps the invariant: u joins the URBs it took, or is        *)
(* refused.                                                                *)
LEMMA EnqueueKeeps ==
    ASSUME DevOK, NEW w, Sane(w), ~w.oops, NEW u \in Urbs, NEW open \in SUBSET Urbs, u \notin open,
           NEW except, KeptInv(w, open \union {u}, except), Queued(w.core, u),
           Happens("overtake") \/ open = {}, NEW y \in Enqueue(w, u)
    PROVE  Enqueued(y, w, u, open, except)
<1>1. CASE Accept(w, u) = {}
  <2>1. y = Reject(w, u)
    BY <1>1 DEF Enqueue
  <2>2. Rejected(y, w, u, open, except)
    BY <1>1, <2>1, RejectKeeps
  <2> QED
    BY <2>2 DEF Rejected, Enqueued
<1>2. CASE Accept(w, u) # {}
  <2>1. PICK x \in Accept(w, u) : y \in (IF x.oops THEN {x} ELSE StartTransfer(x))
    BY <1>2 DEF Enqueue, Then
  <2>2. /\ Sane(x) /\ KeptInv(x, open, except) /\ SameBut(x, w) /\ SamePort(x.hc, w.hc)
        /\ x.hc.active = w.hc.active /\ x.hc.late = w.hc.late
        /\ x.hc.alloc[EpOf(u)] /\ EpOf(u) \in Made(x.hc)
        /\ Sched(x.hc) = Sched(w.hc) \union {EpOf(u)}
        /\ SamePids(x, w)
        /\ \A e \in Ep : x.hc.alloc[e] <=> w.hc.alloc[e] \/ e = EpOf(u)
        /\ ~w.hc.alloc[EpOf(u)] => x.hc.pid[EpOf(u)] = FirstPid(u)
    BY ZenonT(60), AcceptKeeps
  <2>3. y \in StartTransfer(x)
    BY <2>1, <2>2 DEF SameBut
  <2>4. /\ Sane(y) /\ Started(y, x) /\ KeptInv(y, open, except)
        /\ ActiveInv(x.hc, x.core, open) => ActiveInv(y.hc, y.core, open)
        /\ \/ y.chip = x.chip /\ y.hc.active = x.hc.active /\ y.hc.late = x.hc.late
           \/ x.hc.active = None /\ \E e \in Made(y.hc) : Issued(y, e)
    BY <2>2, <2>3, StartKeeps
  <2>5. /\ y.core = w.core /\ y.bus = w.bus /\ y.oops = w.oops
        /\ y.chip.pend = w.chip.pend /\ y.chip.attached = w.chip.attached
        /\ SamePort(y.hc, w.hc) /\ y.hc.alloc = x.hc.alloc /\ y.hc.pid = x.hc.pid
        /\ Sched(y.hc) = Sched(x.hc)
    BY <2>2, <2>4 DEF Started, SameBut, SamePort
  <2>6. ActiveInv(w.hc, w.core, open \union {u}) => ActiveInv(x.hc, x.core, open)
    BY <2>2 DEF ActiveInv, SameBut
  <2>7. SamePids(y, w)
    <3>1. Made(y.hc) = Made(x.hc)
      BY <2>5 DEF Made
    <3> QED
      BY <2>2, <2>5, <3>1 DEF SamePids
  <2>8. \/ y.chip = w.chip /\ y.hc.active = w.hc.active /\ y.hc.late = w.hc.late
        \/ w.hc.active = None /\ \E e \in Made(y.hc) : Issued(y, e)
    BY <2>2, <2>4 DEF SameBut
  <2>9. \A e \in Ep : y.hc.alloc[e] /\ ~w.hc.alloc[e] => e = EpOf(u) /\ y.hc.pid[e] = FirstPid(u)
    BY <2>2, <2>5
  <2>10. Sched(w.hc) \subseteq Sched(y.hc) /\ EpOf(u) \in Sched(y.hc)
    BY <2>2, <2>5
  <2> QED
    BY <2>4, <2>5, <2>6, <2>7, <2>8, <2>9, <2>10 DEF Enqueued
<1> QED
  BY <1>1, <1>2

(* An URB leaves its queue: its endpoint may be left without one.          *)
LEMMA LeftKeeps ==
    ASSUME DevOK, NEW w, Sane(w), NEW open \in SUBSET Urbs, KeptInv(w, open, {}),
           Happens("overtake") \/ open = {}, NEW u \in Urbs, Queued(w.core, u),
           w.core.status[u] # "busy", NEW y, y = Left(w, u)
    PROVE  /\ KeptInv(y, open, {EpOf(u)}) /\ ~Queued(y.core, u)
           /\ Happens("plug") \/ y.chip.tok.pid # "none"
           /\ ActiveInv(w.hc, w.core, open)
              /\ (w.hc.active = None \/ Head(w.core.q[w.hc.active]) # u)
                => ActiveInv(y.hc, y.core, open)
<1> DEFINE e == EpOf(u)
           q == w.core.q
           r == y.core.q
<1>1. /\ w \in Worlds /\ e \in Ep /\ QueuesInv(w.core) /\ OpenInv(w.core, open)
      /\ q[e] \in Seq(Urbs) /\ OnList(q[e], u) /\ q[e] # <<>>
  BY UrbEp, QueueTypes DEF Sane, KeptInv, Queued
<1>2. /\ Sane(y) /\ y.hc = w.hc /\ y.chip = w.chip /\ y.oops = w.oops
      /\ y.core.calls = w.core.calls /\ y.core.closed = w.core.closed
      /\ r[e] = Without(q[e], u)
      /\ \A x \in Ep : x # e => r[x] = q[x]
      /\ y.core.status = w.core.status
  BY LeftFacts
<1>3. /\ Distinct(r[e])
      /\ \A z : OnList(r[e], z) <=> OnList(q[e], z) /\ z # u
      /\ q[e] # <<>> /\ Head(q[e]) # u => r[e] # <<>> /\ Head(r[e]) = Head(q[e])
  <2> HIDE DEF e, r
  <2>1. r[e] = Without(w.core.q[e], u)
    BY <1>2
  <2> QED
    BY <1>1, <2>1, WithoutInQueue
<1>4. QueuesInv(y.core)
  <2> SUFFICES ASSUME NEW x \in Ep
               PROVE  Distinct(r[x]) /\ \A z : OnList(r[x], z) => EpOf(z) = x
    BY DEF QueuesInv
  <2>1. Distinct(q[x]) /\ \A z : OnList(q[x], z) => EpOf(z) = x
    BY <1>1 DEF QueuesInv
  <2>2. CASE x = e
    BY <1>3, <2>1, <2>2
  <2>3. CASE x # e
    BY <1>2, <2>1, <2>3
  <2> QED
    BY <2>2, <2>3
<1>5. \A x \in Urbs : x # u => (Queued(y.core, x) <=> Queued(w.core, x))
  <2> SUFFICES ASSUME NEW x \in Urbs, x # u
               PROVE  OnList(r[EpOf(x)], x) <=> OnList(q[EpOf(x)], x)
    BY DEF Queued
  <2>1. CASE EpOf(x) = e
    BY <1>3, <2>1
  <2>2. CASE EpOf(x) # e
    BY <1>2, <2>2, UrbEp
  <2> QED
    BY <2>1, <2>2
<1>6. OpenInv(y.core, open)
  BY <1>1, <1>2, <1>5 DEF OpenInv
<1>7. ~Queued(y.core, u)
  BY <1>3 DEF Queued
<1>8. ServedInv(y.hc, y.core, open)
  <2>1. \A x \in Ep : \A z : OnList(r[x], z) => OnList(q[x], z)
    BY <1>2, <1>3
  <2>2. \A x \in Ep : HasTaken(y.core, x, open) => HasTaken(w.core, x, open)
    BY <2>1 DEF HasTaken
  <2> QED
    BY <1>2, <2>2 DEF ServedInv, KeptInv
<1>9. BusyInv(y.hc, y.core, open, {e})
  <2> SUFFICES ASSUME NEW x \in Sched(w.hc) \ {e}
               PROVE  /\ ~Happens("overtake") => HasTaken(y.core, x, open)
                      /\ ~Happens("plug") /\ Enabled(w.hc) => r[x] # <<>>
    BY <1>2 DEF BusyInv
  <2>1. r[x] = q[x]
    BY <1>2 DEF Sched
  <2>2. /\ ~Happens("overtake") => HasTaken(w.core, x, open)
        /\ ~Happens("plug") /\ Enabled(w.hc) => q[x] # <<>>
    BY DEF BusyInv, KeptInv
  <2> QED
    BY <2>1, <2>2 DEF HasTaken
<1>10. PortInv(w.hc, w.core, w.chip)
  BY DEF KeptInv
<1>11. Happens("plug") \/ w.chip.tok.pid # "none"
  BY <1>1, <1>10, LivePort
<1>12. PortInv(y.hc, y.core, y.chip)
  BY <1>2, <1>10, <1>11, PortStays DEF SamePort
<1>13. AllocInv(y.hc) /\ FramesInv(y.hc)
  BY <1>2 DEF KeptInv
<1>14. ASSUME ActiveInv(w.hc, w.core, open), w.hc.active = None \/ Head(w.core.q[w.hc.active]) # u
       PROVE  ActiveInv(y.hc, y.core, open)
  <2> SUFFICES ASSUME ~Happens("overtake"), w.hc.active # None
               PROVE  r[w.hc.active] # <<>> /\ Head(r[w.hc.active]) \notin open
    BY <1>2 DEF ActiveInv
  <2>1. w.hc.active \in Ep
    BY DEF Sane, MadeInv, Made
  <2>2. q[w.hc.active] # <<>> /\ Head(q[w.hc.active]) \notin open
    BY <1>14 DEF ActiveInv
  <2> QED
    BY <1>2, <1>3, <1>14, <2>1, <2>2
<1>15. KeptInv(y, open, {e})
  BY <1>4, <1>6, <1>8, <1>9, <1>12, <1>13 DEF KeptInv
<1> QED
  BY <1>2, <1>7, <1>11, <1>14, <1>15

(* An URB given back while its submission is under way is still `open`.    *)
LEMMA OpenAgain ==
    ASSUME NEW w, NEW open, NEW except, NEW u, KeptInv(w, open \ {u}, except),
           Happens("overtake"), Queued(w.core, u) \/ w.core.status[u] # "busy"
    PROVE  KeptInv(w, open, except)
<1>1. OpenInv(w.core, open)
  BY DEF KeptInv, OpenInv
<1>2. ServedInv(w.hc, w.core, open)
  BY DEF KeptInv, ServedInv, HasTaken
<1>3. BusyInv(w.hc, w.core, open, except)
  BY DEF KeptInv, BusyInv
<1> QED
  BY <1>1, <1>2, <1>3 DEF KeptInv

(* What is left when u was given back, and maybe another submitted.        *)
GivenBack(y, w, u, open, except) ==
    /\ Sane(y) /\ KeptInv(y, open, except)
    /\ ActiveInv(w.hc, w.core, open)
       /\ (w.hc.active = None \/ Head(w.core.q[w.hc.active]) # u) => ActiveInv(y.hc, y.core, open)
    /\ SamePort(y.hc, w.hc) /\ SamePids(y, w)
    /\ y.core.calls = w.core.calls /\ y.core.closed = w.core.closed
    /\ y.chip.pend = w.chip.pend /\ y.chip.attached = w.chip.attached
    /\ Happens("plug") \/ y.chip.tok.pid # "none"
    /\ \/ y.chip = w.chip /\ y.hc.active = w.hc.active /\ y.hc.late = w.hc.late
       \/ w.hc.active = None /\ \E e \in Made(y.hc) : Issued(y, e)

(* usb_hcd_giveback_urb with its completion handler.                       *)
LEMMA GivebackKeeps ==
    ASSUME DevOK, NEW w, Sane(w), ~w.oops, NEW open \in SUBSET Urbs, KeptInv(w, open, {}),
           Happens("overtake") \/ open = {}, w.core.calls = open, NEW u \in Urbs,
           Queued(w.core, u), w.core.status[u] # "busy", NEW y \in Giveback(w, u)
    PROVE  GivenBack(y, w, u, open, {EpOf(u)}) /\ ~y.oops /\ Sched(w.hc) \subseteq Sched(y.hc)
<1> DEFINE left == Left(w, u)
           idle == {x \in Urbs : ~Queued(left.core, x) /\ (x = u \/ x \notin w.core.calls)
                                 /\ EpOf(x) \notin w.core.closed}
<1>1. y \in {left} \union UNION {Enqueue(Link(left, x), x) : x \in idle}
  BY DEF Giveback, Left
<1>2. /\ Sane(left) /\ left.hc = w.hc /\ left.chip = w.chip /\ left.oops = w.oops
      /\ left.core.calls = w.core.calls /\ left.core.closed = w.core.closed
      /\ left.core.status = w.core.status
  BY LeftFacts
<1>3. /\ KeptInv(left, open, {EpOf(u)}) /\ ~Queued(left.core, u)
      /\ Happens("plug") \/ left.chip.tok.pid # "none"
      /\ ActiveInv(w.hc, w.core, open)
         /\ (w.hc.active = None \/ Head(w.core.q[w.hc.active]) # u)
           => ActiveInv(left.hc, left.core, open)
  BY LeftKeeps
<1> HIDE DEF left
<1>4. CASE y = left
  BY <1>2, <1>3, <1>4 DEF GivenBack, SamePort, SamePids
<1>5. ASSUME NEW x \in idle, y \in Enqueue(Link(left, x), x)
      PROVE  GivenBack(y, w, u, open, {EpOf(u)}) /\ ~y.oops /\ Sched(w.hc) \subseteq Sched(y.hc)
  <2> DEFINE l == Link(left, x)
             rest == open \ {x}
  <2>1. x \in Urbs /\ ~Queued(left.core, x) /\ (x = u \/ x \notin open)
    OBVIOUS
  <2>2. /\ Sane(l) /\ l.hc = left.hc /\ l.chip = left.chip /\ l.oops = left.oops
        /\ l.core.calls = left.core.calls /\ l.core.closed = left.core.closed
        /\ l.core.status[x] = "busy"
    BY <1>2, <2>1, LinkFacts
  <2>3. /\ KeptInv(l, open \union {x}, {EpOf(u)}) /\ Queued(l.core, x)
        /\ ActiveInv(left.hc, left.core, open) => ActiveInv(l.hc, l.core, open \union {x})
    BY <1>2, <1>3, <2>1, LinkKeeps
  <2> HIDE DEF l
  <2>4. rest \union {x} = open \union {x} /\ rest \in SUBSET Urbs /\ x \notin rest
        /\ (Happens("overtake") \/ rest = {}) /\ (x \notin open => rest = open)
    OBVIOUS
  <2> HIDE DEF rest
  <2>5. Enqueued(y, l, x, rest, {EpOf(u)})
    <3>1. KeptInv(l, rest \union {x}, {EpOf(u)}) /\ y \in Enqueue(l, x) /\ ~l.oops
      BY <1>2, <1>5, <2>2, <2>3, <2>4 DEF l
    <3> QED
      BY <2>1, <2>2, <2>3, <2>4, <3>1, EnqueueKeeps
  <2>6. /\ Sane(y) /\ ~y.oops /\ KeptInv(y, rest, {EpOf(u)})
        /\ ActiveInv(l.hc, l.core, rest \union {x}) => ActiveInv(y.hc, y.core, rest)
        /\ SamePort(y.hc, l.hc) /\ SamePids(y, l)
        /\ y.core.calls = l.core.calls /\ y.core.closed = l.core.closed
        /\ y.core = l.core \/ y.core.status[x] = "refused"
        /\ y.chip.pend = l.chip.pend /\ y.chip.attached = l.chip.attached
        /\ Sched(l.hc) \subseteq Sched(y.hc)
        /\ \/ y.chip = l.chip /\ y.hc.active = l.hc.active /\ y.hc.late = l.hc.late
           \/ l.hc.active = None /\ \E e \in Made(y.hc) : Issued(y, e)
    BY <2>5 DEF Enqueued
  <2>7. KeptInv(y, open, {EpOf(u)})
    <3>1. CASE x \notin open
      BY <2>4, <2>6, <3>1
    <3>2. CASE x \in open
      <4>1. Happens("overtake") /\ (Queued(y.core, x) \/ y.core.status[x] # "busy")
        BY <2>3, <2>6, <3>2
      <4>2. KeptInv(y, open \ {x}, {EpOf(u)})
        BY <2>6 DEF rest
      <4> QED
        BY <4>1, <4>2, OpenAgain
    <3> QED
      BY <3>1, <3>2
  <2>8. ASSUME ActiveInv(w.hc, w.core, open),
               w.hc.active = None \/ Head(w.core.q[w.hc.active]) # u
        PROVE  ActiveInv(y.hc, y.core, open)
    <3>1. ActiveInv(l.hc, l.core, rest \union {x})
      BY <1>3, <2>3, <2>4, <2>8
    <3>2. ActiveInv(y.hc, y.core, rest)
      BY <2>6, <3>1
    <3> QED
      BY <2>4, <3>2 DEF ActiveInv
  <2>9. Happens("plug") \/ y.chip.tok.pid # "none"
    <3>1. ASSUME NEW e \in Made(y.hc), Issued(y, e)
          PROVE  y.chip.tok.pid # "none"
      <4>1. y.chip.tok.pid = y.hc.pid[e]
        BY <3>1 DEF Issued
      <4> QED
        BY <4>1 DEF Made
    <3> QED
      BY <1>3, <2>2, <2>6, <3>1
  <2>10. SamePort(y.hc, w.hc) /\ SamePids(y, w)
    BY <1>2, <2>2, <2>6 DEF SamePort, SamePids
  <2>11. /\ y.core.calls = w.core.calls /\ y.core.closed = w.core.closed
         /\ y.chip.pend = w.chip.pend /\ y.chip.attached = w.chip.attached
         /\ Sched(w.hc) \subseteq Sched(y.hc)
         /\ \/ y.chip = w.chip /\ y.hc.active = w.hc.active /\ y.hc.late = w.hc.late
            \/ w.hc.active = None /\ \E e \in Made(y.hc) : Issued(y, e)
    BY <1>2, <2>2, <2>6
  <2> QED
    BY <2>6, <2>7, <2>8, <2>9, <2>10, <2>11 DEF GivenBack
<1> QED
  BY <1>1, <1>4, <1>5

(* finish_request takes the endpoint out if the handler left it empty.     *)
LEMMA DescheduleKeeps ==
    ASSUME DevOK, NEW w, Sane(w), ~w.oops, NEW open \in SUBSET Urbs, NEW e \in Made(w.hc),
           KeptInv(w, open, {e}), Happens("overtake") \/ open = {},
           Happens("plug") \/ w.chip.tok.pid # "none",
           NEW y, y = Deschedule(w, e)
    PROVE  /\ Sane(y)
           /\ y.core = w.core /\ y.chip = w.chip /\ y.bus = w.bus
           /\ SamePort(y.hc, w.hc) /\ y.hc.active = w.hc.active /\ y.hc.late = w.hc.late
           /\ y.hc.alloc = w.hc.alloc /\ y.hc.pid = w.hc.pid
           /\ ~y.oops => KeptInv(y, open, {})
           /\ y.oops => e \notin Sched(w.hc)
<1>1. e \in Ep /\ w \in Worlds
  BY DEF Made, Sane
<1>2. CASE w.core.q[e] # <<>>
  <2>1. y = w
    BY <1>2 DEF Deschedule
  <2>2. BusyInv(w.hc, w.core, open, {})
    <3> SUFFICES ASSUME NEW x \in Sched(w.hc)
                 PROVE  /\ ~Happens("overtake") => HasTaken(w.core, x, open)
                        /\ ~Happens("plug") /\ Enabled(w.hc) => w.core.q[x] # <<>>
      BY DEF BusyInv
    <3>1. CASE x = e
      <4>1. \E z \in Urbs : OnList(w.core.q[e], z)
        BY <1>1, <1>2, QueueTypes
      <4>2. ~Happens("overtake") => HasTaken(w.core, e, open)
        BY <4>1 DEF HasTaken
      <4> QED
        BY <1>2, <3>1, <4>2
    <3>2. CASE x # e
      BY <3>2 DEF KeptInv, BusyInv
    <3> QED
      BY <3>1, <3>2
  <2>3. KeptInv(y, open, {})
    BY <2>1, <2>2 DEF KeptInv
  <2> QED
    BY <2>1, <2>3 DEF SamePort
<1>3. CASE w.core.q[e] = <<>>
  <2>0. Descheduled(y, w, e)
    BY <1>3, DescheduleFacts
  <2>1. /\ Sane(y) /\ y.core = w.core /\ y.chip = w.chip /\ y.bus = w.bus
        /\ \/ y.oops /\ e \notin Sched(w.hc)
           \/ /\ y.oops = w.oops /\ Sched(y.hc) = Sched(w.hc) \ {e}
              /\ \/ y.hc.count = w.hc.count /\ y.hc.irqen = w.hc.irqen
                 \/ /\ y.hc.count = w.hc.count - 1
                    /\ y.hc.irqen = IF w.hc.count = 1 THEN w.hc.irqen \ {"SOFINTR"}
                                    ELSE w.hc.irqen
        /\ SamePort(y.hc, w.hc) /\ y.hc.active = w.hc.active /\ y.hc.late = w.hc.late
        /\ y.hc.alloc = w.hc.alloc /\ y.hc.pid = w.hc.pid /\ y.hc.errs = w.hc.errs
    BY <2>0 DEF Descheduled
  <2>2. ASSUME ~y.oops PROVE KeptInv(y, open, {})
    <3>1. /\ Sched(y.hc) = Sched(w.hc) \ {e}
          /\ \/ y.hc.count = w.hc.count /\ y.hc.irqen = w.hc.irqen
             \/ /\ y.hc.count = w.hc.count - 1
                /\ y.hc.irqen = IF w.hc.count = 1 THEN w.hc.irqen \ {"SOFINTR"}
                                ELSE w.hc.irqen
      BY <2>1, <2>2
    <3>2. w.hc.count \in Int
      BY <1>1 DEF Worlds, HcTypes
    <3>3. FramesInv(y.hc)
      BY <3>1, <3>2 DEF FramesInv, KeptInv
    <3>4. Made(y.hc) = Made(w.hc)
      BY <2>1 DEF Made
    <3>5. AllocInv(y.hc)
      BY <2>1, <3>1, <3>4 DEF AllocInv, KeptInv
    <3>6. ~HasTaken(w.core, e, open)
      BY <1>1, <1>3, QueueTypes DEF HasTaken
    <3>7. ServedInv(y.hc, y.core, open)
      BY <2>1, <3>1, <3>6 DEF ServedInv, KeptInv
    <3>8. Enabled(y.hc) = Enabled(w.hc)
      BY <2>1 DEF Enabled, SamePort
    <3>9. BusyInv(y.hc, y.core, open, {})
      BY <2>1, <3>1, <3>8 DEF BusyInv, KeptInv
    <3>10. PortInv(y.hc, y.core, y.chip)
      BY <2>1, PortStays DEF KeptInv
    <3> QED
      BY <2>1, <3>3, <3>5, <3>7, <3>9, <3>10 DEF KeptInv
  <2> QED
    BY <2>1, <2>2
<1> QED
  BY <1>2, <1>3

(* finish_request keeps it up to the unlock.                               *)
LEMMA FinishedKeeps ==
    ASSUME DevOK, NEW w, Sane(w), NEW open \in SUBSET Urbs, KeptInv(w, open, {}),
           Happens("overtake") \/ open = {}, NEW u \in Urbs, NEW e \in Made(w.hc),
           NEW st \in Statuses, st # "busy" \/ w.core.status[u] # "busy", Queued(w.core, u),
           NEW y, y = Finished(w, e, u, st)
    PROVE  /\ Sane(y) /\ KeptInv(y, open, {}) /\ y.core.status[u] # "busy"
           /\ ActiveInv(w.hc, w.core, open) => ActiveInv(y.hc, y.core, open)
<1>0. FinishedAs(y, w, e, u, st)
  BY FinishedFacts
<1>1. /\ Sane(y) /\ y.chip = w.chip
      /\ y.core.calls = w.core.calls /\ y.core.closed = w.core.closed
      /\ y.core.q = w.core.q
      /\ y.core.status[u] = IF w.core.status[u] = "busy" THEN st ELSE w.core.status[u]
      /\ \A x \in Urbs : x # u => y.core.status[x] = w.core.status[x]
      /\ Made(y.hc) = Made(w.hc) /\ Sched(y.hc) = Sched(w.hc) /\ SamePort(y.hc, w.hc)
      /\ y.hc.active = w.hc.active /\ y.hc.alloc = w.hc.alloc
      /\ y.hc.count = w.hc.count /\ y.hc.irqen = w.hc.irqen
  BY <1>0 DEF FinishedAs
<1>2. y.core.status[u] # "busy"
  BY <1>1
<1>3. QueuesInv(y.core) /\ OpenInv(y.core, open)
  <2>1. QueuesInv(w.core) /\ OpenInv(w.core, open)
    BY DEF KeptInv
  <2>2. \A x : Queued(y.core, x) <=> Queued(w.core, x)
    BY <1>1 DEF Queued
  <2>3. \A x \in open : w.core.status[x] # "busy" => y.core.status[x] # "busy"
    BY <1>1, <1>2
  <2> QED
    BY <1>1, <2>1, <2>2, <2>3 DEF QueuesInv, OpenInv
<1>4. AllocInv(y.hc) /\ FramesInv(y.hc)
  BY <1>1 DEF KeptInv, AllocInv, FramesInv
<1>5. ServedInv(y.hc, y.core, open) /\ BusyInv(y.hc, y.core, open, {})
  BY <1>1 DEF KeptInv, ServedInv, BusyInv, HasTaken, Enabled, SamePort
<1>6. PortInv(y.hc, y.core, y.chip)
  BY <1>1, PortSame DEF KeptInv
<1>7. ActiveInv(w.hc, w.core, open) => ActiveInv(y.hc, y.core, open)
  BY <1>1 DEF ActiveInv
<1> QED
  BY <1>1, <1>2, <1>3, <1>4, <1>5, <1>6, <1>7 DEF KeptInv

(* What finish_request leaves behind.                                      *)
Finishing(y, w, u, open) ==
    /\ Sane(y)
    /\ y.oops => Happens("overtake")
    /\ ~y.oops => /\ KeptInv(y, open, {})
                  /\ ActiveInv(w.hc, w.core, open)
                     /\ (w.hc.active = None \/ Head(w.core.q[w.hc.active]) # u)
                       => ActiveInv(y.hc, y.core, open)
    /\ SamePort(y.hc, w.hc)
    /\ y.core.calls = w.core.calls /\ y.core.closed = w.core.closed
    /\ y.chip.pend = w.chip.pend /\ y.chip.attached = w.chip.attached
    /\ Happens("plug") \/ y.chip.tok.pid # "none"
    /\ \/ y.chip = w.chip /\ y.hc.active = w.hc.active /\ y.hc.late = w.hc.late
       \/ w.hc.active = None /\ \E e \in Made(y.hc) : y.hc.active = e

(* finish_request as a whole keeps it, with what its completion handler    *)
(* submits.                                                                *)
LEMMA FinishKeeps ==
    ASSUME DevOK, NEW w, Sane(w), ~w.oops, NEW open \in SUBSET Urbs, KeptInv(w, open, {}),
           Happens("overtake") \/ open = {}, w.core.calls = open,
           NEW u \in Urbs, EpOf(u) \in Made(w.hc), Queued(w.core, u),
           NEW st \in Statuses, st # "busy" \/ w.core.status[u] # "busy",
           NEW y \in FinishRequest(w, EpOf(u), u, st)
    PROVE  Finishing(y, w, u, open)
<1> DEFINE e == EpOf(u)
           done == Finished(w, e, u, st)
<1>1. PICK x \in Giveback(done, u) : y \in (IF x.oops THEN {x} ELSE {Deschedule(x, e)})
  BY DEF FinishRequest, Finished, Then
<1>2. /\ Sane(done) /\ KeptInv(done, open, {}) /\ done.core.status[u] # "busy"
      /\ ActiveInv(w.hc, w.core, open) => ActiveInv(done.hc, done.core, open)
  BY FinishedKeeps
<1>14. FinishedAs(done, w, e, u, st)
  BY FinishedFacts
<1>3. /\ done.chip = w.chip /\ done.oops = w.oops
      /\ done.core.calls = w.core.calls /\ done.core.closed = w.core.closed
      /\ done.core.q = w.core.q
      /\ Made(done.hc) = Made(w.hc) /\ Sched(done.hc) = Sched(w.hc) /\ SamePort(done.hc, w.hc)
      /\ done.hc.active = w.hc.active /\ done.hc.late = w.hc.late
  BY <1>14 DEF FinishedAs
<1>4. Queued(done.core, u)
  BY <1>3 DEF Queued
<1> HIDE DEF done
<1>5. GivenBack(x, done, u, open, {e}) /\ ~x.oops /\ Sched(done.hc) \subseteq Sched(x.hc)
  BY <1>2, <1>3, <1>4, GivebackKeeps
<1>6. /\ Sane(x) /\ KeptInv(x, open, {e})
      /\ ActiveInv(done.hc, done.core, open)
         /\ (done.hc.active = None \/ Head(done.core.q[done.hc.active]) # u)
           => ActiveInv(x.hc, x.core, open)
      /\ SamePort(x.hc, done.hc) /\ SamePids(x, done)
      /\ x.core.calls = done.core.calls /\ x.core.closed = done.core.closed
      /\ x.chip.pend = done.chip.pend /\ x.chip.attached = done.chip.attached
      /\ Happens("plug") \/ x.chip.tok.pid # "none"
      /\ \/ x.chip = done.chip /\ x.hc.active = done.hc.active /\ x.hc.late = done.hc.late
         \/ done.hc.active = None /\ \E z \in Made(x.hc) : Issued(x, z)
  BY <1>5 DEF GivenBack
<1>7. y = Deschedule(x, e) /\ e \in Made(x.hc)
  BY <1>1, <1>3, <1>5, <1>6 DEF SamePids
<1>8. /\ Sane(y)
      /\ y.core = x.core /\ y.chip = x.chip /\ y.bus = x.bus
      /\ SamePort(y.hc, x.hc) /\ y.hc.active = x.hc.active /\ y.hc.late = x.hc.late
      /\ y.hc.alloc = x.hc.alloc /\ y.hc.pid = x.hc.pid
      /\ ~y.oops => KeptInv(y, open, {})
      /\ y.oops => e \notin Sched(x.hc)
  BY <1>5, <1>6, <1>7, DescheduleKeeps
<1>9. ASSUME ~Happens("overtake") PROVE e \in Sched(x.hc)
  <2>1. open = {} /\ e \in Ep
    BY <1>9, UrbEp
  <2>2. HasTaken(w.core, e, open)
    BY <2>1 DEF HasTaken, Queued
  <2>3. e \in Sched(w.hc)
    BY <2>1, <2>2 DEF KeptInv, ServedInv
  <2> QED
    BY <1>3, <1>5, <2>3
<1>10. ASSUME ActiveInv(w.hc, w.core, open),
              w.hc.active = None \/ Head(w.core.q[w.hc.active]) # u
       PROVE  ActiveInv(y.hc, y.core, open)
  <2>1. ActiveInv(x.hc, x.core, open)
    BY <1>2, <1>3, <1>6, <1>10
  <2> QED
    BY <1>8, <2>1 DEF ActiveInv
<1>11. \/ y.chip = w.chip /\ y.hc.active = w.hc.active /\ y.hc.late = w.hc.late
       \/ w.hc.active = None /\ \E z \in Made(y.hc) : y.hc.active = z
  <2>1. Made(y.hc) = Made(x.hc)
    BY <1>8 DEF Made
  <2> QED
    BY <1>3, <1>6, <1>8, <2>1 DEF Issued
<1>12. SamePort(y.hc, w.hc)
  BY <1>3, <1>6, <1>8 DEF SamePort
<1>13. /\ y.core.calls = w.core.calls /\ y.core.closed = w.core.closed
       /\ y.chip.pend = w.chip.pend /\ y.chip.attached = w.chip.attached
       /\ Happens("plug") \/ y.chip.tok.pid # "none"
  BY <1>3, <1>6, <1>8
<1> QED
  BY <1>8, <1>9, <1>10, <1>11, <1>12, <1>13 DEF Finishing

(* y is w but for nextpid and the error count of one endpoint, and what    *)
(* done() says of its URB u.                                               *)
Judged(y, w, u) ==
    /\ Sane(y) /\ y.chip = w.chip /\ y.bus = w.bus /\ y.oops = w.oops
    /\ y.core.calls = w.core.calls /\ y.core.closed = w.core.closed /\ y.core.q = w.core.q
    /\ \A x \in Urbs : x # u => y.core.status[x] = w.core.status[x]
    /\ y.core.status[u] = w.core.status[u] \/ y.core.status[u] # "busy"
    /\ Made(y.hc) = Made(w.hc) /\ Sched(y.hc) = Sched(w.hc) /\ SamePort(y.hc, w.hc)
    /\ y.hc.active = w.hc.active /\ y.hc.late = w.hc.late /\ y.hc.alloc = w.hc.alloc
    /\ y.hc.count = w.hc.count /\ y.hc.irqen = w.hc.irqen

(* The driver's half of that, ...                                          *)
JudgedHc(g, h) ==
    /\ g \in HcTypes /\ MadeInv(g) /\ ListsInv(g)
    /\ Made(g) = Made(h) /\ Sched(g) = Sched(h) /\ SamePort(g, h)
    /\ g.active = h.active /\ g.late = h.late /\ g.alloc = h.alloc
    /\ g.count = h.count /\ g.irqen = h.irqen

(* ... and usbcore's.                                                      *)
JudgedCore(c, d, u) ==
    /\ c \in CoreTypes /\ c.calls = d.calls /\ c.closed = d.closed /\ c.q = d.q
    /\ \A x \in Urbs : x # u => c.status[x] = d.status[x]
    /\ c.status[u] = d.status[u] \/ c.status[u] # "busy"

(* Two such changes are one.                                               *)
LEMMA JudgedTwice ==
    ASSUME NEW w, NEW x, NEW y, NEW u, Judged(x, w, u), Judged(y, x, u)
    PROVE  Judged(y, w, u)
BY DEF Judged, SamePort

(* The error count, ...                                                    *)
LEMMA JudgedErrs ==
    ASSUME NEW w, Sane(w), NEW e \in Ep, NEW k \in 0 .. 2, NEW g, g = [w.hc EXCEPT !.errs[e] = k]
    PROVE  JudgedHc(g, w.hc)
<1> DEFINE R == [w.hc.errs EXCEPT ![e] = k]
           h == w.hc
<1>1. h \in HcTypes /\ MadeInv(h) /\ ListsInv(h)
  BY DEF Sane, Worlds
<1>2. R \in [Ep -> 0 .. 2] /\ g = [h EXCEPT !.errs = R]
  BY <1>1 DEF HcTypes
<1> HIDE DEF R
<1>3. /\ g \in HcTypes /\ g.alloc = h.alloc /\ g.pid = h.pid
      /\ SamePort(g, h) /\ g.active = h.active /\ g.late = h.late
      /\ g.count = h.count /\ g.irqen = h.irqen /\ g.async = h.async
      /\ g.branch = h.branch /\ g.nexta = h.nexta /\ g.nextp = h.nextp
      /\ g.periodic = h.periodic /\ g.next = h.next
  BY <1>1, <1>2 DEF HcTypes, SamePort
<1>4. Made(g) = Made(h) /\ Sched(g) = Sched(h) /\ \A x : InAsync(g, x) <=> InAsync(h, x)
  BY <1>3 DEF Made, Sched, Scheduled, InAsync
<1>5. MadeInv(g) /\ ListsInv(g)
  BY <1>1, <1>3, <1>4 DEF MadeInv, ListsInv
<1> QED
  BY <1>3, <1>4, <1>5 DEF JudgedHc

(* ... nextpid, ...                                                        *)
LEMMA JudgedPid ==
    ASSUME NEW w, Sane(w), NEW e \in Made(w.hc), NEW p \in Pids, NEW g, g = [w.hc EXCEPT !.pid[e] = p]
    PROVE  JudgedHc(g, w.hc)
<1> DEFINE P == [w.hc.pid EXCEPT ![e] = p]
           h == w.hc
<1>1. h \in HcTypes /\ MadeInv(h) /\ ListsInv(h) /\ e \in Ep
  BY DEF Sane, Worlds, Made
<1>2. /\ P \in [Ep -> Pids \union {"none"}] /\ g = [h EXCEPT !.pid = P]
      /\ P[e] = p /\ \A x \in Ep : x # e => P[x] = h.pid[x]
  BY <1>1 DEF HcTypes
<1> HIDE DEF P
<1>3. /\ g \in HcTypes /\ g.alloc = h.alloc /\ g.pid = P
      /\ SamePort(g, h) /\ g.active = h.active /\ g.late = h.late
      /\ g.count = h.count /\ g.irqen = h.irqen /\ g.async = h.async
      /\ g.branch = h.branch /\ g.nexta = h.nexta /\ g.nextp = h.nextp
      /\ g.periodic = h.periodic /\ g.next = h.next
  BY ZenonT(60), <1>1, <1>2 DEF HcTypes, SamePort
<1>4. Sched(g) = Sched(h) /\ \A x : InAsync(g, x) <=> InAsync(h, x)
  BY <1>3 DEF Sched, Scheduled, InAsync
<1>5. Made(g) = Made(h)
  BY <1>1, <1>2, <1>3 DEF Made, Pids
<1>6. MadeInv(g) /\ ListsInv(g)
  BY <1>1, <1>3, <1>4, <1>5 DEF MadeInv, ListsInv
<1> QED
  BY <1>3, <1>4, <1>5, <1>6 DEF JudgedHc

(* ... the URB's length and status ...                                     *)
LEMMA JudgedActual ==
    ASSUME NEW w, Sane(w), NEW u \in Urbs, NEW n \in Int, NEW s \in Statuses,
           s = w.core.status[u] \/ s # "busy",
           NEW c, c = [w.core EXCEPT !.actual[u] = n, !.status[u] = s]
    PROVE  JudgedCore(c, w.core, u)
<1> DEFINE A == [w.core.actual EXCEPT ![u] = n]
           S == [w.core.status EXCEPT ![u] = s]
<1>1. w.core \in CoreTypes
  BY DEF Sane, Worlds
<1>2. /\ c = [w.core EXCEPT !.actual = A, !.status = S]
      /\ A \in [Urbs -> Int] /\ S \in [Urbs -> Statuses]
      /\ S[u] = s /\ \A x \in Urbs : x # u => S[x] = w.core.status[x]
  BY <1>1 DEF CoreTypes
<1> HIDE DEF A, S
<1>3. /\ c \in CoreTypes /\ c.calls = w.core.calls /\ c.closed = w.core.closed
      /\ c.q = w.core.q /\ c.status = S
  BY <1>1, <1>2 DEF CoreTypes
<1> QED
  BY <1>2, <1>3 DEF JudgedCore

(* ... and nothing at all are such changes.                                *)
LEMMA JudgedSame == ASSUME NEW w, Sane(w) PROVE JudgedHc(w.hc, w.hc) /\ \A u : JudgedCore(w.core, w.core, u)
BY DEF Sane, Worlds, JudgedHc, JudgedCore, SamePort

(* A change of both.                                                       *)
HcCoreChanged(w, g, c) == [w EXCEPT !.hc = g, !.core = c]

(* The halves make the whole.                                              *)
LEMMA JudgedWorld ==
    ASSUME NEW w, Sane(w), NEW u \in Urbs, NEW g, JudgedHc(g, w.hc), NEW c, JudgedCore(c, w.core, u),
           NEW y, y = HcCoreChanged(w, g, c)
    PROVE  Judged(y, w, u) /\ y.hc = g /\ y.core = c
<1>1. /\ g \in HcTypes /\ c \in CoreTypes /\ w \in Worlds
      /\ MadeInv(g) /\ ListsInv(g) /\ TokInv(w.chip)
  BY DEF JudgedHc, JudgedCore, Sane
<1>2. /\ y \in Worlds /\ y.hc = g /\ y.core = c /\ y.chip = w.chip /\ y.bus = w.bus
      /\ y.oops = w.oops
  BY <1>1 DEF Worlds, HcCoreChanged
<1> QED
  BY <1>1, <1>2 DEF Judged, JudgedHc, JudgedCore, Sane

(* done() counts an error, or forgets them.                                *)
ErrsAs(w, e, k) == [w EXCEPT !.hc.errs[e] = k]

(* The three assignments of done() as such changes.                        *)
LEMMA ErrsSet ==
    ASSUME NEW w, Sane(w), NEW u \in Urbs, NEW e \in Ep, NEW k \in 0 .. 2,
           NEW y, y = ErrsAs(w, e, k)
    PROVE  Judged(y, w, u) /\ y.core = w.core /\ y.hc.pid = w.hc.pid
<1> DEFINE g == [w.hc EXCEPT !.errs[e] = k]
<1>1. w \in Worlds /\ w.hc \in HcTypes
  BY DEF Sane, Worlds
<1>2. JudgedHc(g, w.hc) /\ JudgedCore(w.core, w.core, u)
  <2>1. g = [w.hc EXCEPT !.errs[e] = k]
    OBVIOUS
  <2> HIDE DEF g
  <2> QED
    BY <2>1, JudgedErrs, JudgedSame
<1>3. y = HcCoreChanged(w, g, w.core)
  BY <1>1 DEF Worlds, HcCoreChanged, ErrsAs
<1>4. g.pid = w.hc.pid
  BY <1>1 DEF HcTypes
<1> HIDE DEF g
<1>5. Judged(y, w, u) /\ y.hc = g /\ y.core = w.core
  BY <1>2, <1>3, JudgedWorld
<1> QED
  BY <1>4, <1>5

(* The next packet's kind.                                                 *)
LEMMA PidSet ==
    ASSUME NEW w, Sane(w), NEW u \in Urbs, NEW e \in Made(w.hc), NEW p \in Pids,
           NEW y, y = [w EXCEPT !.hc.pid[e] = p]
    PROVE  Judged(y, w, u) /\ y.core = w.core
<1> DEFINE g == [w.hc EXCEPT !.pid[e] = p]
<1>1. w \in Worlds
  BY DEF Sane
<1>2. JudgedHc(g, w.hc) /\ JudgedCore(w.core, w.core, u)
  <2>1. g = [w.hc EXCEPT !.pid[e] = p]
    OBVIOUS
  <2> HIDE DEF g
  <2> QED
    BY <2>1, JudgedPid, JudgedSame
<1>3. y = HcCoreChanged(w, g, w.core)
  BY <1>1 DEF Worlds, HcCoreChanged
<1> HIDE DEF g
<1> QED
  BY <1>2, <1>3, JudgedWorld

(* done() credits bytes to an URB and judges it.                           *)
Progress(w, u, n, s) == [w EXCEPT !.core = [w.core EXCEPT !.actual[u] = n, !.status[u] = s]]

(* The bytes and the verdict.                                              *)
LEMMA ActualSet ==
    ASSUME NEW w, Sane(w), NEW u \in Urbs, NEW n \in Int, NEW s \in Statuses,
           s = w.core.status[u] \/ s # "busy",
           NEW y, y = Progress(w, u, n, s)
    PROVE  Judged(y, w, u) /\ y.hc = w.hc /\ y.core.status[u] = s
<1> DEFINE c == [w.core EXCEPT !.actual[u] = n, !.status[u] = s]
<1>1. w \in Worlds /\ w.core \in CoreTypes
  BY DEF Sane, Worlds
<1>2. JudgedHc(w.hc, w.hc) /\ JudgedCore(c, w.core, u)
  <2>1. c = [w.core EXCEPT !.actual[u] = n, !.status[u] = s]
    OBVIOUS
  <2> HIDE DEF c
  <2> QED
    BY <2>1, JudgedActual, JudgedSame
<1>3. y = HcCoreChanged(w, w.hc, c)
  BY <1>1 DEF Worlds, HcCoreChanged, Progress
<1>4. c.status[u] = s
  BY <1>1 DEF CoreTypes
<1> HIDE DEF c
<1> QED
  BY <1>2, <1>3, <1>4, JudgedWorld

(* A control URB that is read to its end gets its status at once.          *)
LEMMA StatusSet ==
    ASSUME NEW w, Sane(w), NEW u \in Urbs, NEW e \in Made(w.hc), NEW s \in Statuses,
           s = w.core.status[u] \/ s # "busy",
           NEW y, y = [w EXCEPT !.core.status[u] = s, !.hc.pid[e] = "ACK"]
    PROVE  Judged(y, w, u)
<1> DEFINE g == [w.hc EXCEPT !.pid[e] = "ACK"]
           n == w.core.actual[u]
           c == [w.core EXCEPT !.actual[u] = n, !.status[u] = s]
<1>1. w \in Worlds /\ w.core \in CoreTypes /\ n \in Int /\ "ACK" \in Pids
  BY DEF Sane, Worlds, CoreTypes, Pids
<1>2. JudgedHc(g, w.hc) /\ JudgedCore(c, w.core, u)
  <2>1. g = [w.hc EXCEPT !.pid[e] = "ACK"] /\ c = [w.core EXCEPT !.actual[u] = n, !.status[u] = s]
    OBVIOUS
  <2> HIDE DEF g, c, n
  <2>2. JudgedHc(g, w.hc)
    BY <1>1, <2>1, JudgedPid
  <2>3. JudgedCore(c, w.core, u)
    BY <1>1, <2>1, JudgedActual
  <2> QED
    BY <2>2, <2>3
<1>3. c = [w.core EXCEPT !.status[u] = s]
  BY <1>1 DEF CoreTypes
<1>4. y = HcCoreChanged(w, g, c)
  BY <1>1, <1>3 DEF Worlds, HcCoreChanged
<1> HIDE DEF g, c
<1> QED
  BY <1>2, <1>4, JudgedWorld

(* The numbers and the status done() compares.                             *)
LEMMA PacketTypes ==
    ASSUME DevOK, NEW w, Sane(w), NEW u \in Urbs
    PROVE  /\ w.core.actual[u] \in Int /\ w.chip.tok.room \in Int /\ w.chip.res.n \in Int
           /\ w.core.status[u] \in Statuses
<1>1. w.core \in CoreTypes /\ w.chip \in ChipTypes
  BY DEF Sane, Worlds
<1> QED
  BY <1>1, Sl811Assumption DEF CoreTypes, ChipTypes

(* An acknowledged OUT packet only judges its URB, ...                     *)
LEMMA AckedOutFacts ==
    ASSUME DevOK, NEW w, Sane(w), NEW u \in Urbs, NEW e \in Made(w.hc), NEW j, j = AckedOut(w, e, u)
    PROVE  Judged(j.w, w, u) /\ j.verdict \in Statuses
<1> DEFINE sent == w.core.actual[u] + w.chip.tok.room
           moved == [w EXCEPT !.core.actual[u] = sent]
<1>1. w \in Worlds /\ w.core \in CoreTypes /\ sent \in Int /\ w.core.status[u] \in Statuses
  BY PacketTypes DEF Sane, Worlds
<1> HIDE DEF sent
<1>2. moved = Progress(w, u, sent, w.core.status[u])
  <2>1. [w.core EXCEPT !.actual[u] = sent]
            = [w.core EXCEPT !.actual[u] = sent, !.status[u] = w.core.status[u]]
    BY <1>1 DEF CoreTypes
  <2> QED
    BY <1>1, <2>1 DEF Worlds, Progress
<1> HIDE DEF moved
<1>3. Judged(moved, w, u) /\ moved.hc = w.hc
  BY <1>1, <1>2, ActualSet
<1>4. Sane(moved) /\ e \in Made(moved.hc) /\ "ACK" \in Pids
  BY <1>3 DEF Judged, Pids
<1> DEFINE ended == [moved EXCEPT !.hc.pid[e] = "ACK"]
<1>5. Judged(ended, w, u)
  <2>1. \A y : y = ended => Judged(y, moved, u)
    BY <1>4, PidSet
  <2> HIDE DEF ended
  <2> QED
    BY <1>3, <2>1, JudgedTwice
<1>6. j.w = moved \/ j.w = ended
  BY DEF AckedOut, sent, moved
<1> HIDE DEF ended
<1>7. j.verdict \in {"busy", "ok"}
  BY DEF AckedOut
<1> QED
  BY <1>3, <1>5, <1>6, <1>7 DEF Statuses

(* ... and so do an IN packet ...                                          *)
LEMMA AckedInFacts ==
    ASSUME DevOK, NEW w, Sane(w), NEW u \in Urbs, NEW e \in Made(w.hc), NEW j, j = AckedIn(w, e, u)
    PROVE  Judged(j.w, w, u) /\ j.verdict \in Statuses
<1> DEFINE tooMuch == w.chip.res.n > w.chip.tok.room
           got == Least(w.chip.res.n, w.chip.tok.room)
           n == w.core.actual[u] + got
           s == IF tooMuch THEN "overflow" ELSE w.core.status[u]
           moved == [w EXCEPT !.core = [w.core EXCEPT !.actual[u] = n, !.status[u] = s]]
           was == [w EXCEPT !.core = [w.core EXCEPT !.actual[u] = @ + got,
                                                    !.status[u] = IF tooMuch THEN "overflow" ELSE @]]
           verdict == IF moved.core.actual[u] = dev.urb[u].len THEN "ok"
                      ELSE IF got = MaxPacket THEN "busy"
                      ELSE IF dev.urb[u].strict THEN "short" ELSE "ok"
           t == IF moved.core.status[u] = "busy" THEN verdict ELSE moved.core.status[u]
           ended == [moved EXCEPT !.core.status[u] = t, !.hc.pid[e] = "ACK"]
<1>1. n \in Int /\ s \in Statuses /\ (s = w.core.status[u] \/ s # "busy")
  <2>1. got \in Int
    BY PacketTypes DEF Least
  <2> QED
    BY <2>1, PacketTypes DEF Statuses
<1>2. moved = was
  OBVIOUS
<1>3. verdict \in {"ok", "busy", "short"}
  OBVIOUS
<1>4. Judged(moved, w, u) /\ moved.hc = w.hc
  <2>1. moved = Progress(w, u, n, s)
    BY SMTT(30) DEF Progress
  <2> HIDE DEF n, s, moved
  <2> QED
    BY <1>1, <2>1, ActualSet
<1>5. Sane(moved) /\ e \in Made(moved.hc) /\ moved.core.status[u] \in Statuses
  BY <1>4, PacketTypes DEF Judged
<1>6. ASSUME verdict # "busy" PROVE Judged(ended, w, u)
  <2>1. t \in Statuses /\ (t = moved.core.status[u] \/ t # "busy")
    <3> HIDE DEF moved, verdict
    <3> QED
      BY <1>3, <1>5, <1>6 DEF Statuses
  <2> HIDE DEF moved, t
  <2>2. Judged(ended, moved, u)
    <3>1. ended = [moved EXCEPT !.core.status[u] = t, !.hc.pid[e] = "ACK"]
      BY SMTT(30)
    <3> HIDE DEF ended
    <3> QED
      BY <1>5, <2>1, <3>1, StatusSet
  <2> QED
    BY <1>4, <2>2, JudgedTwice
<1>7. /\ j.verdict = verdict
      /\ j.w = IF Type(e) = "control" /\ verdict # "busy"
               THEN [was EXCEPT !.core.status[u] = IF @ = "busy" THEN verdict ELSE @,
                                !.hc.pid[e] = "ACK"]
               ELSE was
  BY <1>2 DEF AckedIn
<1>8. j.w = IF Type(e) = "control" /\ verdict # "busy" THEN ended ELSE moved
  <2> HIDE DEF moved, was, verdict
  <2> QED
    BY <1>2, <1>7
<1> QED
  <2> HIDE DEF moved, ended, verdict
  <2> QED
    BY <1>3, <1>4, <1>6, <1>7, <1>8 DEF Statuses

(* ... and a SETUP packet.                                                 *)
LEMMA AckedSetupFacts ==
    ASSUME DevOK, NEW w, Sane(w), NEW u \in Urbs, NEW e \in Made(w.hc), NEW j, j = AckedSetup(w, e, u)
    PROVE  Judged(j.w, w, u) /\ j.verdict \in Statuses
<1> DEFINE p == IF dev.urb[u].len = w.core.actual[u] THEN "ACK"
                ELSE IF dev.urb[u].in THEN "IN" ELSE "OUT"
<1>1. p \in Pids
  BY DEF Pids
<1>2. j.w = [w EXCEPT !.hc.pid[e] = p] /\ j.verdict = "busy"
  BY DEF AckedSetup
<1> HIDE DEF p
<1>3. Judged(j.w, w, u)
  BY <1>1, <1>2, PidSet
<1> QED
  BY <1>2, <1>3 DEF Statuses

(* done: the driver goes on with the URB, or has a status for it.          *)
LEMMA JudgeFacts ==
    ASSUME DevOK, NEW w, Sane(w), NEW u \in Urbs, NEW e \in Made(w.hc), NEW j, j = Judge(w, e, u)
    PROVE  Judged(j.w, w, u) /\ j.verdict \in Statuses
<1> DEFINE calm == ErrsAs(w, e, 0)
           struck == w.hc.errs[e] + 1
           hit == ErrsAs(w, e, struck)
           st == w.chip.res.st
           pid == w.hc.pid[e]
<1>1. /\ e \in Ep /\ pid \in Pids /\ st \in {"ack", "nak", "stall", "error"}
      /\ w.hc.errs[e] \in 0 .. 2
  BY DEF Sane, Worlds, Made, HcTypes, ChipTypes, Pids
<1>2. Judged(calm, w, u) /\ calm.core = w.core /\ calm.hc.pid = w.hc.pid
  <2>1. \A y : y = calm => Judged(y, w, u) /\ y.core = w.core /\ y.hc.pid = w.hc.pid
    BY <1>1, ErrsSet
  <2> HIDE DEF calm
  <2> QED
    BY <2>1
<1>3. ASSUME struck < 3 PROVE Judged(hit, w, u)
  <2>1. struck \in 0 .. 2
    BY <1>1, <1>3
  <2> HIDE DEF struck
  <2>2. \A y : y = hit => Judged(y, w, u)
    BY <1>1, <2>1, ErrsSet
  <2> HIDE DEF hit
  <2> QED
    BY <2>2
<1> HIDE DEF hit, calm
<1>4. Sane(calm) /\ e \in Made(calm.hc)
  BY <1>2 DEF Judged
<1>5. /\ Judged(AckedOut(calm, e, u).w, w, u) /\ AckedOut(calm, e, u).verdict \in Statuses
      /\ Judged(AckedIn(calm, e, u).w, w, u) /\ AckedIn(calm, e, u).verdict \in Statuses
      /\ Judged(AckedSetup(calm, e, u).w, w, u) /\ AckedSetup(calm, e, u).verdict \in Statuses
  BY <1>2, <1>4, AckedOutFacts, AckedInFacts, AckedSetupFacts, JudgedTwice
<1>6. CASE st = "nak"
  <2>1. j = [w |-> calm, verdict |-> "busy", keep |-> FALSE]
    BY <1>6 DEF Judge, ErrsAs, calm
  <2> QED
    BY <1>2, <2>1 DEF Statuses
<1>7. CASE st = "ack"
  <2>1. j = CASE pid = "OUT" -> AckedOut(calm, e, u)
              [] pid = "IN" -> AckedIn(calm, e, u)
              [] pid = "SETUP" -> AckedSetup(calm, e, u)
              [] pid = "ACK" -> [w |-> calm, verdict |-> "ok", keep |-> FALSE]
    BY <1>7 DEF Judge, ErrsAs, calm
  <2>2. CASE pid = "OUT"
    BY <1>5, <2>1, <2>2
  <2>3. CASE pid = "IN"
    BY <1>5, <2>1, <2>3
  <2>4. CASE pid = "SETUP"
    BY <1>5, <2>1, <2>4
  <2>5. CASE pid = "ACK"
    <3>1. j = [w |-> calm, verdict |-> "ok", keep |-> FALSE]
      BY <2>1, <2>5
    <3> QED
      BY <1>2, <3>1 DEF Statuses
  <2> QED
    BY <1>1, <2>2, <2>3, <2>4, <2>5 DEF Pids
<1>8. CASE st = "stall"
  <2>1. j = [w |-> calm, verdict |-> "stall", keep |-> FALSE]
    BY <1>8 DEF Judge, ErrsAs, calm
  <2> QED
    BY <1>2, <2>1 DEF Statuses
<1>9. CASE st = "error"
  <2>1. j = IF struck >= 3 THEN [w |-> calm, verdict |-> "error", keep |-> FALSE]
            ELSE [w |-> hit, verdict |-> "busy", keep |-> FALSE]
    BY <1>9 DEF Judge, ErrsAs, calm, hit
  <2>2. CASE struck >= 3
    <3>1. j = [w |-> calm, verdict |-> "error", keep |-> FALSE]
      BY <2>1, <2>2
    <3> QED
      BY <1>2, <3>1 DEF Statuses
  <2>3. CASE struck < 3
    <3>1. j = [w |-> hit, verdict |-> "busy", keep |-> FALSE]
      BY <1>1, <2>1, <2>3
    <3> QED
      BY <1>3, <2>3, <3>1 DEF Statuses
  <2> QED
    BY <1>1, <2>2, <2>3
<1> QED
  BY <1>1, <1>6, <1>7, <1>8, <1>9

(* What the driver knows of its endpoints and schedules is the same.       *)
SameLists(g, h) ==
    /\ g.alloc = h.alloc /\ g.pid = h.pid /\ g.async = h.async /\ g.nexta = h.nexta
    /\ g.periodic = h.periodic /\ g.branch = h.branch /\ g.next = h.next /\ g.count = h.count

(* All is well with the world that a handler left, but for an oops.        *)
Good(w, open) ==
    /\ Sane(w) /\ w.core.calls = open
    /\ w.oops => Happens("overtake") \/ Happens("plug")
    /\ ~w.oops => KeptInv(w, open, {}) /\ ActiveInv(w.hc, w.core, open)

(* What does not touch endpoints and schedules keeps the lists sane, ...   *)
LEMMA HcStays ==
    ASSUME NEW h, MadeInv(h), ListsInv(h), NEW g \in HcTypes, SameLists(g, h),
           g.active \in Made(h) \union {None}, g.nextp \in Made(h) \union {None}
    PROVE  MadeInv(g) /\ ListsInv(g) /\ Made(g) = Made(h) /\ Sched(g) = Sched(h)
<1>1. Made(g) = Made(h) /\ Sched(g) = Sched(h) /\ \A x : InAsync(g, x) <=> InAsync(h, x)
  BY DEF SameLists, Made, Sched, Scheduled, InAsync
<1> QED
  BY <1>1 DEF SameLists, MadeInv, ListsInv

(* ... and agreeing with the queues, ...                                   *)
LEMMA KeptStays ==
    ASSUME NEW w, NEW open, Sane(w), w.core.calls = open, KeptInv(w, open, {}), NEW y \in Worlds,
           ActiveInv(w.hc, w.core, open) \/ y.hc.active = None, ~y.oops, y.core = w.core,
           TokInv(y.chip), SameLists(y.hc, w.hc), y.hc.active \in {w.hc.active, None},
           y.hc.nextp \in Made(w.hc) \union {None}, FramesInv(y.hc),
           PortInv(y.hc, y.core, y.chip),
           Happens("plug") \/ (Enabled(y.hc) => Enabled(w.hc)) \/ Sched(w.hc) = {}
    PROVE  Good(y, open)
<1>1. /\ Sane(w) /\ w.core.calls = open /\ MadeInv(w.hc) /\ ListsInv(w.hc)
      /\ KeptInv(w, open, {})
  BY DEF Sane
<1>2. y.hc \in HcTypes /\ y.hc.active \in Made(w.hc) \union {None}
  BY <1>1 DEF Worlds, MadeInv
<1>3. MadeInv(y.hc) /\ ListsInv(y.hc) /\ Made(y.hc) = Made(w.hc) /\ Sched(y.hc) = Sched(w.hc)
  BY <1>1, <1>2, HcStays
<1>4. Sane(y)
  BY <1>3 DEF Sane
<1>5. AllocInv(y.hc)
  BY <1>1, <1>3 DEF KeptInv, AllocInv, SameLists
<1>6. ServedInv(y.hc, y.core, open) /\ BusyInv(y.hc, y.core, open, {})
  BY <1>1, <1>3 DEF KeptInv, ServedInv, BusyInv
<1>7. ActiveInv(y.hc, y.core, open)
  BY <1>1 DEF ActiveInv
<1>8. QueuesInv(y.core) /\ OpenInv(y.core, open)
  BY <1>1 DEF KeptInv
<1> QED
  BY <1>1, <1>4, <1>5, <1>6, <1>7, <1>8 DEF Good, KeptInv

(* ... and all is still well.                                              *)
LEMMA GoodStays ==
    ASSUME NEW w, NEW open, Good(w, open), ~w.oops, NEW y \in Worlds, ~y.oops, y.core = w.core,
           TokInv(y.chip), SameLists(y.hc, w.hc), y.hc.active \in {w.hc.active, None},
           y.hc.nextp \in Made(w.hc) \union {None}, FramesInv(y.hc),
           PortInv(y.hc, y.core, y.chip),
           Happens("plug") \/ (Enabled(y.hc) => Enabled(w.hc)) \/ Sched(w.hc) = {}
    PROVE  Good(y, open)
BY KeptStays DEF Good

(* Judging a packet keeps the invariant.                                   *)
LEMMA JudgedKeeps ==
    ASSUME NEW w, NEW open \in SUBSET Urbs, Good(w, open), ~w.oops,
           Happens("overtake") \/ open = {}, NEW u \in Urbs, NEW y, Judged(y, w, u)
    PROVE  /\ Sane(y) /\ KeptInv(y, open, {}) /\ ActiveInv(y.hc, y.core, open)
           /\ y.core.calls = open /\ ~y.oops
<1>1. /\ Sane(w) /\ w.core.calls = open /\ KeptInv(w, open, {}) /\ ActiveInv(w.hc, w.core, open)
  BY DEF Good
<1>2. /\ Sane(y) /\ y.chip = w.chip /\ y.oops = w.oops
      /\ y.core.calls = w.core.calls /\ y.core.closed = w.core.closed /\ y.core.q = w.core.q
      /\ \A x \in Urbs : x # u => y.core.status[x] = w.core.status[x]
      /\ y.core.status[u] = w.core.status[u] \/ y.core.status[u] # "busy"
      /\ Made(y.hc) = Made(w.hc) /\ Sched(y.hc) = Sched(w.hc) /\ SamePort(y.hc, w.hc)
      /\ y.hc.active = w.hc.active /\ y.hc.alloc = w.hc.alloc
      /\ y.hc.count = w.hc.count /\ y.hc.irqen = w.hc.irqen
  BY DEF Judged
<1>3. QueuesInv(y.core) /\ OpenInv(y.core, open)
  <2>1. QueuesInv(w.core) /\ OpenInv(w.core, open)
    BY <1>1 DEF KeptInv
  <2>2. \A x : Queued(y.core, x) <=> Queued(w.core, x)
    BY <1>2 DEF Queued
  <2>3. \A x \in open : w.core.status[x] # "busy" => y.core.status[x] # "busy"
    BY <1>2
  <2> QED
    BY <1>2, <2>1, <2>2, <2>3 DEF QueuesInv, OpenInv
<1>4. AllocInv(y.hc) /\ FramesInv(y.hc)
  BY <1>1, <1>2 DEF KeptInv, AllocInv, FramesInv
<1>5. ServedInv(y.hc, y.core, open) /\ BusyInv(y.hc, y.core, open, {})
  BY <1>1, <1>2 DEF KeptInv, ServedInv, BusyInv, HasTaken, Enabled, SamePort
<1>6. PortInv(y.hc, y.core, y.chip)
  BY <1>1, <1>2, PortSame DEF KeptInv
<1>7. ActiveInv(y.hc, y.core, open)
  BY <1>1, <1>2 DEF ActiveInv
<1> QED
  BY <1>1, <1>2, <1>3, <1>4, <1>5, <1>6, <1>7 DEF KeptInv

(* done: nothing, an oops where an interrupt overtook the submission, a    *)
(* packet judged, or an URB finished.                                      *)
DoneAs(y, w, open) ==
    /\ Sane(y) /\ y.core.calls = open /\ y.core.closed = w.core.closed
    /\ y.oops => Happens("overtake")
    /\ ~y.oops => KeptInv(y, open, {}) /\ y.hc.active = w.hc.active
    /\ SamePort(y.hc, w.hc)
    /\ y.chip.pend = w.chip.pend /\ y.chip.attached = w.chip.attached

(* done() keeps it.                                                        *)
LEMMA DoneKeeps ==
    ASSUME DevOK, NEW w, NEW open \in SUBSET Urbs, Good(w, open), ~w.oops,
           Happens("overtake") \/ open = {}, NEW y \in Done(w, w.hc.active)
    PROVE  DoneAs(y, w, open)
<1> DEFINE e == w.hc.active
           u == Head(w.core.q[e])
           j == Judge(w, e, u)
<1>1. /\ Sane(w) /\ w \in Worlds /\ w.core.calls = open /\ KeptInv(w, open, {})
      /\ ActiveInv(w.hc, w.core, open) /\ e \in Made(w.hc) \union {None}
  BY DEF Good, Sane, MadeInv
<1>2. CASE e = None
  BY <1>1, <1>2 DEF Done, DoneAs, SamePort
<1>3. CASE e # None /\ w.core.q[e] = <<>>
  <2>1. y = [w EXCEPT !.oops = TRUE]
    BY <1>3 DEF Done, Oops
  <2>2. /\ y \in Worlds /\ y.hc = w.hc /\ y.core = w.core /\ y.chip = w.chip /\ y.oops
    BY <1>1, <2>1 DEF Worlds
  <2>3. Happens("overtake")
    BY <1>1, <1>3 DEF ActiveInv
  <2> QED
    BY <1>1, <2>2, <2>3 DEF Sane, DoneAs, SamePort
<1>4. CASE e # None /\ w.core.q[e] # <<>>
  <2>1. e \in Made(w.hc) /\ e \in Ep
    BY <1>1, <1>4 DEF Made
  <2>2. u \in Urbs /\ OnList(w.core.q[e], u)
    BY <1>1, <1>4, <2>1, HeadIsUrb, QueueTypes
  <2>3. EpOf(u) = e
    BY SMTT(30), <1>1, <2>1, <2>2 DEF KeptInv, QueuesInv
  <2>4. Judged(j.w, w, u) /\ j.verdict \in Statuses
    BY SMTT(30), <1>1, <2>1, <2>2, JudgeFacts
  <2>5. y \in IF ~j.keep /\ (j.verdict # "busy" \/ j.w.core.status[u] # "busy")
              THEN FinishRequest(j.w, e, u, j.verdict)
              ELSE {j.w}
    BY <1>4 DEF Done
  <2> HIDE DEF j
  <2>6. /\ Sane(j.w) /\ KeptInv(j.w, open, {}) /\ ActiveInv(j.w.hc, j.w.core, open)
        /\ j.w.core.calls = open /\ ~j.w.oops
    BY SMTT(30), <2>2, <2>4, JudgedKeeps
  <2>7. /\ j.w.chip = w.chip /\ j.w.core.closed = w.core.closed /\ j.w.core.q = w.core.q
        /\ Made(j.w.hc) = Made(w.hc) /\ SamePort(j.w.hc, w.hc) /\ j.w.hc.active = e
    BY <2>4 DEF Judged
  <2>8. CASE y = j.w
    BY <2>6, <2>7, <2>8 DEF DoneAs
  <2>9. CASE /\ j.verdict # "busy" \/ j.w.core.status[u] # "busy"
             /\ y \in FinishRequest(j.w, e, u, j.verdict)
    <3> HIDE DEF u, e
    <3>1. Queued(j.w.core, u)
      BY <2>2, <2>3, <2>7 DEF Queued
    <3>2. EpOf(u) \in Made(j.w.hc) /\ y \in FinishRequest(j.w, EpOf(u), u, j.verdict)
      BY <2>1, <2>3, <2>7, <2>9
    <3>3. Finishing(y, j.w, u, open)
      BY <2>2, <2>4, <2>6, <2>9, <3>1, <3>2, FinishKeeps
    <3>4. /\ Sane(y)
          /\ y.oops => Happens("overtake")
          /\ ~y.oops => KeptInv(y, open, {})
          /\ SamePort(y.hc, j.w.hc)
          /\ y.core.calls = j.w.core.calls /\ y.core.closed = j.w.core.closed
          /\ y.chip.pend = j.w.chip.pend /\ y.chip.attached = j.w.chip.attached
          /\ y.hc.active = j.w.hc.active \/ j.w.hc.active = None
      BY <3>3 DEF Finishing
    <3>5. y.hc.active = w.hc.active
      BY <1>4, <2>7, <3>4 DEF e
    <3> QED
      BY <2>6, <2>7, <3>4, <3>5 DEF DoneAs, SamePort
  <2> QED
    BY <2>5, <2>8, <2>9
<1> QED
  BY <1>2, <1>3, <1>4

(* The interrupt of a packet that ended, ...                               *)
LEMMA IrqDoneGood ==
    ASSUME DevOK, NEW w, NEW open \in SUBSET Urbs, Good(w, open), ~w.oops,
           Happens("overtake") \/ open = {}, NEW y \in IrqDone(w)
    PROVE  /\ Good(y, open) /\ SamePort(y.hc, w.hc)
           /\ y.chip.pend = w.chip.pend /\ y.chip.attached = w.chip.attached
<1>1. PICK x \in Done(w, w.hc.active) :
          y \in (IF x.oops THEN {x} ELSE {[x EXCEPT !.hc.active = None]})
  BY DEF IrqDone, Then
<1>2. DoneAs(x, w, open)
  BY DoneKeeps
<1>3. /\ Sane(x) /\ x.core.calls = open
      /\ x.oops => Happens("overtake")
      /\ ~x.oops => KeptInv(x, open, {})
      /\ SamePort(x.hc, w.hc)
      /\ x.chip.pend = w.chip.pend /\ x.chip.attached = w.chip.attached
  BY <1>2 DEF DoneAs
<1>4. CASE x.oops
  BY <1>1, <1>3, <1>4 DEF Good
<1>5. CASE ~x.oops
  <2> DEFINE g == [x.hc EXCEPT !.active = None]
  <2>1. x \in Worlds /\ x.hc \in HcTypes /\ MadeInv(x.hc) /\ TokInv(x.chip)
    BY <1>3 DEF Sane, Worlds
  <2>2. g \in HcTypes /\ SameLists(g, x.hc) /\ SamePort(g, x.hc) /\ g.active = None
        /\ g.nextp = x.hc.nextp /\ g.irqen = x.hc.irqen
    BY <2>1 DEF HcTypes, SameLists, SamePort, Pointer
  <2>3. y = [x EXCEPT !.hc = g]
    BY <1>1, <1>5
  <2> HIDE DEF g
  <2>4. y \in Worlds /\ y.hc = g /\ SameBut(y, x)
    BY <2>1, <2>2, <2>3, HcChange
  <2>5. PortInv(y.hc, y.core, y.chip)
    <3>1. PortInv(x.hc, x.core, x.chip)
      BY <1>3, <1>5 DEF KeptInv
    <3>2. /\ g.port = x.hc.port /\ g.running = x.hc.running /\ g.timer = x.hc.timer
          /\ g.ctrl1 = x.hc.ctrl1 /\ g.count = x.hc.count
      BY <2>2 DEF SamePort, SameLists
    <3>3. Sched(g) = Sched(x.hc)
      BY <2>2 DEF SameLists, Sched, Scheduled, InAsync
    <3>4. Idle(x.hc, x.core, x.chip) => Idle(g, x.core, x.chip)
      BY <2>2, <3>2, <3>3 DEF Idle
    <3>5. Live(x.hc, x.chip) => Live(g, x.chip)
      BY <3>2 DEF Live
    <3> QED
      BY <2>4, <3>1, <3>4, <3>5 DEF PortInv, SameBut
  <2>6. FramesInv(g)
    BY <1>3, <1>5, <2>2 DEF KeptInv, FramesInv, SameLists
  <2>7. Enabled(g) = Enabled(x.hc)
    BY <2>2 DEF Enabled, SamePort
  <2>8. g.nextp \in Made(x.hc) \union {None}
    BY <2>1, <2>2 DEF MadeInv
  <2>9. Good(y, open)
    BY <1>3, <1>5, <2>1, <2>2, <2>4, <2>5, <2>6, <2>7, <2>8, KeptStays DEF SameBut
  <2> QED
    BY <1>3, <2>2, <2>4, <2>9 DEF SameBut, SamePort
<1> QED
  BY <1>4, <1>5

(* ... that of a new frame, ...                                            *)
LEMMA IrqSofGood ==
    ASSUME DevOK, NEW w, NEW open, Good(w, open), ~w.oops, NEW y, y = IrqSof(w)
    PROVE  /\ Good(y, open) /\ ~y.oops /\ SamePort(y.hc, w.hc) /\ SameBut(y, w)
           /\ y.hc.active = w.hc.active /\ y.hc.count = w.hc.count /\ Sched(y.hc) = Sched(w.hc)
<1> DEFINE h == w.hc
           first == h.periodic[h.frame]
           f == (h.frame + 1) % (PeriodicSize - 1)
           n == IF first # None THEN first ELSE h.nextp
           g == [h EXCEPT !.frame = f, !.nextp = n]
<1>1. w \in Worlds /\ h \in HcTypes /\ MadeInv(h) /\ TokInv(w.chip) /\ KeptInv(w, open, {})
  BY DEF Good, Sane, Worlds
<1>2. PeriodicSize \in Nat /\ PeriodicSize >= 2
  BY Sl811ScheduleAssumption
<1>3. f \in 0 .. PeriodicSize - 2
  <2>1. h.frame \in Int
    BY <1>1, <1>2 DEF HcTypes
  <2> QED
    BY <1>2, <2>1
<1>4. n \in Made(h) \union {None} /\ n \in Pointer
  <2>1. h.frame \in Slots
    BY <1>1, <1>2 DEF HcTypes, Slots
  <2>2. n \in Made(h) \union {None}
    BY <1>1, <2>1 DEF MadeInv
  <2> QED
    BY <2>2 DEF Made, Pointer
<1>5. y = [w EXCEPT !.hc = g]
  BY DEF IrqSof
<1> HIDE DEF f, n
<1>6. /\ g \in HcTypes /\ SameLists(g, h) /\ SamePort(g, h) /\ g.active = h.active
      /\ g.nextp = n /\ g.irqen = h.irqen
  BY <1>1, <1>3, <1>4 DEF HcTypes, SameLists, SamePort
<1> HIDE DEF g
<1>7. y \in Worlds /\ y.hc = g /\ SameBut(y, w)
  BY <1>1, <1>5, <1>6, HcChange
<1>8. Sched(g) = Sched(h) /\ g.count = h.count
  BY <1>6 DEF SameLists, Sched, Scheduled, InAsync
<1>9. PortInv(y.hc, y.core, y.chip)
  BY <1>1, <1>6, <1>7, <1>8, PortSame DEF KeptInv, SameBut
<1>10. FramesInv(g) /\ Enabled(g) = Enabled(h)
  BY <1>1, <1>6, <1>8 DEF KeptInv, FramesInv, Enabled, SamePort
<1>11. Good(y, open) /\ ~y.oops
  BY <1>1, <1>4, <1>6, <1>7, <1>9, <1>10, GoodStays DEF SameBut
<1> QED
  BY <1>6, <1>7, <1>8, <1>11

(* Plugging and unplugging, where anything goes for the port.              *)
LEMMA PlugStays ==
    ASSUME NEW w, NEW open, Sane(w), w.core.calls = open, KeptInv(w, open, {}), Happens("plug"),
           NEW y \in Worlds, ActiveInv(w.hc, w.core, open) \/ y.hc.active = None, ~y.oops,
           y.core = w.core, TokInv(y.chip), SameLists(y.hc, w.hc),
           y.hc.active \in {w.hc.active, None}, y.hc.nextp = w.hc.nextp
    PROVE  Good(y, open)
<1>1. FramesInv(y.hc) /\ PortInv(y.hc, y.core, y.chip)
  BY DEF FramesInv, PortInv
<1>2. y.hc.nextp \in Made(w.hc) \union {None}
  BY DEF Sane, MadeInv
<1> QED
  BY <1>1, <1>2, KeptStays

(* ... that of a device that comes or goes, once it tells the hub driver,  *)
(* ...                                                                     *)
LEMMA ChangedPlug ==
    ASSUME NEW w, NEW open, Sane(w), w.core.calls = open, KeptInv(w, open, {}), Happens("plug"),
           ~w.oops, NEW y,
           y = [w EXCEPT !.hc = [w.hc EXCEPT !.active = None,
                                             !.port = @ \union {"C_CONNECTION", "CONNECTION"}]]
    PROVE  Good(y, open)
<1> DEFINE P == w.hc.port \union {"C_CONNECTION", "CONNECTION"}
           g == [w.hc EXCEPT !.active = None, !.port = P]
<1>1. w \in Worlds /\ w.hc \in HcTypes /\ TokInv(w.chip)
  BY DEF Sane, Worlds
<1>2. P \in SUBSET Ports
  BY <1>1 DEF HcTypes, Ports, Changes
<1>3. y = [w EXCEPT !.hc = g]
  OBVIOUS
<1> HIDE DEF P
<1>4. g \in HcTypes /\ SameLists(g, w.hc) /\ g.active = None /\ g.nextp = w.hc.nextp
  BY <1>1, <1>2 DEF HcTypes, SameLists, Pointer
<1> HIDE DEF g
<1>5. y \in Worlds /\ y.hc = g /\ SameBut(y, w)
  BY <1>1, <1>3, <1>4, HcChange
<1> QED
  BY <1>1, <1>4, <1>5, PlugStays DEF SameBut

(* sl811h_irq turns the port's interrupts off when the device goes.        *)
Quiet(w) == [w EXCEPT !.hc = [@ EXCEPT !.ctrl1 = {}, !.irqen = {"INSRMV"}]]

(* ... when it turned the interrupts off, ...                              *)
LEMMA QuietPlug ==
    ASSUME NEW w, NEW open, Good(w, open), ~w.oops, Happens("plug"), NEW y, y = Quiet(w)
    PROVE  /\ Good(y, open) /\ SameBut(y, w) /\ SameLists(y.hc, w.hc)
           /\ y.hc.active = w.hc.active
<1> DEFINE g == [w.hc EXCEPT !.ctrl1 = {}, !.irqen = {"INSRMV"}]
<1>1. /\ Sane(w) /\ w \in Worlds /\ w.hc \in HcTypes /\ TokInv(w.chip) /\ w.core.calls = open
      /\ KeptInv(w, open, {}) /\ ActiveInv(w.hc, w.core, open)
  BY DEF Good, Sane, Worlds
<1>2. y = [w EXCEPT !.hc = g]
  BY DEF Quiet
<1>3. /\ g \in HcTypes /\ SameLists(g, w.hc) /\ g.active = w.hc.active /\ g.nextp = w.hc.nextp
  BY <1>1 DEF HcTypes, SameLists, Interrupts
<1> HIDE DEF g
<1>4. y \in Worlds /\ y.hc = g /\ SameBut(y, w)
  BY <1>1, <1>2, <1>3, HcChange
<1> QED
  BY <1>1, <1>3, <1>4, PlugStays DEF SameBut

(* The chip forgets its packet.                                            *)
Disarmed(w) == [w EXCEPT !.chip.armed = FALSE]

(* ... and the chip forgot its packet, ...                                 *)
LEMMA DisarmedFacts ==
    ASSUME NEW w \in Worlds, TokInv(w.chip), NEW y, y = Disarmed(w)
    PROVE  /\ y \in Worlds /\ y.hc = w.hc /\ y.core = w.core /\ y.bus = w.bus /\ y.oops = w.oops
           /\ TokInv(y.chip) /\ y.chip.pend = w.chip.pend /\ y.chip.attached = w.chip.attached
           /\ y.chip.tok = w.chip.tok
<1> DEFINE k == [w.chip EXCEPT !.armed = FALSE]
<1>1. w.chip \in ChipTypes
  BY DEF Worlds
<1>2. /\ k \in ChipTypes /\ k.tok = w.chip.tok /\ k.pend = w.chip.pend
      /\ k.attached = w.chip.attached /\ k.armed = FALSE
  BY <1>1 DEF ChipTypes
<1>3. y = [w EXCEPT !.chip = k]
  BY DEF Disarmed
<1> HIDE DEF k
<1>4. y \in Worlds /\ y.chip = k /\ y.hc = w.hc /\ y.core = w.core /\ y.bus = w.bus
      /\ y.oops = w.oops
  BY <1>2, <1>3 DEF Worlds
<1> QED
  BY <1>2, <1>4 DEF TokInv

(* ... taken together, where devices come and go, ...                      *)
LEMMA IrqInsRmvPlug ==
    ASSUME DevOK, NEW w, NEW open \in SUBSET Urbs, Good(w, open), ~w.oops, Happens("plug"),
           Happens("overtake") \/ open = {}, NEW y \in IrqInsRmv(w)
    PROVE  Good(y, open)
<1> DEFINE e == w.hc.active
           u == Head(w.core.q[e])
           v == Quiet(w)
           z == Disarmed(v)
           To(x) == [x EXCEPT !.hc = [x.hc EXCEPT
                        !.active = None, !.port = @ \union {"C_CONNECTION", "CONNECTION"}]]
<1>1. /\ Sane(w) /\ w \in Worlds /\ w.core.calls = open /\ KeptInv(w, open, {})
      /\ e \in Made(w.hc) \union {None}
  BY DEF Good, Sane, MadeInv
<1>v. v = Quiet(w)
  OBVIOUS
<1>z. z = Disarmed(v)
  OBVIOUS
<1>0. y \in IF e = None THEN {To(v)}
            ELSE IF w.core.q[e] = <<>> THEN {[w EXCEPT !.oops = TRUE]}
            ELSE UNION {IF x.oops THEN {x} ELSE {To(x)} : x \in FinishRequest(z, e, u, "shutdown")}
  BY Zenon DEF IrqInsRmv, Then, Oops, Quiet, Disarmed
<1> HIDE DEF v, z, To
<1>2. IF e = None THEN y = To(v)
      ELSE IF w.core.q[e] = <<>> THEN y = [w EXCEPT !.oops = TRUE]
      ELSE \E x \in FinishRequest(z, e, u, "shutdown") : y = IF x.oops THEN x ELSE To(x)
  BY <1>0
<1>3. Good(v, open) /\ SameBut(v, w) /\ SameLists(v.hc, w.hc) /\ v.hc.active = e
  BY <1>v, QuietPlug
<1>4. CASE e = None
  <2>1. Sane(v) /\ v.core.calls = open /\ KeptInv(v, open, {}) /\ ~v.oops
    BY <1>3 DEF Good, SameBut
  <2> QED
    BY <1>2, <1>4, <2>1, ChangedPlug DEF To
<1>5. CASE e # None /\ w.core.q[e] = <<>>
  <2>1. y = [w EXCEPT !.oops = TRUE]
    BY <1>2, <1>5
  <2>2. /\ y \in Worlds /\ y.hc = w.hc /\ y.core = w.core /\ y.chip = w.chip /\ y.oops
    BY <1>1, <2>1 DEF Worlds
  <2> QED
    BY <1>1, <2>2 DEF Sane, Good
<1>6. CASE e # None /\ w.core.q[e] # <<>>
  <2>1. PICK x \in FinishRequest(z, e, u, "shutdown") : y = IF x.oops THEN x ELSE To(x)
    BY <1>2, <1>6
  <2>2. e \in Made(w.hc) /\ e \in Ep
    BY <1>1, <1>6 DEF Made
  <2>3. u \in Urbs /\ OnList(w.core.q[e], u)
    BY <1>1, <1>6, <2>2, HeadIsUrb, QueueTypes
  <2>4. EpOf(u) = e
    BY <1>1, <2>2, <2>3 DEF KeptInv, QueuesInv
  <2> HIDE DEF u, e
  <2>5. v \in Worlds /\ TokInv(v.chip)
    BY <1>3 DEF Good, Sane
  <2>6. /\ z \in Worlds /\ z.hc = v.hc /\ z.core = v.core /\ z.oops = v.oops /\ TokInv(z.chip)
    BY <1>z, <2>5, DisarmedFacts
  <2>7. Good(z, open)
    <3>1. /\ Sane(v) /\ v.core.calls = open /\ KeptInv(v, open, {}) /\ ~v.oops
          /\ ActiveInv(v.hc, v.core, open)
      BY <1>3 DEF Good, SameBut
    <3>2. SameLists(z.hc, v.hc)
      BY <2>6 DEF SameLists
    <3> QED
      BY <2>6, <3>1, <3>2, PlugStays
  <2>8. /\ Sane(z) /\ ~z.oops /\ KeptInv(z, open, {}) /\ z.core.calls = open
    BY <1>3, <2>6, <2>7 DEF Good, SameBut
  <2>9. EpOf(u) \in Made(z.hc) /\ Queued(z.core, u)
    BY <1>3, <2>2, <2>3, <2>4, <2>6 DEF SameLists, Made, Queued, SameBut
  <2>10. "shutdown" \in Statuses /\ "shutdown" # "busy"
    BY DEF Statuses
  <2>11. Finishing(x, z, u, open)
    BY <2>1, <2>3, <2>4, <2>8, <2>9, <2>10, FinishKeeps
  <2>12. /\ Sane(x) /\ x.core.calls = open
         /\ x.oops => Happens("overtake")
         /\ ~x.oops => KeptInv(x, open, {})
    BY <2>8, <2>11 DEF Finishing
  <2>13. CASE x.oops
    BY <2>1, <2>12, <2>13 DEF Good
  <2>14. CASE ~x.oops
    BY <2>1, <2>12, <2>14, ChangedPlug DEF To
  <2> QED
    BY <2>13, <2>14
<1> QED
  BY <1>4, <1>5, <1>6

(* ... and where one comes, before the port was ever enabled, ...          *)
LEMMA InsRmvIdle ==
    ASSUME NEW w, NEW open, Good(w, open), ~w.oops, ~Happens("plug"), w.chip.tok.pid = "none",
           w.chip.attached, ~w.hc.timer, w.chip.pend = {}, NEW y \in IrqInsRmv(w)
    PROVE  Good(y, open)
<1> DEFINE P == w.hc.port \union {"C_CONNECTION", "CONNECTION"}
           g == [w.hc EXCEPT !.ctrl1 = {}, !.irqen = {"INSRMV"}, !.active = None, !.port = P]
<1>1. /\ Sane(w) /\ w \in Worlds /\ w.hc \in HcTypes /\ TokInv(w.chip) /\ MadeInv(w.hc)
      /\ KeptInv(w, open, {})
  BY DEF Good, Sane, Worlds
<1>2. Idle(w.hc, w.core, w.chip) /\ w.core.closed = {}
  BY <1>1 DEF KeptInv, PortInv
<1>3. y \in {[Quiet(w) EXCEPT !.hc = [Quiet(w).hc EXCEPT
                !.active = None, !.port = @ \union {"C_CONNECTION", "CONNECTION"}]]}
  <2>1. w.hc.active = None
    BY <1>2 DEF Idle
  <2> QED
    BY <2>1 DEF IrqInsRmv, Quiet
<1>4. y = [w EXCEPT !.hc = g]
  BY <1>1, <1>3 DEF Quiet, Worlds, HcTypes
<1>5. P \in SUBSET Ports
  BY <1>1 DEF HcTypes, Ports, Changes
<1>p. \A b \in {"ENABLE", "SUSPEND"} : b \notin w.hc.port => b \notin P
  OBVIOUS
<1> HIDE DEF P
<1>6. /\ g \in HcTypes /\ SameLists(g, w.hc) /\ g.active = None /\ g.nextp = w.hc.nextp
      /\ g.irqen = {"INSRMV"} /\ g.ctrl1 = {} /\ g.port = P /\ g.timer = w.hc.timer
      /\ g.running = w.hc.running
  BY <1>1, <1>5 DEF HcTypes, SameLists, Interrupts, Pointer
<1> HIDE DEF g
<1>7. y \in Worlds /\ y.hc = g /\ SameBut(y, w)
  BY <1>1, <1>4, <1>6, HcChange
<1>8. FramesInv(g) /\ "ENABLE" \notin P
  BY <1>2, <1>6, <1>p DEF FramesInv, Idle
<1>9. Idle(g, w.core, w.chip)
  <2>1. Sched(g) = Sched(w.hc) /\ g.count = w.hc.count
    BY <1>6 DEF SameLists, Sched, Scheduled, InAsync
  <2> QED
    BY <1>2, <1>6, <1>8, <1>p, <2>1 DEF Idle
<1>10. PortInv(y.hc, y.core, y.chip)
  BY <1>2, <1>7, <1>9 DEF PortInv, SameBut
<1>11. g.nextp \in Made(w.hc) \union {None}
  BY <1>1, <1>6 DEF MadeInv
<1> QED
  BY <1>1, <1>6, <1>7, <1>8, <1>10, <1>11, GoodStays DEF SameBut, Enabled

(* ... that of a resume signal, ...                                        *)
LEMMA IrqWakeupGood ==
    ASSUME NEW w, NEW open, Good(w, open), ~w.oops, NEW y, y = IrqWakeup(w)
    PROVE  Good(y, open) /\ ~y.oops
<1>1. CASE "SUSPEND" \notin w.hc.port
  BY <1>1 DEF IrqWakeup
<1>2. CASE "SUSPEND" \in w.hc.port
  <2> DEFINE P == w.hc.port \union {"C_SUSPEND"}
             g == [w.hc EXCEPT !.port = P]
  <2>1. /\ Sane(w) /\ w \in Worlds /\ w.hc \in HcTypes /\ TokInv(w.chip) /\ MadeInv(w.hc)
        /\ KeptInv(w, open, {})
    BY DEF Good, Sane, Worlds
  <2>2. y = [w EXCEPT !.hc = g]
    BY <1>2 DEF IrqWakeup
  <2>3. P \in SUBSET Ports
    BY <2>1 DEF HcTypes, Ports, Changes
  <2>4. \A b \in {"ENABLE", "SUSPEND", "CONNECTION"} : b \in P <=> b \in w.hc.port
    OBVIOUS
  <2> HIDE DEF P
  <2>5. /\ g \in HcTypes /\ SameLists(g, w.hc) /\ g.active = w.hc.active /\ g.nextp = w.hc.nextp
        /\ g.irqen = w.hc.irqen /\ g.ctrl1 = w.hc.ctrl1 /\ g.port = P /\ g.timer = w.hc.timer
        /\ g.running = w.hc.running
    BY <2>1, <2>3 DEF HcTypes, SameLists
  <2> HIDE DEF g
  <2>6. y \in Worlds /\ y.hc = g /\ SameBut(y, w)
    BY <2>1, <2>2, <2>5, HcChange
  <2>7. FramesInv(g) /\ Enabled(g) = Enabled(w.hc)
    BY <2>1, <2>4, <2>5 DEF FramesInv, KeptInv, SameLists, Enabled
  <2>8. Idle(w.hc, w.core, w.chip) => Idle(g, w.core, w.chip)
    <3>1. Sched(g) = Sched(w.hc) /\ g.count = w.hc.count
      BY <2>5 DEF SameLists, Sched, Scheduled, InAsync
    <3> QED
      BY <2>4, <2>5, <3>1 DEF Idle
  <2>9. Live(w.hc, w.chip) => Live(g, w.chip)
    BY <2>4, <2>5 DEF Live
  <2>10. PortInv(y.hc, y.core, y.chip)
    BY <2>1, <2>6, <2>8, <2>9 DEF PortInv, SameBut, KeptInv
  <2>11. g.nextp \in Made(w.hc) \union {None}
    BY <2>1, <2>5 DEF MadeInv
  <2> QED
    BY <2>1, <2>5, <2>6, <2>7, <2>10, <2>11, GoodStays DEF SameBut
<1> QED
  BY <1>1, <1>2

(* ... the packet that the handler issues before it leaves, ...            *)
LEMMA StartGood ==
    ASSUME DevOK, NEW w, NEW open, Good(w, open), ~w.oops, Happens("overtake") \/ open = {},
           NEW y \in StartTransfer(w)
    PROVE  Good(y, open) /\ ~y.oops
<1>1. Sane(w) /\ KeptInv(w, open, {}) /\ ActiveInv(w.hc, w.core, open) /\ w.core.calls = open
  BY DEF Good
<1>2. Sane(y) /\ Started(y, w) /\ KeptInv(y, open, {}) /\ ActiveInv(y.hc, y.core, open)
  BY <1>1, StartKeeps
<1>3. y.core = w.core /\ y.oops = w.oops
  BY <1>2 DEF Started
<1> QED
  BY <1>1, <1>2, <1>3 DEF Good

(* Pending interrupts that are acknowledged keep a port's state.           *)
LEMMA PortLess ==
    ASSUME NEW h, NEW c, NEW k, PortInv(h, c, k), NEW g, NEW l, SamePort(g, h), SameLists(g, h),
           g.active = h.active, l.pend \subseteq k.pend, l.attached = k.attached, l.tok = k.tok
    PROVE  PortInv(g, c, l)
<1>1. Sched(g) = Sched(h) /\ g.count = h.count
  BY DEF SameLists, Sched, Scheduled, InAsync
<1>2. Idle(h, c, k) => Idle(g, c, l)
  BY <1>1 DEF Idle, SamePort
<1>3. Live(h, k) => Live(g, l)
  BY DEF Live, SamePort
<1> QED
  BY <1>2, <1>3 DEF PortInv

(* ... and the leave itself.                                               *)
LEMMA IrqExitGood ==
    ASSUME NEW w, NEW open, Good(w, open), ~w.oops, NEW y \in IrqExit(w)
    PROVE  Good(y, open) /\ ~y.oops
<1> DEFINE Q == IF w.hc.count = 0 /\ w.hc.async = <<>> THEN w.hc.irqen \ {"SOFINTR"} ELSE w.hc.irqen
           pd == IF w.chip.pend \cap w.hc.irqen = {} THEN {} ELSE w.chip.pend
           g == [w.hc EXCEPT !.irqen = Q]
           k == [w.chip EXCEPT !.pend = pd]
<1>1. /\ Sane(w) /\ w \in Worlds /\ w.hc \in HcTypes /\ TokInv(w.chip) /\ MadeInv(w.hc)
      /\ w.chip \in ChipTypes /\ KeptInv(w, open, {})
  BY DEF Good, Sane, Worlds
<1>2. y = [w EXCEPT !.hc = g, !.chip = k]
  <2> DEFINE off == IF w.hc.count = 0 /\ w.hc.async = <<>>
                    THEN [w EXCEPT !.hc.irqen = @ \ {"SOFINTR"}] ELSE w
  <2>1. off = [w EXCEPT !.hc = g]
    BY <1>1 DEF Worlds, HcTypes
  <2>2. y = [off EXCEPT !.chip.pend = IF @ \cap w.hc.irqen = {} THEN {} ELSE @]
    BY DEF IrqExit
  <2> HIDE DEF off, g
  <2>3. off.chip = w.chip
    BY <1>1, <2>1 DEF Worlds
  <2>4. y = [off EXCEPT !.chip = k]
    BY <2>2, <2>3
  <2> HIDE DEF k
  <2> QED
    BY <2>1, <2>4
<1>3. Q \in SUBSET Interrupts /\ pd \in SUBSET Interrupts /\ pd \subseteq w.chip.pend
      /\ (w.hc.count # 0 => Q = w.hc.irqen)
  BY <1>1 DEF HcTypes, ChipTypes
<1> HIDE DEF Q, pd
<1>4. /\ g \in HcTypes /\ SameLists(g, w.hc) /\ g.active = w.hc.active /\ g.nextp = w.hc.nextp
      /\ g.irqen = Q /\ SamePort(g, w.hc)
  BY <1>1, <1>3 DEF HcTypes, SameLists, SamePort
<1>5. /\ k \in ChipTypes /\ k.tok = w.chip.tok /\ k.pend = pd /\ k.armed = w.chip.armed
      /\ k.attached = w.chip.attached
  BY <1>1, <1>3 DEF ChipTypes
<1> HIDE DEF g, k
<1>6. y \in Worlds /\ y.hc = g /\ y.chip = k /\ y.core = w.core /\ y.oops = w.oops
  BY <1>1, <1>2, <1>4, <1>5 DEF Worlds
<1>7. TokInv(k)
  BY <1>1, <1>5 DEF TokInv
<1>8. FramesInv(g) /\ Enabled(g) = Enabled(w.hc)
  <2>1. FramesInv(w.hc) /\ w.hc.count \in Int
    BY <1>1 DEF KeptInv, HcTypes
  <2> QED
    BY <1>3, <1>4, <2>1 DEF FramesInv, SameLists, Enabled, SamePort
<1>9. PortInv(g, w.core, k)
  BY <1>1, <1>3, <1>4, <1>5, PortLess DEF KeptInv
<1>10. g.nextp \in Made(w.hc) \union {None}
  BY <1>1, <1>4 DEF MadeInv
<1> QED
  BY <1>1, <1>4, <1>6, <1>7, <1>8, <1>9, <1>10, GoodStays

(* One pass of sl811h_irq over the pending interrupts.                     *)
LEMMA IrqPassGood ==
    ASSUME DevOK, NEW w, NEW open \in SUBSET Urbs, Good(w, open), ~w.oops,
           Happens("overtake") \/ open = {}, NEW irqstat,
           ~Happens("plug") /\ "INSRMV" \in irqstat
                => /\ w.chip.tok.pid = "none" /\ w.chip.attached /\ ~w.hc.timer
                   /\ w.chip.pend = {} /\ "DONE_A" \notin irqstat,
           NEW y \in IrqPass(w, irqstat)
    PROVE  Good(y, open)
<1> DEFINE a(x) == IF "DONE_A" \in irqstat THEN IrqDone(x) ELSE {x}
           b(x) == {IF "SOFINTR" \in irqstat THEN IrqSof(x) ELSE x}
           c(x) == IF "INSRMV" \in irqstat THEN IrqInsRmv(x)
                   ELSE {IF "RD" \in irqstat THEN IrqWakeup(x) ELSE x}
           taken(x) == irqstat \ (IF "INSRMV" \notin irqstat /\ "SUSPEND" \notin x.hc.port
                                  THEN {"RD"} ELSE {})
           s(x) == IF taken(x) # {} /\ "ENABLE" \in x.hc.port THEN StartTransfer(x) ELSE {x}
           A == UNION {IF x.oops THEN {x} ELSE a(x) : x \in {w}}
           B == UNION {IF x.oops THEN {x} ELSE b(x) : x \in A}
           C == UNION {IF x.oops THEN {x} ELSE c(x) : x \in B}
           S == UNION {IF x.oops THEN {x} ELSE s(x) : x \in C}
<1>1. y \in UNION {IF x.oops THEN {x} ELSE IrqExit(x) : x \in S}
  BY Zenon DEF IrqPass, Then
<1> HIDE DEF S
<1>2. PICK x4 \in S : y \in IF x4.oops THEN {x4} ELSE IrqExit(x4)
  BY <1>1
<1> HIDE DEF C, s
<1>3. PICK x3 \in C : x4 \in IF x3.oops THEN {x3} ELSE s(x3)
  BY <1>2 DEF S
<1> HIDE DEF B, c
<1>4. PICK x2 \in B : x3 \in IF x2.oops THEN {x2} ELSE c(x2)
  BY <1>3 DEF C
<1> HIDE DEF A, b
<1>5. PICK x1 \in A : x2 \in IF x1.oops THEN {x1} ELSE b(x1)
  BY <1>4 DEF B
<1> HIDE DEF a
<1>6. x1 \in a(w)
  BY <1>5 DEF A
<1>Idle. CASE ~Happens("plug") /\ "INSRMV" \in irqstat
  <2>1. x1 = w
    BY <1>6, <1>Idle DEF a
  <2>2. x2 = w \/ x2 = IrqSof(w)
    BY <1>5, <2>1 DEF b
  <2>3. /\ Good(x2, open) /\ ~x2.oops /\ x2.chip = w.chip /\ x2.hc.timer = w.hc.timer
    BY <2>2, IrqSofGood DEF SameBut, SamePort
  <2>4. x3 \in IrqInsRmv(x2)
    BY <1>4, <1>Idle, <2>3 DEF c
  <2>5. Good(x3, open)
    BY <1>Idle, <2>3, <2>4, InsRmvIdle
  <2> QED
    <3>1. CASE x3.oops
      BY <1>2, <1>3, <2>5, <3>1
    <3>2. CASE ~x3.oops
      <4>1. Good(x4, open) /\ ~x4.oops
        BY <1>3, <2>5, <3>2, StartGood DEF s
      <4> QED
        BY <1>2, <4>1, IrqExitGood
    <3> QED
      BY <3>1, <3>2
<1>Other. CASE Happens("plug") \/ "INSRMV" \notin irqstat
  <2>1. Good(x1, open)
    BY <1>6, IrqDoneGood DEF a
  <2>2. Good(x2, open)
    BY <1>5, <2>1, IrqSofGood DEF b
  <2>3. Good(x3, open)
    <3>1. CASE x2.oops
      BY <1>4, <2>2, <3>1
    <3>2. CASE ~x2.oops /\ "INSRMV" \in irqstat
      BY <1>4, <1>Other, <2>2, <3>2, IrqInsRmvPlug DEF c
    <3>3. CASE ~x2.oops /\ "INSRMV" \notin irqstat
      BY <1>4, <2>2, <3>3, IrqWakeupGood DEF c
    <3> QED
      BY <3>1, <3>2, <3>3
  <2>4. Good(x4, open)
    BY <1>3, <2>3, StartGood DEF s
  <2> QED
    BY <1>2, <2>4, IrqExitGood
<1> QED
  BY <1>Idle, <1>Other

(* Acknowledging what is pending.                                          *)
Read(w) == [w EXCEPT !.chip.pend = {}]

(* Reading and acknowledging the status register, ...                      *)
LEMMA ReadGood ==
    ASSUME NEW w, NEW open, Good(w, open), ~w.oops, NEW y, y = Read(w)
    PROVE  /\ Good(y, open) /\ ~y.oops /\ y.hc = w.hc /\ y.core = w.core
           /\ y.chip.pend = {} /\ y.chip.tok = w.chip.tok /\ y.chip.attached = w.chip.attached
<1> DEFINE k == [w.chip EXCEPT !.pend = {}]
<1>1. /\ Sane(w) /\ w \in Worlds /\ w.hc \in HcTypes /\ TokInv(w.chip) /\ MadeInv(w.hc)
      /\ w.chip \in ChipTypes /\ KeptInv(w, open, {})
  BY DEF Good, Sane, Worlds
<1>2. /\ k \in ChipTypes /\ k.tok = w.chip.tok /\ k.pend = {} /\ k.armed = w.chip.armed
      /\ k.attached = w.chip.attached
  BY <1>1 DEF ChipTypes
<1>3. y = [w EXCEPT !.chip = k]
  BY DEF Read
<1> HIDE DEF k
<1>4. y \in Worlds /\ y.hc = w.hc /\ y.chip = k /\ y.core = w.core /\ y.oops = w.oops
  BY <1>1, <1>2, <1>3 DEF Worlds
<1>5. TokInv(k) /\ SamePort(w.hc, w.hc) /\ SameLists(w.hc, w.hc)
  BY <1>1, <1>2 DEF TokInv, SamePort, SameLists
<1>6. PortInv(w.hc, w.core, k)
  BY <1>1, <1>2, <1>5, PortLess DEF KeptInv
<1> QED
  BY <1>1, <1>2, <1>4, <1>5, <1>6, GoodStays DEF KeptInv, MadeInv

(* ... and the check for a packet whose interrupt was lost.                *)
LEMMA CheckDoneGood ==
    ASSUME NEW w, NEW open, Good(w, open), ~w.oops, NEW y, y = CheckDone(w)
    PROVE  Good(y, open) /\ ~y.oops
<1>1. CASE ~(w.hc.active # None /\ w.hc.late)
  BY <1>1 DEF CheckDone
<1>2. CASE w.hc.active # None /\ w.hc.late
  <2> DEFINE r == IF w.chip.armed THEN [st |-> "error", n |-> 0] ELSE w.chip.res
             k == [w.chip EXCEPT !.armed = FALSE, !.res = r]
  <2>1. /\ Sane(w) /\ w \in Worlds /\ w.hc \in HcTypes /\ TokInv(w.chip) /\ MadeInv(w.hc)
        /\ w.chip \in ChipTypes /\ KeptInv(w, open, {})
    BY DEF Good, Sane, Worlds
  <2>2. r \in [st : {"ack", "nak", "stall", "error"}, n : 0 .. MaxPacket]
    <3>1. 0 \in 0 .. MaxPacket
      BY Sl811Assumption
    <3>2. w.chip.res \in [st : {"ack", "nak", "stall", "error"}, n : 0 .. MaxPacket]
      BY <2>1 DEF ChipTypes
    <3> QED
      BY <3>1, <3>2
  <2>3. y = [w EXCEPT !.chip = k]
    BY <1>2, <2>1 DEF CheckDone, Worlds
  <2> HIDE DEF r
  <2>4. /\ k \in ChipTypes /\ k.tok = w.chip.tok /\ k.pend = w.chip.pend /\ k.armed = FALSE
        /\ k.attached = w.chip.attached
    BY <2>1, <2>2 DEF ChipTypes
  <2> HIDE DEF k
  <2>5. y \in Worlds /\ y.hc = w.hc /\ y.chip = k /\ y.core = w.core /\ y.oops = w.oops
    BY <2>1, <2>3, <2>4 DEF Worlds
  <2>6. TokInv(k) /\ SamePort(w.hc, w.hc) /\ SameLists(w.hc, w.hc)
    BY <2>1, <2>4 DEF TokInv, SamePort, SameLists
  <2>7. PortInv(w.hc, w.core, k)
    BY <2>1, <2>4, <2>6, PortLess DEF KeptInv
  <2> QED
    BY <2>1, <2>5, <2>6, <2>7, GoodStays DEF KeptInv, MadeInv
<1> QED
  BY <1>1, <1>2

(* The device's account of a packet is typed, ...                          *)
LEMMA AcknowledgeType ==
    ASSUME DevOK, NEW t, t.urb \in Urbs, t.pid \in Pids, t.room \in Int, NEW n \in Int,
           bus \in BusTypes
    PROVE  Acknowledge(t, n) \in [setup : BOOLEAN, data : Int, status : BOOLEAN]
<1> DEFINE known == bus[t.urb]
           R == [setup : BOOLEAN, data : Int, status : BOOLEAN]
           More(k) == [known EXCEPT !.data = Least(@ + k, dev.urb[t.urb].len + 1)]
<1>1. known \in R /\ Bare \in R
  BY DEF BusTypes, Bare
<1>2. dev.urb[t.urb].len \in Nat
  BY DeviceFacts
<1>3. ASSUME NEW k \in Int PROVE More(k) \in R
  <2> DEFINE d == Least(known.data + k, dev.urb[t.urb].len + 1)
  <2>1. d \in Int
    BY <1>1, <1>2 DEF Least
  <2>2. More(k) = [known EXCEPT !.data = d]
    OBVIOUS
  <2> HIDE DEF d, known
  <2> QED
    BY <1>1, <2>1, <2>2
<1>4. [Bare EXCEPT !.setup = TRUE] \in R
  BY <1>1
<1>5. [known EXCEPT !.status = TRUE] \in R
  <2> HIDE DEF known
  <2> QED
    BY <1>1
<1>6. CASE t.pid = "SETUP"
  BY <1>4, <1>6 DEF Acknowledge
<1>7. CASE t.pid = "IN"
  BY <1>3, <1>7 DEF Acknowledge
<1>8. CASE t.pid = "OUT"
  BY <1>3, <1>8 DEF Acknowledge
<1>9. CASE t.pid = "ACK"
  BY <1>5, <1>9 DEF Acknowledge
<1> QED
  BY <1>6, <1>7, <1>8, <1>9 DEF Pids

(* ... and so is what the chip reports.                                    *)
LEMMA AnswerType ==
    ASSUME NEW pid, NEW r \in Answers(pid)
    PROVE  r \in [st : {"ack", "nak", "stall", "error"}, n : 0 .. MaxPacket]
<1>1. 0 \in 0 .. MaxPacket
  BY Sl811Assumption
<1>2. CASE ~chip.attached
  BY <1>1, <1>2 DEF Answers
<1>3. CASE chip.attached /\ r \in [st : {"ack"}, n : IF pid = "IN" THEN 0 .. MaxPacket ELSE {0}]
  BY <1>1, <1>3
<1>4. CASE chip.attached
           /\ r \in [st : (IF pid = "SETUP" THEN {} ELSE {"nak"})
                          \union (IF "error" \in dev.env THEN {"error"} ELSE {})
                          \union (IF "error" \in dev.env /\ pid # "SETUP" THEN {"stall"} ELSE {}),
                     n : {0}]
  BY <1>1, <1>4
<1> QED
  BY <1>2, <1>3, <1>4 DEF Answers

(* The chip after a packet ends.                                           *)
Ended(k, r) == [k EXCEPT !.armed = FALSE, !.res = r, !.pend = @ \union {"DONE_A"}]

(* A packet that ends, whenever it does, ...                               *)
LEMMA EndsGood ==
    ASSUME DevOK, NEW w, NEW open, Good(w, open), ~w.oops, w.bus = bus,
           w.chip.armed, w.chip.tok.pid # "SOF",
           NEW r \in [st : {"ack", "nak", "stall", "error"}, n : 0 .. MaxPacket],
           NEW y, y = Ends(w, r)
    PROVE  /\ Good(y, open) /\ ~y.oops /\ y.hc = w.hc /\ y.core = w.core
           /\ y.chip.tok = w.chip.tok
<1> DEFINE k == Ended(w.chip, r)
           pd == w.chip.pend \union {"DONE_A"}
           b == IF r.st = "ack"
                THEN [w.bus EXCEPT ![w.chip.tok.urb] = Acknowledge(w.chip.tok, r.n)] ELSE w.bus
<1>1. /\ Sane(w) /\ w \in Worlds /\ w.hc \in HcTypes /\ TokInv(w.chip) /\ MadeInv(w.hc)
      /\ w.chip \in ChipTypes /\ KeptInv(w, open, {}) /\ w.bus \in BusTypes
  BY DEF Good, Sane, Worlds
<1>2. pd \in SUBSET Interrupts /\ \A x \in {"INSRMV", "RD"} : x \in pd <=> x \in w.chip.pend
  BY <1>1 DEF ChipTypes, Interrupts
<1>3. k = [w.chip EXCEPT !.armed = FALSE, !.res = r, !.pend = pd]
  BY DEF Ended
<1> HIDE DEF pd
<1>4. /\ k \in ChipTypes /\ k.tok = w.chip.tok /\ k.pend = pd /\ k.armed = FALSE
      /\ k.attached = w.chip.attached
  BY <1>1, <1>2, <1>3 DEF ChipTypes
<1>5. w.chip.tok.pid \in Pids /\ w.chip.tok.urb \in Urbs /\ w.chip.tok.room \in Int
  BY <1>1 DEF ChipTypes, TokInv
<1>6. b \in BusTypes
  <2>1. Acknowledge(w.chip.tok, r.n) \in [setup : BOOLEAN, data : Int, status : BOOLEAN]
    BY <1>1, <1>5, AcknowledgeType
  <2> QED
    BY <1>1, <1>5, <2>1 DEF BusTypes
<1>7. y = [w EXCEPT !.chip = k, !.bus = b]
  BY DEF Ends, Ended
<1> HIDE DEF k, b
<1>8. y \in Worlds /\ y.hc = w.hc /\ y.chip = k /\ y.core = w.core /\ y.oops = w.oops
  BY <1>1, <1>4, <1>6, <1>7 DEF Worlds
<1>9. TokInv(k) /\ SameLists(w.hc, w.hc)
  BY <1>1, <1>4 DEF TokInv, SameLists
<1>10. PortInv(w.hc, w.core, k)
  <2>1. ~Happens("plug") => Live(w.hc, w.chip) /\ w.core.closed = {}
    BY <1>1, <1>5 DEF PortInv, KeptInv, Pids
  <2>2. ~Happens("plug") => Live(w.hc, k)
    BY <1>2, <1>4, <2>1 DEF Live
  <2> QED
    BY <1>4, <1>5, <2>1, <2>2 DEF PortInv, Pids
<1> QED
  BY <1>1, <1>4, <1>8, <1>9, <1>10, GoodStays DEF KeptInv, MadeInv

(* ... so too one that slips by checkdone.                                 *)
LEMMA SlipsGood ==
    ASSUME DevOK, NEW w, NEW open, Good(w, open), ~w.oops, w.bus = bus, NEW x \in Slips(w)
    PROVE  /\ Good(x, open) /\ ~x.oops /\ x.hc = w.hc /\ x.core = w.core
           /\ x.chip.tok = w.chip.tok
<1>1. CASE x = w
  BY <1>1
<1>2. CASE x # w
  <2>1. w.chip.armed /\ w.chip.tok.pid # "SOF"
        /\ \E r \in Answers(w.chip.tok.pid) : x = Ends(w, r)
    BY <1>2 DEF Slips
  <2>2. PICK r \in Answers(w.chip.tok.pid) : x = Ends(w, r)
    BY <2>1
  <2>3. r \in [st : {"ack", "nak", "stall", "error"}, n : 0 .. MaxPacket]
    BY AnswerType
  <2> QED
    BY <2>1, <2>2, <2>3, EndsGood
<1> QED
  BY <1>1, <1>2

(* sl811h_irq as a whole.                                                  *)
LEMMA IrqGood ==
    ASSUME DevOK, Good(World, core.calls), ~oops,
           Happens("overtake") \/ core.calls = {}, Irq
    PROVE  \E y : Becomes(y) /\ Good(y, core.calls)
<1> DEFINE irqstat == chip.pend \cap hc.irqen
           read == Read(World)
           overdue == hc.active # None /\ hc.late
           open == core.calls
<1>1. PICK y \in IF irqstat # {} THEN IrqPass(read, irqstat)
                 ELSE UNION {IrqPass(CheckDone(x), IF overdue THEN {"DONE_A"} ELSE {}) :
                                 x \in Slips(read)} :
          Becomes(y)
  BY DEF Irq, Read
<1>2. /\ World.hc = hc /\ World.core = core /\ World.chip = chip /\ World.oops = oops
  BY DEF World
<1>3. open \in SUBSET Urbs /\ World.core.calls = open
  BY <1>2 DEF Good, Sane, Worlds, CoreTypes
<1>4. /\ Good(read, open) /\ ~read.oops /\ read.hc = hc /\ read.core = core
      /\ read.chip.pend = {} /\ read.chip.tok = chip.tok /\ read.chip.attached = chip.attached
      /\ read.bus = bus
  <2>1. read.bus = World.bus /\ World.bus = bus
    BY DEF Read, World
  <2> QED
    BY <1>2, <2>1, ReadGood
<1>5. ~Happens("plug") /\ "INSRMV" \in irqstat
        => chip.tok.pid = "none" /\ chip.attached /\ ~hc.timer /\ "DONE_A" \notin irqstat
  <2>1. PortInv(hc, core, chip)
    BY <1>2 DEF Good, KeptInv
  <2> QED
    BY <2>1 DEF PortInv, Idle, Live
<1> HIDE DEF irqstat, read, open, overdue
<1>6. CASE irqstat # {}
  <2>1. y \in IrqPass(read, irqstat)
    BY <1>1, <1>6
  <2>2. Good(y, open)
    BY <1>3, <1>4, <1>5, <2>1, IrqPassGood DEF open
  <2> QED
    BY <1>1, <2>2 DEF open
<1>7. CASE irqstat = {}
  <2> DEFINE st == IF overdue THEN {"DONE_A"} ELSE {}
  <2>1. PICK x \in Slips(read) : y \in IrqPass(CheckDone(x), st)
    BY <1>1, <1>7
  <2>2. Good(x, open) /\ ~x.oops
    BY <1>4, <2>1, SlipsGood
  <2> DEFINE z == CheckDone(x)
  <2>3. y \in IrqPass(z, st) /\ "INSRMV" \notin st
    BY <2>1
  <2>z. z = CheckDone(x)
    OBVIOUS
  <2> HIDE DEF z, st
  <2>4. Good(z, open) /\ ~z.oops
    BY <2>2, <2>z, CheckDoneGood
  <2>5. Good(y, open)
    BY <1>3, <2>3, <2>4, IrqPassGood DEF open
  <2> QED
    BY <1>1, <2>5 DEF open
<1> QED
  BY <1>6, <1>7

(* The driver's state and the chip are what changes.                       *)
Switched(w, g, k) == [w EXCEPT !.hc = g, !.chip = k]

(* A change of the port and the chip that leaves the schedules alone.      *)
LEMMA SwitchedGood ==
    ASSUME NEW w, NEW open, Good(w, open), ~w.oops, NEW g \in HcTypes, SameLists(g, w.hc),
           g.active = w.hc.active, g.nextp = w.hc.nextp, NEW k \in ChipTypes, TokInv(k),
           FramesInv(g), PortInv(g, w.core, k),
           Happens("plug") \/ (Enabled(g) => Enabled(w.hc)) \/ Sched(w.hc) = {}
    PROVE  Good(Switched(w, g, k), open) /\ ~Switched(w, g, k).oops
<1> DEFINE y == Switched(w, g, k)
<1>1. Sane(w) /\ w \in Worlds /\ MadeInv(w.hc)
  BY DEF Good, Sane
<1>2. y \in Worlds /\ y.hc = g /\ y.chip = k /\ y.core = w.core /\ y.oops = w.oops
  BY <1>1 DEF Worlds, Switched
<1>3. g.nextp \in Made(w.hc) \union {None}
  BY <1>1 DEF MadeInv
<1> HIDE DEF y
<1>4. Good(y, open)
  BY <1>2, <1>3, GoodStays
<1> QED
  BY <1>2, <1>4 DEF y

(* What is known where a handler or a request begins.                      *)
LEMMA WorldFacts ==
    ASSUME Good(World, core.calls), ~oops
    PROVE  /\ World.hc = hc /\ World.core = core /\ World.chip = chip /\ World.bus = bus
           /\ World.oops = oops /\ World \in Worlds /\ Sane(World)
           /\ hc \in HcTypes /\ core \in CoreTypes /\ chip \in ChipTypes /\ bus \in BusTypes
           /\ TokInv(chip) /\ MadeInv(hc) /\ FramesInv(hc) /\ PortInv(hc, core, chip)
           /\ core.calls \in SUBSET Urbs
           /\ KeptInv(World, core.calls, {}) /\ ActiveInv(hc, core, core.calls)
<1>1. /\ World.hc = hc /\ World.core = core /\ World.chip = chip /\ World.bus = bus
      /\ World.oops = oops
  BY DEF World
<1>2. World \in Worlds /\ Sane(World) /\ KeptInv(World, core.calls, {})
      /\ ActiveInv(hc, core, core.calls)
  BY <1>1 DEF Good, Sane
<1>3. hc \in HcTypes /\ core \in CoreTypes /\ chip \in ChipTypes /\ bus \in BusTypes
  BY <1>1, <1>2 DEF Worlds
<1> QED
  BY <1>1, <1>2, <1>3 DEF Sane, KeptInv, CoreTypes

(* Such a change as a step.                                                *)
LEMMA BecomesSwitched ==
    ASSUME NEW g, NEW k, World.bus = bus,
           hc' = g, chip' = k, UNCHANGED <<dev, core, bus, oops>>
    PROVE  Becomes(Switched(World, g, k))
BY DEF Becomes, Switched, World

(* How a port's state may change.                                          *)
LEMMA PortGood ==
    ASSUME Good(World, core.calls), ~oops, NEW g \in HcTypes, SameLists(g, hc),
           g.active = hc.active, g.nextp = hc.nextp, NEW k \in ChipTypes, TokInv(k),
           FramesInv(g),
           ~Happens("plug") /\ chip.tok.pid = "none" /\ k.tok.pid = "none" /\ Idle(hc, core, chip)
                => Idle(g, core, k),
           ~Happens("plug") /\ chip.tok.pid = "none" /\ k.tok.pid # "none" /\ Idle(hc, core, chip)
                => Live(g, k),
           ~Happens("plug") /\ chip.tok.pid # "none" /\ Live(hc, chip)
                => Live(g, k) /\ k.tok.pid # "none" /\ (Enabled(g) => Enabled(hc)),
           hc' = g, chip' = k, UNCHANGED <<dev, core, bus, oops>>
    PROVE  \E y : Becomes(y) /\ Good(y, core.calls)
<1> USE WorldFacts
<1>1. PortInv(g, core, k)
  BY DEF PortInv
<1>2. Happens("plug") \/ (Enabled(g) => Enabled(hc)) \/ Sched(hc) = {}
  BY DEF PortInv, Idle
<1>3. /\ SameLists(g, World.hc) /\ g.active = World.hc.active /\ g.nextp = World.hc.nextp
      /\ ~World.oops /\ PortInv(g, World.core, k)
      /\ Happens("plug") \/ (Enabled(g) => Enabled(World.hc)) \/ Sched(World.hc) = {}
  BY <1>1, <1>2
<1>4. Good(Switched(World, g, k), core.calls)
  BY <1>3, SwitchedGood
<1>5. Becomes(Switched(World, g, k))
  BY BecomesSwitched
<1> QED
  BY <1>4, <1>5

(* sl811h_timer ends a reset or a resume.                                  *)
LEMMA TimerGood ==
    ASSUME Good(World, core.calls), ~oops, Timer
    PROVE  \E y : Becomes(y) /\ Good(y, core.calls)
<1> DEFINE status == chip.pend \union (IF chip.attached THEN {} ELSE {"RD"})
           reset == "SE0" \in hc.ctrl1
           gone == "RD" \in status /\ ~(reset /\ "INSRMV" \in status)
           port == IF reset THEN {"C_RESET", "POWER"}
                   ELSE IF "K" \in hc.ctrl1 THEN hc.port \ {"SUSPEND"} ELSE hc.port
           mask == {"CONNECTION", "ENABLE"}
           ctrl == IF reset THEN {} ELSE hc.ctrl1 \ {"K"}
           lost == IF "CONNECTION" \in port THEN {"C_CONNECTION", "C_ENABLE"} ELSE {}
<1>1. /\ World.hc = hc /\ World.core = core /\ World.chip = chip /\ World.bus = bus
      /\ World.oops = oops
      /\ hc \in HcTypes /\ chip \in ChipTypes /\ TokInv(chip)
  BY WorldFacts
<1>2. port \in SUBSET Ports /\ lost \in SUBSET Ports /\ ctrl \in SUBSET {"SE0", "K", "SOF_ENA"}
  BY <1>1 DEF HcTypes, Ports, Changes
<1>3. hc.timer
  BY DEF Timer
<1>4. CASE gone
  <2> DEFINE P == (port \union lost) \ mask
             g == [hc EXCEPT !.timer = FALSE, !.port = P, !.irqen = {"INSRMV"}, !.ctrl1 = {}]
             k == [chip EXCEPT !.pend = {}]
  <2>1. hc' = g /\ chip' = k /\ UNCHANGED <<dev, core, bus, oops>>
    <3>1. Becomes([World EXCEPT
                      !.hc = [[hc EXCEPT !.timer = FALSE] EXCEPT
                                 !.port = P, !.irqen = {"INSRMV"}, !.ctrl1 = {}],
                      !.chip.pend = {}])
      BY <1>4 DEF Timer
    <3> HIDE DEF P
    <3> QED
      BY <1>1, <3>1 DEF Becomes, World
  <2>2. P \in SUBSET Ports /\ {"ENABLE", "CONNECTION"} \cap P = {}
    BY <1>2
  <2>3. ~("SUSPEND" \in hc.port /\ ("K" \in hc.ctrl1 \/ reset)) => "SUSPEND" \notin P \/ "SUSPEND" \in hc.port
    OBVIOUS
  <2>4. "K" \in hc.ctrl1 \/ "SUSPEND" \notin hc.port => "SUSPEND" \notin P
    OBVIOUS
  <2> HIDE DEF P
  <2>5. /\ g \in HcTypes /\ SameLists(g, hc) /\ g.active = hc.active /\ g.nextp = hc.nextp
        /\ g.irqen = {"INSRMV"} /\ g.ctrl1 = {} /\ g.port = P /\ g.timer = FALSE
        /\ g.running = hc.running
    BY <1>1, <2>2 DEF HcTypes, SameLists, Interrupts
  <2>6. /\ k \in ChipTypes /\ k.tok = chip.tok /\ k.pend = {} /\ k.armed = chip.armed
        /\ k.attached = chip.attached
    BY <1>1 DEF ChipTypes
  <2> HIDE DEF g, k, status
  <2>7. TokInv(k) /\ FramesInv(g)
    BY <1>1, <2>5, <2>6 DEF TokInv, FramesInv
  <2>8. Idle(hc, core, chip) => Idle(g, core, k)
    <3>1. Sched(g) = Sched(hc) /\ g.count = hc.count
      BY <2>5 DEF SameLists, Sched, Scheduled, InAsync
    <3> QED
      BY <2>2, <2>4, <2>5, <2>6, <3>1 DEF Idle
  <2>9. ~Happens("plug") /\ chip.tok.pid # "none" /\ Live(hc, chip)
          => Live(g, k) /\ k.tok.pid # "none" /\ (Enabled(g) => Enabled(hc))
    BY <1>3, <2>2, <2>4, <2>5, <2>6 DEF Live, Enabled
  <2> QED
    BY <2>1, <2>5, <2>6, <2>7, <2>8, <2>9, PortGood
<1>5. CASE ~gone
  <2> DEFINE P == port \union mask
             D == ctrl \union {"SOF_ENA"}
             g == [hc EXCEPT !.timer = FALSE, !.port = P, !.irqen = {"INSRMV", "RD", "DONE_A"},
                             !.ctrl1 = D]
             t == [pid |-> "SOF", urb |-> None, room |-> 0]
             k == [chip EXCEPT !.pend = {}, !.armed = TRUE, !.tok = t]
  <2>1. hc' = g /\ chip' = k /\ UNCHANGED <<dev, core, bus, oops>>
    <3>1. Becomes([World EXCEPT
                      !.hc = [[hc EXCEPT !.timer = FALSE] EXCEPT
                                 !.port = P, !.irqen = {"INSRMV", "RD", "DONE_A"}, !.ctrl1 = D],
                      !.chip = [@ EXCEPT !.pend = {}, !.armed = TRUE, !.tok = t]])
      BY <1>5 DEF Timer
    <3> HIDE DEF P, D, t
    <3> QED
      BY <1>1, <3>1 DEF Becomes, World
  <2>2. /\ P \in SUBSET Ports /\ {"ENABLE", "CONNECTION"} \subseteq P
        /\ D \in SUBSET {"SE0", "K", "SOF_ENA"}
    BY <1>2 DEF Ports
  <2>3. "SE0" \notin D
    OBVIOUS
  <2>4. "K" \in hc.ctrl1 \/ "SUSPEND" \notin hc.port => "SUSPEND" \notin P
    OBVIOUS
  <2>t. t \in [pid : Pids \union {"SOF", "none"}, urb : Urbs \union {None}, room : Int]
        /\ t.pid = "SOF"
    OBVIOUS
  <2>a. ~Happens("plug") /\ (Idle(hc, core, chip) \/ Live(hc, chip)) => chip.attached
    BY <1>3 DEF Idle, Live
  <2> HIDE DEF P, D, t
  <2>5. /\ g \in HcTypes /\ SameLists(g, hc) /\ g.active = hc.active /\ g.nextp = hc.nextp
        /\ g.ctrl1 = D /\ g.port = P /\ g.timer = FALSE
        /\ g.running = hc.running
    BY <1>1, <2>2 DEF HcTypes, SameLists, Interrupts
  <2>6. /\ k \in ChipTypes /\ k.tok = t /\ k.pend = {} /\ k.armed = TRUE
        /\ k.attached = chip.attached
    BY <1>1, <2>t DEF ChipTypes
  <2> HIDE DEF g, k, status
  <2>7. TokInv(k)
    BY <2>t, <2>6 DEF TokInv, Pids
  <2>8. FramesInv(g)
    <3> SUFFICES ASSUME ~Happens("plug"), ~Happens("suspend")
                 PROVE  ~(g.count > 0)
      BY DEF FramesInv
    <3>1. hc.count = 0
      BY <1>3, WorldFacts DEF PortInv, Live, Idle
    <3> QED
      BY <2>5, <3>1 DEF SameLists
  <2>9. ~Happens("plug") /\ Idle(hc, core, chip) => Live(g, k)
    BY <2>2, <2>3, <2>4, <2>5, <2>6, <2>a DEF Idle, Live
  <2>10. ~Happens("plug") /\ chip.tok.pid # "none" /\ Live(hc, chip)
          => Live(g, k) /\ k.tok.pid # "none" /\ (Enabled(g) => Enabled(hc))
    BY <1>3, <2>2, <2>3, <2>4, <2>5, <2>6, <2>t, <2>a DEF Live, Enabled
  <2> QED
    BY <2>1, <2>5, <2>6, <2>7, <2>8, <2>9, <2>10, <2>t, PortGood
<1> QED
  BY <1>4, <1>5

(* A change of port, interrupts, control register and timer.               *)
HubSet(h, P, I, D, t) == [h EXCEPT !.port = P, !.irqen = I, !.ctrl1 = D, !.timer = t]

(* The fields after such a change.                                         *)
LEMMA HubSetFacts ==
    ASSUME NEW h \in HcTypes, NEW P \in SUBSET Ports, NEW I \in SUBSET Interrupts,
           NEW D \in SUBSET {"SE0", "K", "SOF_ENA"}, NEW t \in BOOLEAN, NEW g, g = HubSet(h, P, I, D, t)
    PROVE  /\ g \in HcTypes /\ SameLists(g, h) /\ g.active = h.active /\ g.nextp = h.nextp
           /\ g.port = P /\ g.irqen = I /\ g.ctrl1 = D /\ g.timer = t /\ g.running = h.running
           /\ Sched(g) = Sched(h) /\ g.count = h.count
<1>1. /\ g \in HcTypes /\ SameLists(g, h) /\ g.active = h.active /\ g.nextp = h.nextp
      /\ g.port = P /\ g.irqen = I /\ g.ctrl1 = D /\ g.timer = t /\ g.running = h.running
  BY DEF HubSet, HcTypes, SameLists
<1>2. Sched(g) = Sched(h) /\ g.count = h.count
  BY <1>1 DEF SameLists, Sched, Scheduled, InAsync
<1> QED
  BY <1>1, <1>2

(* A request of the hub driver that makes such a change.                   *)
LEMMA HubGood ==
    ASSUME Good(World, core.calls), ~oops,
           NEW P \in SUBSET Ports, NEW I \in SUBSET Interrupts,
           NEW D \in SUBSET {"SE0", "K", "SOF_ENA"}, NEW t \in BOOLEAN, Hub(HubSet(hc, P, I, D, t)),
           FramesInv(HubSet(hc, P, I, D, t)),
           ~Happens("plug") /\ Idle(hc, core, chip) => Idle(HubSet(hc, P, I, D, t), core, chip),
           ~Happens("plug") /\ Live(hc, chip)
                => Live(HubSet(hc, P, I, D, t), chip) /\ ("ENABLE" \in P => "ENABLE" \in hc.port)
    PROVE  \E y : Becomes(y) /\ Good(y, core.calls)
<1> DEFINE g == HubSet(hc, P, I, D, t)
<1>g. g = HubSet(hc, P, I, D, t)
  OBVIOUS
<1> HIDE DEF g
<1>1. /\ hc \in HcTypes /\ chip \in ChipTypes /\ TokInv(chip)
  BY WorldFacts
<1>2. /\ g \in HcTypes /\ SameLists(g, hc) /\ g.active = hc.active /\ g.nextp = hc.nextp
      /\ g.port = P /\ g.running = hc.running
  BY <1>1, <1>g, HubSetFacts
<1>3. hc' = g /\ chip' = chip /\ UNCHANGED <<dev, core, bus, oops>>
  BY <1>g DEF Hub
<1>4. Live(hc, chip) /\ ~Happens("plug") => (Enabled(g) => Enabled(hc))
  BY <1>2 DEF Enabled
<1> QED
  BY <1>1, <1>2, <1>3, <1>4, <1>g, PortGood

(* ClearPortFeature of the change bits, ...                                *)
LEMMA ClearPortChangeGood ==
    ASSUME Good(World, core.calls), ~oops, ClearPortChange
    PROVE  \E y : Becomes(y) /\ Good(y, core.calls)
<1> DEFINE P == hc.port \ Changes
           g == HubSet(hc, P, hc.irqen, hc.ctrl1, hc.timer)
<1>1. hc \in HcTypes /\ FramesInv(hc)
  BY WorldFacts
<1>2. P \in SUBSET Ports /\ hc.irqen \in SUBSET Interrupts /\ hc.timer \in BOOLEAN
      /\ hc.ctrl1 \in SUBSET {"SE0", "K", "SOF_ENA"}
  BY <1>1 DEF HcTypes, Ports
<1>3. \A b \in {"ENABLE", "SUSPEND", "CONNECTION"} : b \in P <=> b \in hc.port
  BY DEF Changes
<1>4. Hub(g)
  <2>1. Hub([hc EXCEPT !.port = P])
    BY DEF ClearPortChange
  <2> HIDE DEF P
  <2>2. [hc EXCEPT !.port = P] = g
    BY <1>1 DEF HcTypes, HubSet
  <2> QED
    BY <2>1, <2>2
<1>g. g = HubSet(hc, P, hc.irqen, hc.ctrl1, hc.timer)
  OBVIOUS
<1> HIDE DEF P, g
<1>5. /\ g \in HcTypes /\ SameLists(g, hc) /\ g.active = hc.active
      /\ g.port = P /\ g.irqen = hc.irqen /\ g.ctrl1 = hc.ctrl1 /\ g.timer = hc.timer
      /\ g.running = hc.running /\ Sched(g) = Sched(hc) /\ g.count = hc.count
  BY <1>1, <1>2, <1>g, HubSetFacts
<1>6. FramesInv(g)
  BY <1>1, <1>5 DEF FramesInv
<1>7. Idle(hc, core, chip) => Idle(g, core, chip)
  BY <1>3, <1>5 DEF Idle
<1>8. Live(hc, chip) => Live(g, chip)
  BY <1>3, <1>5 DEF Live
<1> QED
  BY <1>2, <1>3, <1>4, <1>6, <1>7, <1>8, <1>g, HubGood

(* ... SetPortFeature(RESET) of a port that is connected and not yet       *)
(* enabled, ...                                                            *)
LEMMA SetPortResetGood ==
    ASSUME Good(World, core.calls), ~oops, SetPortReset, "CONNECTION" \in hc.port, ~hc.timer,
           Happens("plug") \/ "ENABLE" \notin hc.port
    PROVE  \E y : Becomes(y) /\ Good(y, core.calls)
<1> DEFINE on == "POWER" \in hc.port
           P == hc.port \union {"RESET"}
           I == IF on THEN {} ELSE hc.irqen
           D == IF on THEN {"SE0"} ELSE hc.ctrl1
           t == IF on THEN TRUE ELSE hc.timer
           g == HubSet(hc, P, I, D, t)
<1>1. hc \in HcTypes /\ FramesInv(hc)
  BY WorldFacts
<1>2. P \in SUBSET Ports /\ I \in SUBSET Interrupts /\ t \in BOOLEAN
      /\ D \in SUBSET {"SE0", "K", "SOF_ENA"}
  BY <1>1 DEF HcTypes, Ports
<1>3. \A b \in {"ENABLE", "SUSPEND", "CONNECTION"} : b \in P <=> b \in hc.port
  OBVIOUS
<1>4. Hub(g)
  <2>1. Hub(IF on THEN [hc EXCEPT !.irqen = {}, !.ctrl1 = {"SE0"}, !.timer = TRUE, !.port = P]
            ELSE [hc EXCEPT !.port = P])
    BY DEF SetPortReset
  <2> HIDE DEF P
  <2>2. CASE on
    <3>1. [hc EXCEPT !.irqen = {}, !.ctrl1 = {"SE0"}, !.timer = TRUE, !.port = P] = g
      BY <1>1, <2>2 DEF HcTypes, HubSet
    <3> QED
      BY <2>1, <2>2, <3>1
  <2>3. CASE ~on
    <3>1. [hc EXCEPT !.port = P] = g
      BY <1>1, <2>3 DEF HcTypes, HubSet
    <3> QED
      BY <2>1, <2>3, <3>1
  <2> QED
    BY <2>2, <2>3
<1>g. g = HubSet(hc, P, I, D, t)
  OBVIOUS
<1>i. /\ "DONE_A" \in I => I = hc.irqen
      /\ t => ("SE0" \in D)
  OBVIOUS
<1> HIDE DEF P, g, I, D, t, on
<1>5. /\ g \in HcTypes /\ SameLists(g, hc) /\ g.active = hc.active
      /\ g.port = P /\ g.irqen = I /\ g.ctrl1 = D /\ g.timer = t
      /\ g.running = hc.running /\ Sched(g) = Sched(hc) /\ g.count = hc.count
  BY <1>1, <1>2, <1>g, HubSetFacts
<1>6. FramesInv(g)
  BY <1>1, <1>5, <1>i DEF FramesInv
<1>7. Idle(hc, core, chip) => Idle(g, core, chip)
  BY <1>3, <1>5, <1>i DEF Idle
<1>8. ~Happens("plug") => ~Live(hc, chip)
  BY DEF Live
<1> QED
  BY <1>2, <1>3, <1>4, <1>6, <1>7, <1>8, <1>g, HubGood

(* ... ClearPortFeature(ENABLE), ...                                       *)
LEMMA ClearPortEnableGood ==
    ASSUME Good(World, core.calls), ~oops, ClearPortEnable, Happens("plug")
    PROVE  \E y : Becomes(y) /\ Good(y, core.calls)
<1> DEFINE P == hc.port \cap {"POWER"}
           g == HubSet(hc, P, {"INSRMV"}, {}, hc.timer)
<1>1. hc \in HcTypes
  BY WorldFacts
<1>2. P \in SUBSET Ports /\ {"INSRMV"} \in SUBSET Interrupts /\ hc.timer \in BOOLEAN
      /\ {} \in SUBSET {"SE0", "K", "SOF_ENA"}
  BY <1>1 DEF HcTypes, Ports, Interrupts
<1>4. Hub(g)
  <2>1. Hub([hc EXCEPT !.port = P, !.ctrl1 = {}, !.irqen = {"INSRMV"}])
    BY DEF ClearPortEnable
  <2> HIDE DEF P
  <2>2. [hc EXCEPT !.port = P, !.ctrl1 = {}, !.irqen = {"INSRMV"}] = g
    BY <1>1 DEF HcTypes, HubSet
  <2> QED
    BY <2>1, <2>2
<1> HIDE DEF P
<1>6. FramesInv(g)
  BY DEF FramesInv
<1> QED
  BY <1>2, <1>4, <1>6, HubGood

(* ... SetPortFeature(SUSPEND) ...                                         *)
LEMMA SetPortSuspendGood ==
    ASSUME Good(World, core.calls), ~oops, SetPortSuspend, Happens("suspend")
    PROVE  \E y : Becomes(y) /\ Good(y, core.calls)
<1> DEFINE P == hc.port \union {"SUSPEND"}
           D == hc.ctrl1 \ {"SOF_ENA"}
           g == HubSet(hc, P, hc.irqen, D, hc.timer)
<1>1. hc \in HcTypes
  BY WorldFacts
<1>2. P \in SUBSET Ports /\ hc.irqen \in SUBSET Interrupts /\ hc.timer \in BOOLEAN
      /\ D \in SUBSET {"SE0", "K", "SOF_ENA"}
  BY <1>1 DEF HcTypes, Ports
<1>3. "ENABLE" \in hc.port /\ "ENABLE" \in P /\ ("SE0" \in D => "SE0" \in hc.ctrl1)
      /\ ("K" \in hc.ctrl1 => "K" \in D)
  BY DEF SetPortSuspend
<1>4. Hub(g)
  <2>1. Hub([hc EXCEPT !.ctrl1 = D, !.port = P])
    BY DEF SetPortSuspend
  <2> HIDE DEF P, D
  <2>2. [hc EXCEPT !.ctrl1 = D, !.port = P] = g
    BY <1>1 DEF HcTypes, HubSet
  <2> QED
    BY <2>1, <2>2
<1>g. g = HubSet(hc, P, hc.irqen, D, hc.timer)
  OBVIOUS
<1> HIDE DEF P, g, D
<1>5. /\ g.port = P /\ g.ctrl1 = D /\ g.timer = hc.timer /\ g.running = hc.running
  BY <1>1, <1>2, <1>g, HubSetFacts
<1>6. FramesInv(g)
  BY DEF FramesInv
<1>7. ~Idle(hc, core, chip)
  BY <1>3 DEF Idle
<1>8. Live(hc, chip) => Live(g, chip)
  BY <1>3, <1>5 DEF Live
<1> QED
  BY <1>2, <1>3, <1>4, <1>6, <1>7, <1>8, <1>g, HubGood

(* ... and ClearPortFeature(SUSPEND).                                      *)
LEMMA ClearPortSuspendGood ==
    ASSUME Good(World, core.calls), ~oops, ClearPortSuspend, Happens("suspend")
    PROVE  \E y : Becomes(y) /\ Good(y, core.calls)
<1> DEFINE P == hc.port \ {"SUSPEND"}
           D == hc.ctrl1 \union {"K"}
           I == {}
           t == TRUE
           g == HubSet(hc, P, I, D, t)
<1>1. hc \in HcTypes
  BY WorldFacts
<1>2. P \in SUBSET Ports /\ I \in SUBSET Interrupts /\ t \in BOOLEAN
      /\ D \in SUBSET {"SE0", "K", "SOF_ENA"}
  BY <1>1 DEF HcTypes, Ports
<1>3. "SUSPEND" \in hc.port /\ ("ENABLE" \in hc.port <=> "ENABLE" \in P)
      /\ ("SE0" \in D => "SE0" \in hc.ctrl1) /\ "K" \in D /\ "SUSPEND" \notin P
  BY DEF ClearPortSuspend
<1>4. Hub(g)
  <2>1. Hub([hc EXCEPT !.irqen = {}, !.ctrl1 = D, !.timer = TRUE, !.port = P])
    BY DEF ClearPortSuspend
  <2> HIDE DEF P, D
  <2>2. [hc EXCEPT !.irqen = {}, !.ctrl1 = D, !.timer = TRUE, !.port = P] = g
    BY <1>1 DEF HcTypes, HubSet
  <2> QED
    BY <2>1, <2>2
<1>g. g = HubSet(hc, P, I, D, t)
  OBVIOUS
<1>t. t = TRUE
  OBVIOUS
<1> HIDE DEF P, g, D, I, t
<1>5. /\ g.port = P /\ g.ctrl1 = D /\ g.timer = t /\ g.running = hc.running
  BY <1>1, <1>2, <1>g, HubSetFacts
<1>6. FramesInv(g)
  BY DEF FramesInv
<1>7. ~Idle(hc, core, chip)
  BY <1>3 DEF Idle
<1>8. Live(hc, chip) => Live(g, chip)
  <2>1. Live(hc, chip) => "ENABLE" \in hc.port
    BY <1>3 DEF Live
  <2> QED
    BY <1>3, <1>5, <1>t, <2>1 DEF Live
<1> QED
  BY <1>2, <1>3, <1>4, <1>6, <1>7, <1>8, <1>g, HubGood

(* A change of port, interrupts and control register, and of whether the   *)
(* controller runs.                                                        *)
PowerSet(h, P, I, D, r) == [h EXCEPT !.port = P, !.irqen = I, !.ctrl1 = D, !.running = r]

(* The fields after such a change, ...                                     *)
LEMMA PowerSetFacts ==
    ASSUME NEW h \in HcTypes, NEW P \in SUBSET Ports, NEW I \in SUBSET Interrupts,
           NEW D \in SUBSET {"SE0", "K", "SOF_ENA"}, NEW r \in BOOLEAN, NEW g, g = PowerSet(h, P, I, D, r)
    PROVE  /\ g \in HcTypes /\ SameLists(g, h) /\ g.active = h.active /\ g.nextp = h.nextp
           /\ g.port = P /\ g.irqen = I /\ g.ctrl1 = D /\ g.timer = h.timer
           /\ Sched(g) = Sched(h) /\ g.count = h.count
<1>1. /\ g \in HcTypes /\ SameLists(g, h) /\ g.active = h.active /\ g.nextp = h.nextp
      /\ g.port = P /\ g.irqen = I /\ g.ctrl1 = D /\ g.timer = h.timer
  BY DEF PowerSet, HcTypes, SameLists
<1>2. Sched(g) = Sched(h) /\ g.count = h.count
  BY <1>1 DEF SameLists, Sched, Scheduled, InAsync
<1> QED
  BY <1>1, <1>2

(* ... and after port_power: all off, or all but the power and insertion   *)
(* interrupt.                                                              *)
LEMMA PortPowerFacts ==
    ASSUME NEW h \in HcTypes, NEW on \in BOOLEAN, NEW g, g = PortPower(h, on)
    PROVE  /\ g \in HcTypes /\ SameLists(g, h) /\ g.active = h.active /\ g.nextp = h.nextp
           /\ g.timer = h.timer /\ Sched(g) = Sched(h) /\ g.count = h.count
           /\ g.port \subseteq {"POWER"} /\ g.irqen \subseteq {"INSRMV"} /\ g.ctrl1 = {}
<1> DEFINE P == IF on THEN {"POWER"} ELSE {}
           I == IF on THEN {"INSRMV"} ELSE {}
           D == {}
           r == IF on THEN h.running ELSE FALSE
<1>1. /\ P \in SUBSET Ports /\ I \in SUBSET Interrupts
      /\ D \in SUBSET {"SE0", "K", "SOF_ENA"} /\ r \in BOOLEAN
  BY DEF Ports, Interrupts, HcTypes
<1>2. P \subseteq {"POWER"} /\ I \subseteq {"INSRMV"} /\ D = {}
  OBVIOUS
<1>3. g = PowerSet(h, P, I, D, r)
  <2>1. CASE on
    <3>1. h.running = r
      BY <2>1
    <3>2. g = [h EXCEPT !.port = P, !.irqen = I, !.ctrl1 = D]
      BY <2>1 DEF PortPower
    <3> HIDE DEF P, I, D, r
    <3> QED
      BY <3>1, <3>2 DEF PowerSet, HcTypes
  <2>2. CASE ~on
    <3>1. g = [h EXCEPT !.port = P, !.irqen = I, !.ctrl1 = D, !.running = r]
      BY <2>2 DEF PortPower
    <3> QED
      BY <3>1 DEF PowerSet
  <2> QED
    BY <2>1, <2>2
<1> HIDE DEF P, I, D, r
<1>4. /\ g \in HcTypes /\ SameLists(g, h) /\ g.active = h.active /\ g.nextp = h.nextp
      /\ g.port = P /\ g.irqen = I /\ g.ctrl1 = D /\ g.timer = h.timer
      /\ Sched(g) = Sched(h) /\ g.count = h.count
  BY <1>1, <1>3, PowerSetFacts
<1> QED
  BY <1>2, <1>4

(* port_power and what follows keep the invariant: no device is lost sight *)
(* of.                                                                     *)
LEMMA PoweredGood ==
    ASSUME Good(World, core.calls), ~oops, ~hc.timer, Happens("power"),
           NEW g \in HcTypes, Powered(g), SameLists(g, hc), g.active = hc.active,
           g.nextp = hc.nextp, g.timer = hc.timer, Sched(g) = Sched(hc), g.count = hc.count,
           g.port \subseteq {"POWER"}, g.irqen \subseteq {"INSRMV"}, g.ctrl1 = {}
    PROVE  \E y : Becomes(y) /\ Good(y, core.calls)
<1> DEFINE k == [chip EXCEPT !.pend = {}]
<1>1. hc \in HcTypes /\ FramesInv(hc) /\ chip \in ChipTypes /\ TokInv(chip)
  BY WorldFacts
<1>2. hc' = g /\ chip' = k /\ UNCHANGED <<dev, core, bus, oops>>
  BY DEF Powered
<1>3. /\ k \in ChipTypes /\ k.tok = chip.tok /\ k.armed = chip.armed
      /\ k.attached = chip.attached /\ k.pend = {}
  BY <1>1 DEF ChipTypes
<1> HIDE DEF k
<1>4. {"ENABLE", "SUSPEND", "CONNECTION"} \cap g.port = {} /\ "DONE_A" \notin g.irqen
  OBVIOUS
<1>5. Idle(hc, core, chip) => Idle(g, core, k)
  BY <1>3, <1>4 DEF Idle
<1>6. Live(hc, chip) => Live(g, k)
  BY <1>3, <1>4 DEF Live
<1>7. TokInv(k) /\ FramesInv(g) /\ ~Enabled(g)
  BY <1>1, <1>3, <1>4 DEF TokInv, FramesInv, Enabled
<1> QED
  BY <1>2, <1>3, <1>5, <1>6, <1>7, PortGood

(* SetPortFeature(POWER) and ClearPortFeature(POWER), ...                  *)
LEMMA SetPortPowerGood ==
    ASSUME Good(World, core.calls), ~oops, ~hc.timer, Happens("power"),
           NEW on \in BOOLEAN, SetPortPower(on)
    PROVE  \E y : Becomes(y) /\ Good(y, core.calls)
<1> DEFINE g == PortPower(hc, on)
<1>1. hc \in HcTypes /\ g = PortPower(hc, on) /\ Powered(g)
  BY WorldFacts DEF SetPortPower
<1> HIDE DEF g
<1>2. /\ g \in HcTypes /\ SameLists(g, hc) /\ g.active = hc.active /\ g.nextp = hc.nextp
      /\ g.timer = hc.timer /\ Sched(g) = Sched(hc) /\ g.count = hc.count
      /\ g.port \subseteq {"POWER"} /\ g.irqen \subseteq {"INSRMV"} /\ g.ctrl1 = {}
  BY <1>1, PortPowerFacts
<1> QED
  BY <1>1, <1>2, PoweredGood

(* ... the resume of the platform device ...                               *)
LEMMA ResumeGood ==
    ASSUME Good(World, core.calls), ~oops, ~hc.timer, Happens("power"), Resume
    PROVE  \E y : Becomes(y) /\ Good(y, core.calls)
<1> DEFINE P == {"POWER"}
           I == {"INSRMV"}
           D == {}
           g == PowerSet(hc, P, I, D, hc.running)
<1>1. hc \in HcTypes
  BY WorldFacts
<1>2. /\ P \in SUBSET Ports /\ I \in SUBSET Interrupts
      /\ D \in SUBSET {"SE0", "K", "SOF_ENA"} /\ hc.running \in BOOLEAN
  BY <1>1 DEF Ports, Interrupts, HcTypes
<1>3. Powered(g)
  <2>2. PortPower([hc EXCEPT !.port = {}], TRUE)
            = [[hc EXCEPT !.port = {}] EXCEPT !.port = P, !.irqen = I, !.ctrl1 = D]
    BY DEF PortPower
  <2>3. PortPower([hc EXCEPT !.port = {}], TRUE) = g
    <3> HIDE DEF P, I, D
    <3> QED
      BY <1>1, <2>2 DEF PowerSet, HcTypes
  <2> QED
    BY <2>3 DEF Resume
<1>4. P \subseteq {"POWER"} /\ I \subseteq {"INSRMV"} /\ D = {}
  OBVIOUS
<1>g. g = PowerSet(hc, P, I, D, hc.running)
  OBVIOUS
<1> HIDE DEF g, P, I, D
<1>5. /\ g \in HcTypes /\ SameLists(g, hc) /\ g.active = hc.active /\ g.nextp = hc.nextp
      /\ g.port = P /\ g.irqen = I /\ g.ctrl1 = D /\ g.timer = hc.timer
      /\ Sched(g) = Sched(hc) /\ g.count = hc.count
  BY <1>1, <1>2, <1>g, PowerSetFacts
<1> QED
  BY <1>3, <1>4, <1>5, PoweredGood

(* ... and so every request of the hub driver.                             *)
LEMMA HubDriverGood ==
    ASSUME Good(World, core.calls), ~oops, HubDriver
    PROVE  \E y : Becomes(y) /\ Good(y, core.calls)
<1>1. ~hc.timer
  BY DEF HubDriver
<1>2. \/ ClearPortChange
      \/ /\ "CONNECTION" \in hc.port /\ (Happens("plug") \/ "ENABLE" \notin hc.port) /\ SetPortReset
      \/ Happens("plug") /\ ClearPortEnable
      \/ Happens("suspend") /\ (SetPortSuspend \/ ClearPortSuspend)
      \/ Happens("power") /\ (Resume \/ \E on \in BOOLEAN : SetPortPower(on))
  BY DEF HubDriver, Happens
<1>3. CASE ClearPortChange
  BY <1>3, ClearPortChangeGood
<1>4. CASE "CONNECTION" \in hc.port /\ (Happens("plug") \/ "ENABLE" \notin hc.port) /\ SetPortReset
  BY <1>1, <1>4, SetPortResetGood
<1>5. CASE Happens("plug") /\ ClearPortEnable
  BY <1>5, ClearPortEnableGood
<1>6. CASE Happens("suspend") /\ SetPortSuspend
  BY <1>6, SetPortSuspendGood
<1>7. CASE Happens("suspend") /\ ClearPortSuspend
  BY <1>7, ClearPortSuspendGood
<1>8. CASE Happens("power") /\ Resume
  BY <1>1, <1>8, ResumeGood
<1>9. CASE Happens("power") /\ \E on \in BOOLEAN : SetPortPower(on)
  BY <1>1, <1>9, SetPortPowerGood
<1> QED
  BY <1>2, <1>3, <1>4, <1>5, <1>6, <1>7, <1>8, <1>9

(* What the chip and its device do leaves the driver and usbcore alone.    *)
LEMMA ChipGood ==
    ASSUME Good(World, core.calls), ~oops, NEW k \in ChipTypes, TokInv(k), NEW b \in BusTypes,
           ~Happens("plug") => IF k.tok.pid = "none" THEN Idle(hc, core, k) ELSE Live(hc, k),
           chip' = k, bus' = b, UNCHANGED <<dev, hc, core, oops>>
    PROVE  \E y : Becomes(y) /\ Good(y, core.calls)
<1> DEFINE y == [World EXCEPT !.chip = k, !.bus = b]
<1>1. /\ World.hc = hc /\ World.core = core /\ World.oops = oops /\ World \in Worlds
      /\ FramesInv(hc) /\ PortInv(hc, core, chip) /\ MadeInv(hc)
  BY WorldFacts
<1>2. y \in Worlds /\ y.hc = hc /\ y.chip = k /\ y.bus = b /\ y.core = core /\ y.oops = oops
  BY <1>1 DEF World, Worlds
<1> HIDE DEF y
<1>3. PortInv(y.hc, y.core, y.chip)
  BY <1>1, <1>2 DEF PortInv
<1>4. SameLists(hc, hc) /\ hc.nextp \in Made(hc) \union {None}
  BY <1>1 DEF SameLists, MadeInv
<1>5. /\ y.core = World.core /\ SameLists(y.hc, World.hc) /\ y.hc.active \in {World.hc.active, None}
      /\ y.hc.nextp \in Made(World.hc) \union {None} /\ FramesInv(y.hc) /\ ~World.oops /\ ~y.oops
      /\ TokInv(y.chip) /\ (Enabled(y.hc) => Enabled(World.hc))
  BY <1>1, <1>2, <1>4
<1>6. Good(y, core.calls)
  BY <1>2, <1>3, <1>5, GoodStays
<1>7. Becomes(y)
  BY <1>2 DEF Becomes
<1> QED
  BY <1>6, <1>7

(* A packet that ends, as a step of the chip.                              *)
LEMMA EndedFacts ==
    ASSUME Good(World, core.calls), ~oops, chip.armed,
           NEW r \in [st : {"ack", "nak", "stall", "error"}, n : 0 .. MaxPacket],
           NEW k, k = Ended(chip, r)
    PROVE  /\ k \in ChipTypes /\ TokInv(k)
           /\ ~Happens("plug") => IF k.tok.pid = "none" THEN Idle(hc, core, k) ELSE Live(hc, k)
<1>1. chip \in ChipTypes /\ TokInv(chip) /\ PortInv(hc, core, chip)
  BY WorldFacts
<1> DEFINE pd == chip.pend \union {"DONE_A"}
<1>2. pd \in SUBSET Interrupts /\ \A b \in {"INSRMV", "RD"} : b \in pd <=> b \in chip.pend
  BY <1>1 DEF ChipTypes, Interrupts
<1>3. k = [chip EXCEPT !.armed = FALSE, !.res = r, !.pend = pd]
  BY DEF Ended
<1> HIDE DEF pd
<1>4. /\ k \in ChipTypes /\ k.tok = chip.tok /\ k.pend = pd /\ k.armed = FALSE
      /\ k.attached = chip.attached
  BY <1>1, <1>2, <1>3 DEF ChipTypes
<1>5. TokInv(k)
  BY <1>1, <1>4 DEF TokInv
<1>6. chip.tok.pid # "none"
  BY <1>1 DEF TokInv
<1>7. ~Happens("plug") => Live(hc, k)
  <2>1. ~Happens("plug") => Live(hc, chip)
    BY <1>1, <1>6 DEF PortInv
  <2> QED
    BY <1>2, <1>4, <2>1 DEF Live
<1> QED
  BY <1>4, <1>5, <1>6, <1>7

(* What a packet that ends changes.                                        *)
LEMMA AnsweredIs ==
    ASSUME NEW r, Answered(r)
    PROVE  /\ chip' = Ended(chip, r) /\ UNCHANGED <<dev, hc, core, oops>>
           /\ bus' = IF r.st = "ack"
                     THEN [bus EXCEPT ![chip.tok.urb] = Acknowledge(chip.tok, r.n)] ELSE bus
           /\ chip.armed /\ chip.tok.pid # "SOF"
<1> DEFINE k == Ended(chip, r)
           b == IF r.st = "ack"
                THEN [bus EXCEPT ![chip.tok.urb] = Acknowledge(chip.tok, r.n)] ELSE bus
           y == Ends(World, r)
<1>1. y = [World EXCEPT !.chip = k, !.bus = b]
  BY DEF Ends, Ended, World
<1> HIDE DEF k, b
<1>2. y.hc = hc /\ y.core = core /\ y.chip = k /\ y.bus = b /\ y.oops = oops
  BY <1>1 DEF World
<1>3. Becomes(y) /\ chip.armed /\ chip.tok.pid # "SOF"
  BY DEF Answered
<1> HIDE DEF y
<1> QED
  BY <1>2, <1>3 DEF Becomes, k, b

(* The device answers, ...                                                 *)
LEMMA AnswerGood ==
    ASSUME DevOK, Good(World, core.calls), ~oops, Answer
    PROVE  \E y : Becomes(y) /\ Good(y, core.calls)
<1>1. PICK r \in Answers(chip.tok.pid) : Answered(r)
  BY DEF Answer
<1>2. r \in [st : {"ack", "nak", "stall", "error"}, n : 0 .. MaxPacket]
  BY AnswerType
<1>3. World.chip = chip /\ World.bus = bus /\ World.oops = oops
  BY WorldFacts
<1>4. chip.armed /\ chip.tok.pid # "SOF" /\ Becomes(Ends(World, r))
  BY <1>1 DEF Answered
<1>5. Good(Ends(World, r), core.calls)
  BY <1>2, <1>3, <1>4, EndsGood
<1> QED
  BY <1>4, <1>5

(* ... a frame starts and kicks the packet off, ...                        *)
LEMMA KickedGood ==
    ASSUME Good(World, core.calls), ~oops, Kicked
    PROVE  \E y : Becomes(y) /\ Good(y, core.calls)
<1> DEFINE r == [st |-> "ack", n |-> 0]
           k == Ended(chip, r)
<1>1. r \in [st : {"ack", "nak", "stall", "error"}, n : 0 .. MaxPacket]
  BY Sl811Assumption
<1>3. chip' = k /\ bus' = bus /\ UNCHANGED <<dev, hc, core, oops>> /\ chip.armed
  BY DEF Kicked, Ended
<1>k. k = Ended(chip, r)
  OBVIOUS
<1> HIDE DEF k, r
<1>7. /\ k \in ChipTypes /\ TokInv(k)
      /\ ~Happens("plug") => IF k.tok.pid = "none" THEN Idle(hc, core, k) ELSE Live(hc, k)
  BY <1>1, <1>3, <1>k, EndedFacts
<1>8. bus \in BusTypes
  BY WorldFacts
<1> QED
  BY <1>3, <1>7, <1>8, ChipGood

(* Interrupts become pending, or are lost, and something is plugged in.    *)
LEMMA PendGood ==
    ASSUME Good(World, core.calls), ~oops, NEW pd \in SUBSET Interrupts, NEW a \in BOOLEAN,
           chip' = [chip EXCEPT !.pend = pd, !.attached = a], UNCHANGED <<dev, hc, core, bus, oops>>,
           NEW k, k = [chip EXCEPT !.pend = pd, !.attached = a],
           ~Happens("plug") /\ Idle(hc, core, chip) => Idle(hc, core, k),
           ~Happens("plug") /\ Live(hc, chip) => Live(hc, k)
    PROVE  \E y : Becomes(y) /\ Good(y, core.calls)
<1>1. chip \in ChipTypes /\ TokInv(chip) /\ bus \in BusTypes /\ PortInv(hc, core, chip)
  BY WorldFacts
<1>2. k \in ChipTypes /\ k.tok = chip.tok /\ k.armed = chip.armed
  BY <1>1 DEF ChipTypes
<1>3. TokInv(k)
  BY <1>1, <1>2 DEF TokInv
<1>4. ~Happens("plug") => IF k.tok.pid = "none" THEN Idle(hc, core, k) ELSE Live(hc, k)
  BY <1>1, <1>2 DEF PortInv
<1>5. chip' = k /\ bus' = bus
  OBVIOUS
<1> QED
  BY <1>1, <1>2, <1>3, <1>4, <1>5, ChipGood

(* ... a frame passes, ...                                                 *)
LEMMA FrameGood ==
    ASSUME Good(World, core.calls), ~oops, Frame
    PROVE  \E y : Becomes(y) /\ Good(y, core.calls)
<1> DEFINE pd == chip.pend \union {"SOFINTR"}
           k == [chip EXCEPT !.pend = pd, !.attached = chip.attached]
<1>1. chip \in ChipTypes
  BY WorldFacts
<1>2. pd \in SUBSET Interrupts /\ chip.attached \in BOOLEAN
      /\ \A b \in {"INSRMV", "RD", "DONE_A"} : b \in pd <=> b \in chip.pend
  BY <1>1 DEF ChipTypes, Interrupts
<1>3. chip' = k /\ UNCHANGED <<dev, hc, core, bus, oops>>
  <2>1. chip' = [chip EXCEPT !.pend = pd] /\ UNCHANGED <<dev, hc, core, bus, oops>>
    BY DEF Frame, Pends
  <2> HIDE DEF pd
  <2> QED
    BY <1>1, <2>1 DEF ChipTypes
<1>k. k = [chip EXCEPT !.pend = pd, !.attached = chip.attached]
  OBVIOUS
<1> HIDE DEF k, pd
<1>4. k.pend = pd /\ k.attached = chip.attached /\ k.tok = chip.tok
  BY <1>1, <1>k DEF ChipTypes
<1>5. Idle(hc, core, chip) => Idle(hc, core, k)
  BY <1>2, <1>4 DEF Idle
<1>6. Live(hc, chip) => Live(hc, k)
  BY <1>2, <1>4 DEF Live
<1> QED
  BY <1>2, <1>3, <1>5, <1>6, <1>k, PendGood

(* ... the device signals a resume, ...                                    *)
LEMMA RemoteWakeupGood ==
    ASSUME Good(World, core.calls), ~oops, RemoteWakeup
    PROVE  \E y : Becomes(y) /\ Good(y, core.calls)
<1> DEFINE pd == chip.pend \union {"RD"}
           k == [chip EXCEPT !.pend = pd, !.attached = chip.attached]
<1>1. chip \in ChipTypes
  BY WorldFacts
<1>2. pd \in SUBSET Interrupts /\ chip.attached \in BOOLEAN
      /\ \A b \in {"INSRMV", "DONE_A"} : b \in pd <=> b \in chip.pend
  BY <1>1 DEF ChipTypes, Interrupts
<1>3. chip' = k /\ UNCHANGED <<dev, hc, core, bus, oops>>
  <2>1. chip' = [chip EXCEPT !.pend = pd] /\ UNCHANGED <<dev, hc, core, bus, oops>>
    BY DEF RemoteWakeup, Pends
  <2> HIDE DEF pd
  <2> QED
    BY <1>1, <2>1 DEF ChipTypes
<1>k. k = [chip EXCEPT !.pend = pd, !.attached = chip.attached]
  OBVIOUS
<1> HIDE DEF k, pd
<1>4. k.pend = pd /\ k.attached = chip.attached /\ k.tok = chip.tok
  BY <1>1, <1>k DEF ChipTypes
<1>5. ~Idle(hc, core, chip)
  BY DEF Idle, RemoteWakeup
<1>6. Live(hc, chip) => Live(hc, k)
  BY <1>2, <1>4 DEF Live, RemoteWakeup
<1> QED
  BY <1>2, <1>3, <1>5, <1>6, <1>k, PendGood

(* ... comes or goes, ...                                                  *)
LEMMA PlugGood ==
    ASSUME Good(World, core.calls), ~oops, Plug
    PROVE  \E y : Becomes(y) /\ Good(y, core.calls)
<1> DEFINE pd == chip.pend \union {"INSRMV"}
           a == ~chip.attached
           k == [chip EXCEPT !.pend = pd, !.attached = a]
<1>1. chip \in ChipTypes
  BY WorldFacts
<1>2. pd \in SUBSET Interrupts /\ a \in BOOLEAN
      /\ \A b \in {"RD", "DONE_A"} : b \in pd <=> b \in chip.pend
  BY <1>1 DEF ChipTypes, Interrupts
<1>3. chip' = k /\ UNCHANGED <<dev, hc, core, bus, oops>>
  <2>1. chip' = [chip EXCEPT !.attached = a, !.pend = pd] /\ UNCHANGED <<dev, hc, core, bus, oops>>
    BY DEF Plug
  <2> HIDE DEF pd, a
  <2> QED
    BY <1>1, <2>1 DEF ChipTypes
<1>k. k = [chip EXCEPT !.pend = pd, !.attached = a]
  OBVIOUS
<1>a. ~Happens("plug") => ~chip.attached /\ a
  BY DEF Plug, Happens
<1> HIDE DEF k, pd, a
<1>4. k.pend = pd /\ k.attached = a /\ k.tok = chip.tok
  BY <1>1, <1>k DEF ChipTypes
<1>5. ~Happens("plug") /\ Idle(hc, core, chip) => Idle(hc, core, k)
  BY <1>2, <1>4, <1>a DEF Idle
<1>6. ~Happens("plug") => ~Live(hc, chip)
  BY <1>a DEF Live
<1> QED
  BY <1>2, <1>3, <1>5, <1>6, <1>k, PendGood

(* ... the chip loses the interrupt of a packet ...                        *)
LEMMA LoseDoneGood ==
    ASSUME Good(World, core.calls), ~oops, LoseDone
    PROVE  \E y : Becomes(y) /\ Good(y, core.calls)
<1> DEFINE pd == chip.pend \ {"DONE_A"}
           k == [chip EXCEPT !.pend = pd, !.attached = chip.attached]
<1>1. chip \in ChipTypes
  BY WorldFacts
<1>2. pd \in SUBSET Interrupts /\ chip.attached \in BOOLEAN
      /\ ("INSRMV" \in pd <=> "INSRMV" \in chip.pend)
      /\ ("RD" \in pd <=> "RD" \in chip.pend)
      /\ "DONE_A" \notin pd
  BY <1>1 DEF ChipTypes, Interrupts
<1>3. chip' = k /\ UNCHANGED <<dev, hc, core, bus, oops>>
  <2>1. chip' = [chip EXCEPT !.pend = pd] /\ UNCHANGED <<dev, hc, core, bus, oops>>
    BY DEF LoseDone
  <2> HIDE DEF pd
  <2> QED
    BY <1>1, <2>1 DEF ChipTypes
<1>k. k = [chip EXCEPT !.pend = pd, !.attached = chip.attached]
  OBVIOUS
<1> HIDE DEF k, pd
<1>4. k.pend = pd /\ k.attached = chip.attached /\ k.tok = chip.tok
  BY <1>1, <1>k DEF ChipTypes
<1>5. Idle(hc, core, chip) => Idle(hc, core, k)
  BY <1>2, <1>4 DEF Idle
<1>6. Live(hc, chip) => Live(hc, k)
  BY <1>2, <1>4 DEF Live
<1> QED
  BY <1>2, <1>3, <1>5, <1>6, <1>k, PendGood

(* ... or a packet is overdue: ...                                         *)
LEMMA OverdueGood ==
    ASSUME Good(World, core.calls), ~oops, Overdue
    PROVE  \E y : Becomes(y) /\ Good(y, core.calls)
<1> DEFINE t == TRUE
           g == [hc EXCEPT !.late = t]
<1>1. hc \in HcTypes /\ chip \in ChipTypes /\ TokInv(chip) /\ FramesInv(hc)
  BY WorldFacts
<1>2. hc' = g /\ chip' = chip /\ UNCHANGED <<dev, core, bus, oops>>
  BY DEF Overdue
<1>3. t \in BOOLEAN
  OBVIOUS
<1> HIDE DEF t
<1>4. /\ g \in HcTypes /\ SameLists(g, hc) /\ g.active = hc.active /\ g.nextp = hc.nextp
      /\ SamePort(g, hc) /\ g.irqen = hc.irqen /\ g.count = hc.count
  BY <1>1, <1>3 DEF HcTypes, SameLists, SamePort
<1> HIDE DEF g
<1>5. Sched(g) = Sched(hc)
  BY <1>4 DEF SameLists, Sched, Scheduled, InAsync
<1>6. Idle(hc, core, chip) => Idle(g, core, chip)
  BY <1>4, <1>5 DEF Idle, SamePort
<1>7. Live(hc, chip) => Live(g, chip)
  BY <1>4 DEF Live, SamePort
<1>8. FramesInv(g) /\ (Enabled(g) => Enabled(hc))
  BY <1>1, <1>4 DEF FramesInv, Enabled, SamePort
<1> QED
  BY <1>1, <1>2, <1>4, <1>6, <1>7, <1>8, PortGood

(* ... all that the chip and the device do.                                *)
LEMMA ChipStepGood ==
    ASSUME DevOK, Good(World, core.calls), ~oops, Chip
    PROVE  \E y : Becomes(y) /\ Good(y, core.calls)
<1>1. CASE Answer
  BY <1>1, AnswerGood
<1>2. CASE Kicked
  BY <1>2, KickedGood
<1>3. CASE Frame
  BY <1>3, FrameGood
<1>4. CASE RemoteWakeup
  BY <1>4, RemoteWakeupGood
<1>5. CASE Plug
  BY <1>5, PlugGood
<1>6. CASE LoseDone
  BY <1>6, LoseDoneGood
<1>7. CASE Overdue
  BY <1>7, OverdueGood
<1> QED
  BY <1>1, <1>2, <1>3, <1>4, <1>5, <1>6, <1>7 DEF Chip

(* usbcore's record of who is between the halves of a submission.          *)
Calling(w, C) == [w EXCEPT !.core.calls = C]

(* That record changes nothing for the driver.                             *)
LEMMA CallingFacts ==
    ASSUME NEW w, Sane(w), NEW open, NEW C \in SUBSET Urbs,
           KeptInv(w, open, {}), Happens("plug") \/ w.chip.tok.pid # "none" \/ C = {},
           NEW y, y = Calling(w, C)
    PROVE  /\ Sane(y) /\ KeptInv(y, open, {}) /\ y.hc = w.hc /\ y.chip = w.chip /\ y.bus = w.bus
           /\ y.oops = w.oops /\ y.core.calls = C /\ y.core.q = w.core.q
           /\ y.core.status = w.core.status /\ y.core.closed = w.core.closed
           /\ ActiveInv(w.hc, w.core, open) => ActiveInv(y.hc, y.core, open)
<1> DEFINE c == [w.core EXCEPT !.calls = C]
<1>1. w \in Worlds /\ w.core \in CoreTypes
  BY DEF Sane, Worlds
<1>2. /\ c \in CoreTypes /\ c.calls = C /\ c.q = w.core.q /\ c.status = w.core.status
      /\ c.closed = w.core.closed
  BY <1>1 DEF CoreTypes
<1>3. y = [w EXCEPT !.core = c]
  BY DEF Calling
<1> HIDE DEF c
<1>4. /\ y \in Worlds /\ y.core = c /\ y.hc = w.hc /\ y.chip = w.chip /\ y.bus = w.bus
      /\ y.oops = w.oops
  BY <1>1, <1>2, <1>3 DEF Worlds
<1>5. Sane(y)
  BY <1>4 DEF Sane
<1>6. QueuesInv(c) /\ OpenInv(c, open)
  BY <1>2 DEF KeptInv, QueuesInv, OpenInv, Queued
<1>7. ServedInv(w.hc, c, open) /\ BusyInv(w.hc, c, open, {})
  BY <1>2 DEF KeptInv, ServedInv, BusyInv, HasTaken
<1>8. PortInv(w.hc, c, w.chip)
  <2>1. PortInv(w.hc, w.core, w.chip)
    BY DEF KeptInv
  <2>2. C = {} /\ Idle(w.hc, w.core, w.chip) => Idle(w.hc, c, w.chip)
    BY <1>2 DEF Idle
  <2> QED
    BY <1>2, <2>1, <2>2 DEF PortInv
<1>9. ActiveInv(w.hc, w.core, open) => ActiveInv(w.hc, c, open)
  BY <1>2 DEF ActiveInv
<1> QED
  BY <1>2, <1>4, <1>5, <1>6, <1>7, <1>8, <1>9 DEF KeptInv

(* At most one process is between the two halves of a submission.          *)
Single(C) == \A x, y \in C : x = y

(* A step to a world where all is well.                                    *)
SubmitTo(y) == Becomes(y) /\ \E open : Good(y, open) /\ Single(open)

(* The first half of usb_submit_urb: the URB is linked, the lock is not    *)
(* held, ...                                                               *)
LEMMA SubmitGood ==
    ASSUME DevOK, Good(World, core.calls), ~oops, NEW u \in Urbs, Submit(u)
    PROVE  \E y : SubmitTo(y)
<1> DEFINE z == Link(World, u)
           one == {u}
           y == Calling(z, one)
           none == {}
<1>1. /\ chip.tok.pid # "none" /\ ~Queued(core, u) /\ core.calls = {} /\ Becomes(y)
  BY DEF Submit, Calling
<1>2. /\ World.hc = hc /\ World.core = core /\ World.chip = chip /\ World.oops = oops
      /\ World \in Worlds /\ Sane(World)
      /\ KeptInv(World, core.calls, {}) /\ ActiveInv(hc, core, core.calls)
  BY WorldFacts
<1>z. z = Link(World, u)
  OBVIOUS
<1>y. y = Calling(z, one)
  OBVIOUS
<1>n. none \in SUBSET Urbs /\ none = core.calls /\ none \union {u} = one /\ one \in SUBSET Urbs
      /\ Single(one)
  BY <1>1 DEF Single
<1> HIDE DEF y, z, none, one
<1>3. KeptInv(World, none, {}) /\ ActiveInv(World.hc, World.core, none)
  BY <1>2, <1>n
<1>4. /\ KeptInv(z, none \union {u}, {}) /\ Queued(z.core, u)
      /\ ActiveInv(z.hc, z.core, none \union {u})
  BY <1>1, <1>2, <1>3, <1>n, <1>z, LinkKeeps
<1>5. Sane(z) /\ z.chip = World.chip /\ z.oops = World.oops
  BY <1>2, <1>z, LinkFacts
<1>t. KeptInv(z, one, {}) /\ ActiveInv(z.hc, z.core, one) /\ z.chip.tok.pid # "none"
  BY <1>1, <1>2, <1>4, <1>5, <1>n
<1>6. /\ Sane(y) /\ KeptInv(y, one, {}) /\ y.oops = z.oops /\ y.core.calls = one
      /\ ActiveInv(y.hc, y.core, one)
  BY <1>5, <1>n, <1>t, <1>y, CallingFacts
<1>7. Good(y, one)
  BY <1>2, <1>5, <1>6 DEF Good
<1> QED
  BY <1>1, <1>7, <1>n DEF SubmitTo

(* An URB given back before urb_enqueue was called for it.                 *)
LEMMA AcceptSane ==
    ASSUME DevOK, NEW w, Sane(w), NEW open, KeptInv(w, open, {}), NEW u \in Urbs,
           NEW y \in Accept(w, u)
    PROVE  Sane(y) /\ SameBut(y, w) /\ EpOf(u) \in Made(y.hc)
<1> DEFINE v == Allocate(w, u)
<1>1. y \in Schedule(v, EpOf(u))
  BY DEF Accept
<1>v. v = Allocate(w, u)
  OBVIOUS
<1> HIDE DEF v
<1>2. Sane(v) /\ SameBut(v, w) /\ EpOf(u) \in Made(v.hc)
  BY <1>v, AllocateKeeps
<1>3. Sane(y) /\ SameBut(y, v) /\ y.hc.pid = v.hc.pid
  BY <1>1, <1>2, ScheduleFacts
<1> QED
  BY <1>2, <1>3 DEF SameBut, Made

(* ... an URB given back twice is an oops, ...                             *)
LEMMA AbsentGivenBack ==
    ASSUME DevOK, NEW w, Sane(w), ~w.oops, NEW u \in Urbs, EpOf(u) \in Made(w.hc),
           ~Queued(w.core, u), NEW y \in FinishRequest(w, EpOf(u), u, "ok")
    PROVE  Sane(y) /\ y.oops /\ y.core.calls = w.core.calls
<1> DEFINE e == EpOf(u)
           z == Finished(w, e, u, "ok")
<1>1. y \in UNION {IF x.oops THEN {x} ELSE {Deschedule(x, e)} : x \in Giveback(z, u)}
  BY Zenon DEF FinishRequest, Finished, Then
<1>z. z = Finished(w, e, u, "ok") /\ "ok" \in Statuses
  BY DEF Statuses
<1> HIDE DEF z
<1>2. FinishedAs(z, w, e, u, "ok")
  BY <1>z, FinishedFacts
<1>3. Sane(z) /\ z.core.q = w.core.q /\ z.core.calls = w.core.calls
  BY <1>2 DEF FinishedAs
<1>4. Giveback(z, u) = {Oops(z)}
  BY <1>3 DEF Giveback, Queued
<1>5. Oops(z).oops /\ Sane(Oops(z)) /\ Oops(z).core = z.core
  BY <1>3 DEF Oops, Sane, Worlds
<1> QED
  BY <1>1, <1>3, <1>4, <1>5

(* ... the second half where the URB is still linked, ...                  *)
LEMMA LinkedGood ==
    ASSUME DevOK, NEW w, Sane(w), ~w.oops, NEW none, none = {}, NEW u \in Urbs,
           KeptInv(w, none \union {u}, {}), ActiveInv(w.hc, w.core, none \union {u}),
           w.core.calls = {}, NEW y \in EnqueueLinked(w, u)
    PROVE  Good(y, none)
<1>n. none \in SUBSET Urbs /\ u \notin none /\ (Happens("overtake") \/ none = {})
  OBVIOUS
<1>q. Queued(w.core, u) \/ (Happens("overtake") /\ w.core.status[u] # "busy")
  BY DEF KeptInv, OpenInv
<1>1. CASE Accept(w, u) = {}
  <2>1. y = Reject(w, u)
    BY <1>1 DEF EnqueueLinked, Enqueue
  <2>2. Rejected(y, w, u, none, {})
    BY <1>1, <1>n, <2>1, RejectKeeps
  <2>3. /\ Sane(y) /\ KeptInv(y, none, {}) /\ y.oops = w.oops /\ y.core.calls = w.core.calls
        /\ ActiveInv(y.hc, y.core, none)
    BY <2>2 DEF Rejected
  <2> QED
    BY <2>3 DEF Good
<1>2. CASE w.core.status[u] = "busy"
  <2>1. y \in Enqueue(w, u) /\ Queued(w.core, u)
    BY <1>2, <1>q DEF EnqueueLinked
  <2>2. Enqueued(y, w, u, none, {})
    BY <1>n, <2>1, EnqueueKeeps
  <2>3. /\ Sane(y) /\ KeptInv(y, none, {}) /\ ~y.oops /\ y.core.calls = w.core.calls
        /\ ActiveInv(y.hc, y.core, none)
    BY <2>2 DEF Enqueued
  <2> QED
    BY <2>3 DEF Good
<1>3. CASE Accept(w, u) # {} /\ w.core.status[u] # "busy"
  <2>1. y \in UNION {IF x.oops THEN {x} ELSE FinishRequest(x, EpOf(u), u, "ok") : x \in Accept(w, u)}
    BY <1>3, Zenon DEF EnqueueLinked, Then
  <2>2. PICK x \in Accept(w, u) : y \in IF x.oops THEN {x} ELSE FinishRequest(x, EpOf(u), u, "ok")
    BY <2>1
  <2>3. Sane(x) /\ SameBut(x, w) /\ EpOf(u) \in Made(x.hc)
    BY AcceptSane
  <2>4. y \in FinishRequest(x, EpOf(u), u, "ok") /\ ~x.oops /\ x.core = w.core
    BY <2>2, <2>3 DEF SameBut
  <2>5. CASE ~Queued(w.core, u)
    <3>1. Sane(y) /\ y.oops /\ y.core.calls = x.core.calls
      BY <2>3, <2>4, <2>5, AbsentGivenBack
    <3> QED
      BY <1>q, <2>4, <2>5, <3>1 DEF Good
  <2>6. CASE Queued(w.core, u)
    <3>1. KeptInv(x, none, {}) /\ x.hc.active = w.hc.active
      BY ZenonT(60), <1>n, <2>6, AcceptKeeps
    <3>2. "ok" \in Statuses /\ "ok" # "busy"
      BY DEF Statuses
    <3>3. Finishing(y, x, u, none)
      BY <1>n, <2>3, <2>4, <2>6, <3>1, <3>2, FinishKeeps
    <3>4. /\ Sane(y) /\ y.core.calls = x.core.calls
          /\ y.oops => Happens("overtake")
          /\ ~y.oops => /\ KeptInv(y, none, {})
                        /\ ActiveInv(x.hc, x.core, none)
                           /\ (x.hc.active = None \/ Head(x.core.q[x.hc.active]) # u)
                             => ActiveInv(y.hc, y.core, none)
      BY <3>3 DEF Finishing
    <3>5. ~y.oops => ActiveInv(y.hc, y.core, none)
      <4>1. CASE Happens("overtake")
        BY <4>1 DEF ActiveInv
      <4>2. CASE ~Happens("overtake")
        <5>1. /\ ActiveInv(x.hc, x.core, none)
              /\ (x.hc.active = None \/ Head(x.core.q[x.hc.active]) # u)
          BY <2>4, <3>1, <4>2 DEF ActiveInv
        <5> QED
          BY <3>4, <5>1
      <4> QED
        BY <4>1, <4>2
    <3> QED
      BY <2>4, <3>4, <3>5 DEF Good
  <2> QED
    BY <2>5, <2>6
<1> QED
  BY <1>1, <1>2, <1>3

(* ... and wherever it finds the URB.                                      *)
LEMMA UrbEnqueueGood ==
    ASSUME DevOK, Good(World, core.calls), ~oops, Single(core.calls), NEW u \in Urbs, UrbEnqueue(u)
    PROVE  \E y : SubmitTo(y)
<1> DEFINE w == Calling(World, {})
           none == {}
<1>1. PICK y \in EnqueueLinked(w, u) : Becomes(y)
  BY DEF UrbEnqueue, Calling
<1>2. /\ World.oops = oops /\ Sane(World) /\ World.hc = hc /\ World.core = core
      /\ KeptInv(World, core.calls, {}) /\ ActiveInv(hc, core, core.calls)
  BY WorldFacts
<1>3. core.calls = none \union {u} /\ none = {} /\ none \in SUBSET Urbs
  BY DEF Single, UrbEnqueue
<1>w. w = Calling(World, none)
  OBVIOUS
<1> HIDE DEF w, none
<1>4. KeptInv(World, none \union {u}, {}) /\ ActiveInv(World.hc, World.core, none \union {u})
  BY <1>2, <1>3
<1>5. /\ Sane(w) /\ KeptInv(w, none \union {u}, {}) /\ w.oops = World.oops /\ w.core.calls = none
      /\ ActiveInv(w.hc, w.core, none \union {u})
  BY <1>2, <1>3, <1>4, <1>w, CallingFacts
<1>6. Good(y, none)
  BY <1>1, <1>2, <1>3, <1>5, LinkedGood
<1> QED
  BY <1>1, <1>3, <1>6 DEF SubmitTo, Single

(* Unlinking an URB changes statuses, to others than "busy".               *)
LEMMA UnlinkedGood ==
    ASSUME DevOK, NEW w, NEW open, Good(w, open), ~w.oops, NEW c \in CoreTypes,
           c.q = w.core.q, c.calls = w.core.calls, c.closed = w.core.closed \/ Happens("plug"),
           \A x \in Urbs : c.status[x] = w.core.status[x] \/ c.status[x] # "busy",
           Happens("plug") \/ Happens("race") \/ Happens("overtake")
                \/ \A x \in open : c.status[x] = w.core.status[x],
           NEW y, y = [w EXCEPT !.core = c]
    PROVE  Good(y, open)
<1>1. /\ Sane(w) /\ w \in Worlds /\ w.core.calls = open /\ KeptInv(w, open, {})
      /\ ActiveInv(w.hc, w.core, open) /\ w.core \in CoreTypes
  BY DEF Good, Sane, Worlds
<1>2. y \in Worlds /\ y.core = c /\ y.hc = w.hc /\ y.chip = w.chip /\ y.oops = w.oops
  BY <1>1 DEF Worlds
<1>3. Sane(y)
  BY <1>1, <1>2 DEF Sane
<1>4. open \in SUBSET Urbs
  BY <1>1 DEF CoreTypes
<1>5. QueuesInv(c) /\ OpenInv(c, open)
  <2>1. QueuesInv(w.core) /\ OpenInv(w.core, open)
    BY <1>1 DEF KeptInv
  <2>2. \A x : Queued(c, x) <=> Queued(w.core, x)
    BY DEF Queued
  <2>3. QueuesInv(c)
    BY <2>1 DEF QueuesInv
  <2>4. \A x \in open : w.core.status[x] # "busy" => c.status[x] # "busy"
    BY <1>4
  <2>5. \A x \in open : Queued(c, x) \/ (Happens("overtake") /\ c.status[x] # "busy")
    BY <2>1, <2>2, <2>4 DEF OpenInv
  <2>6. ~Happens("plug") /\ ~Happens("race") /\ ~Happens("overtake")
            => \A x \in open : c.status[x] = "busy"
    BY <2>1 DEF OpenInv
  <2> QED
    BY <2>3, <2>5, <2>6 DEF OpenInv
<1>6. ServedInv(w.hc, c, open) /\ BusyInv(w.hc, c, open, {})
  BY <1>1 DEF KeptInv, ServedInv, BusyInv, HasTaken
<1>7. PortInv(w.hc, c, w.chip)
  <2>1. PortInv(w.hc, w.core, w.chip)
    BY <1>1 DEF KeptInv
  <2>2. Idle(w.hc, w.core, w.chip) => Idle(w.hc, c, w.chip)
    BY DEF Idle
  <2> QED
    BY <2>1, <2>2 DEF PortInv
<1>8. ActiveInv(w.hc, c, open)
  BY <1>1 DEF ActiveInv
<1> QED
  BY <1>1, <1>2, <1>3, <1>5, <1>6, <1>7, <1>8 DEF Good, KeptInv

(* usb_unlink_urb, ...                                                     *)
LEMMA UnlinkGood ==
    ASSUME DevOK, Good(World, core.calls), ~oops, NEW u \in Urbs, Unlink(u)
    PROVE  \E y : Becomes(y) /\ Good(y, core.calls)
<1> DEFINE S == [core.status EXCEPT ![u] = "unlinked"]
           c == [core EXCEPT !.status = S]
           y == [World EXCEPT !.core = c]
<1>1. /\ World.hc = hc /\ World.core = core /\ World.chip = chip /\ World.bus = bus
      /\ World.oops = oops /\ core \in CoreTypes /\ core.calls \in SUBSET Urbs
  BY WorldFacts
<1>2. /\ S \in [Urbs -> Statuses] /\ S[u] = "unlinked"
      /\ \A x \in Urbs : x # u => S[x] = core.status[x]
  BY <1>1 DEF CoreTypes, Statuses
<1>3. core' = c /\ UNCHANGED <<dev, hc, chip, bus, oops>>
  BY DEF Unlink
<1>r. Happens("race") \/ u \notin core.calls
  BY DEF Unlink, Happens
<1> HIDE DEF S
<1>4. /\ c \in CoreTypes /\ c.q = core.q /\ c.calls = core.calls /\ c.closed = core.closed
      /\ c.status = S
  BY <1>1, <1>2 DEF CoreTypes
<1>y. y = [World EXCEPT !.core = c]
  OBVIOUS
<1> HIDE DEF c
<1>5. Becomes(y)
  BY <1>3 DEF Becomes, World
<1> HIDE DEF y
<1>6. /\ \A x \in Urbs : c.status[x] = World.core.status[x] \/ c.status[x] # "busy"
      /\ \/ Happens("plug") \/ Happens("race") \/ Happens("overtake")
         \/ \A x \in core.calls : c.status[x] = World.core.status[x]
  BY <1>1, <1>2, <1>4, <1>r
<1>7. /\ c.q = World.core.q /\ c.calls = World.core.calls /\ c.closed = World.core.closed
      /\ ~World.oops
  BY <1>1, <1>4
<1>8. Good(y, core.calls)
  BY <1>4, <1>6, <1>7, <1>y, UnlinkedGood
<1> QED
  BY <1>5, <1>8

(* ... the close of an endpoint by its driver ...                          *)
LEMMA CloseGood ==
    ASSUME DevOK, Good(World, core.calls), ~oops, NEW e \in Ep, Close(e)
    PROVE  \E y : Becomes(y) /\ Good(y, core.calls)
<1> DEFINE S == [u \in Urbs |-> IF EpOf(u) = e /\ Queued(core, u) /\ core.status[u] = "busy"
                                THEN "unlinked" ELSE core.status[u]]
           L == core.closed \union {e}
           c == [core EXCEPT !.closed = L, !.status = S]
           y == [World EXCEPT !.core = c]
<1>1. /\ World.hc = hc /\ World.core = core /\ World.chip = chip /\ World.bus = bus
      /\ World.oops = oops /\ core \in CoreTypes /\ core.calls \in SUBSET Urbs
  BY WorldFacts
<1>2. /\ S \in [Urbs -> Statuses] /\ L \in SUBSET Ep
      /\ \A x \in Urbs : S[x] = core.status[x] \/ S[x] # "busy"
  BY <1>1 DEF CoreTypes, Statuses
<1>3. core' = c /\ UNCHANGED <<dev, hc, chip, bus, oops>> /\ Happens("plug")
  BY DEF Close, Happens
<1> HIDE DEF S, L
<1>4. c \in CoreTypes /\ c.q = core.q /\ c.calls = core.calls /\ c.status = S
  BY <1>1, <1>2 DEF CoreTypes
<1>y. y = [World EXCEPT !.core = c]
  OBVIOUS
<1> HIDE DEF c
<1>5. Becomes(y)
  BY <1>3 DEF Becomes, World
<1> HIDE DEF y
<1>6. \A x \in Urbs : c.status[x] = World.core.status[x] \/ c.status[x] # "busy"
  BY <1>1, <1>2, <1>4
<1>7. /\ c.q = World.core.q /\ c.calls = World.core.calls /\ ~World.oops
  BY <1>1, <1>4
<1>8. Good(y, core.calls)
  BY <1>3, <1>4, <1>6, <1>7, <1>y, UnlinkedGood
<1> QED
  BY <1>5, <1>8

(* The world in which usbcore and the driver drop an endpoint.             *)
Dropped(w, A, L, o) == [w EXCEPT !.hc = [@ EXCEPT !.alloc = A], !.core = [@ EXCEPT !.closed = L],
                                 !.oops = o]

(* ... and the endpoint's fields after it was dropped.                     *)
LEMMA DroppedFacts ==
    ASSUME NEW w \in Worlds, NEW A \in [Ep -> BOOLEAN], NEW L \in SUBSET Ep, NEW o \in BOOLEAN,
           NEW y, y = Dropped(w, A, L, o)
    PROVE  /\ y \in Worlds /\ y.chip = w.chip /\ y.bus = w.bus /\ y.oops = o
           /\ y.core.q = w.core.q /\ y.core.calls = w.core.calls /\ y.core.status = w.core.status
           /\ y.hc.alloc = A /\ y.hc.pid = w.hc.pid /\ y.hc.active = w.hc.active
           /\ y.hc.nextp = w.hc.nextp /\ y.hc.async = w.hc.async /\ y.hc.nexta = w.hc.nexta
           /\ y.hc.periodic = w.hc.periodic /\ y.hc.next = w.hc.next /\ y.hc.branch = w.hc.branch
           /\ y.hc.count = w.hc.count /\ y.hc.irqen = w.hc.irqen
<1> DEFINE g == [w.hc EXCEPT !.alloc = A]
           c == [w.core EXCEPT !.closed = L]
<1>1. w.hc \in HcTypes /\ w.core \in CoreTypes
  BY DEF Worlds
<1>2. /\ g \in HcTypes /\ g.alloc = A /\ g.pid = w.hc.pid /\ g.active = w.hc.active
      /\ g.nextp = w.hc.nextp /\ g.async = w.hc.async /\ g.nexta = w.hc.nexta
      /\ g.periodic = w.hc.periodic /\ g.next = w.hc.next /\ g.branch = w.hc.branch
      /\ g.count = w.hc.count /\ g.irqen = w.hc.irqen
  BY <1>1 DEF HcTypes
<1>3. /\ c \in CoreTypes /\ c.q = w.core.q /\ c.calls = w.core.calls /\ c.status = w.core.status
  BY <1>1 DEF CoreTypes
<1>4. y = [w EXCEPT !.hc = g, !.core = c, !.oops = o]
  BY DEF Dropped
<1> HIDE DEF g, c
<1>5. /\ y \in Worlds /\ y.chip = w.chip /\ y.bus = w.bus /\ y.oops = o /\ y.hc = g /\ y.core = c
  BY <1>2, <1>3, <1>4 DEF Worlds
<1> QED
  BY <1>2, <1>3, <1>5

(* endpoint_disable frees an endpoint without URBs, and not one in use.    *)
LEMMA EndpointDisableGood ==
    ASSUME DevOK, Good(World, core.calls), ~oops, NEW e \in Ep, EndpointDisable(e)
    PROVE  \E y : Becomes(y) /\ Good(y, core.calls)
<1> DEFINE A == [hc.alloc EXCEPT ![e] = FALSE]
           L == core.closed \ {e}
           o == Scheduled(hc, e) \/ hc.active = e
           y == Dropped(World, A, L, o)
           open == core.calls
<1>1. /\ World.hc = hc /\ World.core = core /\ World.chip = chip /\ World.bus = bus
      /\ World.oops = oops /\ World \in Worlds /\ Sane(World) /\ TokInv(chip) /\ MadeInv(hc)
      /\ core \in CoreTypes /\ hc \in HcTypes
      /\ PortInv(hc, core, chip) /\ KeptInv(World, open, {}) /\ ActiveInv(hc, core, open)
  BY WorldFacts
<1>2. Happens("plug")
  BY <1>1 DEF EndpointDisable, PortInv
<1>3. /\ A \in [Ep -> BOOLEAN] /\ A[e] = FALSE /\ \A x \in Ep : x # e => A[x] = hc.alloc[x]
      /\ L \in SUBSET Ep
  BY <1>1 DEF HcTypes, CoreTypes
<1>4. o \in BOOLEAN
  <2>1. \A x : InAsync(hc, x) \in BOOLEAN
    BY DEF InAsync, OnList
  <2> QED
    BY <2>1 DEF Scheduled
<1>5. Becomes(y)
  <2>1. Becomes([World EXCEPT !.core.closed = @ \ {e}, !.hc.alloc[e] = FALSE,
                              !.oops = Scheduled(hc, e) \/ hc.active = e])
    BY DEF EndpointDisable
  <2>2. [World EXCEPT !.core.closed = @ \ {e}, !.hc.alloc[e] = FALSE,
                      !.oops = Scheduled(hc, e) \/ hc.active = e] = y
    BY <1>1 DEF Dropped, World
  <2> QED
    BY <2>1, <2>2
<1>o. ~o => ~Scheduled(hc, e)
  OBVIOUS
<1>y. y = Dropped(World, A, L, o)
  OBVIOUS
<1> HIDE DEF y, A, L, o
<1>6. /\ y \in Worlds /\ y.chip = chip /\ y.bus = bus /\ y.oops = o
      /\ y.core.q = core.q /\ y.core.calls = open /\ y.core.status = core.status
      /\ y.hc.alloc = A /\ y.hc.pid = hc.pid /\ y.hc.active = hc.active
      /\ y.hc.nextp = hc.nextp /\ y.hc.async = hc.async /\ y.hc.nexta = hc.nexta
      /\ y.hc.periodic = hc.periodic /\ y.hc.next = hc.next /\ y.hc.branch = hc.branch
      /\ y.hc.count = hc.count /\ y.hc.irqen = hc.irqen
  <2>1. /\ y \in Worlds /\ y.chip = World.chip /\ y.bus = World.bus /\ y.oops = o
        /\ y.core.q = World.core.q /\ y.core.calls = World.core.calls
        /\ y.core.status = World.core.status
        /\ y.hc.alloc = A /\ y.hc.pid = World.hc.pid /\ y.hc.active = World.hc.active
        /\ y.hc.nextp = World.hc.nextp /\ y.hc.async = World.hc.async
        /\ y.hc.nexta = World.hc.nexta /\ y.hc.periodic = World.hc.periodic
        /\ y.hc.next = World.hc.next /\ y.hc.branch = World.hc.branch
        /\ y.hc.count = World.hc.count /\ y.hc.irqen = World.hc.irqen
    BY <1>1, <1>3, <1>4, <1>y, DroppedFacts
  <2> QED
    BY <1>1, <2>1
<1>7. Made(y.hc) = Made(hc) /\ Sched(y.hc) = Sched(hc) /\ \A x : InAsync(y.hc, x) <=> InAsync(hc, x)
  BY <1>6 DEF Made, Sched, Scheduled, InAsync
<1>8. Sane(y)
  <2>1. MadeInv(y.hc)
    BY <1>1, <1>3, <1>6, <1>7 DEF MadeInv
  <2>2. ListsInv(y.hc)
    BY <1>1, <1>6, <1>7 DEF Sane, ListsInv
  <2> QED
    BY <1>1, <1>6, <2>1, <2>2 DEF Sane
<1>9. ASSUME ~o PROVE KeptInv(y, open, {}) /\ ActiveInv(y.hc, y.core, open)
  <2>1. QueuesInv(y.core) /\ OpenInv(y.core, open)
    BY <1>1, <1>6 DEF KeptInv, QueuesInv, OpenInv, Queued
  <2>2. AllocInv(y.hc)
    <3>1. \A x \in Sched(hc) : x # e /\ x \in Ep
      BY <1>9, <1>o DEF Sched
    <3> QED
      BY <1>1, <1>2, <1>3, <1>6, <1>7, <3>1 DEF KeptInv, AllocInv
  <2>3. ServedInv(y.hc, y.core, open) /\ BusyInv(y.hc, y.core, open, {})
    BY <1>1, <1>2, <1>6, <1>7 DEF KeptInv, ServedInv, BusyInv, HasTaken
  <2>4. FramesInv(y.hc) /\ PortInv(y.hc, y.core, y.chip)
    BY <1>2 DEF FramesInv, PortInv
  <2>5. ActiveInv(y.hc, y.core, open)
    BY <1>1, <1>6 DEF ActiveInv
  <2> QED
    BY <2>1, <2>2, <2>3, <2>4, <2>5 DEF KeptInv
<1>10. Good(y, open)
  BY <1>2, <1>6, <1>8, <1>9 DEF Good
<1> QED
  BY <1>5, <1>10

(* What is said of a world is about the device, which stays the same.      *)
LEMMA DeviceStays ==
    ASSUME dev' = dev, NEW y, NEW open, Good(y, open)
    PROVE  Good(y, open)'
<1>1. Urbs' = Urbs
  BY DEF Urbs
<1>2. \A u : EpOf(u)' = EpOf(u)
  BY DEF EpOf
<1>3. \A e : Type(e)' = Type(e)
  BY DEF Type
<1>4. \A event : Happens(event)' <=> Happens(event)
  BY DEF Happens
<1>5. Worlds' = Worlds
  BY <1>1 DEF Worlds, CoreTypes, ChipTypes, BusTypes
<1>6. \A h : ListsInv(h)' <=> ListsInv(h)
  BY <1>3 DEF ListsInv
<1>7. \A k : TokInv(k)' <=> TokInv(k)
  BY <1>1 DEF TokInv
<1>8. Sane(y)'
  BY <1>5, <1>6, <1>7 DEF Good, Sane
<1>9. \A c : QueuesInv(c)' <=> QueuesInv(c)
  BY <1>2 DEF QueuesInv
<1>10. \A c, u : Queued(c, u)' <=> Queued(c, u)
  BY <1>2 DEF Queued
<1>11. \A c, o : OpenInv(c, o)' <=> OpenInv(c, o)
  BY <1>4, <1>10 DEF OpenInv
<1>12. \A h : AllocInv(h)' <=> AllocInv(h)
  BY <1>4 DEF AllocInv
<1>13. \A c, e, o : HasTaken(c, e, o)' <=> HasTaken(c, e, o)
  BY <1>1 DEF HasTaken
<1>14. \A h, c, o : ServedInv(h, c, o)' <=> ServedInv(h, c, o)
  BY <1>13 DEF ServedInv
<1>15. \A h, c, o, x : BusyInv(h, c, o, x)' <=> BusyInv(h, c, o, x)
  BY <1>4, <1>13 DEF BusyInv
<1>16. \A h : FramesInv(h)' <=> FramesInv(h)
  BY <1>4 DEF FramesInv
<1>17. \A h, c, k : Idle(h, c, k)' <=> Idle(h, c, k)
  BY <1>4 DEF Idle
<1>18. \A h, k : Live(h, k)' <=> Live(h, k)
  BY <1>4 DEF Live
<1>19. \A h, c, k : PortInv(h, c, k)' <=> PortInv(h, c, k)
  BY <1>4, <1>17, <1>18 DEF PortInv
<1>20. KeptInv(y, open, {}) => KeptInv(y, open, {})'
  BY <1>9, <1>11, <1>12, <1>14, <1>15, <1>16, <1>19 DEF KeptInv
<1>21. ActiveInv(y.hc, y.core, open) => ActiveInv(y.hc, y.core, open)'
  BY <1>4 DEF ActiveInv
<1> QED
  BY <1>4, <1>8, <1>20, <1>21 DEF Good

(* The inductive invariant: all is well with the world that each handler   *)
(* leaves behind - the lists, endpoints and types are sane whatever went   *)
(* wrong; unless a freed endpoint was used, which takes an interrupt that  *)
(* overtakes a submission or an unplugged device, the schedules agree with *)
(* the queues, the port is in a state the hub driver brought it to, and the*)
(* packet under way is of an URB that urb_enqueue took - and one process at*)
(* most is between the two halves of usb_submit_urb.                       *)
SlInv == DevOK /\ Good(World, core.calls) /\ Single(core.calls)

(* The next world is the one a step is said to lead to.                    *)
LEMMA BecomesWorld ==
    ASSUME NEW y \in Worlds, Becomes(y)
    PROVE  World' = y /\ dev' = dev /\ core'.calls = y.core.calls
BY DEF Becomes, World, Worlds

(* A step to a world where all is well keeps the invariant.                *)
LEMMA StepTo ==
    ASSUME DevOK, NEW y, NEW open, Becomes(y), Good(y, open), Single(open)
    PROVE  SlInv'
<1>1. y \in Worlds /\ y.core.calls = open
  BY DEF Good, Sane
<1>2. World' = y /\ dev' = dev /\ core'.calls = open
  BY <1>1, BecomesWorld
<1>3. Good(y, open)'
  BY <1>2, DeviceStays
<1>4. Single(open)'
  BY DEF Single
<1>5. DevOK'
  BY <1>2 DEF DevOK
<1> QED
  BY <1>2, <1>3, <1>4, <1>5 DEF SlInv

(* Nothing is on an empty list.                                            *)
LEMMA EmptyLists ==
    ASSUME NEW S, NEW x
    PROVE  ~OnList(<<>>, x) /\ Distinct(<<>>) /\ <<>> \in Seq(S)
BY DEF OnList, Distinct

(* The device of a behaviour stays the same.                               *)
LEMMA NextDevice == ASSUME Next PROVE dev' = dev
<1>1. ASSUME NEW u \in Urbs, Submit(u) \/ UrbEnqueue(u) \/ Unlink(u) PROVE dev' = dev
  BY <1>1 DEF Submit, UrbEnqueue, Unlink, Becomes
<1>2. ASSUME NEW e \in Ep, Close(e) \/ EndpointDisable(e) PROVE dev' = dev
  BY <1>2 DEF Close, EndpointDisable, Becomes
<1>3. CASE Irq
  BY <1>3 DEF Irq, Becomes
<1>4. CASE Timer
  BY <1>4 DEF Timer, Becomes
<1>5. CASE HubDriver
  BY <1>5 DEF HubDriver, ClearPortChange, SetPortReset, ClearPortEnable, SetPortSuspend,
              ClearPortSuspend, SetPortPower, Resume, Hub, Powered
<1>6. CASE Chip
  BY <1>6 DEF Chip, Answer, Answered, Becomes, Kicked, Frame, RemoteWakeup, Pends, Plug, LoseDone, Overdue
<1> QED
  BY <1>1, <1>2, <1>3, <1>4, <1>5, <1>6 DEF Next, Driver

(* The invariant holds initially, ...                                      *)
LEMMA InitGood == ASSUME Init PROVE SlInv
<1>1. DevOK
  BY DEF Init, DevOK
<1>2. PeriodicSize \in Nat /\ PeriodicSize >= 2
  BY Sl811ScheduleAssumption
<1>3. hc \in HcTypes
  <2>1. 0 \in 0 .. PeriodicSize - 2 /\ PeriodicSize \in 0 .. PeriodicSize /\ 0 \in 0 .. 2
    BY <1>2
  <2> QED
    BY <2>1, EmptyLists DEF Init, HcTypes, Pointer, Ports, Interrupts
<1>4. core \in CoreTypes /\ chip \in ChipTypes /\ bus \in BusTypes
  <2>1. core \in CoreTypes
    BY EmptyLists DEF Init, CoreTypes, Statuses
  <2>2. chip \in ChipTypes
    BY Sl811Assumption DEF Init, ChipTypes, NoToken
  <2>3. bus \in BusTypes
    BY DEF Init, BusTypes, Bare
  <2> QED
    BY <2>1, <2>2, <2>3
<1>5. /\ World \in Worlds /\ World.hc = hc /\ World.core = core /\ World.chip = chip
      /\ World.oops = FALSE
  BY <1>3, <1>4 DEF Init, World, Worlds
<1>6. /\ hc.async = <<>> /\ hc.nexta = None /\ hc.active = None /\ hc.nextp = None /\ hc.count = 0
      /\ hc.alloc = [e \in Ep |-> FALSE] /\ hc.branch = [e \in Ep |-> PeriodicSize]
      /\ hc.periodic = [i \in Slots |-> None] /\ hc.next = [e \in Ep |-> None]
      /\ hc.port = {"POWER"} /\ hc.running = TRUE /\ hc.timer = FALSE
  BY DEF Init
<1>7. /\ core.q = [e \in Ep |-> <<>>] /\ core.calls = {} /\ core.closed = {}
      /\ chip.armed = FALSE /\ chip.tok.pid = "none" /\ chip.pend = {}
  BY DEF Init, NoToken
<1>8. /\ \A x : ~InAsync(hc, x)
      /\ Sched(hc) = {}
  <2>1. \A x : ~InAsync(hc, x)
    BY <1>6, EmptyLists DEF InAsync
  <2> QED
    BY <1>2, <1>6, <2>1 DEF Sched, Scheduled
<1>9. MadeInv(hc) /\ ListsInv(hc) /\ TokInv(chip)
  <2>1. MadeInv(hc)
    BY <1>6, EmptyLists DEF MadeInv
  <2>2. ListsInv(hc)
    BY <1>2, <1>6, <1>8, EmptyLists DEF ListsInv
  <2>3. TokInv(chip)
    BY <1>7 DEF TokInv, Pids
  <2> QED
    BY <2>1, <2>2, <2>3
<1>10. QueuesInv(core) /\ OpenInv(core, {}) /\ ServedInv(hc, core, {}) /\ BusyInv(hc, core, {}, {})
  <2>1. \A e \in Ep : core.q[e] = <<>>
    BY <1>7
  <2>2. QueuesInv(core) /\ OpenInv(core, {})
    BY <2>1, EmptyLists DEF QueuesInv, OpenInv
  <2>3. \A e \in Ep : ~HasTaken(core, e, {})
    BY <2>1, EmptyLists DEF HasTaken
  <2> QED
    BY <1>8, <2>2, <2>3 DEF ServedInv, BusyInv
<1>11. AllocInv(hc) /\ FramesInv(hc)
  <2>1. Made(hc) = {}
    BY DEF Init, Made
  <2> QED
    BY <1>6, <1>8, <2>1 DEF AllocInv, FramesInv
<1>12. PortInv(hc, core, chip)
  <2>1. Idle(hc, core, chip)
    BY <1>6, <1>7, <1>8 DEF Idle
  <2> QED
    BY <1>7, <2>1 DEF PortInv
<1>13. ActiveInv(hc, core, {})
  BY <1>6 DEF ActiveInv
<1>14. Good(World, core.calls)
  BY <1>5, <1>7, <1>9, <1>10, <1>11, <1>12, <1>13 DEF Good, Sane, KeptInv
<1> QED
  BY <1>1, <1>7, <1>14 DEF SlInv, Single

(* ... and every step keeps it.                                            *)
LEMMA StepGood == ASSUME SlInv, [Next]_vars PROVE SlInv'
<1>1. DevOK /\ Good(World, core.calls) /\ Single(core.calls)
  BY DEF SlInv
<1>2. CASE UNCHANGED vars
  <2>1. Becomes(World)
    BY <1>2 DEF Becomes, World, vars
  <2> QED
    BY <1>1, <2>1, StepTo
<1>3. CASE Next
  <2>1. ~oops
    BY <1>3 DEF Next
  <2>2. ASSUME NEW u \in Urbs, Submit(u) PROVE SlInv'
    BY <1>1, <2>1, <2>2, SubmitGood, StepTo DEF SubmitTo
  <2>3. ASSUME NEW u \in Urbs, UrbEnqueue(u) PROVE SlInv'
    BY <1>1, <2>1, <2>3, UrbEnqueueGood, StepTo DEF SubmitTo
  <2>4. ASSUME NEW u \in Urbs, Unlink(u) PROVE SlInv'
    BY <1>1, <2>1, <2>4, UnlinkGood, StepTo
  <2>5. ASSUME NEW e \in Ep, Close(e) PROVE SlInv'
    BY <1>1, <2>1, <2>5, CloseGood, StepTo
  <2>6. ASSUME NEW e \in Ep, EndpointDisable(e) PROVE SlInv'
    BY <1>1, <2>1, <2>6, EndpointDisableGood, StepTo
  <2>7. ASSUME Irq, Happens("overtake") \/ core.calls = {} PROVE SlInv'
    BY <1>1, <2>1, <2>7, IrqGood, StepTo
  <2>8. CASE Timer
    BY <1>1, <2>1, <2>8, TimerGood, StepTo
  <2>9. CASE HubDriver
    BY <1>1, <2>1, <2>9, HubDriverGood, StepTo
  <2>10. CASE Chip
    BY <1>1, <2>1, <2>10, ChipStepGood, StepTo
  <2> QED
    BY <1>3, <2>2, <2>3, <2>4, <2>5, <2>6, <2>7, <2>8, <2>9, <2>10 DEF Next, Driver, Happens
<1> QED
  BY <1>2, <1>3

(* sl811_hcd's handlers keep that invariant, for every set of endpoints,   *)
(* every number of URBs, every packet size and frame list, and every       *)
(* device.                                                                 *)
THEOREM SlInvariant == Spec => []SlInv
<1>1. Init => SlInv
  BY InitGood
<1>2. SlInv /\ [Next]_vars => SlInv'
  BY StepGood
<1> QED
  BY <1>1, <1>2, PTL DEF Spec

(* The fields of struct sl811, of its endpoints, of the URBs and of the    *)
(* chip keep their types                                                   *)
(* (src/org.handhelds.familiar/packages/cfu1/files/sl811.h).               *)
THEOREM TypesAreRight == Spec => []TypeOK
<1>1. SlInv => TypeOK
  BY DEF SlInv, DevOK, Good, Sane, Worlds, TypeOK
<1> QED
  BY <1>1, SlInvariant, PTL

(* No handler uses an endpoint that endpoint_disable freed or an URB that  *)
(* is no longer queued, unless the interrupt overtook a submission or the  *)
(* device was unplugged in between.                                        *)
THEOREM NothingUsedAfterGone == Spec => []NoUseAfterGone
<1>1. SlInv => NoUseAfterGone
  <2>1. World.oops = oops
    BY DEF World
  <2> QED
    BY <2>1 DEF SlInv, Good, NoUseAfterGone, Happens
<1> QED
  BY <1>1, SlInvariant, PTL

(* An endpoint is in the asynchronous list or in a frame exactly when it   *)
(* has URBs that urb_enqueue took: finish_request removes it with its last *)
(* URB, and an URB that came while the lock was released puts it back.     *)
THEOREM ListsMatchQueues == Spec => []SchedulesMatchQueues
<1>1. SlInv => SchedulesMatchQueues
  <2> SUFFICES ASSUME SlInv, ~oops PROVE SchedulesMatchQueues
    BY DEF SchedulesMatchQueues
  <2>1. /\ World.hc = hc /\ World.core = core /\ World \in Worlds
        /\ KeptInv(World, core.calls, {}) /\ core \in CoreTypes /\ hc \in HcTypes
    BY WorldFacts DEF SlInv
  <2>2. /\ ServedInv(hc, core, core.calls) /\ BusyInv(hc, core, core.calls, {}) /\ FramesInv(hc)
    BY <2>1 DEF KeptInv
  <2>3. ASSUME NEW e \in Ep, Elements(core.q[e]) \ core.calls # {}
        PROVE  Scheduled(hc, e)
    <3>1. PICK i \in DOMAIN core.q[e] : core.q[e][i] \notin core.calls
      BY <2>3 DEF Elements
    <3>2. OnList(core.q[e], core.q[e][i])
      BY <3>1 DEF OnList
    <3>3. core.q[e][i] \in Urbs
      BY <2>1, <3>2, QueueTypes
    <3> QED
      BY <2>2, <3>1, <3>2, <3>3 DEF ServedInv, HasTaken, Sched
  <2>4. ASSUME NEW e \in Ep, Scheduled(hc, e), ~Stranded
        PROVE  core.q[e] # <<>>
    <3>1. ~Happens("overtake") \/ (~Happens("plug") /\ Enabled(hc))
      BY <2>1, <2>4 DEF Stranded, Alive, Happens, Enabled
    <3>2. \/ HasTaken(core, e, core.calls)
          \/ core.q[e] # <<>>
      BY <2>2, <2>4, <3>1 DEF BusyInv, Sched
    <3> QED
      BY <2>1, <3>2, QueueTypes DEF HasTaken
  <2>5. hc.count > 0 /\ "DONE_A" \in hc.irqen
            => "SOFINTR" \in hc.irqen \/ dev.env \cap {"plug", "suspend"} # {}
    BY <2>2 DEF FramesInv, Happens
  <2> QED
    BY <2>3, <2>4, <2>5 DEF SchedulesMatchQueues
<1> QED
  BY <1>1, SlInvariant, PTL

=============================================================================

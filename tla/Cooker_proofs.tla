--------------------------- MODULE Cooker_proofs ---------------------------
(***************************************************************************)
(* The invariants of one run of BBCooker.cook.  First the calls in         *)
(* progress: what the loops and lists of findBestProvider and              *)
(* buildProvider come to (vercmp is an order of the versions, so the best  *)
(* of a name is a provider of the item that none of its rivals beats, and  *)
(* so is every candidate), and CallsInv: each call in progress is in order *)
(* by itself and was made for what its caller waits for.  Then, from the   *)
(* order of the calls, the invariants of the run.                          *)
(***************************************************************************)
EXTENDS Cooker, FiniteSetTheorems, SequenceTheorems, WellFoundedInduction, TLAPS

(* A set of natural numbers has a least one.                               *)
LEMMA NaturalOrder == \E R : IsWellFoundedOn(R, Nat) /\ \A i, j \in Nat : j < i => <<j, i>> \in R
<1>1. \A i, j \in Nat : j < i => <<j, i>> \in OpToRel(<, Nat)
  BY DEF OpToRel
<1>2. QED BY <1>1, NatLessThanWellFounded, Zenon

LEMMA LeastExists ==
  ASSUME NEW T \in SUBSET Nat, T # {}
  PROVE  \E i \in T : \A j \in T : i <= j
<1>1. PICK R : IsWellFoundedOn(R, Nat) /\ \A i, j \in Nat : j < i => <<j, i>> \in R
  BY NaturalOrder
<1>2. PICK i \in T : \A j \in T : ~ (<<j, i>> \in R)
  BY <1>1, WFMin, Zenon
<1>3. \A j \in T : ~ (j < i)
  BY <1>1, <1>2, Zenon
<1>4. \A j \in T : i <= j
  BY <1>3
<1>5. QED BY <1>4

(* A loop that starts from x and has n iterations: what it holds after     *)
(* each of them is defined.                                                *)
IsLoop(f, S, x, n, step) ==
    /\ f \in [0 .. n -> S]
    /\ f[0] = x
    /\ \A i \in 1 .. n : f[i] = step[i][f[i - 1]]

LEMMA LoopIsDefined ==
  ASSUME NEW S, NEW x \in S, NEW n \in Nat, NEW step \in [1 .. n -> [S -> S]]
  PROVE  \E f : IsLoop(f, S, x, n, step)
<1> DEFINE Loop(m, f) == IsLoop(f, S, x, m, step)
           undefined == {m \in 0 .. n : \A f : ~Loop(m, f)}
<1>1. SUFFICES ASSUME \A f : ~Loop(n, f) PROVE FALSE
  OBVIOUS
<1>2. PICK m \in undefined : \A k \in undefined : m <= k
  <2>1. undefined \in SUBSET Nat /\ n \in undefined
    BY <1>1
  <2> HIDE DEF undefined
  <2>2. QED BY <2>1, LeastExists
<1>3. m \in 0 .. n /\ m # 0
  <2> DEFINE g == [i \in 0 .. 0 |-> x]
  <2>1. g \in [0 .. 0 -> S] /\ g[0] = x /\ 1 .. 0 = {}
    OBVIOUS
  <2>2. Loop(0, g)
    BY <2>1 DEF IsLoop
  <2>3. m \in 0 .. n /\ \A f : ~Loop(m, f)
    BY <1>2
  <2>4. QED BY <2>2, <2>3
<1>4. m - 1 \in 0 .. n /\ m - 1 \notin undefined
  <2> HIDE DEF undefined
  <2>1. QED BY <1>2, <1>3
<1>5. PICK f : Loop(m - 1, f)
  BY <1>4
<1> DEFINE g == [i \in 0 .. m |-> IF i = m THEN step[m][f[m - 1]] ELSE f[i]]
<1>6. f \in [0 .. m - 1 -> S] /\ f[0] = x /\ \A i \in 1 .. m - 1 : f[i] = step[i][f[i - 1]]
  BY <1>5 DEF IsLoop
<1>7. g \in [0 .. m -> S]
  <2>1. f[m - 1] \in S /\ step[m] \in [S -> S]
    BY <1>3, <1>6
  <2>2. QED BY <1>3, <1>6, <2>1
<1>8. g[0] = x
  BY <1>3, <1>6
<1>9. ASSUME NEW i \in 1 .. m PROVE g[i] = step[i][g[i - 1]]
  <2>1. g[i - 1] = f[i - 1]
    BY <1>3
  <2>2. CASE i = m
    BY <2>1, <2>2
  <2>3. CASE i # m
    <3>1. f[i] = step[i][f[i - 1]]
      BY <1>3, <1>6, <2>3
    <3>2. g[i] = f[i]
      BY <2>3
    <3>3. QED BY <2>1, <3>1, <3>2
  <2>4. QED BY <2>2, <2>3
<1> HIDE DEF g
<1>10. Loop(m, g)
  BY <1>7, <1>8, <1>9 DEF IsLoop
<1>11. m \in undefined
  BY <1>2
<1>12. QED BY <1>10, <1>11

LEMMA Induction ==
  ASSUME NEW n \in Nat, NEW T, 0 \in T, \A i \in 1 .. n : i - 1 \in T => i \in T
  PROVE  n \in T
<1> DEFINE out == {i \in 0 .. n : i \notin T}
<1>1. SUFFICES ASSUME n \notin T PROVE FALSE
  OBVIOUS
<1>2. PICK m \in out : \A k \in out : m <= k
  <2>1. out \in SUBSET Nat /\ n \in out
    BY <1>1
  <2> HIDE DEF out
  <2>2. QED BY <2>1, LeastExists
<1>3. m \in 1 .. n /\ m \notin T
  BY <1>2
<1>4. m - 1 \in T
  BY <1>2, <1>3
<1>5. QED BY <1>3, <1>4

---------------------------------------------------------------------------
(* The best provider is a provider.                                        *)
LEMMA HighestExists ==
  ASSUME NEW n \in Nat, NEW at \in SUBSET (1 .. n), at # {}, NEW p \in [1 .. n -> Int]
  PROVE  \E i \in at : \A j \in at : p[j] <= p[i]
<1> DEFINE Flat(t) == t # {} /\ \A i \in t : \E j \in t : ~ (p[j] <= p[i])
           flat == {m \in 0 .. n : \E t \in SUBSET (1 .. m) : Flat(t)}
<1>1. SUFFICES ASSUME Flat(at) PROVE FALSE
  OBVIOUS
<1>2. PICK m \in flat : \A k \in flat : m <= k
  <2>1. flat \in SUBSET Nat /\ n \in flat
    BY <1>1
  <2> HIDE DEF flat
  <2>2. QED BY <2>1, LeastExists
<1>3. PICK t \in SUBSET (1 .. m) : Flat(t)
  BY <1>2
<1>4. m \in 1 .. n
  <2>1. 1 .. 0 = {}
    OBVIOUS
  <2>2. m # 0
    BY <1>3, <2>1
  <2>3. QED BY <2>2
<1>5. ~ Flat(t \ {m})
  <2>1. m - 1 \in 0 .. n /\ m - 1 \notin flat
    <3> HIDE DEF flat
    <3>1. QED BY <1>2, <1>4
  <2>2. t \ {m} \in SUBSET (1 .. m - 1)
    OBVIOUS
  <2>3. QED BY <2>1, <2>2
<1>6. m \in t
  <2>1. CASE m \notin t
    <3>1. t \ {m} = t
      BY <2>1
    <3>2. QED BY <1>3, <1>5, <3>1
  <2>2. QED BY <2>1
<1>7. CASE t \ {m} = {}
  <2>1. p[m] <= p[m]
    <3>1. p[m] \in Int
      BY <1>4
    <3>2. QED BY <3>1
  <2>2. QED BY <1>3, <1>6, <1>7, <2>1
<1>8. CASE t \ {m} # {}
  <2>1. PICK h \in t \ {m} : \A j \in t \ {m} : p[j] <= p[h]
    BY <1>5, <1>8
  <2>2. p[h] \in Int /\ p[m] \in Int /\ \A j \in t : p[j] \in Int
    OBVIOUS
  <2>3. CASE p[m] <= p[h]
    <3>1. \A j \in t : p[j] <= p[h]
      BY <2>1, <2>3
    <3>2. QED BY <1>3, <3>1
  <2>4. CASE ~ (p[m] <= p[h])
    <3>1. \A j \in t : p[j] <= p[m]
      BY <2>1, <2>2, <2>4
    <3>2. QED BY <1>3, <1>6, <3>1
  <2>5. QED BY <2>3, <2>4
<1>9. QED BY <1>7, <1>8

LEMMA FirstIsOneOf ==
  ASSUME NEW T \in SUBSET Nat, T # {}
  PROVE  First(T) \in T /\ \A j \in T : First(T) <= j
BY LeastExists DEF First

LEMMA TopPriorityIsNotEmpty ==
  ASSUME NEW files \in Seq(Recipe), NEW at \in SUBSET DOMAIN files, at # {},
         NEW about \in [Recipe -> FileType]
  PROVE  TopPriority(files, at, about) \in SUBSET at /\ TopPriority(files, at, about) # {}
<1> DEFINE p == [i \in 1 .. Len(files) |-> about[files[i]].priority]
<1>1. p \in [1 .. Len(files) -> Int]
  BY DEF FileType
<1>2. PICK i \in at : \A j \in at : p[j] <= p[i]
  <2>1. Len(files) \in Nat /\ at \in SUBSET (1 .. Len(files))
    OBVIOUS
  <2> HIDE DEF p
  <2>2. QED BY <1>1, <2>1, HighestExists
<1>3. \A j \in at : about[files[j]].priority <= about[files[i]].priority
  <2>1. \A j \in at : p[j] = about[files[j]].priority
    OBVIOUS
  <2> HIDE DEF p
  <2>2. QED BY <1>2, <2>1
<1>4. QED BY <1>3 DEF TopPriority

---------------------------------------------------------------------------
(* Versions are ordered: what explode_version makes of one is a sequence   *)
(* of naturals again, and vercmp_part the order of the first difference.   *)
IsExploded(f, v, n) ==
    f = [i \in 0 .. n |-> IF i = 0 THEN <<>> ELSE ExplodeOne(f[i - 1], v[i])]

LEMMA ExplodedIsVersion ==
  ASSUME NEW v \in Version
  PROVE  Explode[v] \in Version
<1> DEFINE n == Len(v)
           step == [i \in 1 .. n |-> [s \in Version |-> ExplodeOne(s, v[i])]]
           r == CHOOSE f : IsExploded(f, v, n)
<1>1. n \in Nat /\ \A i \in 1 .. n : v[i] \in Nat
  BY DEF Version
<1>2. ASSUME NEW i \in 1 .. n, NEW s \in Version
      PROVE  ExplodeOne(s, v[i]) \in Version
  BY <1>1, <1>2 DEF Version, ExplodeOne
<1>3. step \in [1 .. n -> [Version -> Version]]
  <2> HIDE DEF n
  <2>1. QED BY <1>2
<1>4. <<>> \in Version
  BY DEF Version
<1>5. PICK f : IsLoop(f, Version, <<>>, n, step)
  <2> HIDE DEF step, n
  <2>1. QED BY <1>1, <1>3, <1>4, LoopIsDefined
<1>6. f \in [0 .. n -> Version] /\ f[0] = <<>> /\ \A i \in 1 .. n : f[i] = step[i][f[i - 1]]
  <2> HIDE DEF step, n
  <2>1. QED BY <1>5 DEF IsLoop
<1>7. ASSUME NEW i \in 1 .. n PROVE f[i] = ExplodeOne(f[i - 1], v[i])
  <2> HIDE DEF n
  <2>1. f[i - 1] \in Version
    <3> HIDE DEF step
    <3>1. QED BY <1>1, <1>6
  <2>2. QED BY <1>6, <2>1
<1>8. IsExploded(f, v, n)
  <2> HIDE DEF step, n
  <2>1. QED BY <1>1, <1>6, <1>7 DEF IsExploded
<1>9. IsExploded(r, v, n)
  BY <1>8
<1>10. Explode[v] = r[n]
  BY DEF Explode, IsExploded
<1> HIDE DEF r, n
<1>11. r[0] = <<>> /\ \A i \in 1 .. n : r[i] = ExplodeOne(r[i - 1], v[i])
  BY <1>1, <1>9 DEF IsExploded
<1>12. r[n] \in Version
  <2> DEFINE T == {i \in 0 .. n : r[i] \in Version}
  <2>1. 0 \in T
    BY <1>1, <1>4, <1>11
  <2>2. \A i \in 1 .. n : i - 1 \in T => i \in T
    BY <1>1, <1>2, <1>11
  <2>3. n \in T
    <3> HIDE DEF T
    <3>1. QED BY <1>1, <2>1, <2>2, Induction
  <2>4. QED BY <2>3
<1>13. QED BY <1>10, <1>12

(* What comes before the first difference is the same.                     *)
SameBefore(va, vb, k) == \A j \in 1 .. k - 1 : Piece(va, j) = Piece(vb, j)
Precedes(va, vb) == \E k \in Nat \ {0} : SameBefore(va, vb, k) /\ Piece(va, k) < Piece(vb, k)
Alike(va, vb) == \A k \in Nat \ {0} : Piece(va, k) = Piece(vb, k)

LEMMA PiecesAreNaturals ==
  ASSUME NEW va \in Version, NEW k \in Nat \ {0}
  PROVE  Piece(va, k) \in Nat
BY DEF Piece, Version, Dot

LEMMA VercmpPartOrders ==
  ASSUME NEW a \in Version, NEW b \in Version
  PROVE  /\ VercmpPart(a, b) \in {-1, 0, 1}
         /\ VercmpPart(a, b) = 0 => Alike(Explode[a], Explode[b])
         /\ VercmpPart(a, b) = -1 => Precedes(Explode[a], Explode[b])
         /\ VercmpPart(a, b) = 1 => Precedes(Explode[b], Explode[a])
<1> DEFINE va == Explode[a]
           vb == Explode[b]
           differ == {i \in 1 .. Len(va) + Len(vb) : Piece(va, i) # Piece(vb, i)}
           first == First(differ)
<1>1. va \in Version /\ vb \in Version
  BY ExplodedIsVersion
<1>2. VercmpPart(a, b) = IF differ = {} THEN 0
                         ELSE IF Piece(va, first) > Piece(vb, first) THEN 1 ELSE -1
  BY DEF VercmpPart, First
<1> HIDE DEF va, vb
<1>3. CASE differ = {}
  <2>1. ASSUME NEW k \in Nat \ {0} PROVE Piece(va, k) = Piece(vb, k)
    <3>1. Len(va) \in Nat /\ Len(vb) \in Nat
      BY <1>1 DEF Version
    <3>2. CASE k \in 1 .. Len(va) + Len(vb)
      BY <1>3, <3>2
    <3>3. CASE k \notin 1 .. Len(va) + Len(vb)
      BY <3>1, <3>3 DEF Piece
    <3>4. QED BY <3>2, <3>3
  <2>2. VercmpPart(a, b) = 0
    BY <1>2, <1>3
  <2>3. QED BY <2>1, <2>2 DEF Alike, va, vb
<1>4. CASE differ # {}
  <2>1. differ \in SUBSET Nat
    OBVIOUS
  <2>2. first \in differ /\ \A j \in differ : first <= j
    <3> HIDE DEF differ
    <3>1. QED BY <1>4, <2>1, FirstIsOneOf
  <2> HIDE DEF first
  <2>3. first \in Nat \ {0} /\ Piece(va, first) # Piece(vb, first)
    BY <2>2
  <2>4. ASSUME NEW j \in 1 .. first - 1 PROVE Piece(va, j) = Piece(vb, j)
    <3>1. j \in 1 .. Len(va) + Len(vb) /\ ~ (first <= j)
      BY <1>1, <2>2 DEF Version
    <3>2. QED BY <2>2, <3>1
  <2>5. Piece(va, first) \in Nat /\ Piece(vb, first) \in Nat
    BY <1>1, <2>3, PiecesAreNaturals
  <2>6. SameBefore(va, vb, first) /\ SameBefore(vb, va, first)
    BY <2>4 DEF SameBefore
  <2> HIDE DEF differ
  <2>7. CASE Piece(va, first) > Piece(vb, first)
    <3>1. Precedes(vb, va)
      BY <2>3, <2>5, <2>6, <2>7 DEF Precedes
    <3>2. VercmpPart(a, b) = 1
      BY <1>2, <1>4, <2>7
    <3>3. QED BY <3>1, <3>2 DEF va, vb
  <2>8. CASE ~ (Piece(va, first) > Piece(vb, first))
    <3>1. Piece(va, first) < Piece(vb, first)
      BY <2>3, <2>5, <2>8
    <3>2. Precedes(va, vb)
      BY <2>3, <2>6, <3>1 DEF Precedes
    <3>3. VercmpPart(a, b) = -1
      BY <1>2, <1>4, <2>8
    <3>4. QED BY <3>2, <3>3 DEF va, vb
  <2>9. QED BY <2>7, <2>8
<1>5. QED BY <1>3, <1>4

LEMMA PrecedesIsAnOrder ==
  ASSUME NEW a \in Version, NEW b \in Version, NEW c \in Version
  PROVE  /\ Precedes(a, b) => ~Alike(a, b) /\ ~Precedes(b, a)
         /\ Precedes(a, b) /\ (Precedes(b, c) \/ Alike(b, c)) => Precedes(a, c)
         /\ Alike(a, b) /\ Precedes(b, c) => Precedes(a, c)
<1> DEFINE At(v, k) == Piece(v, k)
<1>1. \A k \in Nat \ {0} : At(a, k) \in Nat /\ At(b, k) \in Nat /\ At(c, k) \in Nat
  BY PiecesAreNaturals
<1>2. ASSUME Precedes(a, b) PROVE ~Alike(a, b) /\ ~Precedes(b, a)
  <2>1. PICK k \in Nat \ {0} : SameBefore(a, b, k) /\ At(a, k) < At(b, k)
    BY <1>2 DEF Precedes
  <2>2. ASSUME NEW l \in Nat \ {0}, SameBefore(b, a, l), At(b, l) < At(a, l) PROVE FALSE
    <3> HIDE DEF At
    <3>1. CASE l < k
      <4>1. At(a, l) = At(b, l)
        BY <2>1, <3>1 DEF SameBefore, At
      <4>2. QED BY <1>1, <2>2, <4>1
    <3>2. CASE k < l
      <4>1. At(a, k) = At(b, k)
        BY <2>2, <3>2 DEF SameBefore, At
      <4>2. QED BY <1>1, <2>1, <4>1
    <3>3. CASE k = l
      BY <1>1, <2>1, <2>2, <3>3
    <3>4. QED BY <3>1, <3>2, <3>3
  <2>3. ~Precedes(b, a)
    BY <2>2 DEF Precedes
  <2>4. ~Alike(a, b)
    <3>1. At(a, k) # At(b, k)
      <4> HIDE DEF At
      <4>1. QED BY <1>1, <2>1
    <3>2. QED BY <3>1 DEF Alike
  <2>5. QED BY <2>3, <2>4
<1>3. ASSUME Precedes(a, b), Precedes(b, c) PROVE Precedes(a, c)
  <2>1. PICK k \in Nat \ {0} : SameBefore(a, b, k) /\ At(a, k) < At(b, k)
    BY <1>3 DEF Precedes
  <2>2. PICK l \in Nat \ {0} : SameBefore(b, c, l) /\ At(b, l) < At(c, l)
    BY <1>3 DEF Precedes
  <2>3. \A j \in 1 .. k - 1 : At(a, j) = At(b, j)
    BY <2>1 DEF SameBefore
  <2>4. \A j \in 1 .. l - 1 : At(b, j) = At(c, j)
    BY <2>2 DEF SameBefore
  <2>5. PICK m \in {k, l} : m <= k /\ m <= l
    OBVIOUS
  <2>6. \A j \in 1 .. m - 1 : At(a, j) = At(c, j)
    <3> HIDE DEF At
    <3>1. QED BY <2>3, <2>4, <2>5
  <2>7. At(a, m) < At(c, m)
    <3> HIDE DEF At
    <3>1. CASE k < l
      <4>1. m = k /\ At(b, k) = At(c, k)
        BY <2>4, <2>5, <3>1
      <4>2. QED BY <2>1, <4>1
    <3>2. CASE l < k
      <4>1. m = l /\ At(a, l) = At(b, l)
        BY <2>3, <2>5, <3>2
      <4>2. QED BY <2>2, <4>1
    <3>3. CASE k = l
      BY <1>1, <2>1, <2>2, <2>5, <3>3
    <3>4. QED BY <3>1, <3>2, <3>3
  <2>8. m \in Nat \ {0} /\ SameBefore(a, c, m) /\ Piece(a, m) < Piece(c, m)
    BY <2>5, <2>6, <2>7 DEF SameBefore
  <2>9. QED BY <2>8 DEF Precedes
<1>4. ASSUME Precedes(a, b), Alike(b, c) PROVE Precedes(a, c)
  <2>1. PICK k \in Nat \ {0} : SameBefore(a, b, k) /\ At(a, k) < At(b, k)
    BY <1>4 DEF Precedes
  <2>2. At(b, k) = At(c, k)
    BY <1>4 DEF Alike
  <2>3. \A j \in 1 .. k - 1 : Piece(a, j) = Piece(b, j) /\ Piece(b, j) = Piece(c, j)
    BY <1>4, <2>1 DEF SameBefore, Alike
  <2>4. SameBefore(a, c, k)
    BY <2>3 DEF SameBefore
  <2>5. QED BY <2>1, <2>2, <2>4 DEF Precedes
<1>5. ASSUME Alike(a, b), Precedes(b, c) PROVE Precedes(a, c)
  <2>1. PICK k \in Nat \ {0} : SameBefore(b, c, k) /\ At(b, k) < At(c, k)
    BY <1>5 DEF Precedes
  <2>2. At(a, k) = At(b, k)
    BY <1>5 DEF Alike
  <2>3. \A j \in 1 .. k - 1 : Piece(a, j) = Piece(b, j) /\ Piece(b, j) = Piece(c, j)
    BY <1>5, <2>1 DEF SameBefore, Alike
  <2>4. SameBefore(a, c, k)
    BY <2>3 DEF SameBefore
  <2>5. QED BY <2>1, <2>2, <2>4 DEF Precedes
<1>6. QED BY <1>2, <1>3, <1>4, <1>5

(* vercmp is the order of versions and, among equals, of revisions.        *)
Older(a, b) ==
    \/ Precedes(Explode[a.pv], Explode[b.pv])
    \/ Alike(Explode[a.pv], Explode[b.pv]) /\ Precedes(Explode[a.pr], Explode[b.pr])

LEMMA VercmpOrders ==
  ASSUME NEW a \in FileType, NEW b \in FileType
  PROVE  (Vercmp(a, b) < 0 <=> Older(a, b)) /\ (Vercmp(a, b) > 0 <=> Older(b, a))
<1> DEFINE Before(v, w) == Precedes(Explode[v], Explode[w])
           Same(v, w) == Alike(Explode[v], Explode[w])
           Cmp(v, w) == VercmpPart(v, w)
<1>1. a.pv \in Version /\ a.pr \in Version /\ b.pv \in Version /\ b.pr \in Version
  BY DEF FileType
<1>2. ASSUME NEW v \in Version, NEW w \in Version
      PROVE  /\ Cmp(v, w) \in {-1, 0, 1}
             /\ Cmp(v, w) = -1 <=> Before(v, w)
             /\ Cmp(v, w) = 1 <=> Before(w, v)
             /\ Cmp(v, w) = 0 <=> Same(v, w)
  <2>1. Explode[v] \in Version /\ Explode[w] \in Version
    BY ExplodedIsVersion
  <2>2. /\ Before(v, w) => ~Same(v, w) /\ ~Before(w, v)
        /\ Before(w, v) => ~Same(w, v) /\ ~Before(v, w)
    BY <2>1, PrecedesIsAnOrder
  <2>3. Same(v, w) <=> Same(w, v)
    BY DEF Alike
  <2>4. /\ Cmp(v, w) \in {-1, 0, 1}
        /\ Cmp(v, w) = -1 => Before(v, w)
        /\ Cmp(v, w) = 1 => Before(w, v)
        /\ Cmp(v, w) = 0 => Same(v, w)
    BY VercmpPartOrders
  <2> HIDE DEF Before, Same, Cmp
  <2>5. QED BY <2>2, <2>3, <2>4
<1>3. Vercmp(a, b) = IF Cmp(a.pv, b.pv) # 0 THEN Cmp(a.pv, b.pv) ELSE Cmp(a.pr, b.pr)
  BY DEF Vercmp
<1>4. Older(a, b) <=> Before(a.pv, b.pv) \/ (Same(a.pv, b.pv) /\ Before(a.pr, b.pr))
  BY DEF Older
<1>5. Older(b, a) <=> Before(b.pv, a.pv) \/ (Same(a.pv, b.pv) /\ Before(b.pr, a.pr))
  BY DEF Older, Alike
<1> HIDE DEF Before, Same, Cmp
<1>6. QED BY <1>1, <1>2, <1>3, <1>4, <1>5

LEMMA OlderIsAnOrder ==
  ASSUME NEW a \in FileType, NEW b \in FileType, NEW c \in FileType
  PROVE  (Older(a, b) => ~Older(b, a)) /\ (Older(a, b) /\ Older(b, c) => Older(a, c))
<1> DEFINE Before(v, w) == Precedes(Explode[v], Explode[w])
           Same(v, w) == Alike(Explode[v], Explode[w])
<1>1. \A f \in {a, b, c} : f.pv \in Version /\ f.pr \in Version
  BY DEF FileType
<1>2. \A u, v, w \in Version :
        /\ Before(u, v) => ~Same(u, v) /\ ~Before(v, u)
        /\ Before(u, v) /\ (Before(v, w) \/ Same(v, w)) => Before(u, w)
        /\ Same(u, v) /\ Before(v, w) => Before(u, w)
  BY ExplodedIsVersion, PrecedesIsAnOrder
<1>3. \A u, v, w : Same(u, v) /\ Same(v, w) => Same(u, w)
  BY DEF Alike
<1>4. \A u, v : Same(u, v) => Same(v, u)
  BY DEF Alike
<1>5. \A f, g \in {a, b, c} :
        Older(f, g) <=> Before(f.pv, g.pv) \/ (Same(f.pv, g.pv) /\ Before(f.pr, g.pr))
  BY DEF Older
<1> HIDE DEF Before, Same
<1>6. ASSUME Older(a, b), Older(b, a) PROVE FALSE
  BY <1>1, <1>2, <1>4, <1>5, <1>6
<1>7. ASSUME Older(a, b), Older(b, c) PROVE Older(a, c)
  BY <1>1, <1>2, <1>3, <1>5, <1>7
<1>8. QED BY <1>6, <1>7

---------------------------------------------------------------------------
(* What the loop over the files comes to.                                  *)
IsLatest(f, files, at, about, n) ==
    f = [i \in 0 .. n |-> IF i = 0 THEN 0 ELSE LatestOf(files, at, about, f[i - 1], i)]

LEMMA LatestIsDefined ==
  ASSUME NEW files, NEW at, NEW about, NEW n \in Nat
  PROVE  \E f : IsLatest(f, files, at, about, n)
<1> DEFINE step == [i \in 1 .. n |-> [l \in 0 .. n |-> LatestOf(files, at, about, l, i)]]
<1>1. step \in [1 .. n -> [0 .. n -> 0 .. n]]
  BY DEF LatestOf
<1>2. PICK f : IsLoop(f, 0 .. n, 0, n, step)
  <2>1. 0 \in 0 .. n
    OBVIOUS
  <2> HIDE DEF step
  <2>2. QED BY <1>1, <2>1, LoopIsDefined
<1>3. f \in [0 .. n -> 0 .. n] /\ f[0] = 0 /\ \A i \in 1 .. n : f[i] = step[i][f[i - 1]]
  <2> HIDE DEF step
  <2>1. QED BY <1>2 DEF IsLoop
<1>4. ASSUME NEW i \in 1 .. n PROVE f[i] = LatestOf(files, at, about, f[i - 1], i)
  <2>1. f[i - 1] \in 0 .. n
    BY <1>3
  <2>2. QED BY <1>3, <2>1
<1>5. IsLatest(f, files, at, about, n)
  BY <1>3, <1>4 DEF IsLatest
<1>6. QED BY <1>5

LEMMA NewerIsAnOrder ==
  ASSUME NEW a \in FileType, NEW b \in FileType, NEW c \in FileType
  PROVE  /\ Replaces(a, b) <=> Newer(b, a)
         /\ Newer(a, b) => ~Newer(b, a)
         /\ Newer(a, b) /\ Newer(b, c) => Newer(a, c)
<1>1. a.dp \in Int /\ b.dp \in Int /\ c.dp \in Int
  BY DEF FileType
<1>2. \A f, g \in FileType : (Vercmp(f, g) < 0 <=> Older(f, g)) /\ (Vercmp(f, g) > 0 <=> Older(g, f))
  BY VercmpOrders
<1>3. \A f, g \in FileType : Newer(f, g) <=> (f.dp > g.dp \/ (f.dp = g.dp /\ Older(g, f)))
  BY <1>2 DEF Newer
<1>4. \A f, g \in FileType : Replaces(f, g) <=> (g.dp > f.dp \/ (f.dp = g.dp /\ Older(f, g)))
  BY <1>2 DEF Replaces
<1>5. Replaces(a, b) <=> Newer(b, a)
  BY <1>1, <1>3, <1>4
<1>6. Newer(a, b) => ~Newer(b, a)
  BY <1>1, <1>3, OlderIsAnOrder
<1>7. Newer(a, b) /\ Newer(b, c) => Newer(a, c)
  BY <1>1, <1>3, OlderIsAnOrder
<1>8. QED BY <1>5, <1>6, <1>7

LEMMA LatestIsNewest ==
  ASSUME NEW files \in Seq(Recipe), NEW at \in SUBSET DOMAIN files, at # {},
         NEW about \in [Recipe -> FileType]
  PROVE  /\ Latest(files, at, about) \in at
         /\ \A j \in at : ~Newer(about[files[j]], about[files[Latest(files, at, about)]])
<1> DEFINE n == Len(files)
           latest == CHOOSE f : IsLatest(f, files, at, about, n)
           File(i) == about[files[i]]
<1>1. n \in Nat /\ \A i \in at : i \in 1 .. n /\ File(i) \in FileType
  OBVIOUS
<1>2. IsLatest(latest, files, at, about, n)
  BY <1>1, LatestIsDefined
<1>3. latest[0] = 0 /\ \A i \in 1 .. n : latest[i] = LatestOf(files, at, about, latest[i - 1], i)
  <2> HIDE DEF latest
  <2>1. QED BY <1>2 DEF IsLatest
<1>4. Latest(files, at, about) = latest[n]
  BY DEF Latest, IsLatest
<1>5. ASSUME NEW l, NEW i \in 1 .. n
      PROVE  LatestOf(files, at, about, l, i) =
                IF i \in at /\ (l = 0 \/ Replaces(File(l), File(i))) THEN i ELSE l
  BY DEF LatestOf
<1>6. \A i, j \in at : Replaces(File(i), File(j)) <=> Newer(File(j), File(i))
  <2> HIDE DEF File
  <2>1. QED BY <1>1, NewerIsAnOrder
<1>7. \A i, j, k \in at : /\ Newer(File(i), File(j)) => ~Newer(File(j), File(i))
                          /\ Newer(File(i), File(j)) /\ Newer(File(j), File(k)) => Newer(File(i), File(k))
  <2> HIDE DEF File
  <2>1. QED BY <1>1, NewerIsAnOrder
<1> DEFINE Upto(i) == at \cap (1 .. i)
           Newest(l, S) == l \in S /\ \A j \in S : ~Newer(File(j), File(l))
           Good(l, i) == IF Upto(i) = {} THEN l = 0 ELSE Newest(l, Upto(i))
           T == {i \in 0 .. n : Good(latest[i], i)}
<1> HIDE DEF latest, n
<1>8. 0 \in T
  <2>1. 0 \in 0 .. n /\ Upto(0) = {}
    BY <1>1
  <2> HIDE DEF Upto, Newest
  <2>2. QED BY <1>3, <2>1
<1>9. ASSUME NEW i \in 1 .. n, i - 1 \in T PROVE i \in T
  <2>1. PICK l : l = latest[i - 1]
    OBVIOUS
  <2>2. Good(l, i - 1)
    <3> HIDE DEF Good
    <3>1. QED BY <1>9, <2>1
  <2>3. latest[i] = IF i \in at /\ (l = 0 \/ Replaces(File(l), File(i))) THEN i ELSE l
    <3> HIDE DEF File
    <3>1. QED BY <1>3, <1>5, <2>1
  <2>4. Upto(i) = IF i \in at THEN Upto(i - 1) \cup {i} ELSE Upto(i - 1)
    BY <1>1
  <2>5. \A j \in Upto(i) : j \in at /\ j # 0
    BY <1>1
  <2>6. 0 \notin Upto(i - 1)
    BY <1>1
  <2> HIDE DEF Upto, File
  <2>7. Good(latest[i], i)
    <3>1. CASE i \notin at
      BY <2>2, <2>3, <2>4, <3>1
    <3>2. CASE i \in at /\ Upto(i - 1) = {}
      <4>1. latest[i] = i /\ Upto(i) = {i}
        BY <2>2, <2>3, <2>4, <3>2
      <4>2. ~Newer(File(i), File(i))
        BY <1>7, <3>2
      <4>3. QED BY <4>1, <4>2
    <3>3. CASE i \in at /\ Upto(i - 1) # {}
      <4>1. l \in Upto(i - 1) /\ l \in at /\ l # 0 /\ \A j \in Upto(i - 1) : j \in at /\ ~Newer(File(j), File(l))
        BY <2>2, <2>4, <2>5, <2>6, <3>3
      <4>2. CASE Newer(File(i), File(l))
        <5>1. latest[i] = i
          BY <1>6, <2>3, <3>3, <4>1, <4>2
        <5>2. \A j \in Upto(i - 1) : ~Newer(File(j), File(i))
          BY <1>7, <3>3, <4>1, <4>2
        <5>3. ~Newer(File(i), File(i))
          BY <1>7, <3>3
        <5>4. QED BY <2>4, <3>3, <5>1, <5>2, <5>3
      <4>3. CASE ~Newer(File(i), File(l))
        <5>1. latest[i] = l
          BY <1>6, <2>3, <3>3, <4>1, <4>3
        <5>2. QED BY <2>4, <3>3, <4>1, <4>3, <5>1
      <4>4. QED BY <4>2, <4>3
    <3>4. QED BY <3>1, <3>2, <3>3
  <2>8. QED BY <1>1, <2>7
<1>10. n \in T
  <2>1. \A i \in 1 .. n : i - 1 \in T => i \in T
    BY <1>9
  <2> HIDE DEF T
  <2>2. QED BY <1>1, <1>8, <2>1, Induction
<1>11. Upto(n) = at
  BY <1>1
<1>12. Newest(latest[n], at)
  <2> HIDE DEF Upto, Newest
  <2>1. QED BY <1>10, <1>11
<1>13. QED BY <1>4, <1>12

---------------------------------------------------------------------------
(* The candidates for an item are providers of it; there is none only when *)
(* nothing provides it or something failed.                                *)
LEMMA WithoutIsPart ==
  ASSUME NEW S, NEW e \in Seq(S), NEW i \in 1 .. Len(e)
  PROVE  /\ Without(e, i) \in Seq(S)
         /\ Len(Without(e, i)) = Len(e) - 1
         /\ Range(Without(e, i)) \subseteq Range(e)
<1> DEFINE a == SubSeq(e, 1, i - 1)
           b == SubSeq(e, i + 1, Len(e))
<1>1. a \in Seq(S) /\ Len(a) = i - 1 /\ \A j \in 1 .. i - 1 : a[j] = e[j]
  OBVIOUS
<1>2. b \in Seq(S) /\ Len(b) = Len(e) - i /\ \A j \in 1 .. Len(e) - i : b[j] = e[j + i]
  OBVIOUS
<1> HIDE DEF a, b
<1>3. /\ a \o b \in Seq(S)
      /\ Len(a \o b) = Len(a) + Len(b)
      /\ \A j \in 1 .. Len(a) + Len(b) : (a \o b)[j] = IF j <= Len(a) THEN a[j] ELSE b[j - Len(a)]
  BY <1>1, <1>2, ConcatProperties
<1>4. ASSUME NEW j \in 1 .. Len(a) + Len(b) PROVE (a \o b)[j] \in Range(e)
  <2>1. CASE j <= Len(a)
    <3>1. (a \o b)[j] = e[j] /\ j \in DOMAIN e
      BY <1>1, <1>2, <1>3, <2>1
    <3>2. QED BY <3>1 DEF Range
  <2>2. CASE ~ (j <= Len(a))
    <3>1. (a \o b)[j] = b[j - Len(a)] /\ j - Len(a) \in 1 .. Len(b)
      BY <1>1, <1>2, <1>3, <2>2
    <3>2. b[j - Len(a)] = e[j - Len(a) + i] /\ j - Len(a) + i \in DOMAIN e
      BY <1>1, <1>2, <3>1
    <3>3. QED BY <3>1, <3>2 DEF Range
  <2>3. QED BY <2>1, <2>2
<1>5. Range(a \o b) \subseteq Range(e)
  BY <1>3, <1>4 DEF Range
<1>6. Without(e, i) = a \o b
  BY DEF Without, a, b
<1>7. Len(a) + Len(b) = Len(e) - 1
  BY <1>1, <1>2
<1>8. QED BY <1>3, <1>5, <1>6, <1>7

LEMMA ToHeadIsSame ==
  ASSUME NEW S, NEW e \in Seq(S), NEW i \in 1 .. Len(e)
  PROVE  ToHead(e, i) \in Seq(S) /\ ToHead(e, i) # <<>> /\ Range(ToHead(e, i)) \subseteq Range(e)
<1> DEFINE w == Without(e, i)
<1>1. w \in Seq(S) /\ Range(w) \subseteq Range(e)
  BY WithoutIsPart
<1> HIDE DEF w
<1>2. <<e[i]>> \in Seq(S) /\ Len(<<e[i]>>) = 1 /\ <<e[i]>>[1] = e[i]
  OBVIOUS
<1>3. /\ <<e[i]>> \o w \in Seq(S)
      /\ Len(<<e[i]>> \o w) = 1 + Len(w)
      /\ \A j \in 1 .. 1 + Len(w) : (<<e[i]>> \o w)[j] = IF j = 1 THEN e[i] ELSE w[j - 1]
  BY <1>1, <1>2
<1>4. ASSUME NEW j \in 1 .. 1 + Len(w) PROVE (<<e[i]>> \o w)[j] \in Range(e)
  <2>1. CASE j = 1
    BY <1>3, <2>1 DEF Range
  <2>2. CASE j # 1
    <3>1. (<<e[i]>> \o w)[j] = w[j - 1] /\ j - 1 \in DOMAIN w
      BY <1>1, <1>3, <2>2
    <3>2. QED BY <1>1, <3>1 DEF Range
  <2>3. QED BY <2>1, <2>2
<1>5. Range(<<e[i]>> \o w) \subseteq Range(e)
  BY <1>3, <1>4 DEF Range
<1>6. ToHead(e, i) = <<e[i]>> \o w
  BY DEF ToHead, w
<1>7. <<e[i]>> \o w # <<>>
  BY <1>1, <1>3
<1>8. QED BY <1>3, <1>5, <1>6, <1>7

IsReject(f, e, n) ==
    f = [i \in 0 .. n |-> IF i = 0 THEN e ELSE RejectAt(f[i - 1], i)]

LEMMA RejectAtIsPart ==
  ASSUME NEW l \in Seq(Recipe), NEW i \in Nat \ {0}
  PROVE  /\ RejectAt(l, i) \in Seq(Recipe) /\ Range(RejectAt(l, i)) \subseteq Range(l)
         /\ build_cache_fail = {} => RejectAt(l, i) = l
<1>1. CASE i <= Len(l) /\ l[i] \in build_cache_fail
  <2>1. RejectAt(l, i) = Without(l, i) /\ build_cache_fail # {} /\ i \in 1 .. Len(l)
    BY <1>1 DEF RejectAt
  <2>2. QED BY <2>1, WithoutIsPart
<1>2. CASE ~ (i <= Len(l) /\ l[i] \in build_cache_fail)
  BY <1>2 DEF RejectAt
<1>3. QED BY <1>1, <1>2

LEMMA RejectFailedIsPart ==
  ASSUME NEW e \in Seq(Recipe)
  PROVE  /\ RejectFailed(e) \in Seq(Recipe) /\ Range(RejectFailed(e)) \subseteq Range(e)
         /\ build_cache_fail = {} => RejectFailed(e) = e
<1> DEFINE n == Len(e)
           S == {l \in Seq(Recipe) : /\ Range(l) \subseteq Range(e)
                                     /\ build_cache_fail = {} => l = e}
           step == [i \in 1 .. n |-> [l \in S |-> RejectAt(l, i)]]
           left == CHOOSE f : IsReject(f, e, n)
<1>1. n \in Nat
  OBVIOUS
<1>2. e \in S
  OBVIOUS
<1>3. ASSUME NEW i \in 1 .. n, NEW l \in S PROVE RejectAt(l, i) \in S
  <2>1. l \in Seq(Recipe) /\ i \in Nat \ {0}
    OBVIOUS
  <2>2. /\ RejectAt(l, i) \in Seq(Recipe) /\ Range(RejectAt(l, i)) \subseteq Range(l)
        /\ build_cache_fail = {} => RejectAt(l, i) = l
    BY <2>1, RejectAtIsPart
  <2>3. QED BY <2>2
<1>4. \E f : IsReject(f, e, n)
  <2>1. step \in [1 .. n -> [S -> S]]
    BY <1>3
  <2>2. PICK f : IsLoop(f, S, e, n, step)
    <3> HIDE DEF step, S, n
    <3>1. QED BY <1>1, <1>2, <2>1, LoopIsDefined
  <2>3. f \in [0 .. n -> S] /\ f[0] = e /\ \A i \in 1 .. n : f[i] = step[i][f[i - 1]]
    <3> HIDE DEF step, S, n
    <3>1. QED BY <2>2 DEF IsLoop
  <2>4. ASSUME NEW i \in 1 .. n PROVE f[i] = RejectAt(f[i - 1], i)
    <3>1. f[i - 1] \in S
      <4> HIDE DEF S
      <4>1. QED BY <2>3
    <3>2. step[i][f[i - 1]] = RejectAt(f[i - 1], i)
      <4> HIDE DEF S
      <4>1. QED BY <3>1
    <3>3. QED BY <2>3, <3>2
  <2>5. IsReject(f, e, n)
    <3> HIDE DEF S, step
    <3>1. QED BY <2>3, <2>4 DEF IsReject
  <2>6. QED BY <2>5
<1>5. IsReject(left, e, n)
  BY <1>4
<1> HIDE DEF left
<1>6. left[0] = e /\ \A i \in 1 .. n : left[i] = RejectAt(left[i - 1], i)
  BY <1>1, <1>5 DEF IsReject
<1>7. left[n] \in S
  <2> DEFINE T == {i \in 0 .. n : left[i] \in S}
  <2>1. 0 \in T
    BY <1>1, <1>2, <1>6
  <2>2. \A i \in 1 .. n : i - 1 \in T => i \in T
    <3> HIDE DEF S
    <3>1. QED BY <1>3, <1>6
  <2>3. n \in T
    <3> HIDE DEF T, n
    <3>1. QED BY <1>1, <2>1, <2>2, Induction
  <2>4. QED BY <2>3
<1>8. RejectFailed(e) = left[n]
  BY DEF RejectFailed, IsReject, left
<1>9. QED BY <1>7, <1>8

(* findBestProvider's choice, as its docstring has it.                     *)
OfVersion(files, at, about, want) == {j \in at : \E v \in want : Wanted(about[files[j]], v)}

IsChoice(i, files, at, about, want) ==
    LET preferred == OfVersion(files, at, about, want)
        p == about[files[i]].priority
    IN  /\ preferred # {} => i \in preferred /\ \A j \in preferred : about[files[j]].priority <= p
        /\ preferred = {} =>
              \A j \in at : /\ about[files[j]].priority <= p
                            /\ about[files[j]].priority = p => ~Newer(about[files[j]], about[files[i]])

LEMMA BestIsFound ==
  ASSUME NEW files \in Seq(Recipe), NEW at \in SUBSET DOMAIN files, at # {},
         NEW about \in [Recipe -> FileType], NEW want
  PROVE  \E i \in at : /\ FindBestProvider(files, at, about, want) = files[i]
                       /\ IsChoice(i, files, at, about, want)
<1> DEFINE preferred == OfVersion(files, at, about, want)
           Top1(t) == TopPriority(files, t, about)
           P(i) == about[files[i]].priority
<1>1. FindBestProvider(files, at, about, want) =
        IF preferred # {} THEN files[First(Top1(preferred))] ELSE files[Latest(files, Top1(at), about)]
  BY DEF FindBestProvider, OfVersion
<1>2. \A i \in at : P(i) \in Int
  BY DEF FileType
<1>3. ASSUME NEW t \in SUBSET at, t # {}
      PROVE  Top1(t) # {} /\ Top1(t) \in SUBSET t /\ \A i \in Top1(t), j \in t : P(j) <= P(i)
  <2>1. t \in SUBSET DOMAIN files
    OBVIOUS
  <2>2. Top1(t) # {} /\ Top1(t) \in SUBSET t
    BY <1>3, <2>1, TopPriorityIsNotEmpty
  <2>3. \A i \in Top1(t), j \in t : P(j) <= P(i)
    BY DEF TopPriority
  <2>4. QED BY <2>2, <2>3
<1>4. preferred \in SUBSET at
  BY DEF OfVersion
<1>5. at \in SUBSET Nat
  OBVIOUS
<1> HIDE DEF preferred
<1>6. CASE preferred # {}
  <2>1. PICK i : i = First(Top1(preferred))
    OBVIOUS
  <2>2. /\ Top1(preferred) # {} /\ Top1(preferred) \in SUBSET preferred
        /\ \A k \in Top1(preferred), j \in preferred : P(j) <= P(k)
    <3> HIDE DEF Top1, P
    <3>1. QED BY <1>3, <1>4, <1>6
  <2> HIDE DEF Top1
  <2>3. i \in Top1(preferred)
    BY <1>4, <1>5, <2>1, <2>2, FirstIsOneOf
  <2>4. i \in at /\ i \in preferred /\ \A j \in preferred : P(j) <= P(i)
    BY <1>4, <2>2, <2>3
  <2>5. QED BY <1>1, <1>6, <2>1, <2>4 DEF preferred, IsChoice
<1>7. CASE preferred = {}
  <2>1. PICK i : i = Latest(files, Top1(at), about)
    OBVIOUS
  <2>2. Top1(at) # {} /\ Top1(at) \in SUBSET at /\ \A k \in Top1(at), j \in at : P(j) <= P(k)
    <3> HIDE DEF Top1, P
    <3>1. at \in SUBSET at /\ at # {}
      OBVIOUS
    <3>2. QED BY <1>3, <3>1
  <2>3. i \in Top1(at) /\ \A j \in Top1(at) : ~Newer(about[files[j]], about[files[i]])
    <3>1. Top1(at) \in SUBSET DOMAIN files
      BY <2>2
    <3> HIDE DEF Top1
    <3>2. QED BY <2>1, <2>2, <3>1, LatestIsNewest
  <2>4. ASSUME NEW j \in at, P(j) = P(i) PROVE j \in Top1(at)
    <3>1. \A k \in at : P(k) <= P(j)
      BY <2>2, <2>3, <2>4
    <3>2. QED BY <3>1 DEF TopPriority
  <2> HIDE DEF Top1
  <2>5. i \in at /\ \A j \in at : P(j) <= P(i) /\ (P(j) = P(i) => ~Newer(about[files[j]], about[files[i]]))
    <3> HIDE DEF P
    <3>1. QED BY <2>2, <2>3, <2>4
  <2>6. QED BY <1>1, <1>7, <2>1, <2>5 DEF preferred, IsChoice
<1>8. QED BY <1>6, <1>7

LEMMA BestAreBest ==
  ASSUME world \in WorldType, NEW item \in Item
  PROVE  /\ \A r \in Best(item) : r \in Providers(item) /\ IsBest(r, item)
         /\ Providers(item) # {} => Best(item) # {}
<1> DEFINE files == world.parsed
           about == world.about
           Found(n) == FindBestProvider(files, ByName(item, n), about, world.wanted[n])
<1>1. files \in Seq(Recipe) /\ about \in [Recipe -> FileType] /\ Range(files) = Recipe
  BY DEF WorldType, WorldRecord
<1>2. ASSUME NEW r \in Providers(item)
      PROVE  Found(world.pkg_fn[r]) \in Providers(item) /\ IsBest(Found(world.pkg_fn[r]), item)
  <2> DEFINE n == world.pkg_fn[r]
             at == ByName(item, n)
             want == world.wanted[n]
             preferred == OfVersion(files, at, about, want)
  <2>1. PICK k \in DOMAIN files : files[k] = r
    BY <1>1, <1>2 DEF Providers, Range
  <2>2. at \in SUBSET DOMAIN files
    BY DEF ByName
  <2>3. at # {}
    BY <1>2, <2>1 DEF ByName, Providers
  <2>4. \A i \in at : files[i] \in Providers(item) /\ world.pkg_fn[files[i]] = n
    BY <1>1 DEF ByName, Providers
  <2>5. \A s \in Providers(item) : world.pkg_fn[s] = n => \E i \in at : files[i] = s
    BY <1>1 DEF ByName, Providers, Range
  <2>6. PICK i \in at : Found(n) = files[i] /\ IsChoice(i, files, at, about, want)
    <3>1. Found(n) = FindBestProvider(files, at, about, want)
      OBVIOUS
    <3> HIDE DEF at, want, files, about, n, Found
    <3>2. QED BY <1>1, <2>2, <2>3, <3>1, BestIsFound
  <2>7. PICK b : b = Found(n)
    OBVIOUS
  <2> HIDE DEF Found
  <2>8. b = files[i] /\ b \in Providers(item) /\ world.pkg_fn[b] = n
    BY <2>4, <2>6, <2>7
  <2>9. \A j \in at : IsWanted(files[j]) <=> j \in preferred
    BY <2>4 DEF IsWanted, OfVersion
  <2>10. \A s : s \in Rivals(b, item) <=> \E j \in at : s = files[j]
    BY <2>4, <2>5, <2>8 DEF Rivals
  <2>11. \A j \in at : about[files[j]].priority \in Int
    BY <1>1, <2>2 DEF FileType
  <2> HIDE DEF at, preferred, n, want
  <2>12. CASE preferred # {}
    <3>1. i \in preferred /\ \A j \in preferred : about[files[j]].priority <= about[files[i]].priority
      BY <2>6, <2>12 DEF IsChoice, preferred
    <3>2. IsWanted(b) /\ b \in Rivals(b, item)
      BY <2>8, <2>9, <2>10, <3>1
    <3>3. ASSUME NEW s \in Rivals(b, item), IsWanted(s) PROVE world.about[s].priority <= world.about[b].priority
      <4>1. PICK j \in at : s = files[j]
        BY <2>10
      <4>2. j \in preferred
        BY <2>9, <3>3, <4>1
      <4>3. QED BY <2>8, <3>1, <4>1, <4>2
    <3>4. IsBest(b, item)
      BY <3>2, <3>3 DEF IsBest
    <3>5. QED BY <2>7, <2>8, <3>4 DEF n
  <2>13. CASE preferred = {}
    <3>1. \A s \in Rivals(b, item) : ~IsWanted(s)
      BY <2>9, <2>10, <2>13
    <3>2. ASSUME NEW s \in Rivals(b, item) PROVE ~Beats(s, b)
      <4>1. PICK j \in at : s = files[j]
        BY <2>10
      <4>2. /\ about[files[j]].priority <= about[files[i]].priority
            /\ about[files[j]].priority = about[files[i]].priority => ~Newer(about[files[j]], about[files[i]])
        BY <2>6, <2>13 DEF IsChoice, preferred
      <4>3. QED BY <2>8, <2>11, <4>1, <4>2 DEF Beats
    <3>3. IsBest(b, item)
      BY <3>1, <3>2 DEF IsBest
    <3>4. QED BY <2>7, <2>8, <3>3 DEF n
  <2>14. QED BY <2>12, <2>13
<1>3. \A r \in Best(item) : r \in Providers(item) /\ IsBest(r, item)
  <2> HIDE DEF Found
  <2>1. \A r \in Best(item) : \E p \in Providers(item) : r = Found(world.pkg_fn[p])
    BY DEF Best, Found
  <2>2. QED BY <1>2, <2>1
<1>4. ASSUME NEW r \in Providers(item) PROVE Best(item) # {}
  BY <1>4 DEF Best
<1>5. QED BY <1>3, <1>4

LEMMA CandidatesAreProviders ==
  ASSUME world \in WorldType, NEW item \in Item, NEW e \in Candidates(item)
  PROVE  /\ e \in Seq(Recipe)
         /\ \A r \in Range(e) : r \in Providers(item) /\ IsBest(r, item)
         /\ Providers(item) # {} /\ build_cache_fail = {} => e # <<>>
<1> DEFINE best == Best(item)
           starts == Injection(1 .. Cardinality(best), best)
           Fine(l) == /\ l \in Seq(Recipe)
                      /\ Range(l) \subseteq best
                      /\ Providers(item) # {} /\ build_cache_fail = {} => l # <<>>
<1>1. ASSUME NEW s \in starts PROVE Fine(s)
  <2>1. best \subseteq Providers(item) /\ Providers(item) \subseteq Recipe
    <3>1. best \subseteq Providers(item)
      BY BestAreBest
    <3>2. QED BY <3>1 DEF Providers
  <2>2. IsFiniteSet(best)
    <3>1. best \subseteq Recipe
      BY <2>1
    <3> HIDE DEF best
    <3>2. QED BY <3>1, RecipesAreFinite, FS_Subset
  <2>3. Cardinality(best) \in Nat /\ (Cardinality(best) = 0 <=> best = {})
    <3> HIDE DEF best
    <3>1. QED BY <2>2, FS_CardinalityType, FS_EmptySet
  <2>4. Providers(item) # {} => best # {}
    BY BestAreBest
  <2>5. s \in [1 .. Cardinality(best) -> best]
    BY DEF Injection
  <2> HIDE DEF best
  <2>6. s \in Seq(best) /\ Len(s) = Cardinality(best)
    BY <2>3, <2>5
  <2>7. s \in Seq(Recipe)
    BY <2>1, <2>6
  <2>8. Range(s) \subseteq best
    BY <2>5 DEF Range
  <2>9. best # {} => s # <<>>
    BY <2>3, <2>6
  <2>10. QED BY <2>1, <2>4, <2>7, <2>8, <2>9
<1>2. ASSUME NEW s, Fine(s) PROVE Fine(RejectFailed(s))
  BY <1>2, RejectFailedIsPart
<1>3. ASSUME NEW s, Fine(s), NEW i \in DOMAIN s PROVE Fine(ToHead(s, i))
  <2>1. s \in Seq(Recipe) /\ i \in 1 .. Len(s)
    BY <1>3
  <2>2. ToHead(s, i) \in Seq(Recipe) /\ ToHead(s, i) # <<>> /\ Range(ToHead(s, i)) \subseteq Range(s)
    BY <2>1, ToHeadIsSame
  <2>3. QED BY <1>3, <2>2
<1> HIDE DEF Fine
<1>4. ASSUME NEW s, Fine(s), NEW t \in BumpStaged(s, item) PROVE Fine(t)
  BY <1>3, <1>4 DEF BumpStaged
<1>5. ASSUME NEW s, Fine(s), NEW t \in BumpPreferred(s, item) PROVE Fine(t)
  BY <1>3, <1>5 DEF BumpPreferred
<1>6. PICK s \in starts : \E t \in BumpStaged(RejectFailed(s), item) : e \in BumpPreferred(t, item)
  BY DEF Candidates
<1>7. PICK t \in BumpStaged(RejectFailed(s), item) : e \in BumpPreferred(t, item)
  BY <1>6
<1>8. Fine(e)
  <2>1. Fine(RejectFailed(s))
    <3> HIDE DEF starts
    <3>1. QED BY <1>1, <1>2, <1>6
  <2>2. Fine(t)
    BY <1>4, <1>7, <2>1
  <2>3. QED BY <1>5, <1>7, <2>2
<1>9. QED BY <1>8, BestAreBest DEF Fine

---------------------------------------------------------------------------
(* The calls in progress: each is in order by itself, and was made for the *)
(* item its caller waits for.                                              *)
FrameType == ProviderFrameType \cup BuildFrameType
IsProvider(f) == f.kind = "provider"
IsBuild(f) == f.kind = "build"

ProviderInOrder(f) ==
    /\ f \in ProviderFrameType
    /\ f.eligible # <<>>
    /\ \A r \in Range(f.eligible) : r \in Providers(f.item) /\ IsBest(r, f.item)
    /\ f.next \in 1 .. Len(f.eligible) + 1

BuildInOrder(f) ==
    /\ f \in BuildFrameType
    /\ f.fn \in Providers(f.item) /\ IsBest(f.fn, f.item)
    /\ f.next \in 1 .. Len(world.depends[f.fn]) + 1
    /\ f.pc = "package" => ~f.failed /\ f.next > Len(world.depends[f.fn])
    /\ BBDepCmd[options.cmd] # "" => f.depcmd # None /\ BBDepCmd[f.oldcmd] # ""
    /\ BBDepCmd[options.cmd] = "" => f.depcmd = None

CallInOrder(f) == ProviderInOrder(f) \/ BuildInOrder(f)

ProviderCalls(f, item) ==
    /\ IsProvider(f)
    /\ f.next <= Len(f.eligible)
    /\ item = f.item

BuildCalls(f, item) ==
    /\ IsBuild(f)
    /\ f.pc = "deps"
    /\ f.next <= Len(world.depends[f.fn])
    /\ item = world.depends[f.fn][f.next]

CookCalls(item) == current <= Len(targets) /\ item = targets[current]

Called(s, i) ==
    IF i = 1 THEN IsProvider(s[1]) /\ CookCalls(s[1].item)
    ELSE \/ IsBuild(s[i]) /\ ProviderCalls(s[i - 1], s[i].item)
         \/ IsProvider(s[i]) /\ BuildCalls(s[i - 1], s[i].item)

Stacked(s) ==
    /\ s \in Seq(FrameType)
    /\ \A i \in DOMAIN s : CallInOrder(s[i]) /\ Called(s, i)

(* The item the innermost call, or cook, waits for.                        *)
Awaited(s, item) ==
    IF s = <<>> THEN CookCalls(item)
    ELSE ProviderCalls(s[Len(s)], item) \/ BuildCalls(s[Len(s)], item)

CmdInv ==
    /\ cmd \in Cmd
    /\ BBDepCmd[options.cmd] # "" => BBDepCmd[cmd] # ""
    /\ BBDepCmd[options.cmd] = "" => cmd = options.cmd

CallsInv ==
    /\ world \in WorldType
    /\ targets \in Seq(Item)
    /\ options \in OptionsType
    /\ current \in 1 .. Len(targets) + 1
    /\ returned \in BOOLEAN \cup {None}
    /\ CmdInv
    /\ Stacked(stack)
    /\ returned # None => \E item \in Item : Awaited(stack, item)
    /\ exit # None => stack = <<>> /\ returned = None

LEMMA KindsDiffer ==
  ASSUME NEW f, CallInOrder(f)
  PROVE  /\ IsProvider(f) <=> ~IsBuild(f)
         /\ IsProvider(f) => ProviderInOrder(f)
         /\ IsBuild(f) => BuildInOrder(f)
         /\ f \in FrameType /\ f.item \in Item
<1>1. CASE ProviderInOrder(f)
  BY <1>1 DEF ProviderInOrder, ProviderFrameType, FrameType, IsProvider, IsBuild
<1>2. CASE BuildInOrder(f)
  <2>1. f \in BuildFrameType
    BY <1>2 DEF BuildInOrder
  <2>2. f.item \in Item
    BY <2>1 DEF BuildFrameType
  <2>3. QED BY <1>2, <2>1, <2>2 DEF BuildFrameType, FrameType, IsProvider, IsBuild
<1>3. QED BY <1>1, <1>2 DEF CallInOrder

LEMMA Pushed ==
  ASSUME NEW s, NEW f, Stacked(s), CallInOrder(f), Awaited(s, f.item),
         s = <<>> => IsProvider(f), s # <<>> => f.kind # s[Len(s)].kind
  PROVE  Stacked(Append(s, f))
<1> DEFINE t == Append(s, f)
<1>1. s \in Seq(FrameType) /\ f \in FrameType
  BY KindsDiffer DEF Stacked
<1>2. t \in Seq(FrameType) /\ Len(t) = Len(s) + 1 /\ t[Len(s) + 1] = f
      /\ \A i \in 1 .. Len(s) : t[i] = s[i]
  BY <1>1
<1> HIDE DEF t
<1>3. ASSUME NEW i \in 1 .. Len(s) PROVE CallInOrder(t[i]) /\ Called(t, i)
  <2>1. t[i] = s[i] /\ (i # 1 => t[i - 1] = s[i - 1]) /\ (i = 1 => t[1] = s[1])
    BY <1>1, <1>2, <1>3
  <2>2. CallInOrder(s[i]) /\ Called(s, i)
    BY <1>1, <1>3 DEF Stacked
  <2>3. QED BY <2>1, <2>2 DEF Called
<1>4. CASE s = <<>>
  <2>1. Called(t, 1) /\ t[1] = f
    BY <1>2, <1>4 DEF Called, Awaited
  <2>2. QED BY <1>2, <1>4, <2>1 DEF Stacked, t
<1>5. CASE s # <<>>
  <2>1. Len(s) \in DOMAIN s /\ Len(s) + 1 # 1 /\ Len(s) \in Nat
    BY <1>1, <1>5
  <2>2. CallInOrder(s[Len(s)])
    BY <2>1 DEF Stacked
  <2>3. \/ IsBuild(f) /\ ProviderCalls(s[Len(s)], f.item)
        \/ IsProvider(f) /\ BuildCalls(s[Len(s)], f.item)
    <3>1. ProviderCalls(s[Len(s)], f.item) \/ BuildCalls(s[Len(s)], f.item)
      BY <1>5 DEF Awaited
    <3>2. IsProvider(s[Len(s)]) <=> ~IsBuild(s[Len(s)])
      BY <2>2, KindsDiffer
    <3>3. IsProvider(f) <=> ~IsBuild(f)
      BY KindsDiffer
    <3>4. (IsProvider(f) <=> ~IsProvider(s[Len(s)])) \/ (IsBuild(f) <=> ~IsBuild(s[Len(s)]))
      BY <1>5, <3>2, <3>3 DEF IsProvider, IsBuild
    <3>5. QED BY <3>1, <3>2, <3>3, <3>4 DEF ProviderCalls, BuildCalls
  <2>4. Called(t, Len(s) + 1)
    BY <1>2, <2>1, <2>3 DEF Called
  <2>5. \A i \in 1 .. Len(t) : i \in 1 .. Len(s) \/ i = Len(s) + 1
    BY <1>2, <2>1
  <2>6. QED BY <1>2, <1>3, <2>4, <2>5 DEF Stacked, t
<1>6. QED BY <1>4, <1>5

LEMMA Popped ==
  ASSUME NEW s, Stacked(s), s # <<>>
  PROVE  LET t == SubSeq(s, 1, Len(s) - 1)
         IN  Stacked(t) /\ Awaited(t, s[Len(s)].item) /\ s[Len(s)].item \in Item
<1> DEFINE t == SubSeq(s, 1, Len(s) - 1)
<1>1. s \in Seq(FrameType) /\ Len(s) \in Nat \ {0}
  BY DEF Stacked
<1>2. t \in Seq(FrameType) /\ Len(t) = Len(s) - 1 /\ \A i \in 1 .. Len(s) - 1 : t[i] = s[i]
  <2>1. PICK n \in Nat : n = Len(s) - 1
    BY <1>1
  <2>2. \A i \in 1 .. n : s[i] \in FrameType
    BY <1>1, <2>1
  <2>3. /\ SubSeq(s, 1, n) \in Seq(FrameType)
        /\ Len(SubSeq(s, 1, n)) = n
        /\ \A i \in 1 .. n : SubSeq(s, 1, n)[i] = s[i]
    BY <2>2, SubSeqProperties
  <2>4. QED BY <2>1, <2>3
<1>3. \A i \in 1 .. Len(s) : CallInOrder(s[i]) /\ Called(s, i)
  BY <1>1 DEF Stacked
<1> HIDE DEF t
<1>4. ASSUME NEW i \in 1 .. Len(s) - 1 PROVE CallInOrder(t[i]) /\ Called(t, i)
  <2>1. t[i] = s[i] /\ (i # 1 => t[i - 1] = s[i - 1]) /\ (i = 1 => t[1] = s[1])
    BY <1>1, <1>2
  <2>2. CallInOrder(s[i]) /\ Called(s, i)
    BY <1>1, <1>3
  <2>3. QED BY <2>1, <2>2 DEF Called
<1>5. Stacked(t)
  BY <1>2, <1>4 DEF Stacked
<1>6. Awaited(t, s[Len(s)].item)
  <2>1. Called(s, Len(s))
    BY <1>1, <1>3
  <2>2. CASE Len(s) = 1
    <3>1. t = <<>>
      BY <1>2, <2>2
    <3>2. QED BY <2>1, <2>2, <3>1 DEF Called, Awaited
  <2>3. CASE Len(s) # 1
    <3>1. t # <<>> /\ t[Len(t)] = s[Len(s) - 1]
      BY <1>1, <1>2, <2>3
    <3>2. QED BY <2>1, <2>3, <3>1 DEF Called, Awaited
  <2>4. QED BY <2>2, <2>3
<1>7. s[Len(s)].item \in Item
  BY <1>1, <1>3, KindsDiffer
<1>8. QED BY <1>5, <1>6, <1>7 DEF t

LEMMA Replaced ==
  ASSUME NEW s, NEW f, Stacked(s), s # <<>>, CallInOrder(f),
         f.kind = s[Len(s)].kind, f.item = s[Len(s)].item
  PROVE  Stacked([s EXCEPT ![Len(s)] = f])
<1> DEFINE t == [s EXCEPT ![Len(s)] = f]
<1>1. s \in Seq(FrameType) /\ Len(s) \in Nat \ {0} /\ f \in FrameType
  BY KindsDiffer DEF Stacked
<1>2. t \in Seq(FrameType) /\ Len(t) = Len(s) /\ t[Len(s)] = f
      /\ \A i \in 1 .. Len(s) - 1 : t[i] = s[i]
  BY <1>1
<1> HIDE DEF t
<1>3. ASSUME NEW i \in 1 .. Len(s) PROVE CallInOrder(t[i]) /\ Called(t, i)
  <2>1. CallInOrder(s[i]) /\ Called(s, i)
    BY <1>1 DEF Stacked
  <2>2. i # 1 => i - 1 \in 1 .. Len(s) - 1 /\ t[i - 1] = s[i - 1]
    BY <1>1, <1>2
  <2>3. CASE i = Len(s)
    BY <1>2, <2>1, <2>2, <2>3 DEF Called, IsProvider, IsBuild
  <2>4. CASE i # Len(s)
    <3>1. t[i] = s[i]
      BY <1>1, <1>2, <2>4
    <3>2. QED BY <2>1, <2>2, <3>1 DEF Called
  <2>5. QED BY <2>3, <2>4
<1>4. Stacked(t)
  BY <1>2, <1>3 DEF Stacked
<1>5. QED BY <1>4 DEF t

LEMMA SameCalls ==
  ASSUME UNCHANGED <<world, targets, options, current>>, NEW s
  PROVE  /\ Stacked(s)' <=> Stacked(s)
         /\ \A item : Awaited(s, item)' <=> Awaited(s, item)
<1>1. \A item : CookCalls(item)' <=> CookCalls(item)
  BY DEF CookCalls
<1>2. \A f, item : BuildCalls(f, item)' <=> BuildCalls(f, item)
  BY DEF BuildCalls
<1>3. \A f, item : ProviderCalls(f, item)' <=> ProviderCalls(f, item)
  BY DEF ProviderCalls
<1>4. \A f : CallInOrder(f)' <=> CallInOrder(f)
  <2>1. \A r, item : IsBest(r, item)' <=> IsBest(r, item)
    BY DEF IsBest, Rivals, Providers, IsWanted, Beats
  <2>2. QED BY <2>1 DEF CallInOrder, ProviderInOrder, BuildInOrder, Providers
<1>5. \A i : Called(s, i)' <=> Called(s, i)
  BY <1>1, <1>2, <1>3 DEF Called
<1>6. QED BY <1>1, <1>2, <1>3, <1>4, <1>5 DEF Stacked, Awaited

LEMMA TopIsInOrder ==
  ASSUME CallsInv, stack # <<>>
  PROVE  CallInOrder(top)
<1>1. Len(stack) \in DOMAIN stack
  BY DEF CallsInv, Stacked
<1>2. QED BY <1>1 DEF CallsInv, Stacked, top

LEMMA DependsAreItems ==
  ASSUME world \in WorldType, NEW r \in Recipe
  PROVE  world.depends[r] \in Seq(Item)
BY DEF WorldType, WorldRecord

LEMMA BuildProviderAnswers ==
  ASSUME CallsInv, NEW item \in Item, BuildProvider(item)
  PROVE  \/ /\ stack' = stack /\ returned' = FALSE
            /\ Providers(item) = {} \/ build_cache_fail # {}
         \/ stack' = stack /\ returned' = TRUE /\ Satisfied(item)
         \/ /\ returned' = None
            /\ Providers(item) \cap build_cache = {}
            /\ \E f : /\ ProviderInOrder(f) /\ f.item = item /\ f.next = 1
                      /\ stack' = Append(stack, f)
<1>1. CASE Providers(item) = {}
  BY <1>1 DEF BuildProvider
<1>2. CASE Providers(item) # {} /\ Providers(item) \cap build_cache # {}
  BY <1>2 DEF BuildProvider, Satisfied
<1>3. CASE Providers(item) # {} /\ Providers(item) \cap build_cache = {}
  <2>1. PICK e \in Candidates(item) :
            IF e = <<>> THEN returned' = FALSE /\ UNCHANGED stack
            ELSE stack' = Append(stack, ProviderFrame(item, e)) /\ returned' = None
    BY <1>3 DEF BuildProvider
  <2>2. /\ e \in Seq(Recipe) /\ \A r \in Range(e) : r \in Providers(item) /\ IsBest(r, item)
        /\ Providers(item) # {} /\ build_cache_fail = {} => e # <<>>
    BY CandidatesAreProviders DEF CallsInv
  <2>3. CASE e = <<>>
    BY <1>3, <2>1, <2>2, <2>3
  <2>4. CASE e # <<>>
    <3>1. PICK f : f = ProviderFrame(item, e)
      OBVIOUS
    <3>2. ProviderInOrder(f) /\ f.item = item /\ f.next = 1
      BY <2>2, <2>4, <3>1 DEF ProviderFrame, ProviderInOrder, ProviderFrameType
    <3>3. QED BY <1>3, <2>1, <2>4, <3>1, <3>2
  <2>5. QED BY <2>3, <2>4
<1>4. QED BY <1>1, <1>2, <1>3

(* What a step does to the calls in progress keeps them in order.          *)
LEMMA CallAnswered ==
  ASSUME CallsInv, NEW item \in Item, Awaited(stack, item), BuildProvider(item), exit = None,
         stack # <<>> => IsBuild(top),
         UNCHANGED <<world, targets, options, current, cmd, exit>>
  PROVE  CallsInv'
<1>1. CASE stack' = stack /\ returned' \in BOOLEAN
  <2>1. PICK s : s = stack
    OBVIOUS
  <2>2. Stacked(s)' /\ Awaited(s, item)'
    BY <2>1, SameCalls DEF CallsInv
  <2>3. QED BY <1>1, <2>1, <2>2 DEF CallsInv, CmdInv
<1>2. CASE returned' = None /\ \E f : /\ ProviderInOrder(f) /\ f.item = item /\ f.next = 1
                                     /\ stack' = Append(stack, f)
  <2>1. PICK f : /\ ProviderInOrder(f) /\ f.item = item /\ stack' = Append(stack, f)
    BY <1>2
  <2>2. CallInOrder(f) /\ IsProvider(f)
    BY <2>1 DEF CallInOrder, ProviderInOrder, ProviderFrameType, IsProvider
  <2>3. stack # <<>> => f.kind # stack[Len(stack)].kind
    BY <2>2 DEF IsProvider, IsBuild, top
  <2>4. Stacked(Append(stack, f))
    BY <2>1, <2>2, <2>3, Pushed DEF CallsInv
  <2>5. PICK s : s = Append(stack, f)
    OBVIOUS
  <2>6. Stacked(s)'
    BY <2>4, <2>5, SameCalls
  <2>7. QED BY <1>2, <2>1, <2>5, <2>6 DEF CallsInv, CmdInv
<1>3. QED BY <1>1, <1>2, BuildProviderAnswers

LEMMA CallReturned ==
  ASSUME CallsInv, stack # <<>>, NEW v \in BOOLEAN, Return(v), exit = None, CmdInv',
         UNCHANGED <<world, targets, options, current, exit>>
  PROVE  CallsInv'
<1>1. /\ Stacked(callers) /\ Awaited(callers, top.item) /\ top.item \in Item
  BY Popped DEF CallsInv, callers, top
<1>2. PICK s : s = callers
  OBVIOUS
<1>3. PICK item \in Item : item = top.item
  BY <1>1
<1>4. Stacked(s)' /\ Awaited(s, item)'
  BY <1>1, <1>2, <1>3, SameCalls
<1>5. stack' = s /\ returned' = v
  BY <1>2 DEF Return
<1>6. QED BY <1>4, <1>5 DEF CallsInv

LEMMA CallGoesOn ==
  ASSUME CallsInv, stack # <<>>, NEW f, CallInOrder(f), f.kind = top.kind, f.item = top.item,
         Top(f), returned' = None, exit = None, CmdInv',
         UNCHANGED <<world, targets, options, current, exit>>
  PROVE  CallsInv'
<1>1. PICK s : s = [stack EXCEPT ![Len(stack)] = f]
  OBVIOUS
<1>2. Stacked(s)
  BY <1>1, Replaced DEF CallsInv, top
<1>3. Stacked(s)'
  BY <1>2, SameCalls
<1>4. stack' = s
  BY <1>1 DEF Top
<1>5. QED BY <1>3, <1>4 DEF CallsInv

LEMMA CallsEnd ==
  ASSUME CallsInv, stack' = <<>>, returned' \in BOOLEAN \cup {None}, CmdInv',
         UNCHANGED <<world, targets, options>>, current' \in 1 .. Len(targets) + 1,
         returned' # None => current' <= Len(targets), exit' # None => returned' = None
  PROVE  CallsInv'
<1>1. Stacked(<<>>)'
  BY DEF Stacked
<1>2. ASSUME returned' # None PROVE targets[current]' \in Item /\ Awaited(<<>>, targets[current])'
  BY <1>2 DEF Awaited, CookCalls, CallsInv
<1>3. (returned # None => \E item \in Item : Awaited(stack, item))'
  BY <1>2
<1>4. QED BY <1>1, <1>3 DEF CallsInv

LEMMA CallsInit == Init => CallsInv
<1>1. SUFFICES ASSUME Init PROVE CallsInv
  OBVIOUS
<1>2. PICK run \in Runs : world = run.world /\ targets = run.targets /\ options = run.options
  BY <1>1 DEF Init
<1>3. run.world \in WorldType /\ run.targets \in Seq(Item) /\ run.options \in OptionsType
  BY RunsAreTyped DEF RunType
<1>4. options.cmd \in Cmd
  BY <1>2, <1>3 DEF OptionsType
<1>5. Stacked(<<>>)
  BY DEF Stacked
<1>6. current \in 1 .. Len(targets) + 1
  BY <1>1, <1>2, <1>3 DEF Init
<1>7. QED BY <1>1, <1>2, <1>3, <1>4, <1>5, <1>6 DEF Init, CallsInv, CmdInv

(* A call in progress may only be buildProvider's or tryBuild's, and each  *)
(* action continues one of them.                                           *)
LEMMA TryBuildCalls == CallsInv /\ TryBuild => CallsInv'
<1>1. SUFFICES ASSUME CallsInv, TryBuild PROVE CallsInv'
  OBVIOUS
<1>2. PICK g : g = top
  OBVIOUS
<1>3. stack # <<>> /\ returned = None /\ exit = None /\ IsProvider(g) /\ g.next <= Len(g.eligible)
  BY <1>1, <1>2 DEF TryBuild, Calls, Busy, IsProvider
<1>4. ProviderInOrder(g)
  BY <1>1, <1>2, <1>3, TopIsInOrder, KindsDiffer
<1>5. PICK r : r = g.eligible[g.next]
  OBVIOUS
<1>6. r \in Providers(g.item) /\ IsBest(r, g.item) /\ g.item \in Item /\ r \in Recipe
  <2>1. g.next \in DOMAIN g.eligible /\ g.item \in Item
    BY <1>3, <1>4 DEF ProviderInOrder, ProviderFrameType
  <2>2. r \in Range(g.eligible)
    BY <1>5, <2>1 DEF Range
  <2>3. QED BY <1>4, <2>1, <2>2 DEF ProviderInOrder, Providers
<1>7. Awaited(stack, g.item)
  BY <1>2, <1>3 DEF Awaited, ProviderCalls, top
<1>8. UNCHANGED <<world, targets, options, current, exit>>
  BY <1>1 DEF TryBuild
<1>9. CASE r \in Range(building_list)
  <2>1. returned' = FALSE /\ stack' = stack /\ cmd' = cmd
    BY <1>1, <1>2, <1>5, <1>9 DEF TryBuild
  <2>2. PICK s : s = stack
    OBVIOUS
  <2>3. Stacked(s)' /\ Awaited(s, g.item)'
    BY <1>1, <1>7, <1>8, <2>2, SameCalls DEF CallsInv
  <2>4. QED BY <1>1, <1>3, <1>6, <1>8, <2>1, <2>2, <2>3 DEF CallsInv, CmdInv
<1>10. CASE r \notin Range(building_list)
  <2>1. /\ stack' = Append(stack, BuildFrame(r, g.item, cmd))
        /\ cmd' = IF DepCmd(cmd) = None THEN cmd ELSE DepCmd(cmd)
        /\ returned' = returned
    BY <1>1, <1>2, <1>5, <1>10 DEF TryBuild
  <2>2. /\ cmd \in Cmd
        /\ BBDepCmd[options.cmd] # "" => BBDepCmd[cmd] # ""
        /\ BBDepCmd[options.cmd] = "" => cmd = options.cmd
    BY <1>1 DEF CallsInv, CmdInv
  <2>3. /\ DepCmd(cmd) \in Cmd \cup {None}
        /\ BBDepCmd[cmd] # "" => DepCmd(cmd) \in Cmd /\ BBDepCmd[DepCmd(cmd)] # ""
        /\ BBDepCmd[cmd] = "" => DepCmd(cmd) = None
    <3>1. BBDepCmd[cmd] \in Cmd \cup {None, ""}
      BY <2>2, TasksAreTyped
    <3>2. CASE BBDepCmd[cmd] = None
      BY <2>2, <3>2, NoneIsNothing DEF DepCmd
    <3>3. CASE BBDepCmd[cmd] = ""
      BY <3>3, NoneIsNothing DEF DepCmd
    <3>4. CASE BBDepCmd[cmd] \in Cmd
      <4>1. BBDepCmd[cmd] # None /\ BBDepCmd[cmd] # ""
        BY <3>4, NoneIsNothing, TasksAreTyped
      <4>2. DepCmd(cmd) = BBDepCmd[cmd]
        BY <4>1 DEF DepCmd
      <4>3. BBDepCmd[BBDepCmd[cmd]] # ""
        BY <2>2, <3>4, DependenciesAllTheWay
      <4>4. QED BY <3>4, <4>1, <4>2, <4>3
    <3>5. QED BY <3>1, <3>2, <3>3, <3>4
  <2>4. PICK f : f = BuildFrame(r, g.item, cmd)
    OBVIOUS
  <2>5. f \in BuildFrameType
    BY <1>6, <2>2, <2>3, <2>4 DEF BuildFrame, BuildFrameType
  <2>6. /\ f.fn = r /\ f.item = g.item /\ f.next = 1 /\ f.kind = "build" /\ f.pc = "deps"
        /\ f.depcmd = DepCmd(cmd) /\ f.oldcmd = cmd /\ f.failed = FALSE
    BY <2>4 DEF BuildFrame
  <2>7. world.depends[r] \in Seq(Item)
    BY <1>1, <1>6, DependsAreItems DEF CallsInv
  <2>8. CallInOrder(f)
    <3>1. /\ f.fn \in Providers(f.item) /\ IsBest(f.fn, f.item)
          /\ f.next \in 1 .. Len(world.depends[f.fn]) + 1
      BY <1>6, <2>6, <2>7
    <3>2. f.pc # "package"
      BY <2>6
    <3>3. BBDepCmd[options.cmd] # "" => f.depcmd # None /\ BBDepCmd[f.oldcmd] # ""
      BY <2>2, <2>3, <2>6, NoneIsNothing
    <3>4. BBDepCmd[options.cmd] = "" => f.depcmd = None
      BY <2>2, <2>3, <2>6
    <3>5. QED BY <2>5, <3>1, <3>2, <3>3, <3>4 DEF CallInOrder, BuildInOrder
  <2>9. Stacked(Append(stack, f))
    BY <1>1, <1>2, <1>3, <1>7, <2>6, <2>8, Pushed DEF CallsInv, IsProvider, top
  <2>10. PICK s : s = Append(stack, f)
    OBVIOUS
  <2>11. Stacked(s)'
    BY <1>8, <2>9, <2>10, SameCalls
  <2>12. CmdInv'
    BY <1>8, <2>1, <2>2, <2>3, NoneIsNothing DEF CmdInv
  <2>13. QED BY <1>1, <1>3, <1>8, <2>1, <2>4, <2>10, <2>11, <2>12 DEF CallsInv
<1>11. QED BY <1>9, <1>10

LEMMA ProviderReturnCalls == CallsInv /\ (TryBuildReturned \/ NoBuildableProvider) => CallsInv'
<1>1. SUFFICES ASSUME CallsInv, TryBuildReturned \/ NoBuildableProvider PROVE CallsInv'
  OBVIOUS
<1>2. stack # <<>> /\ exit = None /\ UNCHANGED <<world, targets, options, current, cmd, exit>>
  BY <1>1 DEF TryBuildReturned, NoBuildableProvider, Calls, Busy
<1>3. CmdInv'
  BY <1>1, <1>2 DEF CallsInv, CmdInv
<1>4. CASE TryBuildReturned
  <2>1. CASE returned = TRUE
    <3>1. Return(TRUE)
      BY <1>4, <2>1 DEF TryBuildReturned
    <3>2. QED BY <1>1, <1>2, <1>3, <3>1, CallReturned
  <2>2. CASE returned = FALSE
    <3>1. PICK g : g = top
      OBVIOUS
    <3>2. ProviderInOrder(g)
      <4>1. IsProvider(g)
        BY <1>4, <3>1 DEF TryBuildReturned, IsProvider
      <4>2. QED BY <1>1, <1>2, <3>1, <4>1, TopIsInOrder, KindsDiffer
    <3>3. g.next <= Len(g.eligible)
      <4>1. PICK item \in Item : Awaited(stack, item)
        BY <1>1, <2>2, NoneIsNothing DEF CallsInv
      <4>2. QED BY <1>2, <1>4, <3>1, <4>1
              DEF Awaited, ProviderCalls, BuildCalls, IsBuild, TryBuildReturned, top
    <3>4. PICK f : f = [g EXCEPT !.next = g.next + 1]
      OBVIOUS
    <3>5. /\ f \in ProviderFrameType
          /\ f.kind = g.kind /\ f.item = g.item /\ f.eligible = g.eligible /\ f.next = g.next + 1
      BY <3>2, <3>4 DEF ProviderInOrder, ProviderFrameType
    <3>6. CallInOrder(f)
      BY <3>2, <3>3, <3>5 DEF CallInOrder, ProviderInOrder, ProviderFrameType
    <3>7. Top(f) /\ returned' = None
      BY <1>4, <2>2, <3>1, <3>4 DEF TryBuildReturned
    <3>8. QED BY <1>1, <1>2, <1>3, <3>1, <3>5, <3>6, <3>7, CallGoesOn
  <2>3. QED BY <1>1, <1>4, <2>1, <2>2 DEF CallsInv, TryBuildReturned
<1>5. CASE NoBuildableProvider
  <2>1. Return(FALSE)
    BY <1>5 DEF NoBuildableProvider
  <2>2. QED BY <1>1, <1>2, <1>3, <2>1, CallReturned
<1>6. QED BY <1>1, <1>4, <1>5

(* tryBuild at its loop over the dependencies.                             *)
LEMMA BuildIsInOrder ==
  ASSUME CallsInv, stack # <<>>, top.kind = "build"
  PROVE  /\ BuildInOrder(top) /\ IsBuild(top)
         /\ top.fn \in Recipe /\ depends \in Seq(Item)
<1>1. BuildInOrder(top)
  BY TopIsInOrder, KindsDiffer DEF IsBuild
<1>2. top.fn \in Recipe
  BY <1>1 DEF BuildInOrder, Providers
<1>3. QED BY <1>1, <1>2, DependsAreItems DEF depends, CallsInv, IsBuild

(* The loop over the dependencies goes on, or ends in tryBuildPackage.     *)
LEMMA BuildGoesOn ==
  ASSUME CallsInv, stack # <<>>, top.kind = "build", exit = None, returned' = None, CmdInv',
         UNCHANGED <<world, targets, options, current, exit>>,
         NEW n \in 1 .. Len(depends) + 1, NEW b \in BOOLEAN, NEW pc \in {"deps", "package"},
         pc = "package" => ~b /\ n > Len(depends),
         NEW f, Top(f), f \in BuildFrameType,
         f.item = top.item, f.fn = top.fn, f.next = n, f.failed = b, f.pc = pc,
         f.depcmd = top.depcmd, f.oldcmd = top.oldcmd
  PROVE  CallsInv'
<1>1. BuildInOrder(top)
  BY BuildIsInOrder
<1>2. CallInOrder(f)
  BY <1>1 DEF BuildInOrder, CallInOrder, depends
<1>3. f.kind = top.kind
  BY DEF BuildFrameType
<1>4. QED BY <1>2, <1>3, CallGoesOn

LEMMA BuildReturned ==
  ASSUME CallsInv, stack # <<>>, top.kind = "build", exit = None, cmd' = RestoreCmd,
         NEW v \in BOOLEAN, Return(v),
         UNCHANGED <<world, targets, options, current, exit>>
  PROVE  CallsInv'
<1>1. CmdInv'
  <2>1. BuildInOrder(top)
    BY BuildIsInOrder
  <2>2. top.depcmd \in Cmd \cup {None} /\ top.oldcmd \in Cmd
    BY <2>1 DEF BuildInOrder, BuildFrameType
  <2>3. QED BY <2>1, <2>2 DEF BuildInOrder, RestoreCmd, CallsInv, CmdInv
<1>2. QED BY <1>1, CallReturned

LEMMA NextDependencyCalls == CallsInv /\ NextDependency => CallsInv'
<1>1. SUFFICES ASSUME CallsInv, NextDependency PROVE CallsInv'
  OBVIOUS
<1>2. /\ stack # <<>> /\ exit = None /\ top.kind = "build" /\ top.pc = "deps" /\ returned = None
      /\ UNCHANGED <<world, targets, options, current, cmd, exit>>
  BY <1>1 DEF NextDependency, InDeps, Busy
<1>3. /\ BuildInOrder(top) /\ top.fn \in Recipe /\ depends \in Seq(Item)
      /\ top.next \in 1 .. Len(depends)
  <2>1. BuildInOrder(top) /\ top.fn \in Recipe /\ depends \in Seq(Item)
    BY <1>1, <1>2, BuildIsInOrder
  <2>2. top.next <= Len(depends)
    BY <1>1 DEF NextDependency
  <2>3. top.next \in 1 .. Len(depends) + 1
    BY <2>1 DEF BuildInOrder, depends
  <2>4. Len(depends) \in Nat
    BY <2>1
  <2>5. top.next \in 1 .. Len(depends)
    BY <2>2, <2>3, <2>4
  <2>6. QED BY <2>1, <2>5
<1>4. CmdInv'
  BY <1>1, <1>2 DEF CallsInv, CmdInv
<1>5. CASE depends[top.next] \in world.ignored \/ top.depcmd = None
  <2>1. PICK g : g = top
    OBVIOUS
  <2>2. PICK f : f = [g EXCEPT !.next = g.next + 1]
    OBVIOUS
  <2>3. Top(f) /\ returned' = None
    BY <1>1, <1>2, <1>5, <2>1, <2>2 DEF NextDependency
  <2>4. g \in BuildFrameType /\ g.pc = "deps" /\ g.next + 1 \in 1 .. Len(depends) + 1 /\ g.next \in Nat
    <3>1. g \in BuildFrameType /\ g.pc = "deps" /\ g.next \in 1 .. Len(depends)
      BY <1>2, <1>3, <2>1 DEF BuildInOrder
    <3>2. Len(depends) \in Nat
      BY <1>3
    <3>3. QED BY <3>1, <3>2
  <2>5. /\ f \in BuildFrameType /\ f.item = g.item /\ f.fn = g.fn /\ f.next = g.next + 1
        /\ f.failed = g.failed /\ f.pc = "deps" /\ f.depcmd = g.depcmd /\ f.oldcmd = g.oldcmd
    BY <2>2, <2>4 DEF BuildFrameType
  <2>6. f.failed \in BOOLEAN
    BY <2>5 DEF BuildFrameType
  <2>7. QED BY <1>1, <1>2, <1>4, <2>1, <2>3, <2>4, <2>5, <2>6, BuildGoesOn
<1>6. CASE ~ (depends[top.next] \in world.ignored \/ top.depcmd = None)
  <2>1. PICK item \in Item : item = depends[top.next]
    BY <1>3
  <2>2. BuildProvider(item)
    BY <1>1, <1>6, <2>1 DEF NextDependency
  <2>3. Awaited(stack, item)
    BY <1>2, <1>3, <2>1 DEF Awaited, BuildCalls, IsBuild, depends, top
  <2>4. QED BY <1>1, <1>2, <2>2, <2>3, CallAnswered DEF IsBuild
<1>7. QED BY <1>5, <1>6

LEMMA DependencyReturnedCalls == CallsInv /\ DependencyReturned => CallsInv'
<1>1. SUFFICES ASSUME CallsInv, DependencyReturned PROVE CallsInv'
  OBVIOUS
<1>2. /\ stack # <<>> /\ exit = None /\ top.kind = "build" /\ top.pc = "deps" /\ returned # None
      /\ returned' = None /\ returned \in BOOLEAN
      /\ UNCHANGED <<world, targets, options, current, cmd, exit>>
  BY <1>1 DEF DependencyReturned, InDeps, Busy, CallsInv
<1>3. CmdInv'
  BY <1>1, <1>2 DEF CallsInv, CmdInv
<1>4. PICK g : g = top
  OBVIOUS
<1>5. /\ BuildInOrder(g) /\ depends \in Seq(Item)
  BY <1>1, <1>2, <1>4, BuildIsInOrder
<1>6. g.next \in 1 .. Len(depends)
  <2>1. PICK item \in Item : Awaited(stack, item)
    BY <1>1, <1>2 DEF CallsInv
  <2>2. g.next <= Len(depends)
    BY <1>2, <1>4, <2>1 DEF Awaited, ProviderCalls, BuildCalls, IsProvider, depends, top
  <2>3. g.next \in 1 .. Len(depends) + 1
    BY <1>4, <1>5 DEF BuildInOrder, depends
  <2>4. Len(depends) \in Nat
    BY <1>5
  <2>5. QED BY <2>2, <2>3, <2>4
<1>7. PICK n \in 1 .. Len(depends) + 1 :
          n = IF ~returned /\ options.abort THEN Len(depends) + 1 ELSE g.next + 1
  BY <1>5, <1>6
<1>8. PICK b \in BOOLEAN : b = (g.failed \/ ~returned)
  OBVIOUS
<1>9. PICK f : f = [g EXCEPT !.failed = b, !.next = n]
  OBVIOUS
<1>10. Top(f)
  BY <1>1, <1>4, <1>7, <1>8, <1>9 DEF DependencyReturned
<1>11. g \in BuildFrameType /\ g.pc = "deps" /\ n \in Nat
  <2>1. Len(depends) \in Nat
    BY <1>5
  <2>2. n \in Nat
    BY <1>7, <2>1
  <2>3. QED BY <1>2, <1>4, <1>5, <2>2 DEF BuildInOrder
<1>12. /\ f \in BuildFrameType /\ f.item = g.item /\ f.fn = g.fn /\ f.next = n
       /\ f.failed = b /\ f.pc = "deps" /\ f.depcmd = g.depcmd /\ f.oldcmd = g.oldcmd
  BY <1>9, <1>11 DEF BuildFrameType
<1>13. QED BY <1>1, <1>2, <1>3, <1>4, <1>10, <1>12, BuildGoesOn

LEMMA DependenciesDoneCalls ==
  CallsInv /\ (DependenciesMissing \/ StampIsCurrent) => CallsInv'
<1>1. SUFFICES ASSUME CallsInv, DependenciesMissing \/ StampIsCurrent PROVE CallsInv'
  OBVIOUS
<1>2. /\ stack # <<>> /\ exit = None /\ top.kind = "build" /\ cmd' = RestoreCmd
      /\ UNCHANGED <<world, targets, options, current, exit>>
      /\ Return(FALSE) \/ Return(TRUE)
  BY <1>1 DEF DependenciesMissing, StampIsCurrent, InDepsDone, InDeps, Busy
<1>3. QED BY <1>1, <1>2, BuildReturned

LEMMA TryBuildPackageCalls == CallsInv /\ TryBuildPackage => CallsInv'
<1>1. SUFFICES ASSUME CallsInv, TryBuildPackage PROVE CallsInv'
  OBVIOUS
<1>2. /\ stack # <<>> /\ exit = None /\ top.kind = "build" /\ returned' = None
      /\ ~top.failed /\ top.next > Len(depends) /\ cmd' = RestoreCmd
      /\ UNCHANGED <<world, targets, options, current, exit>>
  BY <1>1 DEF TryBuildPackage, InDepsDone, InDeps, Busy
<1>3. PICK g : g = top
  OBVIOUS
<1>4. BuildInOrder(g) /\ depends \in Seq(Item) /\ g.next \in 1 .. Len(depends) + 1
  <2>1. BuildInOrder(g) /\ depends \in Seq(Item)
    BY <1>1, <1>2, <1>3, BuildIsInOrder
  <2>2. QED BY <1>3, <2>1 DEF BuildInOrder, depends
<1>5. CmdInv'
  <2>1. g.depcmd \in Cmd \cup {None} /\ g.oldcmd \in Cmd
    BY <1>4 DEF BuildInOrder, BuildFrameType
  <2>2. QED BY <1>1, <1>2, <1>3, <1>4, <2>1 DEF BuildInOrder, RestoreCmd, CallsInv, CmdInv
<1>6. PICK f : f = [g EXCEPT !.pc = "package"]
  OBVIOUS
<1>7. Top(f)
  BY <1>1, <1>3, <1>6 DEF TryBuildPackage
<1>8. g \in BuildFrameType
  BY <1>4 DEF BuildInOrder
<1>9. /\ f \in BuildFrameType /\ f.item = g.item /\ f.fn = g.fn /\ f.next = g.next
      /\ f.failed = g.failed /\ f.pc = "package" /\ f.depcmd = g.depcmd /\ f.oldcmd = g.oldcmd
  BY <1>6, <1>8 DEF BuildFrameType
<1>10. f.failed \in BOOLEAN
  BY <1>9 DEF BuildFrameType
<1>11. QED BY <1>1, <1>2, <1>3, <1>4, <1>5, <1>7, <1>9, <1>10, BuildGoesOn

LEMMA PackageCalls == CallsInv /\ (PackageSucceeds \/ PackageFails) => CallsInv'
<1>1. SUFFICES ASSUME CallsInv, PackageSucceeds \/ PackageFails PROVE CallsInv'
  OBVIOUS
<1>2. /\ stack # <<>> /\ exit = None
      /\ UNCHANGED <<world, targets, options, current, cmd, exit>>
  BY <1>1 DEF PackageSucceeds, PackageFails, InPackage, Busy
<1>3. CmdInv'
  BY <1>1, <1>2 DEF CallsInv, CmdInv
<1>4. CASE PackageSucceeds
  <2>1. Return(TRUE)
    BY <1>4 DEF PackageSucceeds
  <2>2. QED BY <1>1, <1>2, <1>3, <2>1, CallReturned
<1>5. CASE PackageFails
  <2>1. stack' = <<>> /\ returned' = FALSE
    BY <1>5 DEF PackageFails
  <2>2. current <= Len(targets)
    <3>1. 1 \in DOMAIN stack
      BY <1>1, <1>2 DEF CallsInv, Stacked
    <3>2. Called(stack, 1)
      BY <1>1, <3>1 DEF CallsInv, Stacked
    <3>3. QED BY <3>2 DEF Called, CookCalls
  <2>3. QED BY <1>1, <1>2, <1>3, <2>1, <2>2, CallsEnd DEF CallsInv
<1>6. QED BY <1>1, <1>4, <1>5

LEMMA CookCallsInOrder ==
  CallsInv /\ (StartTarget \/ TargetDone \/ Finish \/ Escapes) => CallsInv'
<1>1. SUFFICES ASSUME CallsInv, StartTarget \/ TargetDone \/ Finish \/ Escapes PROVE CallsInv'
  OBVIOUS
<1>2. /\ exit = None /\ UNCHANGED <<world, targets, options, cmd>>
      /\ current \in 1 .. Len(targets) + 1 /\ targets \in Seq(Item)
  BY <1>1 DEF StartTarget, TargetDone, Finish, Escapes, Busy, CallsInv
<1>3. CmdInv'
  BY <1>1, <1>2 DEF CallsInv, CmdInv
<1>4. CASE StartTarget
  <2>1. PICK item \in Item : item = targets[current]
    BY <1>2, <1>4 DEF StartTarget
  <2>2. BuildProvider(item) /\ Awaited(stack, item) /\ stack = <<>>
    BY <1>4, <2>1 DEF StartTarget, Awaited, CookCalls
  <2>3. UNCHANGED <<world, targets, options, current, cmd, exit>>
    BY <1>4 DEF StartTarget
  <2>4. QED BY <1>1, <1>2, <2>2, <2>3, CallAnswered
<1>5. CASE TargetDone
  <2>1. stack' = <<>> /\ returned' = None
    BY <1>5 DEF TargetDone
  <2>2. current' \in 1 .. Len(targets) + 1
    <3>1. PICK item \in Item : Awaited(stack, item)
      BY <1>1, <1>5 DEF CallsInv, TargetDone
    <3>2. current <= Len(targets)
      BY <1>5, <3>1 DEF TargetDone, Awaited, CookCalls
    <3>3. QED BY <1>2, <1>5, <3>2 DEF TargetDone
  <2>3. QED BY <1>1, <1>2, <1>3, <2>1, <2>2, CallsEnd
<1>6. CASE Finish \/ Escapes
  <2>1. stack' = <<>> /\ returned' = None /\ current' = current
    BY <1>6 DEF Finish, Escapes
  <2>2. QED BY <1>1, <1>2, <1>3, <2>1, CallsEnd
<1>7. QED BY <1>1, <1>4, <1>5, <1>6

LEMMA CallsStutter == CallsInv /\ UNCHANGED vars => CallsInv'
<1>1. SUFFICES ASSUME CallsInv, UNCHANGED vars PROVE CallsInv'
  OBVIOUS
<1>2. PICK s : s = stack
  OBVIOUS
<1>3. Stacked(s)' /\ \A item : Awaited(s, item)' <=> Awaited(s, item)
  BY <1>1, <1>2, SameCalls DEF CallsInv, vars
<1>4. stack' = s
  BY <1>1, <1>2 DEF vars
<1>5. QED BY <1>1, <1>2, <1>3, <1>4 DEF CallsInv, CmdInv, vars

LEMMA CallsStep == CallsInv /\ [Next]_vars => CallsInv'
BY TryBuildCalls, ProviderReturnCalls, NextDependencyCalls, DependencyReturnedCalls,
   DependenciesDoneCalls, TryBuildPackageCalls, PackageCalls, CookCallsInOrder, CallsStutter
   DEF Next, Step

LEMMA CallsAreInOrder == Spec => []CallsInv
BY CallsInit, CallsStep, PTL DEF Spec

-----------------------------------------------------------------------------

(* What a step does to the calls in progress and to building_list.         *)
Kept ==
    /\ UNCHANGED <<stack, building_list>>
    /\ \/ stack = <<>>
       \/ returned = None /\ (IsProvider(top) \/ top.pc = "deps")
       \/ UNCHANGED vars

ProviderCalled ==
    \E f : /\ IsProvider(f) /\ Providers(f.item) \cap build_cache = {}
           /\ stack = <<>> \/ (IsBuild(top) /\ top.depcmd # None /\ top.pc = "deps")
           /\ returned = None
           /\ stack' = Append(stack, f)
           /\ UNCHANGED building_list

BuildCalled ==
    \E f : /\ TryBuild /\ IsBuild(f) /\ f.fn \in Recipe /\ f.oldcmd = cmd /\ f.pc = "deps"
           /\ stack # <<>> /\ IsProvider(top)
           /\ returned = None
           /\ f.fn \notin Range(building_list)
           /\ stack' = Append(stack, f)
           /\ building_list' = Append(building_list, f.fn)

CallWentOn ==
    \E f : /\ stack # <<>>
           /\ f.kind = top.kind /\ f.item = top.item
           /\ IsBuild(top) => f.fn = top.fn /\ f.oldcmd = top.oldcmd /\ top.pc = "deps"
           /\ IsBuild(top) /\ f.pc = "package" => TryBuildPackage
           /\ IsProvider(top) => returned = FALSE
           /\ Top(f)
           /\ UNCHANGED building_list

ProviderLeft == stack # <<>> /\ IsProvider(top) /\ stack' = callers /\ UNCHANGED building_list
BuildLeft == stack # <<>> /\ IsBuild(top) /\ stack' = callers /\ LeaveBuildingList
AllLeft == stack' = <<>> /\ building_list' = <<>>

CallsMove ==
    \/ Kept \/ ProviderCalled \/ BuildCalled \/ CallWentOn
    \/ ProviderLeft \/ BuildLeft \/ AllLeft

LEMMA ProviderMoves ==
  ASSUME CallsInv, TryBuild \/ TryBuildReturned \/ NoBuildableProvider
  PROVE  CallsMove
<1>1. PICK g : g = top
  OBVIOUS
<1>2. stack # <<>> /\ IsProvider(g)
  BY <1>1 DEF TryBuild, TryBuildReturned, NoBuildableProvider, Calls, Busy, IsProvider
<1>3. ProviderInOrder(g)
  BY <1>1, <1>2, TopIsInOrder, KindsDiffer
<1>4. CASE TryBuild
  <2>1. PICK r : r = g.eligible[g.next]
    OBVIOUS
  <2>2. r \in Recipe
    <3>1. g.next \in DOMAIN g.eligible
      BY <1>1, <1>3, <1>4 DEF ProviderInOrder, ProviderFrameType, TryBuild
    <3>2. r \in Range(g.eligible)
      BY <2>1, <3>1 DEF Range
    <3>3. QED BY <1>3, <3>2 DEF ProviderInOrder, Providers
  <2>3. CASE r \in Range(building_list)
    BY <1>1, <1>2, <1>4, <2>1, <2>3 DEF TryBuild, Calls, CallsMove, Kept
  <2>4. CASE r \notin Range(building_list)
    <3>1. PICK f : f = BuildFrame(r, g.item, cmd)
      OBVIOUS
    <3>2. IsBuild(f) /\ f.fn = r /\ f.oldcmd = cmd /\ f.pc = "deps"
      BY <3>1 DEF BuildFrame, IsBuild
    <3>3. /\ stack' = Append(stack, f) /\ building_list' = Append(building_list, r)
          /\ returned = None
      BY <1>1, <1>4, <2>1, <2>4, <3>1 DEF TryBuild, Calls
    <3>4. QED BY <1>1, <1>2, <1>4, <2>2, <2>4, <3>2, <3>3 DEF CallsMove, BuildCalled
  <2>5. QED BY <2>3, <2>4
<1>5. CASE TryBuildReturned
  <2>1. CASE returned
    BY <1>1, <1>2, <1>5, <2>1 DEF TryBuildReturned, Return, CallsMove, ProviderLeft
  <2>2. CASE ~returned
    <3>1. PICK f : f = [g EXCEPT !.next = g.next + 1]
      OBVIOUS
    <3>2. f.kind = g.kind /\ f.item = g.item
      BY <1>3, <3>1 DEF ProviderInOrder, ProviderFrameType
    <3>3. Top(f) /\ UNCHANGED building_list /\ returned = FALSE
      BY <1>1, <1>5, <2>2, <3>1 DEF TryBuildReturned, CallsInv
    <3>4. ~IsBuild(g)
      BY <1>2 DEF IsProvider, IsBuild
    <3>5. QED BY <1>1, <1>2, <3>2, <3>3, <3>4 DEF CallsMove, CallWentOn
  <2>3. QED BY <2>1, <2>2
<1>6. CASE NoBuildableProvider
  BY <1>1, <1>2, <1>6 DEF NoBuildableProvider, Return, CallsMove, ProviderLeft
<1>7. QED BY <1>4, <1>5, <1>6

LEMMA CalledMoves ==
  ASSUME CallsInv, NEW item \in Item, BuildProvider(item),
         stack = <<>> \/ (IsBuild(top) /\ top.depcmd # None /\ top.pc = "deps"),
         returned = None, UNCHANGED building_list
  PROVE  CallsMove
<1>1. CASE stack' = stack
  BY <1>1 DEF CallsMove, Kept
<1>2. CASE /\ Providers(item) \cap build_cache = {}
           /\ \E f : ProviderInOrder(f) /\ f.item = item /\ stack' = Append(stack, f)
  <2>1. PICK f : ProviderInOrder(f) /\ f.item = item /\ stack' = Append(stack, f)
    BY <1>2
  <2>2. IsProvider(f)
    BY <2>1 DEF ProviderInOrder, ProviderFrameType, IsProvider
  <2>3. QED BY <1>2, <2>1, <2>2 DEF CallsMove, ProviderCalled
<1>3. QED BY <1>1, <1>2, BuildProviderAnswers

LEMMA BuildMoves ==
  ASSUME CallsInv,
         \/ NextDependency \/ DependencyReturned \/ DependenciesMissing
         \/ StampIsCurrent \/ TryBuildPackage \/ PackageSucceeds
  PROVE  CallsMove
<1>1. PICK g : g = top
  OBVIOUS
<1>2. stack # <<>> /\ IsBuild(g)
  BY <1>1 DEF NextDependency, DependencyReturned, DependenciesMissing, StampIsCurrent, TryBuildPackage,
              PackageSucceeds, InDeps, InDepsDone, InPackage, Busy, IsBuild
<1>3. BuildInOrder(g) /\ g \in BuildFrameType /\ depends \in Seq(Item)
  <2>1. BuildInOrder(g) /\ depends \in Seq(Item)
    BY <1>1, <1>2, BuildIsInOrder DEF IsBuild
  <2>2. QED BY <2>1 DEF BuildInOrder
<1>4. ~IsProvider(g)
  BY <1>2 DEF IsBuild, IsProvider
<1>5. CASE NextDependency
  <2>1. CASE depends[top.next] \in world.ignored \/ top.depcmd = None
    <3>1. PICK f : f = [g EXCEPT !.next = g.next + 1]
      OBVIOUS
    <3>2. f.kind = g.kind /\ f.item = g.item /\ f.fn = g.fn /\ f.oldcmd = g.oldcmd /\ f.pc = g.pc
      BY <1>3, <3>1 DEF BuildFrameType
    <3>3. Top(f) /\ UNCHANGED building_list /\ g.pc = "deps"
      BY <1>1, <1>5, <2>1, <3>1 DEF NextDependency, InDeps
    <3>4. f.pc # "package"
      BY <3>2, <3>3
    <3>5. QED BY <1>1, <1>2, <1>4, <3>2, <3>3, <3>4 DEF CallsMove, CallWentOn
  <2>2. CASE ~ (depends[top.next] \in world.ignored \/ top.depcmd = None)
    <3>1. top.next \in DOMAIN depends
      <4>1. top.next <= Len(depends)
        BY <1>5 DEF NextDependency
      <4>2. top.next \in 1 .. Len(depends) + 1
        BY <1>1, <1>3 DEF BuildInOrder, depends
      <4>3. Len(depends) \in Nat /\ DOMAIN depends = 1 .. Len(depends)
        BY <1>3
      <4>4. QED BY <4>1, <4>2, <4>3
    <3>2. PICK item \in Item : item = depends[top.next]
      BY <1>3, <3>1
    <3>3. BuildProvider(item) /\ UNCHANGED building_list /\ returned = None
      BY <1>5, <2>2, <3>2 DEF NextDependency
    <3>4. IsBuild(top) /\ top.depcmd # None /\ top.pc = "deps"
      BY <1>1, <1>2, <1>5, <2>2 DEF NextDependency, InDeps
    <3>5. QED BY <3>3, <3>4, CalledMoves
  <2>3. QED BY <2>1, <2>2
<1>6. CASE DependencyReturned
  <2>1. PICK n : n = IF ~returned /\ options.abort THEN Len(depends) + 1 ELSE g.next + 1
    OBVIOUS
  <2>2. PICK b : b = (g.failed \/ ~returned)
    OBVIOUS
  <2>3. PICK f : f = [g EXCEPT !.failed = b, !.next = n]
    OBVIOUS
  <2>4. f.kind = g.kind /\ f.item = g.item /\ f.fn = g.fn /\ f.oldcmd = g.oldcmd /\ f.pc = g.pc
    BY <1>3, <2>3 DEF BuildFrameType
  <2>5. Top(f) /\ UNCHANGED building_list /\ g.pc = "deps"
    BY <1>1, <1>6, <2>1, <2>2, <2>3 DEF DependencyReturned, InDeps
  <2>6. QED BY <1>1, <1>2, <1>4, <2>4, <2>5 DEF CallsMove, CallWentOn
<1>7. CASE DependenciesMissing \/ StampIsCurrent \/ PackageSucceeds
  BY <1>1, <1>2, <1>7 DEF DependenciesMissing, StampIsCurrent, PackageSucceeds, Return, CallsMove, BuildLeft
<1>8. CASE TryBuildPackage
  <2>1. PICK f : f = [g EXCEPT !.pc = "package"]
    OBVIOUS
  <2>2. f.kind = g.kind /\ f.item = g.item /\ f.fn = g.fn /\ f.oldcmd = g.oldcmd
    BY <1>3, <2>1 DEF BuildFrameType
  <2>3. Top(f) /\ UNCHANGED building_list /\ g.pc = "deps"
    BY <1>1, <1>8, <2>1 DEF TryBuildPackage, InDepsDone, InDeps
  <2>4. QED BY <1>1, <1>2, <1>8, <1>4, <2>2, <2>3 DEF CallsMove, CallWentOn
<1>9. QED BY <1>5, <1>6, <1>7, <1>8

LEMMA StepMoves ==
  ASSUME CallsInv, [Next]_vars
  PROVE  CallsMove
<1>1. CASE StartTarget
  <2>1. PICK item \in Item : item = targets[current]
    BY <1>1 DEF CallsInv, StartTarget
  <2>2. BuildProvider(item) /\ stack = <<>> /\ UNCHANGED building_list /\ returned = None
    BY <1>1, <2>1 DEF StartTarget
  <2>3. stack = <<>> \/ (IsBuild(top) /\ top.depcmd # None /\ top.pc = "deps")
    BY <2>2
  <2>4. QED BY <2>2, <2>3, CalledMoves
<1>2. CASE TargetDone \/ Finish \/ UNCHANGED vars
  BY <1>2 DEF TargetDone, Finish, vars, CallsMove, Kept
<1>3. CASE PackageFails \/ Escapes
  BY <1>3 DEF PackageFails, Escapes, CallsMove, AllLeft
<1>4. QED BY <1>1, <1>2, <1>3, ProviderMoves, BuildMoves DEF Next, Step

---------------------------------------------------------------------------
(* building_list as the chain of the builds in progress.                   *)
Chain(s, l) ==
    /\ l \in Seq(Recipe)
    /\ Len(s) \in {2 * Len(l), 2 * Len(l) + 1}
    /\ s # <<>> => (IsProvider(s[Len(s)]) <=> Len(s) = 2 * Len(l) + 1)
    /\ \A i \in DOMAIN l : IsBuild(s[2 * i]) /\ l[i] = s[2 * i].fn
    /\ \A i, j \in DOMAIN l : l[i] = l[j] => i = j

LEMMA ChainGrows ==
  ASSUME NEW s \in Seq(FrameType), NEW l, Chain(s, l), NEW f \in FrameType
  PROVE  /\ IsProvider(f) /\ Len(s) = 2 * Len(l) => Chain(Append(s, f), l)
         /\ IsBuild(f) /\ Len(s) = 2 * Len(l) + 1 /\ f.fn \in Recipe /\ f.fn \notin Range(l)
                => Chain(Append(s, f), Append(l, f.fn))
<1> DEFINE t == Append(s, f)
<1>1. /\ Len(s) \in Nat /\ t \in Seq(FrameType) /\ Len(t) = Len(s) + 1 /\ t[Len(t)] = f
      /\ \A i \in 1 .. Len(s) : t[i] = s[i]
  OBVIOUS
<1>2. l \in Seq(Recipe) /\ Len(l) \in Nat /\ DOMAIN l = 1 .. Len(l)
  BY DEF Chain
<1>3. ASSUME NEW i \in DOMAIN l PROVE t[2 * i] = s[2 * i]
  <2>1. 2 * i \in 1 .. Len(s)
    BY <1>1, <1>2, <1>3 DEF Chain
  <2>2. QED BY <1>1, <2>1
<1> HIDE DEF t
<1>4. ASSUME IsProvider(f), Len(s) = 2 * Len(l) PROVE Chain(t, l)
  BY <1>1, <1>2, <1>3, <1>4 DEF Chain
<1>5. ASSUME IsBuild(f), Len(s) = 2 * Len(l) + 1, f.fn \in Recipe, f.fn \notin Range(l)
      PROVE  Chain(t, Append(l, f.fn))
  <2>1. PICK r \in Recipe : r = f.fn
    BY <1>5
  <2>2. PICK m : m = Append(l, r)
    OBVIOUS
  <2>3. /\ m \in Seq(Recipe) /\ Len(m) = Len(l) + 1 /\ m[Len(l) + 1] = r
        /\ \A i \in DOMAIN l : m[i] = l[i]
        /\ \A i \in DOMAIN m : i \in DOMAIN l \/ i = Len(l) + 1
    BY <1>2, <2>2
  <2>4. \A i \in DOMAIN l : m[i] # r
    BY <1>5, <2>1, <2>3 DEF Range
  <2>5. \A i, j \in DOMAIN m : m[i] = m[j] => i = j
    BY <2>3, <2>4 DEF Chain
  <2>6. Len(t) = 2 * Len(m)
    BY <1>1, <1>2, <1>5, <2>3
  <2>7. \A i \in DOMAIN m : IsBuild(t[2 * i]) /\ m[i] = t[2 * i].fn
    <3>1. ASSUME NEW i \in DOMAIN l PROVE IsBuild(t[2 * i]) /\ m[i] = t[2 * i].fn
      BY <1>3, <2>3, <3>1 DEF Chain
    <3>2. 2 * (Len(l) + 1) = Len(t)
      BY <1>2, <2>3, <2>6
    <3>3. QED BY <1>1, <1>5, <2>1, <2>3, <3>1, <3>2
  <2>8. ~IsProvider(t[Len(t)])
    BY <1>1, <1>5 DEF IsProvider, IsBuild
  <2>9. Len(t) # 2 * Len(m) + 1
    BY <1>1, <2>6
  <2>10. QED BY <2>1, <2>2, <2>3, <2>5, <2>6, <2>7, <2>8, <2>9 DEF Chain
<1>6. QED BY <1>4, <1>5 DEF t

LEMMA ChainShrinks ==
  ASSUME NEW s, Stacked(s), s # <<>>, NEW l, Chain(s, l)
  PROVE  LET t == SubSeq(s, 1, Len(s) - 1)
             r == s[Len(s)].fn
         IN  /\ IsProvider(s[Len(s)]) => Chain(t, l)
             /\ IsBuild(s[Len(s)]) =>
                    Chain(t, Without(l, First({i \in DOMAIN l : l[i] = r})))
<1>1. s \in Seq(FrameType) /\ Len(s) \in Nat \ {0}
  BY DEF Stacked
<1>2. l \in Seq(Recipe) /\ Len(l) \in Nat /\ DOMAIN l = 1 .. Len(l)
  BY DEF Chain
<1>3. PICK n \in Nat : n = Len(s) - 1
  BY <1>1
<1>4. PICK t : t = SubSeq(s, 1, n)
  OBVIOUS
<1>5. t \in Seq(FrameType) /\ Len(t) = n /\ \A i \in 1 .. n : t[i] = s[i]
  <2>1. \A i \in 1 .. n : s[i] \in FrameType
    BY <1>1, <1>3
  <2>2. QED BY <1>4, <2>1, SubSeqProperties
<1>6. ASSUME IsProvider(s[Len(s)]) PROVE Chain(t, l)
  <2>1. Len(s) = 2 * Len(l) + 1 /\ n = 2 * Len(l)
    BY <1>1, <1>2, <1>3, <1>6 DEF Chain
  <2>2. ASSUME NEW i \in DOMAIN l PROVE t[2 * i] = s[2 * i]
    BY <1>2, <1>5, <2>1
  <2>3. ASSUME t # <<>> PROVE ~IsProvider(t[n])
    <3>1. Len(l) \in DOMAIN l
      BY <1>2, <1>5, <2>1, <2>3
    <3>2. IsBuild(t[n])
      BY <2>1, <2>2, <3>1 DEF Chain
    <3>3. QED BY <3>2 DEF IsProvider, IsBuild
  <2>4. n # 2 * Len(l) + 1
    BY <1>2, <2>1
  <2>5. QED BY <1>2, <1>5, <2>1, <2>2, <2>3, <2>4 DEF Chain
<1>7. ASSUME IsBuild(s[Len(s)])
      PROVE  Chain(t, Without(l, First({i \in DOMAIN l : l[i] = s[Len(s)].fn})))
  <2>1. ~IsProvider(s[Len(s)])
    BY <1>7 DEF IsProvider, IsBuild
  <2>2. Len(s) = 2 * Len(l) /\ Len(l) # 0 /\ n = 2 * Len(l) - 1
    BY <1>1, <1>2, <1>3, <2>1 DEF Chain
  <2>3. Len(l) \in DOMAIN l /\ l[Len(l)] = s[Len(s)].fn
    BY <1>2, <2>2 DEF Chain
  <2>4. {i \in DOMAIN l : l[i] = s[Len(s)].fn} = {Len(l)}
    BY <2>3 DEF Chain
  <2>5. First({Len(l)}) = Len(l)
    <3>1. {Len(l)} \in SUBSET Nat /\ {Len(l)} # {}
      BY <1>2
    <3>2. First({Len(l)}) \in {Len(l)}
      BY <3>1, FirstIsOneOf
    <3>3. QED BY <3>2
  <2>6. PICK m : m = Without(l, Len(l))
    OBVIOUS
  <2>7. m \in Seq(Recipe) /\ Len(m) = Len(l) - 1 /\ \A i \in 1 .. Len(l) - 1 : m[i] = l[i]
    <3>1. Len(l) \in 1 .. Len(l)
      BY <1>2, <2>3
    <3>2. m \in Seq(Recipe) /\ Len(m) = Len(l) - 1
      BY <1>2, <2>6, <3>1, WithoutIsPart
    <3>3. PICK k \in Nat : k = Len(l) - 1
      <4>1. PICK q \in Nat : q = Len(l) /\ q # 0
        BY <1>2, <2>2
      <4>2. q - 1 \in Nat
        BY <4>1
      <4>3. QED BY SMTT(30), <4>1, <4>2
    <3>4. /\ SubSeq(l, 1, k) \in Seq(Recipe) /\ Len(SubSeq(l, 1, k)) = k
          /\ \A i \in 1 .. k : SubSeq(l, 1, k)[i] = l[i]
      <4>1. \A i \in 1 .. k : l[i] \in Recipe
        BY <1>2, <3>3
      <4>2. QED BY <4>1, SubSeqProperties
    <3>5. SubSeq(l, Len(l) + 1, Len(l)) = <<>>
      BY <1>2
    <3>6. m = SubSeq(l, 1, k) \o <<>>
      BY <2>6, <3>3, <3>5 DEF Without
    <3>7. m = SubSeq(l, 1, k)
      <4>1. PICK q : q = SubSeq(l, 1, k)
        OBVIOUS
      <4>2. q \in Seq(Recipe)
        BY <3>4, <4>1
      <4>3. q \o <<>> = q
        BY <4>2
      <4>4. QED BY <3>6, <4>1, <4>3
    <3>8. QED BY <3>2, <3>3, <3>4, <3>7
  <2>8. DOMAIN m = 1 .. Len(l) - 1
    BY <2>7
  <2>9. ASSUME NEW i \in DOMAIN m PROVE t[2 * i] = s[2 * i] /\ m[i] = l[i] /\ i \in DOMAIN l
    <3>1. i \in 1 .. Len(l) - 1
      BY <2>8, <2>9
    <3>2. 2 * i \in 1 .. n /\ i \in 1 .. Len(l)
      BY <1>2, <2>2, <3>1
    <3>3. QED BY <1>2, <1>5, <2>7, <3>1, <3>2
  <2>10. IsProvider(t[n])
    <3>1. Len(s) \in DOMAIN s /\ Len(s) # 1 /\ n = Len(s) - 1 /\ n \in 1 .. n
      BY <1>1, <1>2, <1>3, <2>2
    <3>2. Called(s, Len(s))
      BY <3>1 DEF Stacked
    <3>3. ProviderCalls(s[n], s[Len(s)].item)
      BY <2>1, <3>1, <3>2 DEF Called
    <3>4. QED BY <1>5, <3>1, <3>3 DEF ProviderCalls
  <2>11. n = 2 * Len(m) + 1 /\ Len(t) = n
    BY <1>2, <1>5, <2>2, <2>7
  <2>12. \A i, j \in DOMAIN m : m[i] = m[j] => i = j
    BY <2>9 DEF Chain
  <2>13. \A i \in DOMAIN m : IsBuild(t[2 * i]) /\ m[i] = t[2 * i].fn
    BY SMTT(30), <2>9 DEF Chain
  <2>14. Chain(t, m)
    BY <2>7, <2>10, <2>11, <2>12, <2>13 DEF Chain
  <2>15. QED BY <2>4, <2>5, <2>6, <2>14
<1>8. QED BY <1>3, <1>4, <1>6, <1>7

LEMMA ChainKept ==
  ASSUME NEW s \in Seq(FrameType), s # <<>>, NEW l, Chain(s, l), NEW f \in FrameType,
         f.kind = s[Len(s)].kind, IsBuild(f) => f.fn = s[Len(s)].fn
  PROVE  Chain([s EXCEPT ![Len(s)] = f], l)
<1>1. Len(s) \in Nat \ {0} /\ DOMAIN s = 1 .. Len(s)
  OBVIOUS
<1>2. PICK t : t = [s EXCEPT ![Len(s)] = f]
  OBVIOUS
<1>3. Len(t) = Len(s) /\ t[Len(s)] = f /\ t # <<>> /\ \A i \in 1 .. Len(s) : i # Len(s) => t[i] = s[i]
  <2>1. t \in Seq(FrameType) /\ Len(t) = Len(s) /\ t[Len(s)] = f
    BY <1>1, <1>2
  <2>2. t # <<>>
    BY <1>1, <2>1
  <2>3. \A i \in 1 .. Len(s) : i # Len(s) => t[i] = s[i]
    BY <1>2
  <2>4. QED BY <2>1, <2>2, <2>3
<1>4. IsProvider(f) <=> IsProvider(s[Len(s)])
  BY DEF IsProvider
<1>5. ASSUME NEW i \in DOMAIN l PROVE IsBuild(t[2 * i]) /\ l[i] = t[2 * i].fn
  <2>1. IsBuild(s[2 * i]) /\ l[i] = s[2 * i].fn
    BY <1>5 DEF Chain
  <2>2. 2 * i \in 1 .. Len(s)
    <3>1. l \in Seq(Recipe) /\ Len(s) \in {2 * Len(l), 2 * Len(l) + 1}
      BY DEF Chain
    <3>2. i \in 1 .. Len(l) /\ Len(l) \in Nat
      BY <1>5, <3>1
    <3>3. QED BY <3>1, <3>2
  <2>3. CASE 2 * i = Len(s)
    BY <1>3, <2>1, <2>3 DEF IsBuild
  <2>4. CASE 2 * i # Len(s)
    BY <1>3, <2>1, <2>2, <2>4
  <2>5. QED BY <2>3, <2>4
<1>6. QED BY <1>2, <1>3, <1>4, <1>5 DEF Chain

ChainInv == Chain(stack, building_list)

LEMMA ChainStep ==
  ASSUME CallsInv, ChainInv, [Next]_vars, CallsInv'
  PROVE  ChainInv'
<1>1. Stacked(stack) /\ stack \in Seq(FrameType)
  BY DEF CallsInv, Stacked
<1>2. stack' \in Seq(FrameType)
  BY DEF CallsInv, Stacked
<1>3. PICK s \in Seq(FrameType) : s = stack
  BY <1>1
<1>4. PICK l : l = building_list
  OBVIOUS
<1>5. Chain(s, l) /\ Stacked(s) /\ l \in Seq(Recipe) /\ Len(l) \in Nat /\ Len(s) \in Nat
  BY <1>1, <1>3, <1>4 DEF ChainInv, Chain
<1>6. s # <<>> => s[Len(s)] = top
  BY <1>3 DEF top
<1>7. SUFFICES \E t, m : stack' = t /\ building_list' = m /\ Chain(t, m)
  BY DEF ChainInv
<1>8. CASE Kept
  BY <1>3, <1>4, <1>5, <1>8 DEF Kept
<1>9. CASE ProviderCalled
  <2>1. PICK f : /\ IsProvider(f) /\ (stack = <<>> \/ (IsBuild(top) /\ top.depcmd # None))
                 /\ stack' = Append(stack, f) /\ UNCHANGED building_list
    BY <1>9 DEF ProviderCalled
  <2>2. f \in FrameType
    <3>1. stack' = Append(s, f) /\ Len(s) + 1 \in 1 .. Len(stack')
      BY <1>2, <1>3, <1>5, <2>1
    <3>2. stack'[Len(s) + 1] = f
      BY <1>3, <3>1
    <3>3. QED BY <1>2, <3>1, <3>2
  <2>3. Len(s) = 2 * Len(l)
    <3>1. CASE s = <<>>
      BY <1>5, <3>1 DEF Chain
    <3>2. CASE s # <<>>
      BY <1>3, <1>5, <1>6, <2>1, <3>2 DEF Chain, IsBuild, IsProvider
    <3>3. QED BY <3>1, <3>2
  <2>4. QED BY <1>3, <1>4, <1>5, <2>1, <2>2, <2>3, ChainGrows
<1>10. CASE BuildCalled
  <2>1. PICK f : /\ IsBuild(f) /\ f.fn \in Recipe
                 /\ stack # <<>> /\ IsProvider(top)
                 /\ f.fn \notin Range(building_list)
                 /\ stack' = Append(stack, f) /\ building_list' = Append(building_list, f.fn)
    BY <1>10 DEF BuildCalled
  <2>2. f \in FrameType
    <3>1. stack' = Append(s, f) /\ Len(s) + 1 \in 1 .. Len(stack')
      BY <1>2, <1>3, <1>5, <2>1
    <3>2. stack'[Len(s) + 1] = f
      BY <1>3, <3>1
    <3>3. QED BY <1>2, <3>1, <3>2
  <2>3. Len(s) = 2 * Len(l) + 1
    BY <1>3, <1>5, <1>6, <2>1 DEF Chain
  <2>4. QED BY <1>3, <1>4, <1>5, <2>1, <2>2, <2>3, ChainGrows
<1>11. CASE CallWentOn
  <2>1. PICK f : /\ stack # <<>> /\ f.kind = top.kind /\ (IsBuild(top) => f.fn = top.fn)
                 /\ Top(f) /\ UNCHANGED building_list
    BY <1>11 DEF CallWentOn
  <2>2. IsBuild(f) => f.fn = s[Len(s)].fn
    BY <1>3, <1>6, <2>1 DEF IsBuild
  <2>3. f \in FrameType
    <3>1. stack' = [s EXCEPT ![Len(s)] = f] /\ Len(s) \in DOMAIN s
      BY <1>3, <1>5, <2>1 DEF Top
    <3>2. stack'[Len(s)] = f /\ Len(s) \in DOMAIN stack'
      BY <1>3, <3>1
    <3>3. QED BY <1>2, <3>2
  <2>4. Chain([s EXCEPT ![Len(s)] = f], l)
    BY <1>3, <1>5, <1>6, <2>1, <2>2, <2>3, ChainKept
  <2>5. QED BY <1>3, <1>4, <2>1, <2>4 DEF Top
<1>12. CASE ProviderLeft
  BY <1>3, <1>4, <1>5, <1>6, <1>12, ChainShrinks DEF ProviderLeft, callers
<1>13. CASE BuildLeft
  <2>1. PICK r : r = top.fn
    OBVIOUS
  <2>2. /\ stack' = SubSeq(s, 1, Len(s) - 1) /\ s # <<>> /\ IsBuild(s[Len(s)]) /\ s[Len(s)].fn = r
        /\ building_list' = Without(l, First({i \in DOMAIN l : l[i] = r}))
    BY <1>3, <1>4, <1>6, <1>13, <2>1 DEF BuildLeft, callers, LeaveBuildingList
  <2>3. Chain(SubSeq(s, 1, Len(s) - 1), Without(l, First({i \in DOMAIN l : l[i] = r})))
    BY <1>5, <2>2, ChainShrinks
  <2>4. QED BY <2>2, <2>3
<1>14. CASE AllLeft
  <2>1. Chain(<<>>, <<>>)
    BY DEF Chain
  <2>2. QED BY <1>14, <2>1 DEF AllLeft
<1>15. QED BY <1>8, <1>9, <1>10, <1>11, <1>12, <1>13, <1>14, StepMoves DEF CallsMove

LEMMA ChainIsKept == Spec => []ChainInv
<1>1. Init => ChainInv
  BY DEF Init, ChainInv, Chain
<1>2. CallsInv /\ ChainInv /\ [Next]_vars /\ CallsInv' => ChainInv'
  BY ChainStep
<1>3. QED BY <1>1, <1>2, CallsAreInOrder, PTL DEF Spec

(* building_list is the chain of the recipes whose tryBuild is in progress *)
(* (the finally clause of tryBuild and what an exception leaves behind).   *)
THEOREM CookerChain == Spec => []BuildingListIsChain
<1>1. ChainInv => BuildingListIsChain
  BY DEF ChainInv, Chain, BuildingListIsChain, IsBuild
<1>2. QED BY <1>1, ChainIsKept, PTL

(* The recursion is never deeper than there are recipes to build: a recipe *)
(* that is being built further out is not entered again.                   *)
THEOREM CookerDepth == Spec => [](Len(stack) <= 2 * Cardinality(Recipe) + 1)
<1>1. ASSUME ChainInv PROVE Len(stack) <= 2 * Cardinality(Recipe) + 1
  <2>1. PICK l : l = building_list
    OBVIOUS
  <2>2. /\ l \in Seq(Recipe)
        /\ Len(stack) \in {2 * Len(l), 2 * Len(l) + 1}
        /\ \A i, j \in DOMAIN l : l[i] = l[j] => i = j
    BY <1>1, <2>1 DEF ChainInv, Chain
  <2>3. PICK n \in Nat : n = Len(l) /\ DOMAIN l = 1 .. n
    BY <2>2
  <2>4. Cardinality(1 .. n) = n /\ IsFiniteSet(1 .. n)
    <3>1. n \in Int /\ 1 \in Int
      OBVIOUS
    <3>2. IsFiniteSet(1 .. n) /\ Cardinality(1 .. n) = IF 1 > n THEN 0 ELSE n - 1 + 1
      BY <3>1, FS_Interval, Zenon
    <3>3. QED BY <3>2
  <2>5. l \in Injection(1 .. n, Recipe)
    BY <2>2, <2>3 DEF Injection, IsInjective
  <2>6. Cardinality(1 .. n) <= Cardinality(Recipe)
    BY <2>4, <2>5, RecipesAreFinite, FS_Injection DEF ExistsInjection
  <2>7. Cardinality(Recipe) \in Nat
    BY RecipesAreFinite, FS_CardinalityType
  <2>8. QED BY <2>2, <2>3, <2>4, <2>6, <2>7
<1>2. QED BY <1>1, ChainIsKept, PTL

---------------------------------------------------------------------------
CleanInv == BBDepCmd[options.cmd] = "" => Len(stack) <= 2

LEMMA CleanStep ==
  ASSUME CallsInv, ChainInv, CleanInv, [Next]_vars, CallsInv'
  PROVE  CleanInv'
<1>1. PICK s : s = stack
  OBVIOUS
<1>2. s \in Seq(FrameType) /\ Len(s) \in Nat /\ stack' \in Seq(FrameType)
  BY <1>1 DEF CallsInv, Stacked
<1>3. options' = options
  BY DEF Next, Step, StartTarget, TargetDone, Finish, TryBuild, TryBuildReturned, NoBuildableProvider,
         NextDependency, DependencyReturned, DependenciesMissing, StampIsCurrent, TryBuildPackage,
         PackageSucceeds, PackageFails, Escapes, vars
<1>4. SUFFICES ASSUME BBDepCmd[options.cmd] = "", Len(s) <= 2 PROVE Len(stack') <= 2
  BY <1>1, <1>3 DEF CleanInv
<1>5. CASE Kept
  BY <1>1, <1>4, <1>5 DEF Kept
<1>6. CASE ProviderCalled
  <2>1. PICK f : stack' = Append(s, f) /\ (stack = <<>> \/ (IsBuild(top) /\ top.depcmd # None))
    BY <1>1, <1>6 DEF ProviderCalled
  <2>2. s = <<>>
    <3>1. SUFFICES ASSUME s # <<>>, IsBuild(top), top.depcmd # None PROVE FALSE
      BY <1>1, <2>1
    <3>2. BuildInOrder(top)
      BY <1>1, <3>1, BuildIsInOrder DEF IsBuild
    <3>3. QED BY <1>4, <3>1, <3>2 DEF BuildInOrder
  <2>3. QED BY <2>1, <2>2
<1>7. CASE BuildCalled
  <2>1. PICK f : stack' = Append(s, f) /\ s # <<>> /\ IsProvider(top)
    BY <1>1, <1>7 DEF BuildCalled
  <2>2. Len(s) = 2 * Len(building_list) + 1 /\ Len(building_list) \in Nat
    BY <1>1, <2>1 DEF ChainInv, Chain, top
  <2>3. Len(s) = 1
    <3>1. PICK k \in Nat : Len(s) = 2 * k + 1
      BY <2>2
    <3>2. 2 * k + 1 <= 2
      BY <1>4, <3>1
    <3>3. k = 0
      BY <3>2
    <3>4. QED BY <3>1, <3>3
  <2>4. Len(stack') = Len(s) + 1
    BY <1>2, <2>1
  <2>5. QED BY <2>3, <2>4
<1>8. CASE CallWentOn
  <2>1. PICK f : stack' = [s EXCEPT ![Len(s)] = f]
    BY <1>1, <1>8 DEF CallWentOn, Top
  <2>2. DOMAIN stack' = DOMAIN s
    BY <2>1
  <2>3. DOMAIN s = 1 .. Len(s) /\ DOMAIN stack' = 1 .. Len(stack') /\ Len(stack') \in Nat
    BY <1>2
  <2>4. Len(stack') = Len(s)
    BY <1>2, <2>2, <2>3
  <2>5. QED BY <1>4, <2>4
<1>9. CASE ProviderLeft \/ BuildLeft
  <2>1. stack' = SubSeq(s, 1, Len(s) - 1) /\ s # <<>>
    BY <1>1, <1>9 DEF ProviderLeft, BuildLeft, callers
  <2>2. PICK n \in Nat : n = Len(s) - 1
    BY <1>2, <2>1
  <2>3. \A i \in 1 .. n : s[i] \in FrameType
    BY <1>2, <2>2
  <2>4. Len(stack') = n
    BY <2>1, <2>2, <2>3, SubSeqProperties
  <2>5. n <= Len(s) /\ Len(s) <= 2 /\ Len(s) \in Nat
    <3>1. Len(s) \in Nat /\ Len(s) <= 2
      BY <1>2, <1>4
    <3>2. QED BY <2>2, <3>1
  <2>6. QED BY <2>4, <2>5
<1>10. CASE AllLeft
  <2>1. Len(stack') = 0
    BY <1>10 DEF AllLeft
  <2>2. QED BY <2>1
<1>11. QED BY <1>5, <1>6, <1>7, <1>8, <1>9, <1>10, StepMoves DEF CallsMove

LEMMA CleanIsKept == Spec => []CleanInv
<1>1. Init => CleanInv
  <2>1. Len(<<>>) <= 2
    OBVIOUS
  <2>2. QED BY <2>1 DEF Init, CleanInv
<1>2. CallsInv /\ ChainInv /\ CleanInv /\ [Next]_vars /\ CallsInv' => CleanInv'
  BY CleanStep
<1>3. QED BY <1>1, <1>2, CallsAreInOrder, ChainIsKept, PTL DEF Spec

(* A command with an empty bbdepcmd is executed for the targets alone.     *)
THEOREM CookerClean == Spec => []CleanStaysLocal
BY CleanIsKept, PTL DEF CleanInv, CleanStaysLocal

---------------------------------------------------------------------------
(* What the caches, the statistics and the stamps hold.                    *)
DataTyped ==
    /\ build_cache \subseteq Recipe
    /\ build_cache_fail \subseteq Recipe
    /\ stats \in [attempt : Nat, fail : Nat, deps : Nat]
    /\ stamped \subseteq Recipe \X Cmd
    /\ exit \in {None, 0, 1}

LEMMA DataInit == CallsInv /\ Init => DataTyped
<1>1. SUFFICES ASSUME CallsInv, Init PROVE DataTyped
  OBVIOUS
<1>2. ASSUME NEW x \in world.stamped PROVE SameStamps(x[1]) \X {x[2]} \subseteq Recipe \X Cmd
  <2>1. x \in Recipe \X Cmd
    BY <1>1, <1>2 DEF CallsInv, WorldType, WorldRecord
  <2>2. x[2] \in Cmd
    BY <2>1
  <2>3. QED BY <2>2 DEF SameStamps
<1>3. stamped \subseteq Recipe \X Cmd
  <2>1. stamped = UNION {SameStamps(x[1]) \X {x[2]} : x \in world.stamped}
    BY <1>1 DEF Init
  <2>2. QED BY <1>2, <2>1
<1>4. QED BY <1>1, <1>3 DEF Init, DataTyped

LEMMA DataStep ==
  ASSUME CallsInv, DataTyped, [Next]_vars
  PROVE  DataTyped'
<1>1. ASSUME stack # <<>>, top.kind = "build" PROVE top.fn \in Recipe
  BY <1>1, BuildIsInOrder
<1>2. ASSUME NEW r \in Recipe, NEW S \in SUBSET Cmd PROVE SameStamps(r) \X S \subseteq Recipe \X Cmd
  BY DEF SameStamps
<1>3. PICK q \in [attempt : Nat, fail : Nat, deps : Nat] : q = stats
  BY DEF DataTyped
<1>4. CASE StartTarget \/ TargetDone \/ Finish \/ TryBuild \/ TryBuildReturned \/ NoBuildableProvider
           \/ NextDependency \/ DependencyReturned \/ Escapes \/ UNCHANGED vars
  <2>1. UNCHANGED <<build_cache, build_cache_fail, stats, stamped>>
    BY <1>4 DEF StartTarget, TargetDone, Finish, TryBuild, TryBuildReturned, NoBuildableProvider,
                NextDependency, DependencyReturned, Escapes, vars, caches
  <2>2. exit' \in {exit, 0, 1}
    BY <1>4 DEF StartTarget, TargetDone, Finish, TryBuild, TryBuildReturned, NoBuildableProvider,
                NextDependency, DependencyReturned, Escapes, vars
  <2>3. QED BY <2>1, <2>2 DEF DataTyped
<1>5. CASE DependenciesMissing
  <2>1. stats' = [q EXCEPT !.deps = q.deps + 1] /\ UNCHANGED <<build_cache, build_cache_fail, stamped, exit>>
    BY <1>3, <1>5 DEF DependenciesMissing, caches
  <2>2. stats' \in [attempt : Nat, fail : Nat, deps : Nat]
    BY <2>1
  <2>3. QED BY <2>1, <2>2 DEF DataTyped
<1>6. CASE StampIsCurrent
  <2>1. top.fn \in Recipe
    BY <1>1, <1>6 DEF StampIsCurrent, InDepsDone, InDeps, Busy
  <2>2. QED BY <1>6, <2>1 DEF StampIsCurrent, DataTyped
<1>7. CASE TryBuildPackage
  <2>1. stats' = [q EXCEPT !.attempt = q.attempt + 1] /\ UNCHANGED <<build_cache, build_cache_fail, stamped, exit>>
    BY <1>3, <1>7 DEF TryBuildPackage, caches
  <2>2. stats' \in [attempt : Nat, fail : Nat, deps : Nat]
    BY <2>1
  <2>3. QED BY <2>1, <2>2 DEF DataTyped
<1>8. CASE PackageSucceeds
  <2>1. PICK r \in Recipe : r = top.fn
    BY <1>1, <1>8 DEF PackageSucceeds, InPackage, Busy
  <2>2. build_cache' = build_cache \cup {r} /\ UNCHANGED <<build_cache_fail, stats, exit>>
    BY <1>8, <2>1 DEF PackageSucceeds
  <2>3. stamped' \subseteq stamped \/ stamped' = stamped \cup (SameStamps(r) \X Stamps[cmd])
    BY <1>8, <2>1 DEF PackageSucceeds
  <2>4. Stamps[cmd] \in SUBSET Cmd
    BY TasksAreTyped DEF CallsInv, CmdInv
  <2>5. stamped' \subseteq Recipe \X Cmd
    BY <1>2, <2>3, <2>4 DEF DataTyped
  <2>6. QED BY <2>2, <2>5 DEF DataTyped
<1>9. CASE PackageFails
  <2>1. PICK r \in Recipe : r = top.fn
    BY <1>1, <1>9 DEF PackageFails, InPackage, Busy
  <2>2. build_cache_fail' = build_cache_fail \cup {r} /\ UNCHANGED <<build_cache, exit>>
    BY <1>9, <2>1 DEF PackageFails
  <2>3. stats' = [q EXCEPT !.fail = q.fail + 1]
    BY <1>3, <1>9 DEF PackageFails
  <2>4. stats' \in [attempt : Nat, fail : Nat, deps : Nat]
    BY <2>3
  <2>5. PICK S \in SUBSET Cmd : stamped' = stamped \cup (SameStamps(r) \X S)
    <3>1. Stamps[cmd] \in SUBSET Cmd
      BY TasksAreTyped DEF CallsInv, CmdInv
    <3>2. PICK S \in IF cmd \in IsTask THEN SUBSET (Stamps[cmd] \ {cmd}) ELSE {{}} :
              stamped' = stamped \cup (SameStamps(r) \X S)
      BY <1>9, <2>1 DEF PackageFails
    <3>3. S \in SUBSET Cmd
      BY <3>1, <3>2
    <3>4. QED BY <3>2, <3>3
  <2>6. stamped' \subseteq Recipe \X Cmd
    BY <1>2, <2>5 DEF DataTyped
  <2>7. QED BY <2>2, <2>4, <2>6 DEF DataTyped
<1>10. QED BY <1>4, <1>5, <1>6, <1>7, <1>8, <1>9 DEF Next, Step

LEMMA DataIsTyped == Spec => []DataTyped
<1>1. CallsInv /\ DataTyped /\ [Next]_vars => DataTyped'
  BY DataStep
<1>2. QED BY <1>1, CallsInit, DataInit, CallsAreInOrder, PTL DEF Spec

(* Every variable has its type, and every call in progress has candidates  *)
(* or a recipe that provide what it was made for.                          *)
THEOREM CookerTypes == Spec => []TypeOK
<1>1. ASSUME CallsInv, ChainInv, DataTyped PROVE TypeOK
  <2>1. ASSUME NEW f \in Range(stack)
        PROVE  IF f.kind = "provider"
               THEN /\ Range(f.eligible) \subseteq Providers(f.item)
                    /\ f.next \in 1 .. Len(f.eligible) + 1
               ELSE /\ f.fn \in Providers(f.item)
                    /\ f.next \in 1 .. Len(world.depends[f.fn]) + 1
    <3>1. CallInOrder(f)
      BY <1>1 DEF Range, CallsInv, Stacked
    <3>2. QED BY <3>1, KindsDiffer DEF ProviderInOrder, BuildInOrder, IsProvider, IsBuild
  <2>2. stack \in Seq(ProviderFrameType \cup BuildFrameType)
    BY <1>1 DEF CallsInv, Stacked, FrameType
  <2>3. cmd \in Cmd /\ current \in 1 .. Len(targets) + 1 /\ returned \in BOOLEAN \cup {None}
    BY <1>1 DEF CallsInv, CmdInv
  <2>4. building_list \in Seq(Recipe)
    BY <1>1 DEF ChainInv, Chain
  <2>5. QED BY <1>1, <2>1, <2>2, <2>3, <2>4 DEF TypeOK, DataTyped, Frames
<1>2. QED BY <1>1, CallsAreInOrder, ChainIsKept, DataIsTyped, PTL

(* A recipe is tried for an item only as the best of its name: nothing of  *)
(* findBestProvider's choice is lost in what buildProvider does with the   *)
(* candidates, nor while a call waits for its dependencies.                *)
THEOREM CookerTriesBest == Spec => []TriedAreBest
<1>1. ASSUME CallsInv PROVE TriedAreBest
  <2>1. ASSUME NEW f \in Range(stack), f.kind = "build" PROVE IsBest(f.fn, f.item)
    <3>1. CallInOrder(f)
      BY <1>1 DEF Range, CallsInv, Stacked
    <3>2. QED BY <2>1, <3>1, KindsDiffer DEF BuildInOrder, IsProvider, IsBuild
  <2>2. QED BY <2>1 DEF TriedAreBest, Frames
<1>2. QED BY <1>1, CallsAreInOrder, PTL

---------------------------------------------------------------------------
(* What was built has its dependencies, and so far has what is being built *)
(* for which no dependency is missing yet.                                 *)
HaveDep(d) == d \in world.ignored \/ Satisfied(d)

HasDeps(r) == \A d \in Range(world.depends[r]) : HaveDep(d)

HasDepsSoFar(f) ==
    IsBuild(f) /\ ~f.failed /\ f.depcmd # None =>
        \A j \in 1 .. f.next - 1 : HaveDep(world.depends[f.fn][j])

Proceed(s) == \A i \in DOMAIN s : HasDepsSoFar(s[i])

Answered(s) == \A item \in Item : Awaited(s, item) => Satisfied(item)

DepsInv ==
    /\ Proceed(stack)
    /\ returned = TRUE => Answered(stack)
    /\ BuiltHaveDeps

LEMMA DepsStay ==
  ASSUME world' = world, build_cache \subseteq build_cache'
  PROVE  /\ \A d : Satisfied(d) => Satisfied(d)'
         /\ \A d : HaveDep(d) => HaveDep(d)'
         /\ \A s : Proceed(s) => Proceed(s)'
<1>1. ASSUME NEW d, Satisfied(d) PROVE Satisfied(d)'
  BY <1>1 DEF Satisfied, Providers
<1>2. ASSUME NEW d, HaveDep(d) PROVE HaveDep(d)'
  BY <1>1, <1>2 DEF HaveDep
<1>3. ASSUME NEW f, HasDepsSoFar(f) PROVE HasDepsSoFar(f)'
  BY <1>2, <1>3 DEF HasDepsSoFar
<1>4. QED BY <1>1, <1>2, <1>3 DEF Proceed

LEMMA ProceedMoves ==
  ASSUME NEW s \in Seq(FrameType), Proceed(s)
  PROVE  /\ \A f \in FrameType : HasDepsSoFar(f) => Proceed(Append(s, f))
         /\ \A f \in FrameType : s # <<>> /\ HasDepsSoFar(f) => Proceed([s EXCEPT ![Len(s)] = f])
         /\ s # <<>> => Proceed(SubSeq(s, 1, Len(s) - 1))
<1>1. ASSUME NEW f \in FrameType, HasDepsSoFar(f) PROVE Proceed(Append(s, f))
  <2>1. PICK t : t = Append(s, f)
    OBVIOUS
  <2>2. \A i \in DOMAIN t : t[i] = f \/ (i \in DOMAIN s /\ t[i] = s[i])
    BY <2>1
  <2>3. QED BY <1>1, <2>1, <2>2 DEF Proceed
<1>2. ASSUME NEW f \in FrameType, s # <<>>, HasDepsSoFar(f) PROVE Proceed([s EXCEPT ![Len(s)] = f])
  <2>1. PICK t : t = [s EXCEPT ![Len(s)] = f]
    OBVIOUS
  <2>2. \A i \in DOMAIN t : t[i] = f \/ (i \in DOMAIN s /\ t[i] = s[i])
    BY <2>1
  <2>3. QED BY <1>2, <2>1, <2>2 DEF Proceed
<1>3. ASSUME s # <<>> PROVE Proceed(SubSeq(s, 1, Len(s) - 1))
  <2>1. PICK n \in Nat : n = Len(s) - 1
    BY <1>3
  <2>2. PICK t : t = SubSeq(s, 1, n)
    OBVIOUS
  <2>3. Len(t) = n /\ t \in Seq(FrameType) /\ \A i \in 1 .. n : t[i] = s[i]
    <3>1. \A i \in 1 .. n : s[i] \in FrameType
      BY <2>1
    <3>2. QED BY SMTT(30), <2>2, <3>1, SubSeqProperties
  <2>4. \A i \in DOMAIN t : i \in DOMAIN s /\ t[i] = s[i]
    <3>1. DOMAIN t = 1 .. n /\ DOMAIN s = 1 .. n + 1
      BY <2>1, <2>3
    <3>2. QED BY <2>3, <3>1
  <2>5. Proceed(t)
    BY <2>4 DEF Proceed
  <2>6. QED BY <2>1, <2>2, <2>5
<1>4. QED BY <1>1, <1>2, <1>3

LEMMA AwaitedIsOne ==
  ASSUME NEW s, Stacked(s), NEW a, NEW b, Awaited(s, a), Awaited(s, b)
  PROVE  a = b
<1>1. \A f : ~(IsProvider(f) /\ IsBuild(f))
  BY DEF IsProvider, IsBuild
<1>2. QED BY <1>1 DEF Awaited, CookCalls, ProviderCalls, BuildCalls

(* A call is answered TRUE when what was awaited is there.                 *)
LEMMA AnsweredByOne ==
  ASSUME NEW s, Stacked(s), NEW item \in Item, Awaited(s, item), Satisfied(item)',
         UNCHANGED <<world, targets, options, current>>
  PROVE  Answered(s)'
<1>1. ASSUME NEW a \in Item, Awaited(s, a)' PROVE Satisfied(a)'
  <2>1. Awaited(s, a)
    BY <1>1, SameCalls
  <2>2. a = item
    BY <2>1, AwaitedIsOne
  <2>3. PICK b : b = item
    OBVIOUS
  <2>4. QED BY <2>2
<1>2. QED BY <1>1 DEF Answered

(* buildProvider was called and has, or has not, an answer at once.        *)
LEMMA CalledDeps ==
  ASSUME CallsInv, DepsInv, NEW item \in Item, Awaited(stack, item), BuildProvider(item),
         UNCHANGED <<world, targets, options, current, build_cache>>
  PROVE  Proceed(stack)' /\ (returned' = TRUE => Answered(stack)')
<1>1. PICK s : s = stack
  OBVIOUS
<1>2. Stacked(s) /\ s \in Seq(FrameType) /\ Awaited(s, item) /\ Proceed(s) /\ Proceed(s)'
  BY <1>1, DepsStay DEF CallsInv, Stacked, DepsInv
<1>3. CASE stack' = stack /\ returned' = FALSE
  BY <1>1, <1>2, <1>3
<1>4. CASE stack' = stack /\ returned' = TRUE /\ Satisfied(item)
  <2>1. Satisfied(item)'
    BY <1>4, DepsStay
  <2>2. Answered(s)'
    BY <1>2, <2>1, AnsweredByOne
  <2>3. QED BY <1>1, <1>2, <1>4, <2>2
<1>5. CASE returned' = None /\ \E f : ProviderInOrder(f) /\ stack' = Append(stack, f)
  <2>1. PICK f : ProviderInOrder(f) /\ stack' = Append(stack, f)
    BY <1>5
  <2>2. f \in FrameType /\ HasDepsSoFar(f)
    BY <2>1 DEF ProviderInOrder, ProviderFrameType, FrameType, HasDepsSoFar, IsBuild
  <2>3. PICK t : t = Append(s, f)
    OBVIOUS
  <2>4. Proceed(t)
    BY <1>2, <2>2, <2>3, ProceedMoves
  <2>5. Proceed(t)'
    BY <2>4, DepsStay
  <2>6. stack' = t
    BY <1>1, <2>1, <2>3
  <2>7. QED BY <1>5, <2>5, <2>6, NoneIsNothing
<1>6. QED BY <1>3, <1>4, <1>5, BuildProviderAnswers

(* A call goes on with another state of its own.                           *)
LEMMA WentOnDeps ==
  ASSUME CallsInv, DepsInv, stack # <<>>, NEW f \in FrameType, HasDepsSoFar(f), Top(f),
         returned' = None, UNCHANGED <<world, build_cache>>
  PROVE  Proceed(stack)' /\ (returned' = TRUE => Answered(stack)')
<1>1. PICK s : s = stack
  OBVIOUS
<1>2. PICK t : t = [s EXCEPT ![Len(s)] = f]
  OBVIOUS
<1>3. s \in Seq(FrameType) /\ Proceed(s) /\ s # <<>>
  BY <1>1 DEF CallsInv, Stacked, DepsInv
<1>4. Proceed(t)
  BY <1>2, <1>3, ProceedMoves
<1>5. Proceed(t)'
  BY <1>4, DepsStay
<1>6. stack' = t
  BY <1>1, <1>2 DEF Top
<1>7. QED BY <1>5, <1>6, NoneIsNothing

(* A call ends, with TRUE when what it was made for is there.              *)
LEMMA ReturnedDeps ==
  ASSUME CallsInv, DepsInv, stack # <<>>, NEW v \in BOOLEAN, Return(v),
         NEW item, item = top.item, v => Satisfied(item)',
         UNCHANGED <<world, targets, options, current>>, build_cache \subseteq build_cache'
  PROVE  Proceed(stack)' /\ (returned' = TRUE => Answered(stack)')
<1>1. PICK s : s = stack
  OBVIOUS
<1>2. PICK t : t = SubSeq(s, 1, Len(s) - 1)
  OBVIOUS
<1>4. s \in Seq(FrameType) /\ Proceed(s) /\ s # <<>> /\ Stacked(s)
  BY <1>1 DEF CallsInv, Stacked, DepsInv
<1>5. Stacked(t) /\ Awaited(t, item) /\ item \in Item
  BY <1>1, <1>2, <1>4, Popped DEF top
<1>6. Proceed(t)
  BY <1>2, <1>4, ProceedMoves
<1>7. Proceed(t)'
  BY <1>6, DepsStay
<1>8. stack' = t /\ returned' = v
  BY <1>1, <1>2 DEF Return, callers
<1>9. ASSUME v = TRUE PROVE Answered(t)'
  <2>1. Satisfied(item)'
    BY <1>9
  <2>2. QED BY <1>5, <2>1, AnsweredByOne
<1>10. QED BY <1>7, <1>8, <1>9

(* The recipe on top is built, so what it was taken for is there.          *)
LEMMA BuiltSatisfies ==
  ASSUME CallsInv, stack # <<>>, top.kind = "build", world' = world,
         build_cache' = build_cache \cup {top.fn}, NEW item, item = top.item
  PROVE  Satisfied(item)'
<1>1. top.fn \in Providers(item) /\ top.fn \in Recipe
  BY BuildIsInOrder DEF BuildInOrder
<1>2. PICK r : r = top.fn
  OBVIOUS
<1>3. Providers(item)' = Providers(item)
  BY DEF Providers
<1>4. QED BY <1>1, <1>2, <1>3 DEF Satisfied

LEMMA BuiltHaveDepsStay ==
  ASSUME BuiltHaveDeps, UNCHANGED <<world, options>>, build_cache \subseteq build_cache',
         BBDepCmd[options.cmd] # "" => \A r \in build_cache' : r \in build_cache \/ HasDeps(r)
  PROVE  BuiltHaveDeps'
<1>1. SUFFICES ASSUME BBDepCmd[options.cmd] # "", NEW r \in build_cache',
                      NEW d \in Range(world.depends[r])
               PROVE  HaveDep(d)'
  BY DEF BuiltHaveDeps, HaveDep
<1>2. HaveDep(d)
  BY <1>1 DEF BuiltHaveDeps, HasDeps, HaveDep
<1>3. QED BY <1>2, DepsStay

LEMMA TopIsLast ==
  ASSUME CallsInv, stack # <<>>
  PROVE  Len(stack) \in DOMAIN stack
BY DEF CallsInv, Stacked

LEMMA BeforeNext ==
  ASSUME NEW S, NEW l \in Seq(S), NEW k \in 1 .. Len(l) + 1, k > Len(l)
  PROVE  \A j \in DOMAIN l : j \in 1 .. k - 1
OBVIOUS

(* What is left to try when all dependencies were gone through has them.   *)
LEMMA TopHasDeps ==
  ASSUME CallsInv, DepsInv, stack # <<>>, top.kind = "build", ~top.failed,
         top.next > Len(depends), BBDepCmd[options.cmd] # ""
  PROVE  HasDeps(top.fn)
<1>1. PICK g : g = top
  OBVIOUS
<1>2. BuildInOrder(g) /\ IsBuild(g) /\ depends \in Seq(Item)
  BY <1>1, BuildIsInOrder
<1>3. g.depcmd # None
  BY <1>2 DEF BuildInOrder
<1>4. HasDepsSoFar(g)
  <2>1. Len(stack) \in DOMAIN stack
    BY TopIsLast, Zenon
  <2>2. QED BY <1>1, <2>1 DEF DepsInv, Proceed, top
<1>5. \A j \in 1 .. g.next - 1 : HaveDep(depends[j])
  BY <1>1, <1>2, <1>3, <1>4 DEF HasDepsSoFar, depends
<1>6. g.next \in 1 .. Len(depends) + 1 /\ g.next > Len(depends)
  BY <1>1, <1>2 DEF BuildInOrder, depends
<1>7. \A j \in DOMAIN depends : j \in 1 .. g.next - 1
  BY <1>2, <1>6, BeforeNext, Zenon
<1>8. \A j \in DOMAIN depends : HaveDep(depends[j])
  BY <1>5, <1>7
<1>9. QED BY <1>8 DEF HasDeps, Range, depends

LEMMA DepsProviderStep ==
  ASSUME CallsInv, DepsInv, TryBuild \/ TryBuildReturned \/ NoBuildableProvider
  PROVE  DepsInv'
<1>1. PICK g : g = top
  OBVIOUS
<1>2. PICK s : s = stack
  OBVIOUS
<1>3. /\ stack # <<>> /\ IsProvider(g) /\ s \in Seq(FrameType)
      /\ UNCHANGED <<world, targets, options, current, build_cache>>
  BY <1>1, <1>2 DEF TryBuild, TryBuildReturned, NoBuildableProvider, Calls, Busy, IsProvider,
                    CallsInv, Stacked, caches
<1>4. BuiltHaveDeps'
  BY <1>3, BuiltHaveDepsStay DEF DepsInv
<1>5. ProviderInOrder(g)
  BY <1>1, <1>3, TopIsInOrder, KindsDiffer
<1>6. CASE TryBuild
  <2>1. returned = None /\ (returned' = returned \/ returned' = FALSE)
    BY <1>6 DEF TryBuild, Calls
  <2>2. returned' # TRUE
    BY <2>1, NoneIsNothing
  <2>3. Proceed(s) /\ Proceed(s)'
    BY <1>2, <1>3, DepsStay DEF DepsInv
  <2>4. CASE stack' = stack
    BY <1>2, <1>4, <2>2, <2>3, <2>4 DEF DepsInv
  <2>5. CASE \E r : stack' = Append(stack, BuildFrame(r, g.item, cmd))
    <3>1. PICK r : stack' = Append(stack, BuildFrame(r, g.item, cmd))
      BY <2>5
    <3>2. PICK f : f = BuildFrame(r, g.item, cmd)
      OBVIOUS
    <3>3. f.next = 1
      BY <3>2 DEF BuildFrame
    <3>4. HasDepsSoFar(f)
      BY <3>3 DEF HasDepsSoFar
    <3>5. f \in FrameType
      <4>1. CallsInv'
        BY <1>6, TryBuildCalls
      <4>2. stack' = Append(s, f) /\ stack' \in Seq(FrameType)
        BY <1>2, <3>1, <3>2, <4>1 DEF CallsInv, Stacked
      <4>3. Len(s) + 1 \in DOMAIN stack' /\ stack'[Len(s) + 1] = f
        BY <1>3, <4>2
      <4>4. QED BY <4>2, <4>3
    <3>6. PICK t : t = Append(s, f)
      OBVIOUS
    <3>7. Proceed(t)
      BY <1>3, <2>3, <3>4, <3>5, <3>6, ProceedMoves
    <3>8. Proceed(t)'
      BY <1>3, <3>7, DepsStay
    <3>9. stack' = t
      BY <1>2, <3>1, <3>2, <3>6
    <3>10. QED BY <1>4, <2>2, <3>8, <3>9 DEF DepsInv
  <2>6. QED BY <1>1, <1>6, <2>4, <2>5 DEF TryBuild
<1>7. CASE TryBuildReturned
  <2>1. CASE returned
    <3>1. PICK item : item = top.item
      OBVIOUS
    <3>2. returned = TRUE
      BY <1>7, <2>1 DEF TryBuildReturned, CallsInv
    <3>3. item \in Item /\ Awaited(stack, item)
      <4>1. PICK a \in Item : Awaited(stack, a)
        BY <3>2, NoneIsNothing DEF CallsInv
      <4>2. a = item
        BY <1>1, <1>3, <3>1, <4>1 DEF Awaited, ProviderCalls, BuildCalls, IsProvider, IsBuild, top
      <4>3. QED BY <4>1, <4>2
    <3>4. Satisfied(item)
      BY <3>2, <3>3 DEF DepsInv, Answered
    <3>5. Satisfied(item)'
      BY <1>3, <3>4, DepsStay
    <3>6. Return(TRUE)
      BY <1>7, <2>1 DEF TryBuildReturned
    <3>7. QED BY <1>3, <1>4, <3>1, <3>5, <3>6, ReturnedDeps DEF DepsInv
  <2>2. CASE ~returned
    <3>1. PICK f : f = [g EXCEPT !.next = g.next + 1]
      OBVIOUS
    <3>2. f \in FrameType /\ ~IsBuild(f)
      BY <1>5, <3>1 DEF ProviderInOrder, ProviderFrameType, FrameType, IsBuild
    <3>3. Top(f) /\ returned' = None
      BY <1>1, <1>7, <2>2, <3>1 DEF TryBuildReturned
    <3>4. HasDepsSoFar(f)
      BY <3>2 DEF HasDepsSoFar
    <3>5. QED BY <1>3, <1>4, <3>2, <3>3, <3>4, WentOnDeps DEF DepsInv
  <2>3. QED BY <2>1, <2>2
<1>8. CASE NoBuildableProvider
  <2>1. Return(FALSE)
    BY <1>8 DEF NoBuildableProvider
  <2>2. PICK item : item = top.item
    OBVIOUS
  <2>3. QED BY <1>3, <1>4, <2>1, <2>2, ReturnedDeps DEF DepsInv
<1>9. QED BY <1>6, <1>7, <1>8

LEMMA DepsBuildStep ==
  ASSUME CallsInv, DepsInv,
         \/ NextDependency \/ DependencyReturned \/ DependenciesMissing
         \/ StampIsCurrent \/ TryBuildPackage \/ PackageSucceeds
  PROVE  DepsInv'
<1>1. PICK g : g = top
  OBVIOUS
<1>2. PICK s : s = stack
  OBVIOUS
<1>3. stack # <<>> /\ top.kind = "build" /\ IsBuild(g) /\ UNCHANGED <<world, targets, options, current>>
  BY <1>1 DEF NextDependency, DependencyReturned, DependenciesMissing, StampIsCurrent, TryBuildPackage,
              PackageSucceeds, InDeps, InDepsDone, InPackage, Busy, IsBuild
<1>4. BuildInOrder(g) /\ g \in BuildFrameType /\ depends \in Seq(Item)
  <2>1. BuildInOrder(g) /\ depends \in Seq(Item)
    BY <1>1, <1>3, BuildIsInOrder
  <2>2. QED BY <2>1 DEF BuildInOrder
<1>5. HasDepsSoFar(g) /\ (~g.failed /\ g.depcmd # None => \A j \in 1 .. g.next - 1 : HaveDep(depends[j]))
  <2>1. stack \in Seq(FrameType)
    BY DEF CallsInv, Stacked
  <2>2. Len(stack) \in DOMAIN stack
    BY <1>3, <2>1
  <2>3. HasDepsSoFar(g)
    BY <1>1, <2>2 DEF DepsInv, Proceed, top
  <2>4. QED BY <1>1, <1>3, <2>3 DEF HasDepsSoFar, depends
<1>6. g.next \in Nat /\ Len(depends) \in Nat /\ g.next \in 1 .. Len(depends) + 1
  <2>1. g.next \in 1 .. Len(depends) + 1
    BY <1>1, <1>4 DEF BuildInOrder, depends
  <2>2. QED BY <1>4, <2>1
<1>7. build_cache' = build_cache => BuiltHaveDeps'
  BY <1>3, BuiltHaveDepsStay DEF DepsInv
<1>8. ASSUME NEW n \in Nat, NEW b \in BOOLEAN, NEW pc \in {"deps", "package"},
             NEW f, f = [g EXCEPT !.next = n, !.failed = b, !.pc = pc]
      PROVE  /\ f \in FrameType /\ IsBuild(f) /\ f.next = n /\ f.failed = b
             /\ f.fn = g.fn /\ f.depcmd = g.depcmd
  BY <1>4, <1>8 DEF BuildFrameType, FrameType, IsBuild
<1>9. CASE NextDependency
  <2>1. CASE depends[top.next] \in world.ignored \/ top.depcmd = None
    <3>1. PICK f : f = [g EXCEPT !.next = g.next + 1]
      OBVIOUS
    <3>2. f \in FrameType /\ f.next = g.next + 1 /\ f.failed = g.failed /\ f.fn = g.fn /\ f.depcmd = g.depcmd
      BY <1>4, <3>1 DEF BuildFrameType, FrameType
    <3>3. Top(f) /\ returned' = None /\ build_cache' = build_cache
      BY <1>1, <1>9, <2>1, <3>1 DEF NextDependency, caches
    <3>4. ASSUME ~f.failed, f.depcmd # None, NEW j \in 1 .. f.next - 1
          PROVE  HaveDep(world.depends[f.fn][j])
      <4>1. j \in 1 .. g.next - 1 \/ j = g.next
        BY <1>6, <3>2, <3>4
      <4>2. HaveDep(depends[j])
        BY <1>1, <1>5, <2>1, <3>2, <3>4, <4>1 DEF HaveDep
      <4>3. QED BY <1>1, <3>2, <4>2 DEF depends
    <3>5. HasDepsSoFar(f)
      BY <3>4 DEF HasDepsSoFar
    <3>6. QED BY <1>3, <1>7, <3>2, <3>3, <3>5, WentOnDeps DEF DepsInv
  <2>2. CASE ~ (depends[top.next] \in world.ignored \/ top.depcmd = None)
    <3>1. PICK item : item = depends[top.next]
      OBVIOUS
    <3>2. /\ BuildProvider(item) /\ build_cache' = build_cache
          /\ top.next <= Len(depends) /\ top.pc = "deps"
      BY <1>9, <2>2, <3>1 DEF NextDependency, InDeps, caches
    <3>3. Awaited(stack, item)
      BY <1>1, <1>3, <3>1, <3>2 DEF Awaited, BuildCalls, depends, top
    <3>4. item \in Item
      <4>1. top.next \in 1 .. Len(depends)
        BY <1>1, <1>6, <3>2
      <4>2. QED BY <1>4, <3>1, <4>1
    <3>5. QED BY <1>3, <1>7, <3>2, <3>3, <3>4, CalledDeps DEF DepsInv
  <2>3. QED BY <2>1, <2>2
<1>10. CASE DependencyReturned
  <2>1. PICK n : n = IF ~returned /\ options.abort THEN Len(depends) + 1 ELSE g.next + 1
    OBVIOUS
  <2>2. PICK b \in BOOLEAN : b = (g.failed \/ ~returned)
    OBVIOUS
  <2>3. PICK f : f = [g EXCEPT !.failed = b, !.next = n]
    OBVIOUS
  <2>4. n \in Nat /\ returned \in BOOLEAN /\ returned # None
    BY <1>6, <1>10, <2>1 DEF DependencyReturned, CallsInv
  <2>5. f \in FrameType /\ f.next = n /\ f.failed = b /\ f.fn = g.fn /\ f.depcmd = g.depcmd
    BY <1>4, <2>3, <2>4 DEF BuildFrameType, FrameType
  <2>6. Top(f) /\ returned' = None /\ build_cache' = build_cache
    BY <1>1, <1>10, <2>1, <2>2, <2>3 DEF DependencyReturned, caches
  <2>7. ASSUME ~f.failed, f.depcmd # None, NEW j \in 1 .. f.next - 1
        PROVE  HaveDep(world.depends[f.fn][j])
    <3>1. ~g.failed /\ returned = TRUE /\ g.depcmd # None
      BY <2>2, <2>4, <2>5, <2>7
    <3>2. n = g.next + 1
      BY <2>1, <3>1
    <3>3. j \in 1 .. g.next - 1 \/ j = g.next
      BY <1>6, <2>5, <2>7, <3>2
    <3>4. HaveDep(depends[g.next])
      <4>1. PICK a \in Item : Awaited(stack, a)
        BY <2>4 DEF CallsInv
      <4>2. a = depends[g.next]
        BY <1>1, <1>3, <4>1 DEF Awaited, ProviderCalls, BuildCalls, IsProvider, IsBuild, depends, top
      <4>3. Satisfied(a)
        BY <3>1, <4>1 DEF DepsInv, Answered
      <4>4. QED BY <4>2, <4>3 DEF HaveDep
    <3>5. HaveDep(depends[j])
      BY <1>5, <3>1, <3>3, <3>4
    <3>6. QED BY <1>1, <2>5, <3>5 DEF depends
  <2>8. HasDepsSoFar(f)
    BY <2>7 DEF HasDepsSoFar
  <2>9. QED BY <1>3, <1>7, <2>5, <2>6, <2>8, WentOnDeps DEF DepsInv
<1>11. CASE DependenciesMissing
  <2>1. Return(FALSE) /\ build_cache' = build_cache
    BY <1>11 DEF DependenciesMissing, caches
  <2>2. PICK item : item = top.item
    OBVIOUS
  <2>3. QED BY <1>3, <1>7, <2>1, <2>2, ReturnedDeps DEF DepsInv
<1>12. CASE StampIsCurrent \/ PackageSucceeds
  <2>1. Return(TRUE) /\ build_cache' = build_cache \cup {top.fn}
    BY <1>12 DEF StampIsCurrent, PackageSucceeds
  <2>2. PICK item : item = top.item
    OBVIOUS
  <2>3. Satisfied(item)'
    BY <1>3, <2>1, <2>2, BuiltSatisfies
  <2>4. ~top.failed /\ top.next > Len(depends)
    <3>1. CASE StampIsCurrent
      BY <3>1 DEF StampIsCurrent, InDepsDone
    <3>2. CASE PackageSucceeds
      BY <1>1, <1>4, <3>2 DEF PackageSucceeds, InPackage, BuildInOrder, depends
    <3>3. QED BY <1>12, <3>1, <3>2
  <2>5. BBDepCmd[options.cmd] # "" => HasDeps(top.fn)
    BY <1>3, <2>4, TopHasDeps
  <2>6. BuiltHaveDeps'
    BY <1>3, <2>1, <2>5, BuiltHaveDepsStay DEF DepsInv
  <2>7. QED BY <1>3, <2>1, <2>2, <2>3, <2>6, ReturnedDeps DEF DepsInv
<1>13. CASE TryBuildPackage
  <2>1. PICK f : f = [g EXCEPT !.pc = "package"]
    OBVIOUS
  <2>2. f \in FrameType /\ f.next = g.next /\ f.failed = g.failed /\ f.fn = g.fn /\ f.depcmd = g.depcmd
    BY <1>4, <2>1 DEF BuildFrameType, FrameType
  <2>3. Top(f) /\ returned' = None /\ build_cache' = build_cache
    BY <1>1, <1>13, <2>1 DEF TryBuildPackage, InDepsDone, caches
  <2>4. HasDepsSoFar(f)
    BY <1>3, <1>5, <2>2 DEF HasDepsSoFar
  <2>5. QED BY <1>3, <1>7, <2>2, <2>3, <2>4, WentOnDeps DEF DepsInv
<1>14. QED BY <1>9, <1>10, <1>11, <1>12, <1>13

LEMMA DepsStep ==
  ASSUME CallsInv, DepsInv, [Next]_vars
  PROVE  DepsInv'
<1>1. CASE StartTarget
  <2>1. PICK item \in Item : item = targets[current]
    BY <1>1 DEF CallsInv, StartTarget
  <2>2. /\ BuildProvider(item) /\ Awaited(stack, item)
        /\ UNCHANGED <<world, targets, options, current, build_cache>>
    BY <1>1, <2>1 DEF StartTarget, Awaited, CookCalls, caches
  <2>3. BuiltHaveDeps'
    BY <2>2, BuiltHaveDepsStay DEF DepsInv
  <2>4. QED BY <2>2, <2>3, CalledDeps DEF DepsInv
<1>2. CASE TargetDone \/ Finish \/ PackageFails \/ Escapes
  <2>1. /\ stack' = <<>> /\ returned' \in {None, FALSE} /\ UNCHANGED <<world, options, build_cache>>
    BY <1>2 DEF TargetDone, Finish, PackageFails, Escapes, caches
  <2>2. BuiltHaveDeps'
    BY <2>1, BuiltHaveDepsStay DEF DepsInv
  <2>3. Proceed(<<>>)'
    BY DEF Proceed
  <2>4. returned' # TRUE
    BY <2>1, NoneIsNothing
  <2>5. QED BY <2>1, <2>2, <2>3, <2>4 DEF DepsInv
<1>3. CASE UNCHANGED vars
  <2>1. PICK s : s = stack
    OBVIOUS
  <2>2. UNCHANGED <<world, targets, options, current, stack, returned, build_cache>>
    BY <1>3 DEF vars, caches
  <2>3. BuiltHaveDeps' /\ Proceed(s)'
    BY <2>1, <2>2, BuiltHaveDepsStay, DepsStay DEF DepsInv
  <2>4. ASSUME returned' = TRUE, NEW item \in Item, Awaited(s, item)' PROVE Satisfied(item)'
    <3>1. Awaited(s, item)
      BY <2>2, <2>4, SameCalls
    <3>2. Satisfied(item)
      BY <2>1, <2>2, <2>4, <3>1 DEF DepsInv, Answered
    <3>3. QED BY <2>2, <3>2, DepsStay
  <2>5. returned' = TRUE => Answered(s)'
    BY <2>4 DEF Answered
  <2>6. QED BY <2>1, <2>2, <2>3, <2>5 DEF DepsInv
<1>4. QED BY <1>1, <1>2, <1>3, DepsProviderStep, DepsBuildStep DEF Next, Step

LEMMA DepsAreBuilt == Spec => []DepsInv
<1>1. Init => DepsInv
  <2>1. Proceed(<<>>)
    BY DEF Proceed
  <2>2. SUFFICES ASSUME Init PROVE DepsInv
    OBVIOUS
  <2>3. stack = <<>> /\ returned # TRUE /\ build_cache = {}
    BY <2>2, NoneIsNothing DEF Init
  <2>4. BuiltHaveDeps
    BY <2>3 DEF BuiltHaveDeps
  <2>5. QED BY <2>1, <2>3, <2>4 DEF DepsInv
<1>2. CallsInv /\ DepsInv /\ [Next]_vars => DepsInv'
  BY DepsStep
<1>3. QED BY <1>1, <1>2, CallsAreInOrder, PTL DEF Spec

(* What was built in a run has each of its dependencies provided by what   *)
(* was built in the run: a dependency cycle is not built, with -k or not.  *)
THEOREM CookerDeps == Spec => []BuiltHaveDeps
BY DepsAreBuilt, PTL DEF DepsInv

---------------------------------------------------------------------------
(* The exit status.  As long as no failure was counted, the targets that   *)
(* were gone through are there, and the outermost buildProvider is at its  *)
(* first candidate: whatever makes it go on to the second, or makes it     *)
(* fail, is counted.  The one return that counts nothing, a recipe that    *)
(* depends on itself, needs a tryBuild further out.                        *)
Failures == stats.fail > 0 \/ stats.deps > 0

TargetIsThere(item) ==
    IF Providers(item) = {} THEN ~options.abort ELSE Satisfied(item)

FirstTry(s, r) == s # <<>> => ~(s[1].next > 1) /\ ~(Len(s) = 1 /\ r = FALSE)

TargetsInv ==
    ~Failures =>
        /\ build_cache_fail = {}
        /\ \A i \in 1 .. current - 1 : TargetIsThere(targets[i])
        /\ stack = <<>> /\ returned = FALSE => Providers(targets[current]) = {}
        /\ FirstTry(stack, returned)

ExitInv == exit = 0 => ~Failures /\ current > Len(targets)

LEMMA FirstTryMoves ==
  ASSUME NEW s \in Seq(FrameType), ~(s[1].next > 1), s # <<>>, NEW r
  PROVE  /\ Len(s) \in Nat \ {0}
         /\ \A f \in FrameType : FirstTry(Append(s, f), r)
         /\ \A f \in FrameType : Len(s) # 1 => FirstTry([s EXCEPT ![Len(s)] = f], r)
         /\ Len(s) # 2 \/ r # FALSE => FirstTry(SubSeq(s, 1, Len(s) - 1), r)
<1>1. Len(s) \in Nat \ {0}
  OBVIOUS
<1>2. ASSUME NEW f \in FrameType PROVE FirstTry(Append(s, f), r)
  <2>1. PICK t : t = Append(s, f)
    OBVIOUS
  <2>2. Len(t) = Len(s) + 1 /\ t[1] = s[1]
    BY <1>1, <2>1
  <2>3. Len(t) # 1
    BY <1>1, <2>2
  <2>4. QED BY <2>1, <2>2, <2>3 DEF FirstTry
<1>3. ASSUME NEW f \in FrameType, Len(s) # 1 PROVE FirstTry([s EXCEPT ![Len(s)] = f], r)
  <2>1. PICK t : t = [s EXCEPT ![Len(s)] = f]
    OBVIOUS
  <2>2. Len(t) = Len(s) /\ t[1] = s[1]
    BY <1>1, <1>3, <2>1
  <2>3. QED BY <1>3, <2>1, <2>2 DEF FirstTry
<1>4. ASSUME Len(s) # 2 \/ r # FALSE PROVE FirstTry(SubSeq(s, 1, Len(s) - 1), r)
  <2>1. PICK n \in Nat : n = Len(s) - 1
    BY <1>1
  <2>2. PICK t : t = SubSeq(s, 1, n)
    OBVIOUS
  <2>3. Len(t) = n /\ t \in Seq(FrameType) /\ \A i \in 1 .. n : t[i] = s[i]
    <3>1. \A i \in 1 .. n : s[i] \in FrameType
      BY <2>1
    <3>2. QED BY <2>2, <3>1, SubSeqProperties
  <2>4. t # <<>> => t[1] = s[1]
    <3>1. t # <<>> => 1 \in 1 .. n
      BY <2>3
    <3>2. QED BY <2>3, <3>1
  <2>5. Len(t) = 1 => Len(s) = 2
    <3>1. PICK k \in Nat : k = Len(s)
      BY <1>1
    <3>2. n = k - 1
      BY <2>1, <3>1
    <3>3. n = 1 => k = 2
      BY <3>2
    <3>4. QED BY <2>3, <3>1, <3>3
  <2>6. FirstTry(t, r)
    BY <1>4, <2>4, <2>5 DEF FirstTry
  <2>7. QED BY <2>1, <2>2, <2>6
<1>5. QED BY <1>1, <1>2, <1>3, <1>4

(* The outermost call is buildProvider's, and calls alternate.             *)
LEMMA HowDeep ==
  ASSUME CallsInv, ChainInv, stack # <<>>
  PROVE  /\ Len(stack) \in Nat \ {0}
         /\ IsProvider(top) => Len(stack) # 2 /\ (Len(stack) = 1 => building_list = <<>>)
         /\ IsBuild(top) => Len(stack) # 1
<1>1. stack \in Seq(FrameType)
  BY DEF CallsInv, Stacked
<1>2. PICK n \in Nat : n = Len(building_list)
  BY DEF ChainInv, Chain
<1>3. /\ Len(stack) \in {2 * n, 2 * n + 1} /\ (IsProvider(top) <=> Len(stack) = 2 * n + 1)
      /\ building_list \in Seq(Recipe)
  BY <1>2 DEF ChainInv, Chain, top
<1>4. ~(IsProvider(top) /\ IsBuild(top))
  BY DEF IsProvider, IsBuild
<1>5. Len(stack) \in Nat \ {0}
  BY <1>1
<1>6. PICK k \in Nat : k = Len(stack) /\ k # 0
  BY <1>5
<1>7. k = 1 => n = 0
  BY <1>3, <1>6
<1>8. n = 0 => building_list = <<>>
  <2>1. building_list \in Seq(Recipe)
    BY <1>3
  <2>2. Len(building_list) = 0 => building_list = <<>>
    BY <2>1
  <2>3. QED BY <1>2, <2>2
<1>9. (k = 2 * n \/ k = 2 * n + 1) /\ (IsProvider(top) <=> k = 2 * n + 1)
  BY <1>3, <1>6
<1>10. IsProvider(top) => k # 2
  <2>1. k = 2 * n + 1 => k # 2
    OBVIOUS
  <2>2. QED BY <1>9, <2>1
<1>11. IsBuild(top) => k # 1
  <2>1. k = 2 * n => k # 1
    OBVIOUS
  <2>2. QED BY <1>4, <1>9, <2>1
<1>12. QED BY <1>5, <1>6, <1>7, <1>8, <1>10, <1>11

LEMMA FirstTryStep ==
  ASSUME CallsInv, ChainInv, CallsInv', FirstTry(stack, returned), build_cache_fail = {},
         Next, ~DependenciesMissing, ~PackageFails
  PROVE  FirstTry(stack', returned')
<1>1. PICK s \in Seq(FrameType) : s = stack
  BY DEF CallsInv, Stacked
<1>2. PICK r : r = returned'
  OBVIOUS
<1>3. stack' \in Seq(FrameType)
  BY DEF CallsInv, Stacked
<1>4. s # <<>> => ~(s[1].next > 1) /\ ~(Len(s) = 1 /\ returned = FALSE) /\ top = s[Len(s)]
  BY <1>1 DEF FirstTry, top
<1>5. CASE TargetDone \/ Finish \/ Escapes
  <2>1. stack' = <<>>
    BY <1>5 DEF TargetDone, Finish, Escapes
  <2>2. QED BY <2>1 DEF FirstTry
<1>6. CASE StartTarget
  <2>1. PICK item \in Item : item = targets[current]
    BY <1>6 DEF CallsInv, StartTarget
  <2>2. BuildProvider(item) /\ stack = <<>>
    BY <1>6, <2>1 DEF StartTarget
  <2>3. CASE stack' = stack
    BY <2>2, <2>3 DEF FirstTry
  <2>4. CASE returned' = None /\ \E f : f.next = 1 /\ stack' = Append(stack, f)
    <3>1. PICK f : f.next = 1 /\ stack' = Append(<<>>, f)
      BY <2>2, <2>4
    <3>2. stack'[1] = f
      BY <3>1
    <3>3. ~(stack'[1].next > 1)
      BY <3>1, <3>2
    <3>4. returned' # FALSE
      BY <2>4, NoneIsNothing
    <3>5. QED BY <3>3, <3>4 DEF FirstTry
  <2>5. QED BY <2>2, <2>3, <2>4, BuildProviderAnswers
<1>7. ASSUME s # <<>>,
             \/ stack' = s /\ (Len(s) # 1 \/ r # FALSE)
             \/ \E f : stack' = Append(s, f)
             \/ Len(s) # 1 /\ \E f : stack' = [s EXCEPT ![Len(s)] = f]
             \/ (Len(s) # 2 \/ r # FALSE) /\ stack' = SubSeq(s, 1, Len(s) - 1)
      PROVE  FirstTry(stack', returned')
  <2>1. CASE stack' = s /\ (Len(s) # 1 \/ r # FALSE)
    BY <1>2, <1>4, <1>7, <2>1 DEF FirstTry
  <2>2. ASSUME NEW f, stack' = Append(s, f) PROVE FirstTry(stack', returned')
    <3>1. Len(s) + 1 \in DOMAIN stack' /\ stack'[Len(s) + 1] = f
      BY <2>2
    <3>2. f \in FrameType
      BY <1>3, <3>1
    <3>3. QED BY <1>2, <1>4, <1>7, <2>2, <3>2, FirstTryMoves
  <2>3. ASSUME NEW f, stack' = [s EXCEPT ![Len(s)] = f], Len(s) # 1 PROVE FirstTry(stack', returned')
    <3>1. Len(s) \in DOMAIN stack' /\ stack'[Len(s)] = f
      BY <1>7, <2>3
    <3>2. f \in FrameType
      BY <1>3, <3>1
    <3>3. QED BY <1>2, <1>4, <1>7, <2>3, <3>2, FirstTryMoves
  <2>4. CASE (Len(s) # 2 \/ r # FALSE) /\ stack' = SubSeq(s, 1, Len(s) - 1)
    BY <1>2, <1>4, <1>7, <2>4, FirstTryMoves
  <2>5. QED BY <1>7, <2>1, <2>2, <2>3, <2>4
<1>8. CASE TryBuild
  <2>1. s # <<>> /\ IsProvider(top) /\ returned = None
    BY <1>1, <1>8 DEF TryBuild, Calls, Busy, IsProvider
  <2>2. PICK q : q = top.eligible[top.next]
    OBVIOUS
  <2>3. CASE q \in Range(building_list)
    <3>1. stack' = s
      BY <1>1, <1>8, <2>2, <2>3 DEF TryBuild
    <3>2. building_list # <<>>
      BY <2>3 DEF Range
    <3>3. Len(s) # 1
      BY <1>1, <2>1, <3>2, HowDeep
    <3>4. QED BY <1>7, <2>1, <3>1, <3>3
  <2>4. CASE q \notin Range(building_list)
    <3>1. stack' = Append(s, BuildFrame(q, top.item, cmd))
      BY <1>1, <1>8, <2>2, <2>4 DEF TryBuild
    <3>2. QED BY <1>7, <2>1, <3>1
  <2>5. QED BY <2>3, <2>4
<1>9. CASE TryBuildReturned
  <2>1. s # <<>> /\ IsProvider(top)
    BY <1>1, <1>9 DEF TryBuildReturned, Busy, IsProvider
  <2>2. CASE returned
    <3>1. stack' = SubSeq(s, 1, Len(s) - 1) /\ r # FALSE
      BY <1>1, <1>2, <1>9, <2>2 DEF TryBuildReturned, Return, callers
    <3>2. QED BY <1>7, <2>1, <3>1
  <2>3. CASE ~returned
    <3>1. returned = FALSE
      BY <1>9, <2>3 DEF TryBuildReturned, CallsInv
    <3>2. Len(s) # 1
      BY <1>4, <2>1, <3>1
    <3>3. \E f : stack' = [s EXCEPT ![Len(s)] = f]
      BY <1>1, <1>9, <2>3 DEF TryBuildReturned, Top
    <3>4. QED BY <1>7, <2>1, <3>2, <3>3
  <2>4. QED BY <2>2, <2>3
<1>10. CASE NoBuildableProvider
  <2>1. s # <<>> /\ IsProvider(top) /\ stack' = SubSeq(s, 1, Len(s) - 1)
    BY <1>1, <1>10 DEF NoBuildableProvider, Calls, Busy, IsProvider, Return, callers
  <2>2. Len(s) # 2
    BY <1>1, <2>1, HowDeep
  <2>3. QED BY <1>7, <2>1, <2>2
<1>11. ASSUME \/ NextDependency \/ DependencyReturned \/ StampIsCurrent
              \/ TryBuildPackage \/ PackageSucceeds
       PROVE  FirstTry(stack', returned')
  <2>1. s # <<>> /\ IsBuild(top)
    BY <1>1, <1>11 DEF NextDependency, DependencyReturned, StampIsCurrent, TryBuildPackage,
              PackageSucceeds, InDeps, InDepsDone, InPackage, Busy, IsBuild
  <2>2. Len(s) # 1
    BY <1>1, <2>1, HowDeep
  <2>3. CASE StampIsCurrent \/ PackageSucceeds
    <3>1. stack' = SubSeq(s, 1, Len(s) - 1) /\ r # FALSE
      BY <1>1, <1>2, <2>3 DEF StampIsCurrent, PackageSucceeds, Return, callers
    <3>2. QED BY <1>7, <2>1, <3>1
  <2>4. CASE DependencyReturned \/ TryBuildPackage
    <3>1. \E f : stack' = [s EXCEPT ![Len(s)] = f]
      BY <1>1, <2>4 DEF DependencyReturned, TryBuildPackage, Top
    <3>2. QED BY <1>7, <2>1, <2>2, <3>1
  <2>5. CASE NextDependency
    <3>1. \/ stack' = s
          \/ \E f : stack' = Append(s, f)
          \/ \E f : stack' = [s EXCEPT ![Len(s)] = f]
      <4>1. PICK item : item = depends[top.next]
        OBVIOUS
      <4>2. (\E f : Top(f)) \/ BuildProvider(item)
        BY <2>5, <4>1 DEF NextDependency
      <4>3. CASE BuildProvider(item)
        BY <1>1, <4>3 DEF BuildProvider
      <4>4. CASE \E f : Top(f)
        BY <1>1, <4>4 DEF Top
      <4>5. QED BY <4>2, <4>3, <4>4
    <3>2. QED BY <1>7, <2>1, <2>2, <3>1
  <2>6. QED BY <1>11, <2>3, <2>4, <2>5
<1>12. QED BY <1>5, <1>6, <1>8, <1>9, <1>10, <1>11 DEF Next, Step

LEMMA FailuresStay ==
  ASSUME CallsInv, DataTyped, [Next]_vars
  PROVE  /\ Failures => Failures'
         /\ DependenciesMissing \/ PackageFails => Failures'
         /\ ~PackageFails => build_cache_fail' = build_cache_fail
<1>1. PICK q \in [attempt : Nat, fail : Nat, deps : Nat] : q = stats
  BY DEF DataTyped
<1>2. CASE UNCHANGED <<stats, build_cache_fail>> /\ ~DependenciesMissing /\ ~PackageFails
  BY <1>2 DEF Failures
<1>3. CASE DependenciesMissing
  <2>1. stats' = [q EXCEPT !.deps = q.deps + 1] /\ build_cache_fail' = build_cache_fail
    BY <1>1, <1>3 DEF DependenciesMissing, caches
  <2>2. stats'.deps = q.deps + 1
    BY <2>1
  <2>3. Failures'
    BY <2>2 DEF Failures
  <2>4. QED BY <2>1, <2>3
<1>4. CASE PackageFails
  <2>1. stats' = [q EXCEPT !.fail = q.fail + 1]
    BY <1>1, <1>4 DEF PackageFails
  <2>2. stats'.fail = q.fail + 1
    BY <2>1
  <2>3. Failures'
    BY <2>2 DEF Failures
  <2>4. QED BY <1>4, <2>3
<1>5. CASE TryBuildPackage
  <2>1. stats' = [q EXCEPT !.attempt = q.attempt + 1] /\ build_cache_fail' = build_cache_fail
    BY <1>1, <1>5 DEF TryBuildPackage, caches
  <2>2. stats'.fail = q.fail /\ stats'.deps = q.deps
    BY <2>1
  <2>3. ~DependenciesMissing /\ ~PackageFails
    BY <1>5 DEF TryBuildPackage, DependenciesMissing, PackageFails, InPackage, InDepsDone, InDeps
  <2>4. QED BY <1>1, <2>1, <2>2, <2>3 DEF Failures
<1>6. CASE \/ StartTarget \/ TargetDone \/ Finish \/ TryBuild \/ TryBuildReturned \/ NoBuildableProvider
           \/ NextDependency \/ DependencyReturned \/ StampIsCurrent \/ PackageSucceeds
           \/ Escapes \/ UNCHANGED vars
  <2>1. UNCHANGED <<stats, build_cache_fail>>
    BY <1>6 DEF StartTarget, TargetDone, Finish, TryBuild, TryBuildReturned, NoBuildableProvider,
                NextDependency, DependencyReturned, StampIsCurrent, PackageSucceeds, Escapes, vars, caches
  <2>2. QED BY <1>2, <1>3, <1>4, <2>1
<1>7. QED BY <1>3, <1>4, <1>5, <1>6 DEF Next, Step

LEMMA TargetsStep ==
  ASSUME CallsInv, ChainInv, DataTyped, DepsInv, TargetsInv, [Next]_vars, CallsInv'
  PROVE  TargetsInv'
<1>1. SUFFICES ASSUME ~Failures'
               PROVE  /\ build_cache_fail' = {}
                      /\ \A i \in 1 .. current' - 1 : TargetIsThere(targets[i])'
                      /\ stack' = <<>> /\ returned' = FALSE => Providers(targets[current])' = {}
                      /\ FirstTry(stack', returned')
  BY DEF TargetsInv
<1>2. ~Failures /\ ~DependenciesMissing /\ ~PackageFails /\ build_cache_fail' = build_cache_fail
  BY <1>1, FailuresStay
<1>3. /\ build_cache_fail = {}
      /\ \A i \in 1 .. current - 1 : TargetIsThere(targets[i])
      /\ stack = <<>> /\ returned = FALSE => Providers(targets[current]) = {}
      /\ FirstTry(stack, returned)
  BY <1>2 DEF TargetsInv
<1>4. FirstTry(stack', returned')
  <2>1. CASE Next
    BY <1>2, <1>3, <2>1, FirstTryStep
  <2>2. CASE UNCHANGED vars
    BY <1>3, <2>2 DEF vars
  <2>3. QED BY <2>1, <2>2
<1>5. UNCHANGED <<world, targets, options>> /\ build_cache \subseteq build_cache'
  BY DEF Next, Step, StartTarget, TargetDone, Finish, TryBuild, TryBuildReturned, NoBuildableProvider,
         NextDependency, DependencyReturned, DependenciesMissing, StampIsCurrent, TryBuildPackage,
         PackageSucceeds, PackageFails, Escapes, vars, caches
<1>6. \A item : Providers(item)' = Providers(item)
  BY <1>5 DEF Providers
<1>7. \A item : TargetIsThere(item) => TargetIsThere(item)'
  BY <1>5, <1>6, DepsStay DEF TargetIsThere
<1>8. \A i \in 1 .. current' - 1 : TargetIsThere(targets[i])'
  <2>1. CASE TargetDone
    <3>1. PICK item \in Item : Awaited(stack, item)
      BY <2>1 DEF TargetDone, CallsInv
    <3>2. item = targets[current] /\ current <= Len(targets)
      BY <2>1, <3>1 DEF TargetDone, Awaited, CookCalls
    <3>3. current' = current \/ (current' = current + 1 /\ TargetIsThere(item))
      <4>1. CASE returned = FALSE
        <5>1. Providers(item) = {}
          BY <1>3, <2>1, <3>2, <4>1 DEF TargetDone
        <5>2. options.abort => current' = current
          BY <2>1, <4>1 DEF TargetDone
        <5>3. ~options.abort => current' = current + 1
          BY <2>1 DEF TargetDone
        <5>4. QED BY <5>1, <5>2, <5>3 DEF TargetIsThere
      <4>2. CASE returned = TRUE
        <5>1. Satisfied(item)
          BY <3>1, <4>2 DEF DepsInv, Answered
        <5>2. Providers(item) # {}
          BY <5>1 DEF Satisfied
        <5>3. current' = current + 1
          BY <2>1, <4>2 DEF TargetDone
        <5>4. QED BY <5>1, <5>2, <5>3 DEF TargetIsThere
      <4>3. QED BY <2>1, <4>1, <4>2 DEF TargetDone, CallsInv
    <3>4. PICK c \in Nat : c = current
      BY DEF CallsInv
    <3>5. ASSUME NEW i \in 1 .. current' - 1 PROVE TargetIsThere(targets[i])
      <4>1. CASE current' = current
        BY <1>3, <3>5, <4>1
      <4>2. CASE current' = current + 1 /\ TargetIsThere(item)
        <5>1. i \in 1 .. c - 1 \/ i = c
          BY <3>4, <3>5, <4>2
        <5>2. QED BY <1>3, <3>2, <3>4, <4>2, <5>1
      <4>3. QED BY <3>3, <4>1, <4>2
    <3>6. ASSUME NEW i \in 1 .. current' - 1 PROVE TargetIsThere(targets[i])'
      <4>1. PICK a : a = targets[i]
        OBVIOUS
      <4>2. TargetIsThere(a)'
        BY <1>7, <3>5, <3>6, <4>1
      <4>3. targets'[i] = a
        BY <1>5, <4>1
      <4>4. QED BY <4>2, <4>3
    <3>7. QED BY <3>6
  <2>2. CASE ~TargetDone
    <3>1. current' = current
      BY <2>2 DEF Next, Step, StartTarget, Finish, TryBuild, TryBuildReturned, NoBuildableProvider,
         NextDependency, DependencyReturned, DependenciesMissing, StampIsCurrent, TryBuildPackage,
         PackageSucceeds, PackageFails, Escapes, vars
    <3>2. ASSUME NEW i \in 1 .. current' - 1 PROVE TargetIsThere(targets[i])'
      <4>1. PICK a : a = targets[i]
        OBVIOUS
      <4>2. TargetIsThere(a)'
        BY <1>3, <1>7, <3>1, <3>2, <4>1
      <4>3. targets'[i] = a
        BY <1>5, <4>1
      <4>4. QED BY <4>2, <4>3
    <3>3. QED BY <3>2
  <2>3. QED BY <2>1, <2>2
<1>9. ASSUME stack' = <<>>, returned' = FALSE PROVE Providers(targets[current])' = {}
  <2>1. PICK item : item = targets[current]
    OBVIOUS
  <2>2. SUFFICES current' = current /\ Providers(item) = {}
    BY <1>5, <1>6, <2>1
  <2>3. CASE StartTarget
    <3>1. item \in Item
      BY <2>1, <2>3 DEF StartTarget, CallsInv
    <3>2. BuildProvider(item) /\ stack = <<>> /\ current' = current
      BY <2>1, <2>3 DEF StartTarget
    <3>3. QED BY <1>3, <1>9, <3>1, <3>2, BuildProviderAnswers, NoneIsNothing
  <2>4. CASE UNCHANGED vars
    BY <1>3, <1>9, <2>1, <2>4 DEF vars
  <2>5. CASE NoBuildableProvider
    <3>1. PICK s \in Seq(FrameType) : s = stack
      BY DEF CallsInv, Stacked
    <3>2. /\ stack # <<>> /\ stack' = SubSeq(s, 1, Len(s) - 1) /\ IsProvider(top)
          /\ top.next > Len(top.eligible)
      BY <2>5, <3>1 DEF NoBuildableProvider, Calls, Busy, Return, callers, IsProvider
    <3>3. Len(s) = 1
      <4>1. PICK n \in Nat : n = Len(s) - 1
        BY <3>1, <3>2
      <4>2. \A i \in 1 .. n : s[i] \in FrameType
        BY <3>1, <4>1
      <4>3. Len(stack') = n
        BY <3>2, <4>1, <4>2, SubSeqProperties
      <4>4. n = 0
        BY <1>9, <4>3
      <4>5. Len(s) \in Nat
        BY <3>1
      <4>6. QED BY <4>1, <4>4, <4>5
    <3>4. PICK g : g = top
      OBVIOUS
    <3>5. g = stack[1]
      BY <3>1, <3>3, <3>4 DEF top
    <3>6. ProviderInOrder(g)
      BY <3>2, <3>4, TopIsInOrder, KindsDiffer
    <3>7. g.next > 1
      <4>1. PICK e \in Seq(Recipe) : e = g.eligible /\ e # <<>>
        BY <3>6 DEF ProviderInOrder, ProviderFrameType
      <4>2. Len(e) \in Nat \ {0}
        BY <4>1
      <4>3. g.next \in Nat /\ g.next > Len(e)
        BY <3>2, <3>4, <3>6, <4>1 DEF ProviderInOrder, ProviderFrameType
      <4>4. QED BY <4>2, <4>3
    <3>8. QED BY <1>3, <3>2, <3>5, <3>7 DEF FirstTry
  <2>6. CASE TargetDone \/ Finish \/ Escapes \/ StampIsCurrent \/ PackageSucceeds \/ DependencyReturned
             \/ TryBuildPackage
    BY <1>9, <2>6, NoneIsNothing DEF TargetDone, Finish, Escapes, StampIsCurrent, PackageSucceeds,
            DependencyReturned, TryBuildPackage, InDepsDone, Return
  <2>7. CASE TryBuild \/ TryBuildReturned \/ NextDependency
    <3>1. PICK s \in Seq(FrameType) : s = stack /\ s # <<>>
      BY <2>7 DEF TryBuild, TryBuildReturned, NextDependency, InDeps, Calls, Busy, CallsInv, Stacked
    <3>2. \/ stack' = s \/ (\E f : stack' = Append(s, f)) \/ \E f : stack' = [s EXCEPT ![Len(s)] = f]
      <4>1. CASE TryBuild
        BY <3>1, <4>1 DEF TryBuild
      <4>2. CASE TryBuildReturned
        BY <1>9, <3>1, <4>2 DEF TryBuildReturned, Return, Top
      <4>3. CASE NextDependency
        <5>1. PICK a : a = depends[top.next]
          OBVIOUS
        <5>2. (\E f : Top(f)) \/ BuildProvider(a)
          BY <4>3, <5>1 DEF NextDependency
        <5>3. CASE BuildProvider(a)
          BY <3>1, <5>3 DEF BuildProvider
        <5>4. CASE \E f : Top(f)
          BY <3>1, <5>4 DEF Top
        <5>5. QED BY <5>2, <5>3, <5>4
      <4>4. QED BY <2>7, <4>1, <4>2, <4>3
    <3>3. ASSUME NEW f, stack' = Append(s, f) PROVE FALSE
      <4>1. Len(s) + 1 \in DOMAIN stack'
        BY <3>3
      <4>2. QED BY <1>9, <4>1
    <3>4. ASSUME NEW f, stack' = [s EXCEPT ![Len(s)] = f] PROVE FALSE
      <4>1. Len(s) \in DOMAIN s
        BY <3>1
      <4>2. Len(s) \in DOMAIN stack'
        BY <3>4, <4>1
      <4>3. QED BY <1>9, <4>2
    <3>5. QED BY <1>9, <3>1, <3>2, <3>3, <3>4
  <2>8. QED BY <1>2, <2>3, <2>4, <2>5, <2>6, <2>7 DEF Next, Step
<1>10. QED BY <1>2, <1>3, <1>4, <1>8, <1>9

LEMMA ExitStep ==
  ASSUME CallsInv, DataTyped, ExitInv, [Next]_vars
  PROVE  ExitInv'
<1>1. CASE Finish
  <2>1. exit' = 0 => ~Failures
    BY <1>1 DEF Finish, Failures
  <2>2. current > Len(targets) /\ UNCHANGED <<stats, targets, current>>
    BY <1>1 DEF Finish
  <2>3. QED BY <2>1, <2>2 DEF ExitInv, Failures
<1>2. CASE ~Finish /\ exit' = 0
  <2>1. exit = 0
    <3>1. CASE TargetDone
      BY <1>2, <3>1 DEF TargetDone
    <3>2. CASE Escapes
      BY <1>2, <3>2 DEF Escapes
    <3>3. CASE ~TargetDone /\ ~Escapes
      <4>1. exit' = exit
        BY <1>2, <3>3
          DEF Next, Step, StartTarget, TryBuild, TryBuildReturned, NoBuildableProvider,
              NextDependency, DependencyReturned, DependenciesMissing, StampIsCurrent, TryBuildPackage,
              PackageSucceeds, PackageFails, vars
      <4>2. QED BY <1>2, <4>1
    <3>4. QED BY <3>1, <3>2, <3>3
  <2>2. UNCHANGED vars
    BY <2>1, NoneIsNothing
      DEF Next, Step, StartTarget, TargetDone, Finish, TryBuild, TryBuildReturned, NoBuildableProvider,
          NextDependency, DependencyReturned, DependenciesMissing, StampIsCurrent, TryBuildPackage,
          PackageSucceeds, PackageFails, Escapes, Calls, Busy, InDeps, InDepsDone, InPackage
  <2>3. QED BY <2>1, <2>2 DEF ExitInv, Failures, vars
<1>3. QED BY <1>1, <1>2 DEF ExitInv

(* Exit status 0 means that every target something provides was built.     *)
THEOREM CookerExit == Spec => []ExitTruthful
<1>1. Init => TargetsInv /\ ExitInv
  <2>1. SUFFICES ASSUME Init PROVE TargetsInv /\ ExitInv
    OBVIOUS
  <2>2. stack = <<>> /\ returned # FALSE /\ current = 1 /\ build_cache_fail = {} /\ exit # 0
    BY <2>1, NoneIsNothing DEF Init
  <2>3. \A i \in 1 .. current - 1 : FALSE
    BY <2>2
  <2>4. QED BY <2>2, <2>3 DEF TargetsInv, ExitInv, FirstTry
<1>2. /\ CallsInv /\ ChainInv /\ DataTyped /\ DepsInv
      /\ TargetsInv /\ ExitInv /\ [Next]_vars /\ CallsInv'
      => TargetsInv' /\ ExitInv'
  BY TargetsStep, ExitStep
<1>3. ASSUME CallsInv, TargetsInv, ExitInv PROVE ExitTruthful
  <2>1. SUFFICES ASSUME exit = 0, NEW i \in DOMAIN targets PROVE TargetIsThere(targets[i])
    BY DEF ExitTruthful, TargetIsThere
  <2>2. ~Failures /\ current > Len(targets) /\ targets \in Seq(Item) /\ current \in 1 .. Len(targets) + 1
    BY <1>3, <2>1 DEF ExitInv, CallsInv
  <2>3. PICK n \in Nat : n = Len(targets) /\ DOMAIN targets = 1 .. n
    BY <2>2
  <2>4. i \in 1 .. current - 1
    BY <2>1, <2>2, <2>3
  <2>5. QED BY <1>3, <2>2, <2>4 DEF TargetsInv
<1>4. QED BY <1>1, <1>2, <1>3, CallsAreInOrder, ChainIsKept, DataIsTyped, DepsAreBuilt, PTL DEF Spec

---------------------------------------------------------------------------
(* A recipe is not executed twice.  When dependencies are built with the   *)
(* command that was asked for, what was built has its stamp.  Otherwise    *)
(* nothing but targets is built, and while a call of buildProvider is in   *)
(* progress nothing that provides its item was.                            *)
Unbuilt(f) == IsProvider(f) => Providers(f.item) \cap build_cache = {}
CallersUnbuilt(s) == \A i \in DOMAIN s : i # Len(s) => Unbuilt(s[i])
LastUnbuilt(s) == s # <<>> => Unbuilt(s[Len(s)])

OldCmdsAre(s, c) == \A i \in DOMAIN s : IsBuild(s[i]) => s[i].oldcmd = c

SameCmdInv ==
    /\ cmd = options.cmd
    /\ OldCmdsAre(stack, options.cmd)
    /\ \A r \in build_cache : <<r, options.cmd>> \in stamped
    /\ InPackage => top.fn \notin build_cache

(* Only what tryBuildPackage is called with for a target may be a task.    *)
NoTask(c) == BBDepCmd[c] = None => c \notin IsTask

OldCmdsAreNoTasks(s) ==
    \A i \in DOMAIN s : IsBuild(s[i]) => NoTask(s[i].oldcmd) /\ (i > 2 => s[i].oldcmd \notin IsTask)

InsideNoTask(s, c) ==
    Len(s) >= 2 /\ BBDepCmd[options.cmd] # "" =>
        c \notin IsTask \/ (Len(s) = 2 /\ s[2].pc = "package")

OtherCmdInv ==
    /\ CallersUnbuilt(stack)
    /\ returned # TRUE => LastUnbuilt(stack)
    /\ NoTask(cmd)
    /\ InsideNoTask(stack, cmd)
    /\ OldCmdsAreNoTasks(stack)

OnceInv ==
    ~options.dry_run => IF BBDepCmd[options.cmd] = None THEN SameCmdInv ELSE OtherCmdInv

(* Stamps are of tasks only, and the run is one of those given.            *)
StampsInv ==
    /\ stamped \subseteq Recipe \X IsTask
    /\ \E run \in Runs : run.options = options

LEMMA StampsStep ==
  ASSUME StampsAreOfTasks, CallsInv, StampsInv, [Next]_vars
  PROVE  StampsInv'
<1>1. options' = options
  BY DEF Next, Step, StartTarget, TargetDone, Finish, TryBuild, TryBuildReturned, NoBuildableProvider,
         NextDependency, DependencyReturned, DependenciesMissing, StampIsCurrent, TryBuildPackage,
         PackageSucceeds, PackageFails, Escapes, vars
<1>2. ASSUME NEW r, NEW S \in SUBSET IsTask PROVE SameStamps(r) \X S \subseteq Recipe \X IsTask
  BY DEF SameStamps
<1>3. CASE PackageSucceeds
  <2>1. stamped' \subseteq stamped \/ (cmd \in IsTask /\ stamped' = stamped \cup (SameStamps(top.fn) \X Stamps[cmd]))
    BY <1>3 DEF PackageSucceeds
  <2>2. PICK r : r = top.fn
    OBVIOUS
  <2>3. cmd \in IsTask => Stamps[cmd] \in SUBSET IsTask
    BY DEF StampsAreOfTasks
  <2>4. stamped' \subseteq Recipe \X IsTask
    BY <1>2, <2>1, <2>2, <2>3 DEF StampsInv
  <2>5. QED BY <1>1, <2>4 DEF StampsInv
<1>4. CASE PackageFails
  <2>1. PICK r : r = top.fn
    OBVIOUS
  <2>2. PICK S \in IF cmd \in IsTask THEN SUBSET (Stamps[cmd] \ {cmd}) ELSE {{}} :
              stamped' = stamped \cup (SameStamps(r) \X S)
    BY <1>4, <2>1 DEF PackageFails
  <2>3. S \in SUBSET IsTask
    BY <2>2 DEF StampsAreOfTasks
  <2>4. stamped' \subseteq Recipe \X IsTask
    BY <1>2, <2>2, <2>3 DEF StampsInv
  <2>5. QED BY <1>1, <2>4 DEF StampsInv
<1>5. CASE ~PackageSucceeds /\ ~PackageFails
  <2>1. stamped' = stamped
    BY <1>5 DEF Next, Step, StartTarget, TargetDone, Finish, TryBuild, TryBuildReturned, NoBuildableProvider,
         NextDependency, DependencyReturned, DependenciesMissing, StampIsCurrent, TryBuildPackage,
         Escapes, vars
  <2>2. QED BY <1>1, <2>1 DEF StampsInv
<1>6. QED BY <1>3, <1>4, <1>5

LEMMA StampsInit ==
  ASSUME StampsAreOfTasks, Init
  PROVE  StampsInv
<1>1. PICK run \in Runs : world = run.world /\ options = run.options
  BY DEF Init
<1>2. world.stamped \subseteq Recipe \X IsTask
  BY <1>1 DEF StampsAreOfTasks
<1>3. ASSUME NEW x \in world.stamped PROVE SameStamps(x[1]) \X {x[2]} \subseteq Recipe \X IsTask
  <2>1. x \in Recipe \X IsTask
    BY <1>2, <1>3
  <2>2. x[2] \in IsTask
    BY <2>1
  <2>3. QED BY <2>2 DEF SameStamps
<1>4. stamped = UNION {SameStamps(x[1]) \X {x[2]} : x \in world.stamped}
  BY DEF Init
<1>5. stamped \subseteq Recipe \X IsTask
  BY <1>3, <1>4
<1>6. QED BY <1>1, <1>5 DEF StampsInv

(* What a step leaves of the calls in progress.                            *)
LEMMA AppendedShape ==
  ASSUME NEW s \in Seq(FrameType), NEW f, NEW t \in Seq(FrameType), t = Append(s, f)
  PROVE  /\ Len(t) = Len(s) + 1 /\ t # <<>> /\ t[Len(t)] = f /\ Len(s) \in Nat
         /\ \A i \in DOMAIN t : i = Len(t) \/ (i \in DOMAIN s /\ i # Len(t) /\ t[i] = s[i])
<1>1. Len(s) \in Nat /\ DOMAIN s = 1 .. Len(s) /\ Len(t) = Len(s) + 1 /\ DOMAIN t = 1 .. Len(s) + 1
  OBVIOUS
<1>2. t[Len(s) + 1] = f /\ \A i \in 1 .. Len(s) : t[i] = s[i]
  OBVIOUS
<1>3. \A i \in 1 .. Len(s) + 1 : i = Len(s) + 1 \/ (i \in 1 .. Len(s) /\ i # Len(s) + 1)
  BY <1>1
<1>4. t # <<>>
  BY <1>1
<1>5. QED BY <1>1, <1>2, <1>3, <1>4

LEMMA ReplacedShape ==
  ASSUME NEW s \in Seq(FrameType), s # <<>>, NEW f, NEW t \in Seq(FrameType),
         t = [s EXCEPT ![Len(s)] = f]
  PROVE  /\ Len(t) = Len(s) /\ t # <<>> /\ t[Len(t)] = f /\ Len(s) \in Nat \ {0}
         /\ \A i \in DOMAIN t : i \in DOMAIN s /\ (i # Len(t) => t[i] = s[i])
<1>1. Len(s) \in Nat \ {0} /\ DOMAIN s = 1 .. Len(s) /\ DOMAIN t = DOMAIN s
  OBVIOUS
<1>2. Len(t) = Len(s)
  BY <1>1
<1>3. t[Len(s)] = f /\ \A i \in DOMAIN s : i # Len(s) => t[i] = s[i]
  BY <1>1
<1>4. t # <<>>
  BY SMTT(30), <1>1, <1>2
<1>5. QED BY <1>1, <1>2, <1>3, <1>4

LEMMA LeftShape ==
  ASSUME NEW s \in Seq(FrameType), s # <<>>, NEW t, t = SubSeq(s, 1, Len(s) - 1)
  PROVE  /\ t \in Seq(FrameType) /\ Len(t) = Len(s) - 1 /\ Len(s) \in Nat \ {0}
         /\ \A i \in DOMAIN t : i \in DOMAIN s /\ i # Len(s) /\ t[i] = s[i]
<1>1. Len(s) \in Nat \ {0} /\ DOMAIN s = 1 .. Len(s)
  OBVIOUS
<1>2. PICK n \in Nat : n = Len(s) - 1
  <2>1. PICK k \in Nat : k = Len(s) /\ k # 0
    BY <1>1
  <2>2. k - 1 \in Nat
    BY <2>1
  <2>3. QED BY SMTT(30), <2>1, <2>2
<1>3. Len(t) = n /\ t \in Seq(FrameType) /\ \A i \in 1 .. n : t[i] = s[i]
  <2>1. \A i \in 1 .. n : s[i] \in FrameType
    BY <1>1, <1>2
  <2>2. QED BY <1>2, <2>1, SubSeqProperties
<1>4. DOMAIN t = 1 .. n
  BY <1>3
<1>5. \A i \in 1 .. n : i \in 1 .. Len(s) /\ i # Len(s)
  <2>1. PICK k \in Nat : k = Len(s) /\ n = k - 1
    BY <1>1, <1>2
  <2>2. QED BY SMTT(30), <2>1
<1>6. QED BY <1>1, <1>2, <1>3, <1>4, <1>5

(* tryBuildPackage is entered by TryBuildPackage alone.                    *)
LEMMA PackageBegins ==
  ASSUME CallsInv, CallsInv', [Next]_vars, InPackage'
  PROVE  TryBuildPackage \/ UNCHANGED vars
<1>1. PICK s \in Seq(FrameType) : s = stack
  BY DEF CallsInv, Stacked
<1>2. PICK t \in Seq(FrameType) : t = stack'
  BY DEF CallsInv, Stacked
<1>3. t # <<>> /\ IsBuild(t[Len(t)]) /\ t[Len(t)].pc = "package" /\ ~IsProvider(t[Len(t)])
  BY <1>2 DEF InPackage, Busy, IsBuild, IsProvider, top
<1>4. s # <<>> => s[Len(s)] = top
  BY <1>1 DEF top
<1>5. CASE Kept
  <2>1. s # <<>> /\ s[Len(s)] = t[Len(t)]
    BY <1>1, <1>2, <1>3, <1>5 DEF Kept
  <2>2. QED BY <1>1, <1>3, <1>4, <1>5, <2>1 DEF Kept
<1>6. CASE ProviderCalled
  <2>1. PICK f : IsProvider(f) /\ t = Append(s, f)
    BY <1>1, <1>2, <1>6 DEF ProviderCalled
  <2>2. QED BY <1>3, <2>1, AppendedShape
<1>7. CASE BuildCalled
  <2>1. PICK f : f.pc = "deps" /\ t = Append(s, f)
    BY <1>1, <1>2, <1>7 DEF BuildCalled
  <2>2. QED BY <1>3, <2>1, AppendedShape
<1>8. CASE CallWentOn
  <2>1. PICK f : /\ s # <<>> /\ f.kind = top.kind /\ t = [s EXCEPT ![Len(s)] = f]
                 /\ IsBuild(top) /\ f.pc = "package" => TryBuildPackage
    BY <1>1, <1>2, <1>8 DEF CallWentOn, Top
  <2>2. t[Len(t)] = f
    BY <2>1, ReplacedShape
  <2>3. QED BY <1>3, <2>1, <2>2 DEF IsBuild
<1>9. CASE ProviderLeft \/ BuildLeft
  <2>1. s # <<>> /\ t = SubSeq(s, 1, Len(s) - 1)
    BY <1>1, <1>2, <1>9 DEF ProviderLeft, BuildLeft, callers
  <2>2. Awaited(t, s[Len(s)].item)
    BY <1>1, <2>1, Popped DEF CallsInv
  <2>3. QED BY <1>3, <2>2 DEF Awaited, ProviderCalls, BuildCalls
<1>10. CASE AllLeft
  BY <1>2, <1>3, <1>10 DEF AllLeft
<1>11. QED BY <1>5, <1>6, <1>7, <1>8, <1>9, <1>10, StepMoves DEF CallsMove

(* What cmd is after the dependencies, and whom it was built for.          *)
LEMMA Restored ==
  ASSUME CallsInv, stack # <<>>, top.kind = "build", BBDepCmd[options.cmd] # ""
  PROVE  RestoreCmd = top.oldcmd
BY BuildIsInOrder DEF BuildInOrder, RestoreCmd

LEMMA SameCmdStep ==
  ASSUME CmdsLeaveStamps, CallsInv, StampsInv, DataTyped, SameCmdInv, [Next]_vars, CallsInv',
         BBDepCmd[options.cmd] = None, ~options.dry_run
  PROVE  SameCmdInv'
<1>1. PICK c : c = options.cmd
  OBVIOUS
<1>2. options' = options
  BY DEF Next, Step, StartTarget, TargetDone, Finish, TryBuild, TryBuildReturned, NoBuildableProvider,
         NextDependency, DependencyReturned, DependenciesMissing, StampIsCurrent, TryBuildPackage,
         PackageSucceeds, PackageFails, Escapes, vars
<1>3. c \in Cmd /\ BBDepCmd[c] = None /\ DepCmd(c) = c /\ c # None /\ cmd = c
  BY <1>1, NoneIsNothing DEF CallsInv, CmdInv, SameCmdInv, DepCmd, OptionsType
<1>4. c \in IsTask => c \in Stamps[c] /\ c \notin Cleans
  BY <1>1, <1>3 DEF StampsInv, CmdsLeaveStamps
<1>5. PICK s \in Seq(FrameType) : s = stack
  BY DEF CallsInv, Stacked
<1>6. PICK t \in Seq(FrameType) : t = stack'
  BY DEF CallsInv, Stacked
<1>7. OldCmdsAre(s, c) /\ \A r \in build_cache : <<r, c>> \in stamped
  BY <1>1, <1>5 DEF SameCmdInv
<1>8. s # <<>> => s[Len(s)] = top /\ Len(s) \in DOMAIN s
  BY <1>5 DEF top
<1>9. ASSUME s # <<>>, IsBuild(top) PROVE RestoreCmd = c /\ top.fn \in Recipe
  <2>1. top.oldcmd = c
    BY <1>7, <1>8, <1>9 DEF OldCmdsAre
  <2>2. BBDepCmd[options.cmd] # ""
    BY NoneIsNothing
  <2>3. QED BY <1>5, <1>9, <2>1, <2>2, Restored, BuildIsInOrder DEF IsBuild
<1>10. OldCmdsAre(t, c)
  <2>1. CASE Kept
    BY <1>5, <1>6, <1>7, <2>1 DEF Kept
  <2>2. CASE ProviderCalled
    <3>1. PICK f : IsProvider(f) /\ t = Append(s, f)
      BY <1>5, <1>6, <2>2 DEF ProviderCalled
    <3>2. ~IsBuild(f)
      BY <3>1 DEF IsProvider, IsBuild
    <3>3. QED BY <1>7, <3>1, <3>2, AppendedShape DEF OldCmdsAre
  <2>3. CASE BuildCalled
    <3>1. PICK f : f.oldcmd = c /\ t = Append(s, f)
      BY <1>3, <1>5, <1>6, <2>3 DEF BuildCalled
    <3>2. QED BY <1>7, <3>1, AppendedShape DEF OldCmdsAre
  <2>4. CASE CallWentOn
    <3>1. PICK f : /\ s # <<>> /\ t = [s EXCEPT ![Len(s)] = f] /\ f.kind = top.kind
                   /\ IsBuild(top) => f.oldcmd = top.oldcmd
      BY <1>5, <1>6, <2>4 DEF CallWentOn, Top
    <3>2. IsBuild(f) => f.oldcmd = c
      BY <1>7, <1>8, <3>1 DEF OldCmdsAre, IsBuild
    <3>3. QED BY <1>7, <3>1, <3>2, ReplacedShape DEF OldCmdsAre
  <2>5. CASE ProviderLeft \/ BuildLeft
    <3>1. s # <<>> /\ t = SubSeq(s, 1, Len(s) - 1)
      BY <1>5, <1>6, <2>5 DEF ProviderLeft, BuildLeft, callers
    <3>2. QED BY <1>7, <3>1, LeftShape DEF OldCmdsAre
  <2>6. CASE AllLeft
    BY <1>6, <2>6 DEF AllLeft, OldCmdsAre
  <2>7. QED BY <2>1, <2>2, <2>3, <2>4, <2>5, <2>6, StepMoves DEF CallsMove
<1>11. cmd' = c
  <2>1. CASE TryBuild
    BY <1>3, <2>1 DEF TryBuild
  <2>2. CASE DependenciesMissing \/ StampIsCurrent \/ TryBuildPackage
    BY <1>5, <1>9, <2>2 DEF DependenciesMissing, StampIsCurrent, TryBuildPackage, InDepsDone, InDeps, Busy,
        IsBuild
  <2>3. CASE ~TryBuild /\ ~DependenciesMissing /\ ~StampIsCurrent /\ ~TryBuildPackage
    BY <1>3, <2>3 DEF Next, Step, StartTarget, TargetDone, Finish, TryBuildReturned, NoBuildableProvider,
         NextDependency, DependencyReturned, PackageSucceeds, PackageFails, Escapes, vars
  <2>4. QED BY <2>1, <2>2, <2>3
<1>12. \A r \in build_cache' : <<r, c>> \in stamped'
  <2>1. CASE StampIsCurrent
    <3>1. s # <<>> /\ IsBuild(top)
      BY <1>5, <2>1 DEF StampIsCurrent, InDepsDone, InDeps, Busy, IsBuild
    <3>2. <<top.fn, c>> \in stamped
      BY <1>9, <2>1, <3>1 DEF StampIsCurrent
    <3>3. build_cache' = build_cache \cup {top.fn} /\ stamped' = stamped
      BY <2>1 DEF StampIsCurrent
    <3>4. QED BY <1>7, <3>2, <3>3
  <2>2. CASE PackageSucceeds
    <3>1. s # <<>> /\ IsBuild(top)
      BY <1>5, <2>2 DEF PackageSucceeds, InPackage, Busy, IsBuild
    <3>2. c \in IsTask
      BY <1>3, <2>2 DEF PackageSucceeds
    <3>3. stamped' = stamped \cup (SameStamps(top.fn) \X Stamps[c])
      BY <1>3, <1>4, <2>2, <3>2 DEF PackageSucceeds
    <3>4. top.fn \in SameStamps(top.fn)
      BY <1>9, <3>1 DEF SameStamps
    <3>5. <<top.fn, c>> \in stamped'
      BY <1>4, <3>2, <3>3, <3>4
    <3>6. build_cache' = build_cache \cup {top.fn} /\ stamped \subseteq stamped'
      BY <2>2, <3>3 DEF PackageSucceeds
    <3>7. QED BY <1>7, <3>5, <3>6
  <2>3. CASE PackageFails
    <3>1. stamped \subseteq stamped' /\ build_cache' = build_cache
      BY <2>3 DEF PackageFails
    <3>2. QED BY <1>7, <3>1
  <2>4. CASE ~StampIsCurrent /\ ~PackageSucceeds /\ ~PackageFails
    <3>1. UNCHANGED <<stamped, build_cache>>
      BY <2>4 DEF Next, Step, StartTarget, TargetDone, Finish, TryBuild, TryBuildReturned, NoBuildableProvider,
         NextDependency, DependencyReturned, DependenciesMissing, TryBuildPackage, Escapes, vars, caches
    <3>2. QED BY <1>7, <3>1
  <2>5. QED BY <2>1, <2>2, <2>3, <2>4
<1>13. ASSUME InPackage' PROVE (top.fn \notin build_cache)'
  <2>1. CASE TryBuildPackage
    <3>1. s # <<>> /\ IsBuild(top) /\ <<top.fn, RestoreCmd>> \notin stamped /\ build_cache' = build_cache
      BY <1>5, <2>1 DEF TryBuildPackage, InDepsDone, InDeps, Busy, IsBuild, caches
    <3>2. top.fn \notin build_cache
      BY <1>7, <1>9, <3>1
    <3>3. PICK g : g = top
      OBVIOUS
    <3>4. g \in BuildFrameType
      BY <3>1, <3>3, <1>5, BuildIsInOrder DEF BuildInOrder, IsBuild
    <3>5. PICK f : f = [g EXCEPT !.pc = "package"]
      OBVIOUS
    <3>6. f.fn = g.fn
      BY <3>4, <3>5 DEF BuildFrameType
    <3>7. t = [s EXCEPT ![Len(s)] = f]
      BY <1>5, <1>6, <2>1, <3>3, <3>5 DEF TryBuildPackage, Top
    <3>8. t[Len(t)] = f
      BY <3>1, <3>7, ReplacedShape
    <3>9. top' = f
      BY <1>6, <3>8 DEF top
    <3>10. QED BY <3>1, <3>2, <3>3, <3>6, <3>9
  <2>2. CASE UNCHANGED vars
    BY <1>13, <2>2 DEF vars, SameCmdInv, InPackage, Busy, top, caches
  <2>3. QED BY <1>13, <2>1, <2>2, PackageBegins
<1>14. QED BY <1>1, <1>2, <1>6, <1>10, <1>11, <1>12, <1>13 DEF SameCmdInv
(* Nothing but what a target needs is built: then no buildProvider in      *)
(* progress but the outermost sees a provider of its item built.           *)
LEMMA UnbuiltStep ==
  ASSUME CallsInv, CallsInv', [Next]_vars, build_cache' = build_cache,
         CallersUnbuilt(stack), returned # TRUE => LastUnbuilt(stack)
  PROVE  CallersUnbuilt(stack)' /\ (returned' # TRUE => LastUnbuilt(stack)')
<1>1. PICK s \in Seq(FrameType) : s = stack
  BY DEF CallsInv, Stacked
<1>2. PICK t \in Seq(FrameType) : t = stack'
  BY DEF CallsInv, Stacked
<1>3. world' = world
  BY DEF Next, Step, StartTarget, TargetDone, Finish, TryBuild, TryBuildReturned, NoBuildableProvider,
         NextDependency, DependencyReturned, DependenciesMissing, StampIsCurrent, TryBuildPackage,
         PackageSucceeds, PackageFails, Escapes, vars
<1>4. \A f : Unbuilt(f)' <=> Unbuilt(f)
  BY <1>3 DEF Unbuilt, Providers
<1>5. SUFFICES CallersUnbuilt(t) /\ (returned' # TRUE => LastUnbuilt(t))
  BY <1>2, <1>4 DEF CallersUnbuilt, LastUnbuilt
<1>6. CallersUnbuilt(s) /\ (returned # TRUE => LastUnbuilt(s)) /\ (s # <<>> => s[Len(s)] = top)
  BY <1>1 DEF top
<1>7. CASE Kept
  <2>1. t = s
    BY <1>1, <1>2, <1>7 DEF Kept
  <2>2. s = <<>> \/ returned # TRUE \/ returned' = returned
    BY <1>1, <1>7, NoneIsNothing DEF Kept, vars
  <2>3. QED BY <1>6, <2>1, <2>2 DEF LastUnbuilt
<1>8. CASE ProviderCalled
  <2>1. PICK f : Providers(f.item) \cap build_cache = {} /\ t = Append(s, f) /\ returned = None
    BY <1>1, <1>2, <1>8 DEF ProviderCalled
  <2>2. Unbuilt(f) /\ LastUnbuilt(s)
    BY <1>6, <2>1, NoneIsNothing DEF Unbuilt
  <2>3. t # <<>> /\ t[Len(t)] = f /\ \A i \in DOMAIN t : i = Len(t) \/ (i \in DOMAIN s /\ t[i] = s[i])
    BY <2>1, AppendedShape
  <2>4. \A i \in DOMAIN s : Unbuilt(s[i])
    BY <1>6, <2>2 DEF CallersUnbuilt, LastUnbuilt
  <2>5. QED BY <2>2, <2>3, <2>4 DEF CallersUnbuilt, LastUnbuilt
<1>9. CASE BuildCalled
  <2>1. PICK f : IsBuild(f) /\ t = Append(s, f) /\ returned = None
    BY <1>1, <1>2, <1>9 DEF BuildCalled
  <2>2. Unbuilt(f) /\ LastUnbuilt(s)
    BY <1>6, <2>1, NoneIsNothing DEF Unbuilt, IsProvider, IsBuild
  <2>3. t # <<>> /\ t[Len(t)] = f /\ \A i \in DOMAIN t : i = Len(t) \/ (i \in DOMAIN s /\ t[i] = s[i])
    BY <2>1, AppendedShape
  <2>4. \A i \in DOMAIN s : Unbuilt(s[i])
    BY <1>6, <2>2 DEF CallersUnbuilt, LastUnbuilt
  <2>5. QED BY <2>2, <2>3, <2>4 DEF CallersUnbuilt, LastUnbuilt
<1>10. CASE CallWentOn
  <2>1. PICK f : /\ s # <<>> /\ t = [s EXCEPT ![Len(s)] = f] /\ f.kind = top.kind /\ f.item = top.item
                 /\ IsProvider(top) => returned = FALSE
    BY <1>1, <1>2, <1>10 DEF CallWentOn, Top
  <2>2. Unbuilt(f)
    <3>1. SUFFICES ASSUME IsProvider(f) PROVE Providers(f.item) \cap build_cache = {}
      BY DEF Unbuilt
    <3>2. IsProvider(top) /\ returned # TRUE
      BY <2>1, <3>1 DEF IsProvider
    <3>3. QED BY <1>6, <2>1, <3>2 DEF LastUnbuilt, Unbuilt
  <2>3. /\ Len(t) = Len(s) /\ t # <<>> /\ t[Len(t)] = f
        /\ \A i \in DOMAIN t : i \in DOMAIN s /\ (i # Len(t) => t[i] = s[i])
    BY <2>1, ReplacedShape
  <2>4. QED BY <1>6, <2>2, <2>3 DEF CallersUnbuilt, LastUnbuilt
<1>11. CASE ProviderLeft \/ BuildLeft
  <2>1. s # <<>> /\ t = SubSeq(s, 1, Len(s) - 1)
    BY <1>1, <1>2, <1>11 DEF ProviderLeft, BuildLeft, callers
  <2>2. \A i \in DOMAIN t : Unbuilt(t[i])
    BY <1>6, <2>1, LeftShape DEF CallersUnbuilt
  <2>3. t # <<>> => Len(t) \in DOMAIN t
    OBVIOUS
  <2>4. QED BY <2>2, <2>3 DEF CallersUnbuilt, LastUnbuilt
<1>12. CASE AllLeft
  BY <1>2, <1>12 DEF AllLeft, CallersUnbuilt, LastUnbuilt
<1>13. QED BY <1>7, <1>8, <1>9, <1>10, <1>11, <1>12, StepMoves DEF CallsMove

(* Only a target is built when dependencies get another command.           *)
LEMMA OnlyTargetsAreBuilt ==
  ASSUME CallsInv, ChainInv, CleanInv, StampsInv, OtherCmdInv, ~options.dry_run,
         StampIsCurrent \/ PackageSucceeds
  PROVE  Len(stack) = 2
<1>1. PICK s \in Seq(FrameType) : s = stack
  BY DEF CallsInv, Stacked
<1>2. s # <<>> /\ top.kind = "build" /\ IsBuild(top)
  BY <1>1 DEF StampIsCurrent, PackageSucceeds, InDepsDone, InDeps, InPackage, Busy, IsBuild
<1>3. PICK k \in Nat : k = Len(s) /\ k # 0 /\ k # 1
  BY <1>1, <1>2, HowDeep
<1>4. SUFFICES ASSUME k > 2 PROVE FALSE
  BY <1>1, <1>3
<1>5. BBDepCmd[options.cmd] # ""
  <2>1. ~(k <= 2)
    BY <1>4
  <2>2. ~(Len(stack) <= 2)
    BY <1>1, <1>3, <2>1
  <2>3. QED BY <2>2, Zenon DEF CleanInv
<1>6. k \in DOMAIN s /\ s[k] = top
  BY <1>1, <1>3 DEF top
<1>7. top.oldcmd \notin IsTask
  BY <1>1, <1>2, <1>4, <1>6 DEF OtherCmdInv, OldCmdsAreNoTasks
<1>8. CASE StampIsCurrent
  <2>1. RestoreCmd = top.oldcmd
    BY <1>1, <1>2, <1>5, Restored, Zenon
  <2>2. <<top.fn, top.oldcmd>> \in Recipe \X IsTask
    BY <1>8, <2>1 DEF StampIsCurrent, StampsInv
  <2>3. QED BY <1>7, <2>2
<1>9. CASE PackageSucceeds
  <2>1. cmd \in IsTask
    BY <1>9 DEF PackageSucceeds
  <2>2. k >= 2 /\ k # 2
    BY <1>4
  <2>3. InsideNoTask(s, cmd)
    BY <1>1 DEF OtherCmdInv
  <2>4. Len(s) >= 2 /\ Len(s) # 2
    BY <1>3, <2>2
  <2>5. QED BY <1>5, <2>1, <2>3, <2>4, Zenon DEF InsideNoTask
<1>10. QED BY <1>8, <1>9

(* What is executed for a dependency is no task, whatever call ends.       *)
LEMMA NoTaskStep ==
  ASSUME DepCmdsAreNoTasks, CallsInv, OtherCmdInv, [Next]_vars
  PROVE  NoTask(cmd')
<1>1. NoTask(cmd) /\ cmd \in Cmd
  BY DEF OtherCmdInv, CallsInv, CmdInv
<1>2. CASE cmd' = cmd
  BY <1>1, <1>2
<1>3. CASE TryBuild
  <2>1. SUFFICES ASSUME BBDepCmd[cmd] # None, BBDepCmd[cmd] # "", cmd' = BBDepCmd[cmd]
                 PROVE  NoTask(cmd')
    BY <1>2, <1>3 DEF TryBuild, DepCmd
  <2>2. BBDepCmd[cmd] \in Cmd
    BY <1>1, <2>1, TasksAreTyped
  <2>3. QED BY <1>1, <2>1, <2>2 DEF NoTask, DepCmdsAreNoTasks
<1>4. CASE DependenciesMissing \/ StampIsCurrent \/ TryBuildPackage
  <2>1. cmd' = RestoreCmd /\ stack # <<>> /\ top.kind = "build"
    BY <1>4 DEF DependenciesMissing, StampIsCurrent, TryBuildPackage, InDepsDone, InDeps, Busy
  <2>2. cmd' = cmd \/ cmd' = top.oldcmd
    BY <2>1 DEF RestoreCmd
  <2>3. NoTask(top.oldcmd)
    <3>1. Len(stack) \in DOMAIN stack
      BY <2>1, TopIsLast, Zenon
    <3>2. QED BY <2>1, <3>1 DEF OtherCmdInv, OldCmdsAreNoTasks, IsBuild, top
  <2>4. QED BY <1>1, <2>2, <2>3
<1>5. QED BY <1>2, <1>3, <1>4 DEF Next, Step, StartTarget, TargetDone, Finish, TryBuildReturned,
             NoBuildableProvider, NextDependency, DependencyReturned, PackageSucceeds, PackageFails,
             Escapes, vars

(* A build in progress, but the outermost, is not of a task.               *)
LEMMA InsideIsNoTask ==
  ASSUME CallsInv, ChainInv, OtherCmdInv, stack # <<>>, BBDepCmd[options.cmd] # "", Len(stack) >= 2,
         IsProvider(top) \/ Len(stack) # 2 \/ top.pc = "deps"
  PROVE  cmd \notin IsTask
<1>1. InsideNoTask(stack, cmd)
  BY DEF OtherCmdInv
<1>2. IsProvider(top) => Len(stack) # 2
  BY HowDeep
<1>3. top = stack[2] \/ Len(stack) # 2
  BY DEF top
<1>4. QED BY <1>1, <1>2, <1>3 DEF InsideNoTask

LEMMA OldCmdsStep ==
  ASSUME CallsInv, ChainInv, OtherCmdInv, [Next]_vars, CallsInv', CleanInv', options' = options
  PROVE  OldCmdsAreNoTasks(stack')
<1>1. PICK s \in Seq(FrameType) : s = stack
  BY DEF CallsInv, Stacked
<1>2. PICK t \in Seq(FrameType) : t = stack'
  BY DEF CallsInv, Stacked
<1>3. OldCmdsAreNoTasks(s) /\ NoTask(cmd) /\ (s # <<>> => s[Len(s)] = top)
  BY <1>1 DEF OtherCmdInv, top
<1>4. CASE Kept
  BY <1>1, <1>2, <1>3, <1>4 DEF Kept
<1>5. CASE ProviderCalled
  <2>1. PICK f : IsProvider(f) /\ t = Append(s, f)
    BY <1>1, <1>2, <1>5 DEF ProviderCalled
  <2>2. t[Len(t)] = f /\ \A i \in DOMAIN t : i = Len(t) \/ (i \in DOMAIN s /\ t[i] = s[i])
    BY <2>1, AppendedShape
  <2>3. ~IsBuild(f)
    BY <2>1 DEF IsProvider, IsBuild
  <2>4. QED BY <1>2, <1>3, <2>2, <2>3 DEF OldCmdsAreNoTasks
<1>6. CASE BuildCalled
  <2>1. PICK f : f.oldcmd = cmd /\ t = Append(s, f) /\ s # <<>> /\ IsProvider(top)
    BY <1>1, <1>2, <1>6 DEF BuildCalled
  <2>2. /\ Len(t) = Len(s) + 1 /\ Len(s) \in Nat /\ t[Len(t)] = f
        /\ \A i \in DOMAIN t : i = Len(t) \/ (i \in DOMAIN s /\ t[i] = s[i])
    BY <2>1, AppendedShape
  <2>3. ASSUME Len(t) > 2 PROVE cmd \notin IsTask
    <3>1. PICK k \in Nat : k = Len(s) /\ Len(t) = k + 1
      BY <2>2
    <3>2. k >= 2 /\ ~(k + 1 <= 2)
      BY <2>3, <3>1
    <3>3. BBDepCmd[options.cmd] # ""
      <4>1. ~(Len(stack') <= 2)
        BY <1>2, <3>1, <3>2
      <4>2. BBDepCmd[options'.cmd] # ""
        BY <4>1, Zenon DEF CleanInv
      <4>3. QED BY <4>2, Zenon
    <3>4. Len(stack) >= 2 /\ stack # <<>>
      BY <1>1, <2>1, <3>1, <3>2
    <3>5. QED BY <2>1, <3>3, <3>4, InsideIsNoTask, Zenon
  <2>4. QED BY <1>2, <1>3, <2>1, <2>2, <2>3 DEF OldCmdsAreNoTasks
<1>7. CASE CallWentOn
  <2>1. PICK f : /\ s # <<>> /\ t = [s EXCEPT ![Len(s)] = f] /\ f.kind = top.kind
                 /\ IsBuild(top) => f.oldcmd = top.oldcmd
    BY <1>1, <1>2, <1>7 DEF CallWentOn, Top
  <2>2. /\ Len(t) = Len(s) /\ t[Len(t)] = f
        /\ \A i \in DOMAIN t : i \in DOMAIN s /\ (i # Len(t) => t[i] = s[i])
    BY <2>1, ReplacedShape
  <2>3. ASSUME NEW i \in DOMAIN t, IsBuild(t[i]) PROVE IsBuild(s[i]) /\ t[i].oldcmd = s[i].oldcmd
    <3>1. CASE i # Len(t)
      BY <2>2, <2>3, <3>1
    <3>2. CASE i = Len(t)
      BY <1>3, <2>1, <2>2, <2>3, <3>2 DEF IsBuild
    <3>3. QED BY <3>1, <3>2
  <2>4. QED BY <1>2, <1>3, <2>2, <2>3 DEF OldCmdsAreNoTasks
<1>8. CASE ProviderLeft \/ BuildLeft
  <2>1. s # <<>> /\ t = SubSeq(s, 1, Len(s) - 1)
    BY <1>1, <1>2, <1>8 DEF ProviderLeft, BuildLeft, callers
  <2>2. \A i \in DOMAIN t : i \in DOMAIN s /\ t[i] = s[i]
    BY <2>1, LeftShape
  <2>3. QED BY <1>2, <1>3, <2>2 DEF OldCmdsAreNoTasks
<1>9. CASE AllLeft
  BY <1>9 DEF AllLeft, OldCmdsAreNoTasks
<1>10. QED BY <1>4, <1>5, <1>6, <1>7, <1>8, <1>9, StepMoves DEF CallsMove

LEMMA InsideStep ==
  ASSUME DepCmdsAreNoTasks, CallsInv, ChainInv, OtherCmdInv, [Next]_vars, CallsInv',
         StampIsCurrent => Len(stack) = 2
  PROVE  InsideNoTask(stack', cmd')
<1>1. PICK s \in Seq(FrameType) : s = stack
  BY DEF CallsInv, Stacked
<1>2. PICK t \in Seq(FrameType) : t = stack'
  BY DEF CallsInv, Stacked
<1>3. SUFFICES ASSUME Len(t) >= 2, BBDepCmd[options.cmd] # ""
               PROVE  cmd' \notin IsTask \/ (Len(t) = 2 /\ t[2].pc = "package")
  BY <1>2 DEF InsideNoTask
<1>4. s # <<>> => Len(s) \in Nat \ {0} /\ Len(s) \in DOMAIN s /\ s[Len(s)] = top
  BY <1>1 DEF top
<1>5. ASSUME s # <<>>, Len(s) >= 2, IsProvider(top) \/ Len(s) # 2 \/ top.pc = "deps"
      PROVE  cmd \notin IsTask
  BY <1>1, <1>3, <1>5, InsideIsNoTask, Zenon
<1>6. ASSUME s # <<>>, t = SubSeq(s, 1, Len(s) - 1) PROVE Len(s) > 2
  <2>1. Len(t) = Len(s) - 1 /\ Len(s) \in Nat
    BY ZenonT(60), <1>6, LeftShape
  <2>2. PICK k \in Nat : k = Len(s) /\ Len(t) = k - 1
    BY <2>1
  <2>3. k - 1 >= 2
    BY <1>3, <2>2
  <2>4. QED BY <2>2, <2>3
<1>7. ASSUME s # <<>>, IsBuild(top), Len(s) > 2 PROVE RestoreCmd \notin IsTask
  <2>1. RestoreCmd = top.oldcmd
    BY <1>1, <1>3, <1>7, Restored, Zenon DEF IsBuild
  <2>2. top.oldcmd \notin IsTask
    BY <1>1, <1>4, <1>7 DEF OtherCmdInv, OldCmdsAreNoTasks
  <2>3. QED BY <2>1, <2>2
<1>8. ASSUME s # <<>>, Len(s) > 2 PROVE Len(s) >= 2 /\ Len(s) # 2
  BY <1>4, <1>8
<1>9. CASE TryBuild /\ stack' # stack
  <2>1. cmd' = IF DepCmd(cmd) = None THEN cmd ELSE DepCmd(cmd)
    BY <1>9 DEF TryBuild
  <2>2. cmd \in Cmd /\ BBDepCmd[cmd] # "" /\ NoTask(cmd)
    BY <1>3 DEF CallsInv, CmdInv, OtherCmdInv
  <2>3. CASE BBDepCmd[cmd] = None
    BY <2>1, <2>2, <2>3 DEF DepCmd, NoTask
  <2>4. CASE BBDepCmd[cmd] # None
    <3>1. BBDepCmd[cmd] \in Cmd
      BY <2>2, <2>4, TasksAreTyped
    <3>2. cmd' = BBDepCmd[cmd]
      BY <2>1, <2>2, <2>4, <3>1, NoneIsNothing DEF DepCmd
    <3>3. QED BY <2>2, <3>1, <3>2 DEF DepCmdsAreNoTasks
  <2>5. QED BY <2>3, <2>4
<1>10. CASE TryBuildPackage
  <2>1. PICK g : g = top
    OBVIOUS
  <2>2. s # <<>> /\ top.kind = "build" /\ cmd' = RestoreCmd /\ t = [s EXCEPT ![Len(s)] = [g EXCEPT !.pc = "package"]]
    BY <1>1, <1>2, <1>10, <2>1 DEF TryBuildPackage, InDepsDone, InDeps, Busy, Top
  <2>3. PICK f : f = [g EXCEPT !.pc = "package"]
    OBVIOUS
  <2>4. BuildInOrder(top) /\ IsBuild(top)
    BY <1>1, <2>2, BuildIsInOrder, Zenon
  <2>5. f.pc = "package"
    BY <2>1, <2>3, <2>4 DEF BuildInOrder, BuildFrameType
  <2>6. Len(t) = Len(s) /\ t[Len(t)] = f
    BY <2>2, <2>3, ReplacedShape
  <2>7. CASE Len(t) = 2
    BY <2>5, <2>6, <2>7
  <2>8. CASE Len(t) # 2
    <3>1. Len(s) > 2
      <4>1. PICK k \in Nat : k = Len(s)
        BY <1>4, <2>2
      <4>2. k >= 2 /\ k # 2
        BY <1>3, <2>6, <2>8, <4>1
      <4>3. QED BY <4>1, <4>2
    <3>2. QED BY <1>7, <2>2, <2>4, <3>1
  <2>9. QED BY <2>7, <2>8
<1>11. CASE DependenciesMissing \/ StampIsCurrent
  <2>1. s # <<>> /\ IsBuild(top) /\ cmd' = RestoreCmd /\ t = SubSeq(s, 1, Len(s) - 1)
    BY <1>1, <1>2, <1>11 DEF DependenciesMissing, StampIsCurrent, InDepsDone, InDeps, Busy, IsBuild, Return, callers
  <2>2. QED BY <1>6, <1>7, <2>1
<1>12. CASE cmd' = cmd /\ ~(TryBuild /\ stack' # stack) /\ ~TryBuildPackage
  <2>1. CASE Kept
    <3>1. t = s /\ InsideNoTask(s, cmd)
      BY <1>1, <1>2, <2>1 DEF Kept, OtherCmdInv
    <3>2. QED BY <1>3, <1>12, <3>1 DEF InsideNoTask
  <2>2. CASE ProviderCalled
    <3>1. PICK f : t = Append(s, f) /\ (s = <<>> \/ (IsBuild(top) /\ top.pc = "deps"))
      BY <1>1, <1>2, <2>2 DEF ProviderCalled
    <3>2. Len(t) = Len(s) + 1 /\ Len(s) \in Nat
      BY <3>1, AppendedShape
    <3>3. PICK k \in Nat : k = Len(s) /\ k + 1 >= 2
      BY <1>3, <3>2
    <3>4. s # <<>>
      BY <3>3
    <3>5. k # 1
      BY <1>1, <3>1, <3>3, <3>4, HowDeep
    <3>6. k >= 2
      BY <3>3, <3>5
    <3>7. Len(s) >= 2
      BY <3>3, <3>6
    <3>8. QED BY <1>5, <1>12, <3>1, <3>4, <3>7
  <2>3. CASE BuildCalled
    <3>1. PICK f : TryBuild /\ t = Append(s, f)
      BY <1>1, <1>2, <2>3 DEF BuildCalled
    <3>2. Len(t) = Len(s) + 1 /\ Len(s) \in Nat
      BY <3>1, AppendedShape
    <3>3. PICK k \in Nat : k = Len(s) /\ k + 1 = Len(t)
      BY <3>2
    <3>4. k + 1 # k
      OBVIOUS
    <3>5. t # s
      BY <3>3, <3>4
    <3>6. QED BY <1>1, <1>2, <1>12, <3>1, <3>5
  <2>4. CASE CallWentOn
    <3>1. PICK f : /\ s # <<>> /\ t = [s EXCEPT ![Len(s)] = f] /\ (IsBuild(top) => top.pc = "deps")
      BY <1>1, <1>2, <2>4 DEF CallWentOn, Top
    <3>2. Len(s) >= 2
      <4>1. Len(t) = Len(s)
        BY ZenonT(60), <3>1, ReplacedShape
      <4>2. QED BY <1>3, <4>1
    <3>3. IsProvider(top) \/ IsBuild(top)
      BY <1>1, <3>1, TopIsInOrder, KindsDiffer
    <3>4. QED BY <1>5, <1>12, <3>1, <3>2, <3>3
  <2>5. CASE ProviderLeft \/ BuildLeft
    <3>1. s # <<>> /\ t = SubSeq(s, 1, Len(s) - 1)
      BY <1>1, <1>2, <2>5 DEF ProviderLeft, BuildLeft, callers
    <3>2. QED BY <1>5, <1>6, <1>8, <1>12, <3>1
  <2>6. CASE AllLeft
    <3>1. Len(t) = 0
      BY <1>2, <2>6 DEF AllLeft
    <3>2. ~(Len(t) >= 2)
      BY <3>1
    <3>3. QED BY <1>3, <3>2
  <2>7. QED BY <2>1, <2>2, <2>3, <2>4, <2>5, <2>6, StepMoves DEF CallsMove
<1>13. ASSUME ~(TryBuild /\ stack' # stack), ~TryBuildPackage, ~DependenciesMissing, ~StampIsCurrent
       PROVE  cmd' = cmd
  <2>1. CASE TryBuild
    <3>1. stack' = s /\ \A f : s # Append(s, f)
      <4>1. ASSUME NEW f PROVE s # Append(s, f)
        <5>1. Len(Append(s, f)) = Len(s) + 1 /\ Len(s) \in Nat
          OBVIOUS
        <5>2. PICK k \in Nat : k = Len(s) /\ Len(Append(s, f)) = k + 1
          BY <5>1
        <5>3. k + 1 # k
          OBVIOUS
        <5>4. QED BY <5>2, <5>3
      <4>2. QED BY <1>1, <1>13, <2>1, <4>1
    <3>2. PICK r : r = top.eligible[top.next]
      OBVIOUS
    <3>3. PICK f : f = BuildFrame(r, top.item, cmd)
      OBVIOUS
    <3>4. stack' = Append(s, f) \/ cmd' = cmd
      BY <1>1, <2>1, <3>2, <3>3 DEF TryBuild
    <3>5. QED BY <3>1, <3>4
  <2>2. CASE ~TryBuild
    BY <1>13, <2>2 DEF Next, Step, StartTarget, TargetDone, Finish, TryBuildReturned,
             NoBuildableProvider, NextDependency, DependencyReturned, PackageSucceeds, PackageFails,
             Escapes, vars
  <2>3. QED BY <2>1, <2>2
<1>14. QED BY <1>9, <1>10, <1>11, <1>12, <1>13

LEMMA OtherCmdStep ==
  ASSUME DepCmdsAreNoTasks, CallsInv, ChainInv, CleanInv, StampsInv, OtherCmdInv, [Next]_vars,
         CallsInv', CleanInv', ~options.dry_run
  PROVE  OtherCmdInv'
<1>1. options' = options
  BY DEF Next, Step, StartTarget, TargetDone, Finish, TryBuild, TryBuildReturned, NoBuildableProvider,
         NextDependency, DependencyReturned, DependenciesMissing, StampIsCurrent, TryBuildPackage,
         PackageSucceeds, PackageFails, Escapes, vars
<1>2. NoTask(cmd') /\ OldCmdsAreNoTasks(stack')
  BY <1>1, NoTaskStep, OldCmdsStep
<1>3. InsideNoTask(stack', cmd')
  BY OnlyTargetsAreBuilt, InsideStep
<1>4. InsideNoTask(stack, cmd)'
  BY <1>1, <1>3 DEF InsideNoTask
<1>5. CallersUnbuilt(stack)' /\ (returned' # TRUE => LastUnbuilt(stack)')
  <2>1. CASE StampIsCurrent \/ PackageSucceeds
    <3>1. PICK s \in Seq(FrameType) : s = stack
      BY DEF CallsInv, Stacked
    <3>2. PICK t : t = SubSeq(s, 1, Len(s) - 1)
      OBVIOUS
    <3>3. s # <<>> /\ stack' = t /\ returned' = TRUE
      BY <2>1, <3>1, <3>2 DEF StampIsCurrent, PackageSucceeds, InDepsDone, InDeps, InPackage, Busy, Return, callers
    <3>4. Len(s) = 2
      BY <2>1, <3>1, OnlyTargetsAreBuilt
    <3>5. t \in Seq(FrameType) /\ Len(t) = 1
      BY <3>2, <3>3, <3>4, LeftShape
    <3>6. \A i \in DOMAIN t : i = Len(t)
      BY <3>5
    <3>7. QED BY <3>3, <3>6 DEF CallersUnbuilt
  <2>2. CASE ~StampIsCurrent /\ ~PackageSucceeds
    <3>1. build_cache' = build_cache
      BY <2>2 DEF Next, Step, StartTarget, TargetDone, Finish, TryBuild, TryBuildReturned,
         NoBuildableProvider, NextDependency, DependencyReturned, DependenciesMissing, TryBuildPackage,
         PackageFails, Escapes, vars, caches
    <3>2. QED BY <3>1, UnbuiltStep DEF OtherCmdInv
  <2>3. QED BY <2>1, <2>2
<1>6. NoTask(cmd)' /\ OldCmdsAreNoTasks(stack)'
  BY <1>2 DEF NoTask, OldCmdsAreNoTasks
<1>7. QED BY <1>4, <1>5, <1>6 DEF OtherCmdInv

LEMMA OnceInit == CallsInv /\ Init => OnceInv
<1>1. SUFFICES ASSUME Init PROVE SameCmdInv /\ (BBDepCmd[options.cmd] # None => OtherCmdInv)
  BY DEF OnceInv
<1>2. stack = <<>> /\ cmd = options.cmd /\ build_cache = {} /\ ~InPackage
  BY <1>1 DEF Init, InPackage, Busy
<1>3. SameCmdInv
  BY <1>2 DEF SameCmdInv, OldCmdsAre
<1>4. CallersUnbuilt(<<>>) /\ LastUnbuilt(<<>>) /\ OldCmdsAreNoTasks(<<>>)
  BY DEF CallersUnbuilt, LastUnbuilt, OldCmdsAreNoTasks
<1>5. InsideNoTask(<<>>, cmd)
  <2>1. ~(Len(<<>>) >= 2)
    OBVIOUS
  <2>2. QED BY <2>1 DEF InsideNoTask
<1>6. ASSUME BBDepCmd[options.cmd] # None PROVE OtherCmdInv
  BY <1>2, <1>4, <1>5, <1>6 DEF OtherCmdInv, NoTask
<1>7. QED BY <1>3, <1>6

LEMMA OnceStep ==
  ASSUME DepCmdsAreNoTasks, CmdsLeaveStamps, CallsInv, ChainInv, CleanInv, DataTyped, StampsInv,
         OnceInv, [Next]_vars, CallsInv', CleanInv'
  PROVE  OnceInv'
<1>1. options' = options
  BY DEF Next, Step, StartTarget, TargetDone, Finish, TryBuild, TryBuildReturned, NoBuildableProvider,
         NextDependency, DependencyReturned, DependenciesMissing, StampIsCurrent, TryBuildPackage,
         PackageSucceeds, PackageFails, Escapes, vars
<1>2. CASE options.dry_run
  BY <1>1, <1>2 DEF OnceInv
<1>3. CASE ~options.dry_run /\ BBDepCmd[options.cmd] = None
  BY <1>1, <1>3, SameCmdStep DEF OnceInv
<1>4. CASE ~options.dry_run /\ BBDepCmd[options.cmd] # None
  BY <1>1, <1>4, OtherCmdStep DEF OnceInv
<1>5. QED BY <1>2, <1>3, <1>4

LEMMA OnceIsKept ==
  ASSUME StampsAreOfTasks, DepCmdsAreNoTasks, CmdsLeaveStamps
  PROVE  Spec => []OnceInv
<1>1. Init => StampsInv
  BY StampsInit
<1>2. CallsInv /\ StampsInv /\ [Next]_vars => StampsInv'
  BY StampsStep
<1>3. CallsInv /\ ChainInv /\ DataTyped /\ CleanInv /\ StampsInv /\ OnceInv
      /\ [Next]_vars /\ CallsInv' /\ CleanInv' => OnceInv'
  BY OnceStep
<1>4. QED BY <1>1, <1>2, <1>3, CallsInit, OnceInit, CallsAreInOrder, ChainIsKept, DataIsTyped,
             CleanIsKept, PTL DEF Spec

LEMMA OnceIsOnce ==
  ASSUME CallsInv, ChainInv, OnceInv
  PROVE  NotBuiltTwice
<1>1. SUFFICES ASSUME InPackage, ~options.dry_run PROVE top.fn \notin build_cache
  BY DEF NotBuiltTwice
<1>2. CASE BBDepCmd[options.cmd] = None
  BY <1>1, <1>2 DEF OnceInv, SameCmdInv
<1>3. CASE BBDepCmd[options.cmd] # None
  <2>1. PICK s \in Seq(FrameType) : s = stack
    BY DEF CallsInv, Stacked
  <2>2. s # <<>> /\ top.kind = "build"
    BY <1>1, <2>1 DEF InPackage, Busy
  <2>3. BuildInOrder(top) /\ IsBuild(top)
    BY <2>1, <2>2, BuildIsInOrder, Zenon
  <2>4. PICK k \in Nat : k = Len(s) /\ k # 0 /\ k # 1
    BY <2>1, <2>2, <2>3, HowDeep
  <2>5. k \in DOMAIN s /\ s[k] = top /\ k - 1 \in DOMAIN s /\ k - 1 # k
    BY <2>1, <2>4 DEF top
  <2>6. ProviderCalls(s[k - 1], top.item)
    BY <2>1, <2>3, <2>4, <2>5 DEF CallsInv, Stacked, Called, IsProvider, IsBuild
  <2>7. Unbuilt(s[k - 1])
    BY <1>1, <1>3, <2>1, <2>4, <2>5 DEF OnceInv, OtherCmdInv, CallersUnbuilt
  <2>8. Providers(top.item) \cap build_cache = {}
    BY <2>6, <2>7 DEF ProviderCalls, Unbuilt
  <2>9. QED BY <2>3, <2>8 DEF BuildInOrder
<1>4. QED BY <1>2, <1>3

(* A recipe built in a run is not executed again in it.                    *)
THEOREM CookerOnce ==
  ASSUME StampsAreOfTasks, DepCmdsAreNoTasks, CmdsLeaveStamps
  PROVE  Spec => []NotBuiltTwice
BY OnceIsKept, OnceIsOnce, CallsAreInOrder, ChainIsKept, PTL

---------------------------------------------------------------------------
(* The recursion builds in an order BuildOrder allows.                     *)
LEMMA NeedsAreMet ==
  ASSUME CallsInv, DepsInv, stack # <<>>, top.kind = "build", ~top.failed, top.next > Len(depends)
  PROVE  top.fn \in Recipe /\ Order!Ready(top.fn)
<1>1. PICK r \in Recipe : r = top.fn
  BY BuildIsInOrder
<1>2. CASE BBDepCmd[options.cmd] = ""
  BY <1>1, <1>2 DEF Order!Ready
<1>3. CASE BBDepCmd[options.cmd] # ""
  <2>1. HasDeps(r)
    BY <1>1, <1>3, TopHasDeps
  <2>2. \A d \in Range(world.depends[r]) \ world.ignored : Providers(d) \cap build_cache # {}
    BY <2>1 DEF HasDeps, HaveDep, Satisfied
  <2>3. QED BY <1>1, <1>3, <2>2 DEF Order!Ready
<1>4. QED BY <1>2, <1>3

Needs == [r \in Recipe |->
            IF BBDepCmd[options.cmd] = "" THEN {}
            ELSE {Providers(d) : d \in Range(world.depends[r]) \ world.ignored}]

LEMMA OrderStep ==
  ASSUME CallsInv, DepsInv, NotBuiltTwice, [Next]_vars
  PROVE  [Order!Next]_(Order!vars)
<1>1. UNCHANGED Needs
  <2>1. UNCHANGED <<world, options>>
    BY DEF Next, Step, StartTarget, TargetDone, Finish, TryBuild, TryBuildReturned, NoBuildableProvider,
         NextDependency, DependencyReturned, DependenciesMissing, StampIsCurrent, TryBuildPackage,
         PackageSucceeds, PackageFails, Escapes, vars
  <2>2. \A d : Providers(d)' = Providers(d)
    BY <2>1 DEF Providers
  <2>3. QED BY <2>1, <2>2 DEF Needs
<1>2. CASE StampIsCurrent \/ PackageSucceeds
  <2>1. stack # <<>> /\ top.kind = "build" /\ build_cache' = build_cache \cup {top.fn}
        /\ build_cache_fail' = build_cache_fail
    BY <1>2 DEF StampIsCurrent, PackageSucceeds, InDepsDone, InDeps, InPackage, Busy
  <2>2. ~top.failed /\ top.next > Len(depends)
    <3>1. CASE StampIsCurrent
      BY <3>1 DEF StampIsCurrent, InDepsDone
    <3>2. CASE PackageSucceeds
      BY <2>1, <3>2, BuildIsInOrder DEF PackageSucceeds, InPackage, BuildInOrder, depends
    <3>3. QED BY <1>2, <3>1, <3>2
  <2>3. PICK r \in Recipe : r = top.fn /\ Order!Ready(r)
    BY <2>1, <2>2, NeedsAreMet
  <2>4. Order!Build(r)
    BY <1>1, <2>1, <2>3 DEF Order!Build, Needs
  <2>5. QED BY <2>4 DEF Order!Next
<1>3. CASE PackageFails
  <2>1. stack # <<>> /\ top.kind = "build" /\ top.fn \notin build_cache /\ build_cache' = build_cache
        /\ build_cache_fail' = build_cache_fail \cup {top.fn}
    BY <1>3 DEF PackageFails, InPackage, Busy, NotBuiltTwice
  <2>2. ~top.failed /\ top.next > Len(depends)
    BY <1>3, <2>1, BuildIsInOrder DEF PackageFails, InPackage, BuildInOrder, depends
  <2>3. PICK r \in Recipe : r = top.fn /\ Order!Ready(r)
    BY <2>1, <2>2, NeedsAreMet
  <2>4. Order!Fail(r)
    BY <1>1, <2>1, <2>3 DEF Order!Fail, Needs
  <2>5. QED BY <2>4 DEF Order!Next
<1>4. CASE ~StampIsCurrent /\ ~PackageSucceeds /\ ~PackageFails
  <2>1. UNCHANGED caches
    BY <1>4 DEF Next, Step, StartTarget, TargetDone, Finish, TryBuild, TryBuildReturned,
       NoBuildableProvider, NextDependency, DependencyReturned, DependenciesMissing, TryBuildPackage,
       Escapes, vars, caches
  <2>2. QED BY <1>1, <2>1 DEF Order!vars, Needs, caches
<1>5. QED BY <1>2, <1>3, <1>4

(* What a run builds, it builds when each dependency has a provider that   *)
(* was built before, and what fails was not built before.                  *)
THEOREM CookerImplementsBuildOrder ==
  ASSUME StampsAreOfTasks, DepCmdsAreNoTasks, CmdsLeaveStamps
  PROVE  Spec => ImplementsBuildOrder
<1>1. Init => Order!Init
  <2>1. SUFFICES ASSUME Init PROVE Order!Init
    OBVIOUS
  <2>2. Needs \in [Recipe -> SUBSET SUBSET Recipe]
    <3>1. \A d : Providers(d) \in SUBSET Recipe
      BY DEF Providers
    <3>2. QED BY <3>1 DEF Needs
  <2>3. build_cache = {} /\ build_cache_fail = {}
    BY <2>1 DEF Init
  <2>4. QED BY <2>2, <2>3 DEF Order!Init, Needs
<1>2. CallsInv /\ DepsInv /\ NotBuiltTwice /\ [Next]_vars => [Order!Next]_(Order!vars)
  BY OrderStep
<1>3. QED BY <1>1, <1>2, CookerOnce, CallsAreInOrder, DepsAreBuilt, PTL
             DEF Spec, ImplementsBuildOrder, Order!Spec
=============================================================================

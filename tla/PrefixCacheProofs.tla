------------------------- MODULE PrefixCacheProofs -------------------------
(***************************************************************************)
(* Proofs about the cache simulator, for every trace, block size and set   *)
(* of budgets.                                                             *)
(***************************************************************************)
EXTENDS PrefixCacheSim, FiniteSetTheorems, SequenceTheorems, WellFoundedInduction, TLAPS

(* A set of numbers has a least one.                                       *)
LEMMA Least ==
    ASSUME NEW S \in SUBSET Nat, S # {}
    PROVE  \E m \in S : \A i \in S : m <= i
<1>1. PICK m \in S : \A i \in S : ~(<<i, m>> \in OpToRel(<, Nat))
  BY NatLessThanWellFounded, WFMin
<1>2. \A i \in S : ~(i < m)
  BY <1>1 DEF OpToRel
<1>3. QED
  BY <1>2

(* Induction up to n, on the set of numbers where something fails.         *)
LEMMA NeverBad ==
    ASSUME NEW n \in Nat, NEW Bad \in SUBSET (0..n), 0 \notin Bad,
           \A i \in 1..n : i - 1 \notin Bad => i \notin Bad
    PROVE  Bad = {}
<1> SUFFICES ASSUME Bad # {} PROVE FALSE
  OBVIOUS
<1>1. Bad \in SUBSET Nat
  OBVIOUS
<1>2. PICK m \in Bad : \A i \in Bad : m <= i
  BY <1>1, Least
<1>3. m \in 1..n /\ m - 1 \notin Bad
  BY <1>2
<1>4. QED
  BY <1>3

(* Induction from n down to l.                                             *)
LEMMA NeverBadDown ==
    ASSUME NEW l \in Nat, NEW n \in Nat, NEW Bad \in SUBSET (l..n), n \notin Bad,
           \A i \in l..n - 1 : i + 1 \notin Bad => i \notin Bad
    PROVE  Bad = {}
<1> SUFFICES ASSUME Bad # {} PROVE FALSE
  OBVIOUS
<1> DEFINE S == {n - i : i \in Bad}
<1>1. S \in SUBSET Nat
  <2>1. \A i \in Bad : n - i \in Nat
    OBVIOUS
  <2>2. QED
    BY <2>1
<1>2. S # {}
  <2>1. PICK i \in Bad : TRUE
    OBVIOUS
  <2>2. n - i \in S
    OBVIOUS
  <2>3. QED
    BY <2>2
<1> HIDE DEF S
<1>3. PICK m \in S : \A j \in S : m <= j
  BY <1>1, <1>2, Least
<1>4. PICK i \in Bad : m = n - i
  BY DEF S
<1>5. i \in l..n - 1 /\ n - (i + 1) \in Nat /\ n - (i + 1) < m
  BY <1>4
<1>6. i + 1 \notin Bad
  <2>1. n - (i + 1) \notin S
    BY <1>1, <1>3, <1>5
  <2>2. QED
    BY <2>1 DEF S
<1>7. QED
  BY <1>5, <1>6

-----------------------------------------------------------------------------
(* The blocks of a request.                                                *)
Step(e, p, t, i) == Access(t, e.ids[i], BlockTokens(e, i), p)

(* A request has been through the cache when each of its blocks has.       *)
LEMMA AccessedSteps ==
    ASSUME NEW e \in Requests, NEW s, NEW p
    PROVE  /\ Len(e.ids) \in Nat
           /\ \E a : /\ a[0] = s /\ a[Len(e.ids)] = Accessed(s, e, p)
                     /\ \A i \in 1..Len(e.ids) : a[i] = Step(e, p, a[i - 1], i)
<1> DEFINE n == Len(e.ids)
           Runs(g, m) == g[0] = s /\ \A i \in 1..m : g[i] = Step(e, p, g[i - 1], i)
           Body(g) == [i \in 0..n |-> IF i = 0 THEN s ELSE Step(e, p, g[i - 1], i)]
           Bad == {m \in 0..n : ~\E g : Runs(g, m)}
<1>1. n \in Nat
  BY SimAssumption
<1>2. Accessed(s, e, p) = (CHOOSE g : g = Body(g))[n]
  BY DEF Accessed, Step
<1> HIDE DEF n
<1>3. Bad = {}
  <2>1. 0 \notin Bad
    <3>1. Runs([i \in {0} |-> s], 0)
      OBVIOUS
    <3>2. QED
      BY <1>1, <3>1
  <2>2. ASSUME NEW m \in 1..n, m - 1 \notin Bad PROVE m \notin Bad
    <3>1. PICK g : Runs(g, m - 1)
      BY <1>1, <2>2
    <3> DEFINE h == [i \in 0..m |-> IF i = m THEN Step(e, p, g[m - 1], m) ELSE g[i]]
    <3>2. h[0] = s /\ h[m] = Step(e, p, g[m - 1], m) /\ h[m - 1] = g[m - 1]
      BY <1>1, <3>1
    <3>3. \A i \in 1..m - 1 : h[i] = g[i] /\ h[i - 1] = g[i - 1]
      BY <1>1
    <3> HIDE DEF h
    <3>4. \A i \in 1..m : h[i] = Step(e, p, h[i - 1], i)
      <4>1. ASSUME NEW i \in 1..m PROVE h[i] = Step(e, p, h[i - 1], i)
        <5>1. CASE i = m
          BY <3>2, <5>1
        <5>2. CASE i \in 1..m - 1
          BY <3>1, <3>3, <5>2
        <5>3. QED
          BY <1>1, <5>1, <5>2
      <4>2. QED
        BY <4>1
    <3>5. Runs(h, m)
      BY <3>2, <3>4
    <3>6. QED
      BY <3>5
  <2>3. Bad \in SUBSET (0..n)
    OBVIOUS
  <2> HIDE DEF Bad
  <2>4. QED
    BY <1>1, <2>1, <2>2, <2>3, NeverBad
<1>4. PICK g : Runs(g, n)
  BY <1>1, <1>3
<1> DEFINE h == [i \in 0..n |-> g[i]]
<1>5. h = Body(h)
  <2>1. \A i \in 0..n : h[i] = IF i = 0 THEN s ELSE Step(e, p, h[i - 1], i)
    <3>1. ASSUME NEW i \in 1..n PROVE h[i] = Step(e, p, h[i - 1], i)
      <4>1. h[i] = g[i] /\ h[i - 1] = g[i - 1]
        BY <1>1
      <4>2. QED
        BY <1>4, <4>1
    <3>2. h[0] = s
      BY <1>1, <1>4
    <3> HIDE DEF h
    <3>3. QED
      BY <1>1, <3>1, <3>2
  <2>2. h = [i \in 0..n |-> h[i]]
    OBVIOUS
  <2> HIDE DEF h
  <2>3. QED
    BY <2>1, <2>2
<1> DEFINE a == CHOOSE f : f = Body(f)
<1>6. a = Body(a)
  <2> HIDE DEF h
  <2>1. \E f : f = Body(f)
    BY <1>5
  <2> HIDE DEF Body
  <2>2. QED
    BY <2>1
<1> HIDE DEF a
<1>7. \A i \in 0..n : a[i] = IF i = 0 THEN s ELSE Step(e, p, a[i - 1], i)
  <2> DEFINE B == Body(a)
  <2>1. \A i \in 0..n : B[i] = IF i = 0 THEN s ELSE Step(e, p, a[i - 1], i)
    OBVIOUS
  <2>2. B = a
    BY <1>6
  <2> HIDE DEF B
  <2>3. QED
    BY <2>1, <2>2
<1>8. a[0] = s /\ \A i \in 1..n : a[i] = Step(e, p, a[i - 1], i)
  BY <1>1, <1>7
<1>9. Accessed(s, e, p) = a[n]
  BY <1>2 DEF a
<1>10. QED
  BY <1>1, <1>8, <1>9 DEF n

-----------------------------------------------------------------------------
(* The tokens from a position of the order on, counted from its end.       *)
LEMMA TailTokens ==
    ASSUME NEW s, NEW n \in Nat, n = Len(s.order),
           \A i \in 1..n : s.cache[s.order[i]] \in Nat
    PROVE  /\ TokensFrom(s, n + 1) = 0
           /\ \A i \in 1..n : TokensFrom(s, i) = s.cache[s.order[i]] + TokensFrom(s, i + 1)
           /\ \A i \in 1..n + 1 : TokensFrom(s, i) \in Nat
<1> DEFINE w(i) == s.cache[s.order[i]]
           Runs(g, m) == g[n + 1] = 0 /\ \A i \in n + 1 - m..n : g[i] = w(i) + g[i + 1]
           Body(g) == [i \in 1..n + 1 |-> IF i > n THEN 0 ELSE w(i) + g[i + 1]]
           Bad == {m \in 0..n : ~\E g : Runs(g, m)}
<1>1. \A k : TokensFrom(s, k) = (CHOOSE g : g = Body(g))[k]
  BY DEF TokensFrom
<1>2. \A i \in 1..n : w(i) \in Nat
  OBVIOUS
<1> HIDE DEF w
<1>3. Bad = {}
  <2>1. 0 \notin Bad
    <3>1. Runs([i \in {n + 1} |-> 0], 0)
      OBVIOUS
    <3>2. QED
      BY <3>1
  <2>2. ASSUME NEW m \in 1..n, m - 1 \notin Bad PROVE m \notin Bad
    <3>1. PICK g : Runs(g, m - 1)
      BY <2>2
    <3> DEFINE l == n + 1 - m
               h == [i \in l..n + 1 |-> IF i = l THEN w(l) + g[l + 1] ELSE g[i]]
    <3>2. l \in 1..n /\ h[n + 1] = 0 /\ h[l] = w(l) + g[l + 1] /\ h[l + 1] = g[l + 1]
      BY <3>1
    <3>3. \A i \in l + 1..n : h[i] = g[i] /\ h[i + 1] = g[i + 1]
      OBVIOUS
    <3>4. \A i \in l + 1..n : g[i] = w(i) + g[i + 1]
      BY <3>1
    <3> HIDE DEF h
    <3>5. \A i \in l..n : h[i] = w(i) + h[i + 1]
      <4>1. ASSUME NEW i \in l..n PROVE h[i] = w(i) + h[i + 1]
        <5>1. CASE i = l
          BY <3>2, <5>1
        <5>2. CASE i \in l + 1..n
          BY <3>3, <3>4, <5>2
        <5>3. QED
          BY <3>2, <5>1, <5>2
      <4>2. QED
        BY <4>1
    <3>6. Runs(h, m)
      BY <3>2, <3>5
    <3>7. QED
      BY <3>6
  <2>3. Bad \in SUBSET (0..n)
    OBVIOUS
  <2> HIDE DEF Bad
  <2>4. QED
    BY <2>1, <2>2, <2>3, NeverBad
<1>4. PICK g : Runs(g, n)
  BY <1>3
<1>5. g[n + 1] = 0 /\ \A i \in 1..n : g[i] = w(i) + g[i + 1]
  BY <1>4
<1> DEFINE h == [i \in 1..n + 1 |-> g[i]]
<1>6. h = Body(h)
  <2>1. ASSUME NEW i \in 1..n + 1 PROVE h[i] = IF i > n THEN 0 ELSE w(i) + h[i + 1]
    <3>1. CASE i = n + 1
      BY <1>5, <3>1
    <3>2. CASE i \in 1..n
      <4>1. h[i] = g[i] /\ h[i + 1] = g[i + 1]
        BY <3>2
      <4>2. QED
        BY <1>5, <3>2, <4>1
    <3>3. QED
      BY <3>1, <3>2
  <2>2. h = [i \in 1..n + 1 |-> h[i]]
    OBVIOUS
  <2> HIDE DEF h
  <2>3. QED
    BY <2>1, <2>2
<1> DEFINE a == CHOOSE f : f = Body(f)
<1>7. a = Body(a)
  <2> HIDE DEF h
  <2>1. \E f : f = Body(f)
    BY <1>6
  <2> HIDE DEF Body
  <2>2. QED
    BY <2>1
<1>8. \A k : TokensFrom(s, k) = a[k]
  BY <1>1
<1> HIDE DEF a
<1>9. a[n + 1] = 0 /\ \A i \in 1..n : a[i] = w(i) + a[i + 1]
  <2> DEFINE B == Body(a)
  <2>1. B[n + 1] = 0 /\ \A i \in 1..n : B[i] = w(i) + a[i + 1]
    OBVIOUS
  <2>2. B = a
    BY <1>7
  <2> HIDE DEF B
  <2>3. QED
    BY <2>1, <2>2
<1> DEFINE Wrong == {m \in 0..n : a[n + 1 - m] \notin Nat}
<1>10. Wrong = {}
  <2>1. 0 \notin Wrong
    BY <1>9
  <2>2. ASSUME NEW m \in 1..n, m - 1 \notin Wrong PROVE m \notin Wrong
    <3>1. a[n + 1 - (m - 1)] \in Nat
      BY <2>2
    <3>2. n + 1 - m \in 1..n /\ n + 1 - (m - 1) = (n + 1 - m) + 1
      OBVIOUS
    <3>3. a[n + 1 - m] = w(n + 1 - m) + a[(n + 1 - m) + 1] /\ w(n + 1 - m) \in Nat
      BY <1>2, <1>9, <3>2
    <3>4. QED
      BY <3>1, <3>2, <3>3
  <2>3. Wrong \in SUBSET (0..n)
    OBVIOUS
  <2> HIDE DEF Wrong
  <2>4. QED
    BY <2>1, <2>2, <2>3, NeverBad
<1>11. ASSUME NEW i \in 1..n + 1 PROVE a[i] \in Nat
  <2>1. n + 1 - i \in 0..n /\ n + 1 - (n + 1 - i) = i
    OBVIOUS
  <2>2. n + 1 - i \notin Wrong
    BY <1>10
  <2>3. QED
    BY <2>1, <2>2
<1>12. QED
  BY <1>8, <1>9, <1>11 DEF w

-----------------------------------------------------------------------------
(* The tokens of a block, the same wherever it occurs.                     *)
Size(x) == CHOOSE t \in Nat \ {0} :
              \E e \in Requests : \E i \in DOMAIN e.ids : e.ids[i] = x /\ t = BlockTokens(e, i)

LEMMA SizeOf ==
    ASSUME NEW e \in Requests, NEW i \in 1..Len(e.ids)
    PROVE  /\ e.ids[i] \in Blocks /\ BlockTokens(e, i) = Size(e.ids[i])
           /\ Size(e.ids[i]) \in Nat \ {0}
<1>1. i \in DOMAIN e.ids /\ e.length \in Nat \ {0} /\ i \in Nat /\ BlockSize \in Nat \ {0}
  BY SimAssumption
<1>2. BlockTokens(e, i) \in Nat \ {0}
  <2>1. (i - 1) * BlockSize \in Int
    BY <1>1
  <2> DEFINE remaining == e.length - (i - 1) * BlockSize
  <2>2. remaining \in Int
    BY <1>1, <2>1
  <2>3. BlockTokens(e, i) = IF remaining <= 0 THEN 1
                            ELSE IF remaining < BlockSize THEN remaining ELSE BlockSize
    BY DEF BlockTokens
  <2> HIDE DEF remaining
  <2>4. QED
    BY <1>1, <2>2, <2>3
<1>3. e.ids[i] \in Blocks
  BY <1>1 DEF Blocks
<1>4. \A t \in Nat \ {0} :
         (\E f \in Requests : \E j \in DOMAIN f.ids : f.ids[j] = e.ids[i] /\ t = BlockTokens(f, j))
             => t = BlockTokens(e, i)
  BY <1>1, TraceAssumption
<1>5. \E f \in Requests : \E j \in DOMAIN f.ids :
         f.ids[j] = e.ids[i] /\ BlockTokens(e, i) = BlockTokens(f, j)
  BY <1>1
<1>6. Size(e.ids[i]) = BlockTokens(e, i)
  BY <1>2, <1>4, <1>5 DEF Size
<1>7. QED
  BY <1>2, <1>3, <1>6

LEMMA SizeType == \A x \in Blocks : Size(x) \in Nat \ {0}
<1> SUFFICES ASSUME NEW x \in Blocks PROVE Size(x) \in Nat \ {0}
  OBVIOUS
<1>1. PICK e \in Requests : x \in {e.ids[i] : i \in DOMAIN e.ids}
  BY DEF Blocks
<1>2. PICK i \in DOMAIN e.ids : x = e.ids[i]
  BY <1>1
<1>3. i \in 1..Len(e.ids)
  BY SimAssumption
<1>4. QED
  BY <1>2, <1>3, SizeOf

(* The order holds the resident blocks, each once, and a block its tokens. *)
Once(o) == \A i, j \in 1..Len(o) : o[i] = o[j] => i = j
Elements(o) == {o[i] : i \in 1..Len(o)}

GoodSim(s) ==
    /\ s.order \in Seq(Blocks) /\ Once(s.order)
    /\ DOMAIN s.cache = Elements(s.order)
    /\ s.cache = [x \in DOMAIN s.cache |-> Size(x)]
    /\ s.hit \in Nat /\ s.miss \in Nat /\ s.evictions \in Nat

(* What is needed of a good simulator most often.                          *)
LEMMA GoodTokens ==
    ASSUME NEW s, GoodSim(s), NEW n, n = Len(s.order)
    PROVE  /\ n \in Nat /\ DOMAIN s.cache \subseteq Blocks /\ \A i \in 1..n : s.order[i] \in Blocks
           /\ \A x \in DOMAIN s.cache : s.cache[x] = Size(x) /\ Size(x) \in Nat \ {0}
           /\ TokensFrom(s, n + 1) = 0
           /\ \A i \in 1..n : /\ TokensFrom(s, i) = Size(s.order[i]) + TokensFrom(s, i + 1)
                              /\ Size(s.order[i]) \in Nat \ {0} /\ s.order[i] \in DOMAIN s.cache
           /\ \A i \in 1..n + 1 : TokensFrom(s, i) \in Nat
<1>1. n \in Nat /\ \A i \in 1..n : s.order[i] \in Blocks
  BY DEF GoodSim
<1>2. DOMAIN s.cache \subseteq Blocks /\ \A i \in 1..n : s.order[i] \in DOMAIN s.cache
  BY <1>1 DEF GoodSim, Elements
<1>3. \A x \in DOMAIN s.cache : s.cache[x] = Size(x) /\ Size(x) \in Nat \ {0}
  <2>1. \A x \in DOMAIN s.cache : s.cache[x] = Size(x)
    BY DEF GoodSim
  <2>2. QED
    BY <1>2, <2>1, SizeType
<1>4. \A i \in 1..n : s.cache[s.order[i]] \in Nat
  BY <1>2, <1>3
<1>5. /\ TokensFrom(s, n + 1) = 0
      /\ \A i \in 1..n : TokensFrom(s, i) = s.cache[s.order[i]] + TokensFrom(s, i + 1)
      /\ \A i \in 1..n + 1 : TokensFrom(s, i) \in Nat
  BY <1>1, <1>4, TailTokens
<1>6. QED
  BY <1>1, <1>2, <1>3, <1>5

-----------------------------------------------------------------------------
(* What an access does to the order: a hit under LRU moves the block from  *)
(* its place to the end, under FIFO nothing, and a miss adds it.           *)
Moved(o, k, q) ==
    LET n == Len(o)
    IN  /\ Len(q) = n /\ k \in 1..n /\ q[n] = o[k]
        /\ \A i \in 1..k - 1 : q[i] = o[i]
        /\ \A i \in k..n - 1 : q[i] = o[i + 1]

LEMMA TouchMoves ==
    ASSUME NEW s, GoodSim(s), NEW x \in DOMAIN s.cache
    PROVE  /\ Touched(s, x) \in Seq(Blocks)
           /\ \E k \in 1..Len(s.order) : s.order[k] = x /\ Moved(s.order, k, Touched(s, x))
<1> DEFINE n == Len(s.order)
           k == CHOOSE k \in 1..n : s.order[k] = x
           q == Touched(s, x)
<1>1. n \in Nat /\ \A i \in 1..n : s.order[i] \in Blocks
  BY GoodTokens
<1>2. k \in 1..n /\ s.order[k] = x
  BY DEF GoodSim, Elements
<1>3. q = [i \in 1..n |-> IF i < k THEN s.order[i] ELSE IF i < n THEN s.order[i + 1] ELSE x]
  BY DEF Touched
<1> HIDE DEF k, q
<1>4. \A i \in 1..n : q[i] \in Blocks
  <2>1. ASSUME NEW i \in 1..n PROVE q[i] \in Blocks
    <3>1. i < n => i + 1 \in 1..n
      BY <1>1
    <3>2. x \in Blocks
      BY <1>1, <1>2
    <3>3. QED
      BY <1>1, <1>3, <3>1, <3>2
  <2>2. QED
    BY <2>1
<1> HIDE DEF n
<1>5. q \in [1..n -> Blocks]
  BY <1>3, <1>4
<1>6. q \in Seq(Blocks)
  BY <1>1, <1>5, SeqDef
<1>7. Len(q) = n
  BY <1>1, <1>5, <1>6, LenProperties
<1>8. Moved(s.order, k, q)
  <2>1. q[n] = x /\ \A i \in 1..k - 1 : q[i] = s.order[i]
    BY <1>1, <1>2, <1>3
  <2>2. \A i \in k..n - 1 : q[i] = s.order[i + 1]
    BY <1>1, <1>2, <1>3
  <2>3. QED
    BY <1>2, <1>7, <2>1, <2>2 DEF Moved, n
<1>9. QED
  BY <1>2, <1>6, <1>8 DEF n, q

(* A moved block leaves the others in the order, each once.                *)
LEMMA MovedSame ==
    ASSUME NEW o, NEW k, NEW q, Moved(o, k, q), Len(o) \in Nat, Once(o)
    PROVE  Once(q) /\ Elements(q) = Elements(o)
<1> DEFINE n == Len(o)
           from(i) == IF i < k THEN i ELSE IF i < n THEN i + 1 ELSE k
           to(i) == IF i < k THEN i ELSE IF i = k THEN n ELSE i - 1
<1>1. n \in Nat /\ Len(q) = n /\ k \in 1..n
  BY DEF Moved
<1>2. \A i \in 1..n : from(i) \in 1..n /\ q[i] = o[from(i)]
  BY <1>1 DEF Moved
<1>3. \A i, j \in 1..n : from(i) = from(j) => i = j
  BY <1>1
<1>4. \A i \in 1..n : to(i) \in 1..n /\ from(to(i)) = i
  BY <1>1
<1> HIDE DEF n, from, to
<1>5. \A i, j \in 1..n : q[i] = q[j] => i = j
  BY <1>2, <1>3 DEF n, Once
<1>6. \A i \in 1..n : o[i] = q[to(i)]
  BY <1>2, <1>4
<1>7. {q[i] : i \in 1..n} = {o[i] : i \in 1..n}
  <2>1. \A i \in 1..n : q[i] \in {o[j] : j \in 1..n}
    BY <1>2
  <2>2. \A i \in 1..n : o[i] \in {q[j] : j \in 1..n}
    BY <1>4, <1>6
  <2>3. QED
    BY <2>1, <2>2
<1>8. QED
  BY <1>1, <1>5, <1>7 DEF n, Once, Elements

LEMMA HitIsGood ==
    ASSUME NEW s, GoodSim(s), NEW x \in DOMAIN s.cache, NEW p PROVE GoodSim(Hit(s, x, p))
<1> DEFINE t == Hit(s, x, p)
<1>1. /\ t.cache = s.cache /\ t.miss = s.miss /\ t.evictions = s.evictions
      /\ t.hit = s.hit + s.cache[x]
      /\ t.order = IF p = "lru" THEN Touched(s, x) ELSE s.order
  BY DEF Hit, Sim
<1> HIDE DEF t
<1>2. s.cache[x] \in Nat /\ Len(s.order) \in Nat
  BY GoodTokens
<1>3. t.hit \in Nat
  BY <1>1, <1>2 DEF GoodSim
<1>4. CASE p = "lru"
  <2>1. PICK k \in 1..Len(s.order) : Moved(s.order, k, t.order)
    BY <1>1, <1>4, TouchMoves
  <2>2. Once(t.order) /\ Elements(t.order) = Elements(s.order)
    BY <1>2, <2>1, MovedSame DEF GoodSim
  <2>3. t.order \in Seq(Blocks)
    BY <1>1, <1>4, TouchMoves
  <2>4. QED
    BY <1>1, <1>3, <2>2, <2>3 DEF GoodSim, t
<1>5. CASE p # "lru"
  BY <1>1, <1>3, <1>5 DEF GoodSim, t
<1>6. QED
  BY <1>4, <1>5

LEMMA MissIsGood ==
    ASSUME NEW s, GoodSim(s), NEW x \in Blocks, x \notin DOMAIN s.cache
    PROVE  GoodSim(Miss(s, x, Size(x)))
<1> DEFINE t == Miss(s, x, Size(x))
           n == Len(s.order)
<1>1. /\ t.cache = [y \in DOMAIN s.cache \cup {x} |-> IF y = x THEN Size(x) ELSE s.cache[y]]
      /\ t.order = Append(s.order, x) /\ t.hit = s.hit /\ t.miss = s.miss + Size(x)
      /\ t.evictions = s.evictions
  BY DEF Miss, Sim
<1> HIDE DEF t
<1>2. t.miss \in Nat /\ n \in Nat
  BY <1>1, SizeType, GoodTokens DEF GoodSim
<1>3. /\ t.order \in Seq(Blocks) /\ Len(t.order) = n + 1 /\ t.order[n + 1] = x
      /\ \A i \in 1..n : t.order[i] = s.order[i]
  BY <1>1 DEF GoodSim
<1> HIDE DEF n
<1>4. \A i \in 1..n : s.order[i] # x
  BY DEF GoodSim, Elements, n
<1>5. Once(t.order)
  <2>1. \A i, j \in 1..n : s.order[i] = s.order[j] => i = j
    BY DEF GoodSim, Once, n
  <2>2. \A i \in 1..Len(t.order) : i \in 1..n \/ i = n + 1
    BY <1>2, <1>3
  <2>3. QED
    BY <1>3, <1>4, <2>1, <2>2 DEF Once
<1>6. Elements(t.order) = Elements(s.order) \cup {x}
  <2>1. 1..Len(t.order) = (1..n) \cup {n + 1}
    BY <1>2, <1>3
  <2>2. QED
    BY <1>3, <2>1 DEF Elements, n
<1>7. DOMAIN t.cache = DOMAIN s.cache \cup {x}
  BY <1>1
<1>8. t.cache = [y \in DOMAIN t.cache |-> Size(y)]
  <2>1. \A y \in DOMAIN s.cache : s.cache[y] = Size(y)
    BY GoodTokens
  <2>2. QED
    BY <1>1, <1>7, <2>1
<1>9. DOMAIN s.cache = Elements(s.order)
  BY DEF GoodSim
<1>10. GoodSim(t)
  BY <1>1, <1>2, <1>3, <1>5, <1>6, <1>7, <1>8, <1>9 DEF GoodSim
<1>11. QED
  BY <1>10 DEF t

Total(s) == s.hit + s.miss

(* What the access to one block does.                                      *)
LEMMA StepFacts ==
    ASSUME NEW e \in Requests, NEW i \in 1..Len(e.ids), NEW s, GoodSim(s), NEW p,
           NEW x, x = e.ids[i], NEW t, t = Step(e, p, s, i)
    PROVE  /\ GoodSim(t) /\ x \in Blocks /\ Size(x) \in Nat
           /\ DOMAIN t.cache = DOMAIN s.cache \cup {x}
           /\ Total(t) = Total(s) + Size(x) /\ Total(s) \in Nat
           /\ s.hit \in Nat
           /\ t.hit = IF x \in DOMAIN s.cache THEN s.hit + Size(x) ELSE s.hit
           /\ x \in DOMAIN s.cache => t = Hit(s, x, p)
           /\ x \notin DOMAIN s.cache => t = Miss(s, x, Size(x))
<1>1. x \in Blocks /\ BlockTokens(e, i) = Size(x) /\ Size(x) \in Nat
  BY SizeOf
<1>2. s.hit \in Nat /\ s.miss \in Nat
  BY DEF GoodSim
<1>3. CASE x \in DOMAIN s.cache
  <2>1. t = Hit(s, x, p)
    BY <1>3 DEF Step, Access
  <2>2. t.cache = s.cache /\ t.hit = s.hit + s.cache[x] /\ t.miss = s.miss
    BY <2>1 DEF Hit, Sim
  <2>3. s.cache[x] = Size(x)
    BY <1>3, GoodTokens
  <2>4. t.hit + t.miss = s.hit + s.miss + Size(x) /\ t.hit = s.hit + Size(x)
    BY <1>1, <1>2, <2>2, <2>3
  <2>5. DOMAIN t.cache = DOMAIN s.cache \cup {x}
    BY <1>3, <2>2
  <2>6. GoodSim(t)
    BY <1>3, <2>1, HitIsGood
  <2>7. Total(t) = Total(s) + Size(x) /\ Total(s) \in Nat
    BY <1>2, <2>4 DEF Total
  <2>8. QED
    BY <1>1, <1>2, <1>3, <2>1, <2>4, <2>5, <2>6, <2>7
<1>4. CASE x \notin DOMAIN s.cache
  <2>1. t = Miss(s, x, Size(x))
    BY <1>1, <1>4 DEF Step, Access
  <2>2. /\ t.cache = [y \in DOMAIN s.cache \cup {x} |-> IF y = x THEN Size(x) ELSE s.cache[y]]
        /\ t.hit = s.hit /\ t.miss = s.miss + Size(x)
    BY <2>1 DEF Miss, Sim
  <2>3. t.hit + t.miss = s.hit + s.miss + Size(x) /\ t.hit = s.hit
    BY <1>1, <1>2, <2>2
  <2>4. DOMAIN t.cache = DOMAIN s.cache \cup {x}
    BY <2>2
  <2>5. GoodSim(t)
    BY <1>1, <1>4, <2>1, MissIsGood
  <2>6. Total(t) = Total(s) + Size(x) /\ Total(s) \in Nat
    BY <1>2, <2>3 DEF Total
  <2>7. QED
    BY <1>1, <1>2, <1>4, <2>1, <2>3, <2>4, <2>5, <2>6
<1>5. QED
  BY <1>3, <1>4

(* A cache that has what another one has hits no less, whatever the        *)
(* policies, block by block and so over the whole request.                 *)
Beside(s, t, u, v) ==
    /\ GoodSim(u) /\ GoodSim(v) /\ DOMAIN u.cache \subseteq DOMAIN v.cache
    /\ u.hit + t.hit <= v.hit + s.hit
    /\ Total(u) + Total(t) = Total(v) + Total(s)

LEMMA AccessedBeside ==
    ASSUME NEW e \in Requests, NEW s, NEW t, GoodSim(s), GoodSim(t),
           DOMAIN s.cache \subseteq DOMAIN t.cache, NEW p, NEW q
    PROVE  Beside(s, t, Accessed(s, e, p), Accessed(t, e, q))
<1> DEFINE n == Len(e.ids)
<1>1. PICK a : /\ a[0] = s /\ a[n] = Accessed(s, e, p)
               /\ \A i \in 1..n : a[i] = Step(e, p, a[i - 1], i)
  BY AccessedSteps
<1>2. PICK c : /\ c[0] = t /\ c[n] = Accessed(t, e, q)
               /\ \A i \in 1..n : c[i] = Step(e, q, c[i - 1], i)
  BY AccessedSteps
<1>3. n \in Nat /\ s.hit \in Nat /\ t.hit \in Nat /\ Total(s) \in Nat /\ Total(t) \in Nat
  BY AccessedSteps DEF GoodSim, Total
<1> DEFINE Bad == {i \in 0..n : ~Beside(s, t, a[i], c[i])}
<1>4. 0 \notin Bad
  <2>1. Beside(s, t, a[0], c[0])
    BY <1>1, <1>2, <1>3 DEF Beside
  <2>2. QED
    BY <2>1
<1>5. ASSUME NEW i \in 1..n, i - 1 \notin Bad PROVE i \notin Bad
  <2> DEFINE u == a[i - 1]
             v == c[i - 1]
             x == e.ids[i]
  <2>1. /\ GoodSim(u) /\ GoodSim(v) /\ DOMAIN u.cache \subseteq DOMAIN v.cache
        /\ u.hit + t.hit <= v.hit + s.hit /\ Total(u) + Total(t) = Total(v) + Total(s)
    BY <1>3, <1>5 DEF Beside
  <2>2. a[i] = Step(e, p, u, i) /\ c[i] = Step(e, q, v, i)
    BY <1>1, <1>2
  <2> HIDE DEF u, v
  <2>3. /\ GoodSim(a[i]) /\ Size(x) \in Nat /\ DOMAIN a[i].cache = DOMAIN u.cache \cup {x}
        /\ Total(a[i]) = Total(u) + Size(x) /\ Total(u) \in Nat /\ u.hit \in Nat
        /\ a[i].hit = IF x \in DOMAIN u.cache THEN u.hit + Size(x) ELSE u.hit
    BY <2>1, <2>2, StepFacts
  <2>4. /\ GoodSim(c[i]) /\ DOMAIN c[i].cache = DOMAIN v.cache \cup {x}
        /\ Total(c[i]) = Total(v) + Size(x) /\ Total(v) \in Nat /\ v.hit \in Nat
        /\ c[i].hit = IF x \in DOMAIN v.cache THEN v.hit + Size(x) ELSE v.hit
    BY <2>1, <2>2, StepFacts
  <2>5. a[i].hit + t.hit <= c[i].hit + s.hit
    <3>1. \A g, h, k, l, z \in Nat :
             g + h <= k + l => g + h <= k + z + l /\ g + z + h <= k + z + l
      OBVIOUS
    <3>2. /\ u.hit + t.hit <= v.hit + Size(x) + s.hit
          /\ u.hit + Size(x) + t.hit <= v.hit + Size(x) + s.hit
      BY <1>3, <2>1, <2>3, <2>4, <3>1
    <3>3. CASE x \in DOMAIN u.cache
      <4>1. a[i].hit = u.hit + Size(x) /\ c[i].hit = v.hit + Size(x)
        BY <2>1, <2>3, <2>4, <3>3
      <4>2. QED
        BY <3>2, <4>1
    <3>4. CASE x \notin DOMAIN u.cache
      <4>1. a[i].hit = u.hit /\ (c[i].hit = v.hit + Size(x) \/ c[i].hit = v.hit)
        BY <2>3, <2>4, <3>4
      <4>2. QED
        BY <2>1, <3>2, <4>1
    <3>5. QED
      BY <3>3, <3>4
  <2>6. Total(a[i]) + Total(t) = Total(c[i]) + Total(s)
    <3>1. \A g, h, k, l, z \in Nat : g + h = k + l => g + z + h = k + z + l
      OBVIOUS
    <3>2. /\ Total(u) \in Nat /\ Total(v) \in Nat /\ Total(s) \in Nat /\ Total(t) \in Nat
          /\ Size(x) \in Nat /\ Total(u) + Total(t) = Total(v) + Total(s)
      BY <1>3, <2>1, <2>3, <2>4
    <3>3. Total(u) + Size(x) + Total(t) = Total(v) + Size(x) + Total(s)
      BY <3>1, <3>2
    <3>4. QED
      BY <2>3, <2>4, <3>3
  <2>7. DOMAIN a[i].cache \subseteq DOMAIN c[i].cache
    BY <2>1, <2>3, <2>4
  <2>8. Beside(s, t, a[i], c[i])
    BY <2>3, <2>4, <2>5, <2>6, <2>7 DEF Beside
  <2>9. QED
    BY <2>8
<1>6. Bad \in SUBSET (0..n)
  OBVIOUS
<1>7. Bad = {}
  <2> HIDE DEF Bad
  <2>1. QED
    BY <1>3, <1>4, <1>5, <1>6, NeverBad
<1>8. QED
  BY <1>1, <1>2, <1>3, <1>7

-----------------------------------------------------------------------------
(* Eviction takes the fewest blocks from the head of the order.            *)
LEMMA Evicts ==
    ASSUME NEW s, GoodSim(s), NEW b \in Nat, NEW t, t = EnsureBudget(s, b)
    PROVE  \E n \in 0..Len(s.order) :
              /\ TokensFrom(s, n + 1) <= b /\ \A m \in 0..n - 1 : TokensFrom(s, m + 1) > b
              /\ t = EvictFirst(s, n)
<1> DEFINE N == Len(s.order)
           S == {n \in 0..N : TokensFrom(s, n + 1) <= b}
           Fewest(n) == /\ TokensFrom(s, n + 1) <= b
                        /\ \A m \in 0..n - 1 : TokensFrom(s, m + 1) > b
<1>1. N \in Nat /\ TokensFrom(s, N + 1) = 0 /\ \A i \in 1..N + 1 : TokensFrom(s, i) \in Nat
  BY GoodTokens
<1> HIDE DEF N
<1>2. PICK n \in S : \A i \in S : n <= i
  <2>1. N \in S /\ S \in SUBSET Nat
    BY <1>1
  <2> HIDE DEF S
  <2>2. QED
    BY <2>1, Least
<1>3. n \in 0..N /\ Fewest(n)
  <2>1. ASSUME NEW m \in 0..n - 1 PROVE TokensFrom(s, m + 1) > b
    <3>1. m \in 0..N /\ m \notin S /\ TokensFrom(s, m + 1) \in Nat
      BY <1>1, <1>2
    <3>2. QED
      BY <3>1
  <2>2. QED
    BY <1>2, <2>1
<1>4. EnsureBudget(s, b) = EvictFirst(s, CHOOSE k \in 0..N : Fewest(k))
  BY DEF EnsureBudget, N
<1> HIDE DEF Fewest
<1>5. QED
  BY <1>3, <1>4 DEF Fewest, N

(* What eviction leaves: the rest of the order.                            *)
Rest(o, k, q) == Len(q) = Len(o) - k /\ \A i \in 1..Len(o) - k : q[i] = o[k + i]

LEMMA EvictedFacts ==
    ASSUME NEW s, GoodSim(s), NEW n \in 0..Len(s.order), NEW t, t = EvictFirst(s, n)
    PROVE  /\ GoodSim(t) /\ t.hit = s.hit /\ t.miss = s.miss
           /\ DOMAIN t.cache \subseteq DOMAIN s.cache
           /\ Rest(s.order, n, t.order)
<1> DEFINE N == Len(s.order)
           gone == {s.order[i] : i \in 1..n}
<1>1. /\ t.cache = [x \in DOMAIN s.cache \ gone |-> s.cache[x]]
      /\ t.order = SubSeq(s.order, n + 1, N) /\ t.hit = s.hit /\ t.miss = s.miss
      /\ t.evictions = s.evictions + n
  BY DEF EvictFirst, Sim
<1>2. N \in Nat /\ \A i \in 1..N : s.order[i] \in Blocks
  BY GoodTokens
<1> HIDE DEF N
<1>3. /\ t.order \in Seq(Blocks) /\ Len(t.order) = N - n
      /\ \A i \in 1..N - n : t.order[i] = s.order[n + i]
  <2>1. n + 1 \in Int /\ N \in Int /\ \A i \in n + 1..N : s.order[i] \in Blocks
    BY <1>2 DEF N
  <2> DEFINE q == SubSeq(s.order, n + 1, N)
  <2>2. /\ q \in Seq(Blocks) /\ Len(q) = IF n + 1 <= N THEN N - (n + 1) + 1 ELSE 0
        /\ \A i \in 1..N - (n + 1) + 1 : q[i] = s.order[n + 1 + i - 1]
    BY <2>1, SubSeqProperties
  <2> HIDE DEF q
  <2>3. Len(q) = N - n /\ \A i \in 1..N - n : q[i] = s.order[n + i]
    BY <1>2, <2>2 DEF N
  <2>4. QED
    BY <1>1, <2>2, <2>3 DEF q
<1>4. \A i, j \in 1..N : s.order[i] = s.order[j] => i = j
  BY DEF GoodSim, Once, N
<1>5. Once(t.order)
  <2>1. ASSUME NEW i \in 1..N - n, NEW j \in 1..N - n, t.order[i] = t.order[j] PROVE i = j
    <3>1. n + i \in 1..N /\ n + j \in 1..N
      BY <1>2 DEF N
    <3>2. n + i = n + j
      BY <1>3, <1>4, <2>1, <3>1
    <3>3. QED
      BY <3>2
  <2>2. QED
    BY <1>3, <2>1 DEF Once
<1>6. DOMAIN t.cache = Elements(t.order)
  <2>1. DOMAIN s.cache = {s.order[i] : i \in 1..N}
    BY DEF GoodSim, Elements, N
  <2>2. \A i \in 1..N : s.order[i] \in gone <=> i <= n
    BY <1>2, <1>4 DEF N
  <2>3. ASSUME NEW x \in DOMAIN t.cache PROVE x \in Elements(t.order)
    <3>1. x \in DOMAIN s.cache /\ x \notin gone
      BY <1>1
    <3>2. PICK i \in 1..N : x = s.order[i]
      BY <2>1, <3>1
    <3>3. ~(i <= n)
      BY <2>2, <3>1, <3>2
    <3>4. i - n \in 1..N - n /\ n + (i - n) = i
      BY <1>2, <3>3 DEF N
    <3>5. t.order[i - n] = x
      BY <1>3, <3>2, <3>4
    <3>6. QED
      BY <1>3, <3>4, <3>5 DEF Elements
  <2>4. ASSUME NEW x \in Elements(t.order) PROVE x \in DOMAIN t.cache
    <3>1. PICK i \in 1..N - n : x = t.order[i]
      BY <1>3 DEF Elements
    <3>2. n + i \in 1..N /\ ~(n + i <= n) /\ x = s.order[n + i]
      BY <1>2, <1>3, <3>1 DEF N
    <3>3. x \in DOMAIN s.cache /\ x \notin gone
      BY <2>1, <2>2, <3>2
    <3>4. QED
      BY <1>1, <3>3
  <2>5. QED
    BY <2>3, <2>4
<1>7. t.cache = [x \in DOMAIN t.cache |-> Size(x)]
  <2>1. \A x \in DOMAIN s.cache : s.cache[x] = Size(x)
    BY GoodTokens
  <2>2. QED
    BY <1>1, <2>1
<1>8. t.hit \in Nat /\ t.miss \in Nat /\ t.evictions \in Nat
  BY <1>1, <1>2 DEF GoodSim
<1>9. GoodSim(t)
  BY <1>3, <1>5, <1>6, <1>7, <1>8 DEF GoodSim
<1>10. QED
  BY <1>1, <1>3, <1>9 DEF Rest, N

-----------------------------------------------------------------------------
(* Tokens from a position on: fewer the later it is.                       *)
LEMMA TokensFall ==
    ASSUME NEW s, GoodSim(s), NEW i \in 1..Len(s.order) + 1, NEW j \in i..Len(s.order) + 1
    PROVE  TokensFrom(s, j) <= TokensFrom(s, i)
<1> DEFINE n == Len(s.order)
           Bad == {l \in 1..j : ~(TokensFrom(s, j) <= TokensFrom(s, l))}
<1>1. /\ n \in Nat /\ \A l \in 1..n + 1 : TokensFrom(s, l) \in Nat
      /\ \A l \in 1..n : /\ TokensFrom(s, l) = Size(s.order[l]) + TokensFrom(s, l + 1)
                         /\ Size(s.order[l]) \in Nat
  BY GoodTokens
<1> HIDE DEF n
<1>2. i \in 1..n + 1 /\ j \in i..n + 1
  BY DEF n
<1>3. j \notin Bad
  BY <1>1, <1>2
<1>4. ASSUME NEW l \in 1..j - 1, l + 1 \notin Bad PROVE l \notin Bad
  <2>1. l \in 1..n /\ l + 1 \in 1..n + 1 /\ l + 1 \in 1..j
    BY <1>1, <1>2
  <2>2. TokensFrom(s, j) <= TokensFrom(s, l + 1)
    BY <1>4, <2>1
  <2>3. /\ TokensFrom(s, l) = Size(s.order[l]) + TokensFrom(s, l + 1)
        /\ Size(s.order[l]) \in Nat /\ TokensFrom(s, l + 1) \in Nat
        /\ TokensFrom(s, j) \in Nat
    BY <1>1, <1>2, <2>1
  <2>4. TokensFrom(s, j) <= TokensFrom(s, l)
    BY <2>2, <2>3
  <2>5. QED
    BY <2>4
<1>5. 1 \in Nat /\ j \in Nat /\ Bad \in SUBSET (1..j)
  BY <1>1, <1>2
<1>6. Bad = {}
  <2> HIDE DEF Bad
  <2>1. QED
    BY <1>3, <1>4, <1>5, NeverBadDown
<1>7. i \in 1..j
  BY <1>1, <1>2
<1>8. QED
  BY <1>6, <1>7

(* A block that is moved counts behind its old place, and all the same     *)
(* from there on back.                                                     *)
LEMMA MovedTokens ==
    ASSUME NEW c, NEW d, GoodSim(c), GoodSim(d), NEW k, Moved(c.order, k, d.order),
           NEW n, n = Len(c.order)
    PROVE  /\ \A j \in k..n : TokensFrom(d, j) = TokensFrom(c, j + 1) + Size(c.order[k])
           /\ \A j \in 1..k : TokensFrom(d, j) = TokensFrom(c, j)
<1>1. /\ n \in Nat /\ \A l \in 1..n + 1 : TokensFrom(c, l) \in Nat
      /\ \A l \in 1..n : /\ TokensFrom(c, l) = Size(c.order[l]) + TokensFrom(c, l + 1)
                         /\ Size(c.order[l]) \in Nat
      /\ TokensFrom(c, n + 1) = 0
  BY GoodTokens
<1>2. /\ Len(d.order) = n /\ k \in 1..n /\ d.order[n] = c.order[k]
      /\ \A i \in 1..k - 1 : d.order[i] = c.order[i]
      /\ \A i \in k..n - 1 : d.order[i] = c.order[i + 1]
  BY DEF Moved
<1>3. /\ \A l \in 1..n : TokensFrom(d, l) = Size(d.order[l]) + TokensFrom(d, l + 1)
      /\ TokensFrom(d, n + 1) = 0
  BY <1>2, GoodTokens
<1> DEFINE z == Size(c.order[k])
<1>4. z \in Nat
  BY <1>1, <1>2
<1> HIDE DEF z
<1> DEFINE Bad == {j \in k..n : TokensFrom(d, j) # TokensFrom(c, j + 1) + z}
           Wrong == {j \in 1..k : TokensFrom(d, j) # TokensFrom(c, j)}
<1>5. Bad = {}
  <2>1. n \notin Bad
    <3>1. TokensFrom(d, n) = z + 0
      BY <1>1, <1>2, <1>3 DEF z
    <3>2. QED
      BY <1>1, <1>4, <3>1
  <2>2. ASSUME NEW j \in k..n - 1, j + 1 \notin Bad PROVE j \notin Bad
    <3>1. j \in 1..n /\ j + 1 \in 1..n /\ j + 1 \in k..n
      BY <1>1, <1>2
    <3>2. TokensFrom(d, j + 1) = TokensFrom(c, j + 1 + 1) + z
      BY <2>2, <3>1
    <3>3. TokensFrom(d, j) = Size(c.order[j + 1]) + TokensFrom(d, j + 1)
      BY <1>2, <1>3, <3>1
    <3>4. /\ TokensFrom(c, j + 1) = Size(c.order[j + 1]) + TokensFrom(c, j + 1 + 1)
          /\ Size(c.order[j + 1]) \in Nat
      BY <1>1, <3>1
    <3>5. TokensFrom(c, j + 1 + 1) \in Nat
      BY <1>1, <3>1
    <3>6. TokensFrom(d, j) = TokensFrom(c, j + 1) + z
      BY <1>4, <3>2, <3>3, <3>4, <3>5
    <3>7. QED
      BY <3>6
  <2>3. k \in Nat /\ Bad \in SUBSET (k..n)
    BY <1>1, <1>2
  <2> HIDE DEF Bad
  <2>4. QED
    BY <1>1, <2>1, <2>2, <2>3, NeverBadDown
<1>6. \A j \in k..n : TokensFrom(d, j) = TokensFrom(c, j + 1) + z
  BY <1>5
<1>7. Wrong = {}
  <2>1. k \notin Wrong
    <3>1. k \in k..n /\ k + 1 \in 1..n + 1
      BY <1>1, <1>2
    <3>2. TokensFrom(c, k + 1) \in Nat
      BY <1>1, <3>1
    <3>3. TokensFrom(d, k) = TokensFrom(c, k + 1) + z
      BY <1>6, <3>1
    <3>4. TokensFrom(c, k) = z + TokensFrom(c, k + 1)
      BY <1>1, <1>2 DEF z
    <3>5. QED
      BY <1>4, <3>2, <3>3, <3>4
  <2>2. ASSUME NEW j \in 1..k - 1, j + 1 \notin Wrong PROVE j \notin Wrong
    <3>1. j \in 1..n /\ j + 1 \in 1..k
      BY <1>1, <1>2
    <3>2. TokensFrom(d, j + 1) = TokensFrom(c, j + 1)
      BY <2>2, <3>1
    <3>3. TokensFrom(d, j) = TokensFrom(c, j)
      BY <1>1, <1>2, <1>3, <3>1, <3>2
    <3>4. QED
      BY <3>3
  <2>3. 1 \in Nat /\ k \in Nat /\ Wrong \in SUBSET (1..k)
    BY <1>1, <1>2
  <2> HIDE DEF Wrong
  <2>4. QED
    BY <2>1, <2>2, <2>3, NeverBadDown
<1>8. QED
  BY <1>6, <1>7 DEF z

(* A block that is added counts from every position on.                    *)
LEMMA AddedTokens ==
    ASSUME NEW c, NEW d, GoodSim(c), GoodSim(d), NEW x, d.order = Append(c.order, x),
           NEW n, n = Len(c.order)
    PROVE  \A j \in 1..n + 1 : TokensFrom(d, j) = TokensFrom(c, j) + Size(x)
<1> DEFINE m == n + 1
<1>1. /\ n \in Nat /\ \A l \in 1..n + 1 : TokensFrom(c, l) \in Nat
      /\ \A l \in 1..n : /\ TokensFrom(c, l) = Size(c.order[l]) + TokensFrom(c, l + 1)
                         /\ Size(c.order[l]) \in Nat
      /\ TokensFrom(c, n + 1) = 0
  BY GoodTokens
<1>2. /\ Len(d.order) = m /\ d.order[m] = x
      /\ \A i \in 1..n : d.order[i] = c.order[i]
  BY DEF GoodSim
<1>3. m \in Nat /\ m \in 1..m /\ 1 \in Nat
  BY <1>1
<1>4. \A l \in 1..m - 1 : l \in 1..n /\ l \in 1..m /\ l + 1 \in 1..m
  BY <1>1
<1>5. /\ \A l \in 1..m : TokensFrom(c, l) \in Nat
      /\ TokensFrom(c, m) = 0
  BY <1>1
<1> HIDE DEF m
<1>6. /\ \A l \in 1..m : /\ TokensFrom(d, l) = Size(d.order[l]) + TokensFrom(d, l + 1)
                         /\ Size(d.order[l]) \in Nat
      /\ TokensFrom(d, m + 1) = 0
  BY <1>2, GoodTokens
<1>7. Size(x) \in Nat
  BY <1>2, <1>3, <1>6
<1> DEFINE Bad == {j \in 1..m : TokensFrom(d, j) # TokensFrom(c, j) + Size(x)}
<1>8. m \notin Bad
  <2>1. TokensFrom(d, m) = Size(x) + 0
    BY <1>2, <1>3, <1>6
  <2>2. QED
    BY <1>5, <1>7, <2>1
<1>9. ASSUME NEW j \in 1..m - 1, j + 1 \notin Bad PROVE j \notin Bad
  <2>1. j \in 1..n /\ j \in 1..m /\ j + 1 \in 1..m
    BY <1>4
  <2>2. TokensFrom(d, j + 1) = TokensFrom(c, j + 1) + Size(x)
    BY <1>9, <2>1
  <2>3. TokensFrom(d, j) = Size(c.order[j]) + TokensFrom(d, j + 1)
    BY <1>2, <1>6, <2>1
  <2>4. /\ TokensFrom(c, j) = Size(c.order[j]) + TokensFrom(c, j + 1)
        /\ Size(c.order[j]) \in Nat /\ TokensFrom(c, j + 1) \in Nat
    BY <1>1, <1>5, <2>1
  <2>5. TokensFrom(d, j) = TokensFrom(c, j) + Size(x)
    BY <1>7, <2>2, <2>3, <2>4
  <2>6. QED
    BY <2>5
<1>10. Bad \in SUBSET (1..m)
  OBVIOUS
<1>11. Bad = {}
  <2> HIDE DEF Bad
  <2>1. QED
    BY <1>3, <1>8, <1>9, <1>10, NeverBadDown
<1>12. QED
  BY <1>11 DEF m

-----------------------------------------------------------------------------
(* Under LRU the order of a cache is a suffix of that of a larger one.     *)
Suffix(o, q) ==
    Len(o) <= Len(q) /\ \A i \in 1..Len(o) : o[i] = q[Len(q) - Len(o) + i]

(* A block is added at the end of the order.                               *)
Added(o, x, u) ==
    Len(u) = Len(o) + 1 /\ u[Len(o) + 1] = x /\ \A i \in 1..Len(o) : u[i] = o[i]

(* A suffix has the tokens of its positions in the whole order.            *)
SameTail(s, c, n, k) == \A j \in 1..n + 1 : TokensFrom(s, j) = TokensFrom(c, k + j)

LEMMA SuffixTokens ==
    ASSUME NEW s, NEW c, GoodSim(s), GoodSim(c), Suffix(s.order, c.order),
           NEW n, n = Len(s.order), NEW k \in Nat, Len(c.order) = k + n
    PROVE  SameTail(s, c, n, k)
<1> DEFINE m == n + 1
           N == Len(c.order)
<1>1. /\ n \in Nat /\ TokensFrom(s, m) = 0
      /\ \A l \in 1..n : TokensFrom(s, l) = Size(s.order[l]) + TokensFrom(s, l + 1)
  BY GoodTokens
<1>2. /\ N \in Nat /\ TokensFrom(c, N + 1) = 0
      /\ \A l \in 1..N : TokensFrom(c, l) = Size(c.order[l]) + TokensFrom(c, l + 1)
  BY GoodTokens
<1>3. n <= N /\ k = N - n /\ \A i \in 1..n : s.order[i] = c.order[k + i]
  <2>1. N = k + n
    OBVIOUS
  <2>2. n <= N /\ k = N - n
    BY <1>1, <1>2, <2>1
  <2>3. \A i \in 1..n : s.order[i] = c.order[N - n + i]
    BY DEF Suffix
  <2>4. QED
    BY <2>2, <2>3
<1> HIDE DEF N
<1>4. k \in Nat /\ m \in Nat /\ 1 \in Nat /\ k + m = N + 1 /\ m \in 1..m
  <2>1. n \in Nat /\ N \in Nat /\ n <= N /\ k = N - n
    BY <1>1, <1>2, <1>3
  <2>2. \A a, z \in Nat : a <= z => z - a \in Nat /\ z - a + (a + 1) = z + 1
    OBVIOUS
  <2>3. k \in Nat /\ k + m = N + 1
    BY <2>1, <2>2
  <2>4. m \in Nat /\ m \in 1..m /\ 1 \in Nat
    BY <2>1
  <2>5. QED
    BY <2>3, <2>4
<1>5. \A l \in 1..m - 1 : l \in 1..n /\ k + l \in 1..N /\ k + (l + 1) = k + l + 1
                          /\ l + 1 \in 1..m
  <2>1. n \in Nat /\ N \in Nat /\ n <= N /\ k = N - n
    BY <1>1, <1>2, <1>3
  <2>2. \A a, z \in Nat : a <= z => \A l \in 1..a + 1 - 1 : z - a + l \in 1..z
    OBVIOUS
  <2>3. \A l \in 1..m - 1 : k + l \in 1..N
    BY <2>1, <2>2
  <2>4. \A l \in 1..m - 1 : l \in 1..n /\ l + 1 \in 1..m
    BY <2>1
  <2>5. \A a, l \in Nat : a + (l + 1) = a + l + 1
    OBVIOUS
  <2>6. ASSUME NEW l \in 1..m - 1 PROVE k + (l + 1) = k + l + 1
    <3>1. k \in Nat /\ l \in Nat
      BY <1>4
    <3>2. QED
      BY <2>5, <3>1
  <2>7. QED
    BY <2>3, <2>4, <2>6
<1> HIDE DEF m
<1> DEFINE Bad == {j \in 1..m : TokensFrom(s, j) # TokensFrom(c, k + j)}
<1>6. m \notin Bad
  BY <1>1, <1>2, <1>4
<1>7. ASSUME NEW j \in 1..m - 1, j + 1 \notin Bad PROVE j \notin Bad
  <2>1. j \in 1..n /\ k + j \in 1..N /\ k + (j + 1) = k + j + 1 /\ j + 1 \in 1..m
    BY <1>5
  <2>2. TokensFrom(s, j + 1) = TokensFrom(c, k + j + 1)
    BY <1>7, <2>1
  <2>3. TokensFrom(s, j) = Size(s.order[j]) + TokensFrom(s, j + 1)
    BY <1>1, <2>1
  <2>4. TokensFrom(c, k + j) = Size(c.order[k + j]) + TokensFrom(c, k + j + 1)
    BY <1>2, <2>1
  <2>5. s.order[j] = c.order[k + j]
    BY <1>3, <2>1
  <2>6. QED
    BY <2>2, <2>3, <2>4, <2>5
<1>8. Bad \in SUBSET (1..m)
  OBVIOUS
<1>9. Bad = {}
  <2> HIDE DEF Bad
  <2>1. QED
    BY <1>4, <1>6, <1>7, <1>8, NeverBadDown
<1>10. QED
  BY <1>9 DEF m, SameTail

(* The access to a block keeps the suffix: it is added to both orders,     *)
(* moved in both, or added to the one and moved in the other.              *)
LEMMA AddedTogether ==
    ASSUME NEW o, NEW q, Len(o) \in Nat, Len(q) \in Nat, Suffix(o, q),
           NEW x, NEW u, NEW v, Added(o, x, u), Added(q, x, v)
    PROVE  Suffix(u, v)
<1> DEFINE m == Len(o)
           n == Len(q)
<1>1. m <= n /\ \A i \in 1..m : o[i] = q[n - m + i]
  BY DEF Suffix
<1>2. Len(u) = m + 1 /\ u[m + 1] = x /\ \A i \in 1..m : u[i] = o[i]
  BY DEF Added
<1>3. Len(v) = n + 1 /\ v[n + 1] = x /\ \A i \in 1..n : v[i] = q[i]
  BY DEF Added
<1>4. m \in Nat /\ n \in Nat
  OBVIOUS
<1> HIDE DEF m, n
<1>5. ASSUME NEW i \in 1..m + 1 PROVE u[i] = v[n - m + i]
  <2>1. CASE i \in 1..m
    <3>1. n - m + i \in 1..n
      BY <1>1, <1>4, <2>1
    <3>2. QED
      BY <1>1, <1>2, <1>3, <2>1, <3>1
  <2>2. CASE i = m + 1
    <3>1. n - m + i = n + 1
      BY <1>4, <2>2
    <3>2. QED
      BY <1>2, <1>3, <2>2, <3>1
  <2>3. QED
    BY <1>4, <2>1, <2>2
<1>6. Len(u) <= Len(v) /\ Len(v) - Len(u) = n - m
  BY <1>1, <1>2, <1>3, <1>4
<1>7. QED
  BY <1>2, <1>5, <1>6 DEF Suffix, m, n

LEMMA MovedTogether ==
    ASSUME NEW o, NEW q, Len(o) \in Nat, Len(q) \in Nat, Suffix(o, q),
           NEW k \in Nat, NEW u, NEW v, Moved(o, k, u), Moved(q, Len(q) - Len(o) + k, v)
    PROVE  Suffix(u, v)
<1> DEFINE m == Len(o)
           n == Len(q)
           l == n - m + k
<1>1. m <= n /\ \A i \in 1..m : o[i] = q[n - m + i]
  BY DEF Suffix
<1>2. /\ Len(u) = m /\ k \in 1..m /\ u[m] = o[k]
      /\ \A i \in 1..k - 1 : u[i] = o[i]
      /\ \A i \in k..m - 1 : u[i] = o[i + 1]
  BY DEF Moved
<1>3. /\ Len(v) = n /\ v[n] = q[l]
      /\ \A i \in 1..l - 1 : v[i] = q[i]
      /\ \A i \in l..n - 1 : v[i] = q[i + 1]
  BY DEF Moved
<1>4. m \in Nat /\ n \in Nat /\ l = n - m + k
  OBVIOUS
<1> HIDE DEF m, n, l
<1>5. ASSUME NEW i \in 1..m PROVE u[i] = v[n - m + i]
  <2>1. CASE i \in 1..k - 1
    <3>1. n - m + i \in 1..l - 1
      BY <1>1, <1>2, <1>4, <2>1
    <3>2. QED
      BY <1>1, <1>2, <1>3, <2>1, <3>1
  <2>2. CASE i \in k..m - 1
    <3>1. n - m + i \in l..n - 1 /\ i + 1 \in 1..m /\ n - m + i + 1 = n - m + (i + 1)
      BY <1>1, <1>2, <1>4, <2>2
    <3>2. u[i] = o[i + 1] /\ v[n - m + i] = q[n - m + (i + 1)]
      BY <1>2, <1>3, <2>2, <3>1
    <3>3. QED
      BY <1>1, <3>1, <3>2
  <2>3. CASE i = m
    <3>1. n - m + i = n
      BY <1>4, <2>3
    <3>2. QED
      BY <1>1, <1>2, <1>3, <1>4, <2>3, <3>1
  <2>4. QED
    BY <1>2, <1>4, <2>1, <2>2, <2>3
<1>6. QED
  BY <1>1, <1>2, <1>3, <1>5 DEF Suffix, m, n

LEMMA AddedMoved ==
    ASSUME NEW o, NEW q, Len(o) \in Nat, Len(q) \in Nat, Suffix(o, q),
           NEW k \in Nat, k <= Len(q) - Len(o),
           NEW u, NEW v, Added(o, q[k], u), Moved(q, k, v)
    PROVE  Suffix(u, v)
<1> DEFINE m == Len(o)
           n == Len(q)
<1>1. m <= n /\ \A i \in 1..m : o[i] = q[n - m + i]
  BY DEF Suffix
<1>2. Len(u) = m + 1 /\ u[m + 1] = q[k] /\ \A i \in 1..m : u[i] = o[i]
  BY DEF Added
<1>3. /\ Len(v) = n /\ k \in 1..n /\ v[n] = q[k]
      /\ \A i \in k..n - 1 : v[i] = q[i + 1]
  BY DEF Moved
<1>4. m \in Nat /\ n \in Nat /\ k <= n - m
  OBVIOUS
<1> HIDE DEF m, n
<1>5. ASSUME NEW i \in 1..m + 1 PROVE u[i] = v[n - (m + 1) + i]
  <2>1. CASE i \in 1..m
    <3>1. n - (m + 1) + i \in k..n - 1 /\ n - (m + 1) + i + 1 = n - m + i
      BY <1>3, <1>4, <2>1
    <3>2. QED
      BY <1>1, <1>2, <1>3, <2>1, <3>1
  <2>2. CASE i = m + 1
    <3>1. n - (m + 1) + i = n
      BY <1>4, <2>2
    <3>2. QED
      BY <1>2, <1>3, <2>2, <3>1
  <2>3. QED
    BY <1>4, <2>1, <2>2
<1>6. m + 1 <= n /\ n - (m + 1) = n - m - 1
  BY <1>3, <1>4
<1>7. QED
  BY <1>2, <1>3, <1>5, <1>6 DEF Suffix, m, n

(* What the access to one block does to the order under LRU.               *)
LEMMA StepOrder ==
    ASSUME NEW e \in Requests, NEW i \in 1..Len(e.ids), NEW s, GoodSim(s),
           NEW x, x = e.ids[i], NEW t, t = Step(e, "lru", s, i)
    PROVE  /\ x \in DOMAIN s.cache =>
                  \E k \in 1..Len(s.order) : s.order[k] = x /\ Moved(s.order, k, t.order)
           /\ x \notin DOMAIN s.cache =>
                  t.order = Append(s.order, x) /\ Added(s.order, x, t.order)
<1>1. x \in Blocks /\ GoodSim(t)
  BY StepFacts
<1>2. CASE x \in DOMAIN s.cache
  <2>1. t = Hit(s, x, "lru")
    BY <1>2, StepFacts
  <2>2. t.order = Touched(s, x)
    BY <2>1 DEF Hit, Sim
  <2>3. QED
    BY <1>2, <2>2, TouchMoves
<1>3. CASE x \notin DOMAIN s.cache
  <2>1. t = Miss(s, x, Size(x))
    BY <1>3, StepFacts
  <2>2. t.order = Append(s.order, x)
    BY <2>1 DEF Miss, Sim
  <2>3. s.order \in Seq(Blocks)
    BY DEF GoodSim
  <2>4. Added(s.order, x, t.order)
    BY <1>1, <2>2, <2>3 DEF Added
  <2>5. QED
    BY <1>3, <2>2, <2>4
<1>4. QED
  BY <1>2, <1>3

(* A cache is the longest suffix of another one that fits its budget:      *)
(* with one block more it would not fit.                                   *)
Tight(s, c, b) ==
    LET kept == Len(c.order) - Len(s.order) IN kept > 0 => TokensFrom(c, kept) > b

Longest(s, c, b) ==
    GoodSim(s) /\ GoodSim(c) /\ Suffix(s.order, c.order) /\ Tight(s, c, b)

(* The access to a block leaves it so.                                     *)
LEMMA StepLongest ==
    ASSUME NEW e \in Requests, NEW i \in 1..Len(e.ids), NEW b \in Nat,
           NEW s, NEW c, Longest(s, c, b),
           NEW u, u = Step(e, "lru", s, i), NEW v, v = Step(e, "lru", c, i)
    PROVE  Longest(u, v, b)
<1> DEFINE x == e.ids[i]
           m == Len(s.order)
           n == Len(c.order)
           kept == n - m
<1>1. GoodSim(s) /\ GoodSim(c) /\ Suffix(s.order, c.order)
  BY DEF Longest
<1>2. kept > 0 => TokensFrom(c, kept) > b
  BY DEF Longest, Tight
<1>3. GoodSim(u) /\ GoodSim(v) /\ Size(x) \in Nat
  BY <1>1, StepFacts
<1>4. m \in Nat /\ n \in Nat
  BY <1>1, GoodTokens
<1>5. m <= n /\ \A j \in 1..m : s.order[j] = c.order[kept + j]
  BY <1>1 DEF Suffix
<1>6. kept = n - m
  OBVIOUS
<1> HIDE DEF kept, m, n
<1>7. kept \in Nat
  BY <1>4, <1>5, <1>6
<1>8. \A j \in 1..n + 1 : TokensFrom(c, j) \in Nat
  BY <1>1, GoodTokens DEF n
<1>9. Once(c.order) /\ DOMAIN c.cache = Elements(c.order) /\ DOMAIN s.cache = Elements(s.order)
  BY <1>1 DEF GoodSim
<1>10. \A j \in 1..m : kept + j \in 1..n
  <2>1. \A g, h \in Nat : g <= h => \A j \in 1..g : h - g + j \in 1..h
    OBVIOUS
  <2>2. QED
    BY <1>4, <1>5, <1>6, <2>1
<1> HIDE DEF x
<1>11. x \in DOMAIN s.cache => \E k \in 1..m : s.order[k] = x /\ Moved(s.order, k, u.order)
  BY <1>1, StepOrder DEF x, m
<1>12. x \notin DOMAIN s.cache => u.order = Append(s.order, x) /\ Added(s.order, x, u.order)
  BY <1>1, StepOrder DEF x
<1>13. x \in DOMAIN c.cache => \E k \in 1..n : c.order[k] = x /\ Moved(c.order, k, v.order)
  BY <1>1, StepOrder DEF x, n
<1>14. x \notin DOMAIN c.cache => v.order = Append(c.order, x) /\ Added(c.order, x, v.order)
  BY <1>1, StepOrder DEF x
<1> DEFINE left == Len(v.order) - Len(u.order)
<1> SUFFICES Suffix(u.order, v.order) /\ (left > 0 => TokensFrom(v, left) > b)
  BY <1>3 DEF Longest, Tight
<1> HIDE DEF left
<1>15. CASE x \notin DOMAIN c.cache
  <2>1. x \notin DOMAIN s.cache
    <3>1. ASSUME x \in DOMAIN s.cache PROVE FALSE
      <4>1. PICK j \in 1..m : x = s.order[j]
        BY <1>9, <3>1 DEF Elements, m
      <4>2. x = c.order[kept + j] /\ kept + j \in 1..n
        BY <1>5, <1>10, <4>1
      <4>3. QED
        BY <1>9, <1>15, <4>2 DEF Elements, n
    <3>2. QED
      BY <3>1
  <2>2. Suffix(u.order, v.order) /\ left = kept
    <3>1. Added(s.order, x, u.order) /\ Added(c.order, x, v.order)
      BY <1>12, <1>14, <1>15, <2>1
    <3>2. Len(s.order) \in Nat /\ Len(c.order) \in Nat
      BY <1>4 DEF m, n
    <3>3. Suffix(u.order, v.order)
      BY <1>1, <3>1, <3>2, AddedTogether
    <3>4. Len(u.order) = m + 1 /\ Len(v.order) = n + 1
      BY <3>1 DEF Added, m, n
    <3>5. QED
      BY <1>4, <1>6, <3>3, <3>4 DEF left
  <2>3. \A j \in 1..n + 1 : TokensFrom(v, j) = TokensFrom(c, j) + Size(x)
    <3>1. v.order = Append(c.order, x)
      BY <1>14, <1>15
    <3>2. n = Len(c.order)
      BY DEF n
    <3>3. QED
      BY <1>1, <1>3, <3>1, <3>2, AddedTokens
  <2>4. ASSUME kept > 0 PROVE TokensFrom(v, kept) > b
    <3>1. kept \in 1..n + 1
      BY <1>4, <1>6, <1>7, <2>4
    <3>2. TokensFrom(v, kept) = TokensFrom(c, kept) + Size(x) /\ TokensFrom(c, kept) \in Nat
      BY <1>8, <2>3, <3>1
    <3>3. \A g, h \in Nat : g > b => g + h > b
      OBVIOUS
    <3>4. QED
      BY <1>2, <1>3, <2>4, <3>2, <3>3
  <2>5. QED
    BY <2>2, <2>4
<1>16. CASE x \in DOMAIN c.cache /\ x \in DOMAIN s.cache
  <2>1. x \in DOMAIN s.cache /\ x \in DOMAIN c.cache
    BY <1>16
  <2>2. PICK j \in 1..m : s.order[j] = x /\ Moved(s.order, j, u.order)
    BY <1>11, <2>1
  <2>3. PICK k \in 1..n : c.order[k] = x /\ Moved(c.order, k, v.order)
    BY <1>13, <2>1
  <2>4. k = kept + j
    <3>1. kept + j \in 1..n /\ c.order[kept + j] = c.order[k]
      BY <1>5, <1>10, <2>2, <2>3
    <3>2. \A h, l \in 1..n : c.order[h] = c.order[l] => h = l
      BY <1>9 DEF Once, n
    <3>3. QED
      BY <3>1, <3>2
  <2>5. Suffix(u.order, v.order) /\ left = kept
    <3>1. Len(s.order) \in Nat /\ Len(c.order) \in Nat /\ j \in Nat
      BY <1>4 DEF m, n
    <3>2. Moved(c.order, Len(c.order) - Len(s.order) + j, v.order)
      BY <1>6, <2>3, <2>4 DEF m, n
    <3>3. Suffix(u.order, v.order)
      BY <1>1, <2>2, <3>1, <3>2, MovedTogether
    <3>4. Len(u.order) = m /\ Len(v.order) = n
      BY <2>2, <2>3 DEF Moved, m, n
    <3>5. QED
      BY <1>4, <1>6, <3>3, <3>4 DEF left
  <2>6. \A l \in 1..k : TokensFrom(v, l) = TokensFrom(c, l)
    BY <1>1, <1>3, <2>3, MovedTokens DEF n
  <2>7. ASSUME kept > 0 PROVE TokensFrom(v, kept) > b
    <3>1. kept \in 1..k
      BY <1>4, <1>7, <2>2, <2>4, <2>7
    <3>2. QED
      BY <1>2, <2>6, <2>7, <3>1
  <2>8. QED
    BY <2>5, <2>7
<1>17. CASE x \in DOMAIN c.cache /\ x \notin DOMAIN s.cache
  <2>1. PICK k \in 1..n : c.order[k] = x /\ Moved(c.order, k, v.order)
    BY <1>13, <1>17
  <2>2. k <= kept
    <3>1. ASSUME k > kept PROVE FALSE
      <4>1. k - kept \in 1..m /\ kept + (k - kept) = k
        BY <1>4, <1>5, <1>6, <3>1
      <4>2. s.order[k - kept] = x
        BY <1>5, <2>1, <4>1
      <4>3. QED
        BY <1>9, <1>17, <4>1, <4>2 DEF Elements, m
    <3>2. QED
      BY <1>4, <1>7, <3>1
  <2>3. Added(s.order, x, u.order)
    BY <1>12, <1>17
  <2>4. Suffix(u.order, v.order) /\ left = kept - 1
    <3>1. Len(s.order) \in Nat /\ Len(c.order) \in Nat /\ k \in Nat
      BY <1>4 DEF m, n
    <3>2. k <= Len(c.order) - Len(s.order) /\ Added(s.order, c.order[k], u.order)
      BY <1>6, <2>1, <2>2, <2>3 DEF m, n
    <3>3. Suffix(u.order, v.order)
      BY <1>1, <2>1, <3>1, <3>2, AddedMoved
    <3>4. Len(u.order) = m + 1 /\ Len(v.order) = n
      BY <2>1, <2>3 DEF Added, Moved, m, n
    <3>5. QED
      BY <1>4, <1>6, <3>3, <3>4 DEF left
  <2>5. /\ \A l \in k..n : TokensFrom(v, l) = TokensFrom(c, l + 1) + Size(x)
        /\ \A l \in 1..k : TokensFrom(v, l) = TokensFrom(c, l)
    BY <1>1, <1>3, <2>1, MovedTokens DEF n
  <2>6. ASSUME left > 0 PROVE TokensFrom(v, left) > b
    <3>1. left \in 1..n /\ left + 1 = kept /\ kept \in 1..n + 1 /\ kept \in left..n + 1
      BY <1>4, <1>6, <1>7, <2>4, <2>6
    <3>2. TokensFrom(c, kept) > b
      BY <1>2, <1>7, <3>1
    <3>3. CASE left \in k..n
      <4>1. TokensFrom(v, left) = TokensFrom(c, kept) + Size(x) /\ TokensFrom(c, kept) \in Nat
        BY <1>8, <2>5, <3>1, <3>3
      <4>2. \A g, h \in Nat : g > b => g + h > b
        OBVIOUS
      <4>3. QED
        BY <1>3, <3>2, <4>1, <4>2
    <3>4. CASE left \in 1..k
      <4>1. TokensFrom(v, left) = TokensFrom(c, left)
        BY <2>5, <3>4
      <4>2. TokensFrom(c, kept) <= TokensFrom(c, left)
        BY <1>1, <3>1, TokensFall DEF n
      <4>3. TokensFrom(c, kept) \in Nat /\ TokensFrom(c, left) \in Nat
        <5>1. left \in 1..n + 1
          BY <1>4, <3>1
        <5>2. QED
          BY <1>8, <3>1, <5>1
      <4>4. QED
        BY <3>2, <4>1, <4>2, <4>3
    <3>5. QED
      BY <3>1, <3>3, <3>4
  <2>7. QED
    BY <2>4, <2>6
<1>18. QED
  BY <1>15, <1>16, <1>17

(* Nor does the whole request.                                             *)
LEMMA AccessedLongest ==
    ASSUME NEW e \in Requests, NEW b \in Nat, NEW s, NEW c, Longest(s, c, b)
    PROVE  Longest(Accessed(s, e, "lru"), Accessed(c, e, "lru"), b)
<1> DEFINE n == Len(e.ids)
<1>1. PICK f : /\ f[0] = s /\ f[n] = Accessed(s, e, "lru")
               /\ \A i \in 1..n : f[i] = Step(e, "lru", f[i - 1], i)
  BY AccessedSteps
<1>2. PICK g : /\ g[0] = c /\ g[n] = Accessed(c, e, "lru")
               /\ \A i \in 1..n : g[i] = Step(e, "lru", g[i - 1], i)
  BY AccessedSteps
<1>3. n \in Nat
  BY AccessedSteps
<1> DEFINE Bad == {i \in 0..n : ~Longest(f[i], g[i], b)}
<1>4. 0 \notin Bad
  BY <1>1, <1>2
<1>5. ASSUME NEW i \in 1..n, i - 1 \notin Bad PROVE i \notin Bad
  <2>1. Longest(f[i - 1], g[i - 1], b)
    BY <1>3, <1>5
  <2>2. f[i] = Step(e, "lru", f[i - 1], i) /\ g[i] = Step(e, "lru", g[i - 1], i)
    BY <1>1, <1>2
  <2>3. Longest(f[i], g[i], b)
    BY <2>1, <2>2, StepLongest
  <2>4. QED
    BY <2>3
<1>6. Bad \in SUBSET (0..n)
  OBVIOUS
<1>7. Bad = {}
  <2> HIDE DEF Bad
  <2>1. QED
    BY <1>3, <1>4, <1>5, <1>6, NeverBad
<1>8. QED
  BY <1>1, <1>2, <1>3, <1>7

(* Eviction keeps it so, and makes the cache fit.                          *)
LEMMA EvictedLongest ==
    ASSUME NEW b \in Nat, NEW s, NEW c, Longest(s, c, b), NEW t, t = EnsureBudget(s, b)
    PROVE  Longest(t, c, b) /\ CacheTokens(t) <= b
<1> DEFINE m == Len(s.order)
           n == Len(c.order)
           kept == n - m
<1>1. GoodSim(s) /\ GoodSim(c) /\ Suffix(s.order, c.order)
  BY DEF Longest
<1>2. kept > 0 => TokensFrom(c, kept) > b
  BY DEF Longest, Tight
<1>3. PICK k \in 0..m :
         /\ TokensFrom(s, k + 1) <= b /\ \A l \in 0..k - 1 : TokensFrom(s, l + 1) > b
         /\ t = EvictFirst(s, k)
  BY <1>1, Evicts
<1>4. /\ GoodSim(t) /\ Len(t.order) = m - k
      /\ \A i \in 1..m - k : t.order[i] = s.order[k + i]
  <2>1. k \in 0..Len(s.order) /\ t = EvictFirst(s, k) /\ GoodSim(s)
    BY <1>1, <1>3
  <2>2. GoodSim(t) /\ Rest(s.order, k, t.order)
    BY <2>1, EvictedFacts
  <2>3. QED
    BY <2>2 DEF Rest
<1>5. m \in Nat /\ n \in Nat /\ k \in 0..m
  BY <1>1, <1>3, GoodTokens
<1>6. m <= n /\ \A i \in 1..m : s.order[i] = c.order[kept + i]
  BY <1>1 DEF Suffix
<1>7. kept = n - m
  OBVIOUS
<1> DEFINE p == Len(t.order)
<1> HIDE DEF m, n, kept, p
<1>8. \A j \in 1..m + 1 : TokensFrom(s, j) = TokensFrom(c, kept + j)
  <2>1. n = kept + m /\ kept \in Nat
    BY <1>5, <1>6, <1>7
  <2>2. m = Len(s.order) /\ Len(c.order) = kept + m
    BY <2>1 DEF m, n
  <2>3. kept \in Nat /\ m \in Nat
    BY <1>5, <2>1
  <2>4. GoodSim(s) /\ GoodSim(c) /\ Suffix(s.order, c.order)
    BY <1>1
  <2>5. SameTail(s, c, m, kept)
    BY <2>2, <2>3, <2>4, SuffixTokens
  <2>6. QED
    BY <2>5 DEF SameTail
<1>9. p = m - k /\ p \in Nat /\ p <= m /\ p <= n /\ m - p = k /\ n - p = kept + k /\ kept \in Nat
  <2>1. p = m - k
    BY <1>4 DEF p
  <2>2. QED
    BY <1>5, <1>6, <1>7, <2>1
<1>10. Suffix(t.order, s.order)
  <2>1. Len(t.order) = p /\ Len(s.order) = m
    BY DEF p, m
  <2>2. QED
    BY <1>4, <1>9, <2>1 DEF Suffix
<1>11. Suffix(t.order, c.order)
  <2>1. Len(t.order) = p /\ Len(c.order) = n
    BY DEF p, n
  <2>2. ASSUME NEW i \in 1..p PROVE t.order[i] = c.order[n - p + i]
    <3>1. k + i \in 1..m /\ n - p + i = kept + (k + i)
      BY <1>5, <1>9
    <3>2. t.order[i] = s.order[k + i]
      BY <1>4, <1>9
    <3>3. QED
      BY <1>6, <3>1, <3>2
  <2>3. QED
    BY <1>9, <2>1, <2>2 DEF Suffix
<1>12. CacheTokens(t) <= b
  <2>1. SameTail(t, s, p, k)
    <3>1. p = Len(t.order) /\ Len(s.order) = k + p /\ k \in Nat
      BY <1>5, <1>9 DEF p, m
    <3>2. QED
      BY <1>1, <1>4, <1>10, <3>1, SuffixTokens
  <2>2. 1 \in 1..p + 1
    BY <1>9
  <2>3. QED
    BY <1>3, <2>1, <2>2 DEF CacheTokens, SameTail
<1>13. ASSUME kept + k > 0 PROVE TokensFrom(c, kept + k) > b
  <2>1. CASE k = 0
    BY <1>2, <1>9, <1>13, <2>1
  <2>2. CASE k # 0
    <3>1. k - 1 \in 0..k - 1 /\ k - 1 + 1 = k /\ k \in 1..m + 1
      BY <1>5, <2>2
    <3>2. TokensFrom(s, k) > b
      BY <1>3, <3>1
    <3>3. QED
      BY <1>8, <3>1, <3>2
  <2>3. QED
    BY <2>1, <2>2
<1>14. Tight(t, c, b)
  <2>1. Len(c.order) - Len(t.order) = kept + k
    BY <1>9 DEF p, n
  <2>2. QED
    BY <1>13, <2>1 DEF Tight
<1>15. QED
  BY <1>1, <1>4, <1>11, <1>12, <1>14 DEF Longest

(* A smaller budget keeps no more.                                         *)
LEMMA Nested ==
    ASSUME NEW c, NEW s, NEW b \in Nat, Longest(s, c, b), CacheTokens(s) <= b,
           NEW t, NEW d \in Nat, Longest(t, c, d), b <= d
    PROVE  DOMAIN s.cache \subseteq DOMAIN t.cache
<1> DEFINE m == Len(s.order)
           p == Len(t.order)
           n == Len(c.order)
<1>1. GoodSim(s) /\ GoodSim(c) /\ GoodSim(t)
  BY DEF Longest
<1>2. Suffix(s.order, c.order) /\ Suffix(t.order, c.order)
  BY DEF Longest
<1>3. m \in Nat /\ n \in Nat /\ p \in Nat
  BY <1>1, GoodTokens
<1>4. m <= n /\ \A i \in 1..m : s.order[i] = c.order[n - m + i]
  BY <1>2 DEF Suffix
<1>5. p <= n /\ \A i \in 1..p : t.order[i] = c.order[n - p + i]
  BY <1>2 DEF Suffix
<1>6. n - p > 0 => TokensFrom(c, n - p) > d
  BY DEF Longest, Tight
<1>7. \A i \in 1..n + 1 : TokensFrom(c, i) \in Nat
  BY <1>1, GoodTokens
<1>8. /\ DOMAIN s.cache = {s.order[i] : i \in 1..m}
      /\ DOMAIN t.cache = {t.order[i] : i \in 1..p}
  BY <1>1 DEF GoodSim, Elements
<1>9. n = Len(c.order) /\ m = Len(s.order)
  OBVIOUS
<1> HIDE DEF m, n, p
<1>10. CASE m <= p
  <2>1. ASSUME NEW i \in 1..m PROVE s.order[i] \in DOMAIN t.cache
    <3>1. p - m + i \in 1..p /\ n - p + (p - m + i) = n - m + i
      BY <1>3, <1>10
    <3>2. s.order[i] = t.order[p - m + i]
      BY <1>4, <1>5, <3>1
    <3>3. QED
      BY <1>8, <3>1, <3>2
  <2>2. QED
    BY <1>8, <2>1
<1>11. CASE m > p
  <2> DEFINE k == n - m
             l == n - p
  <2>1. k \in Nat /\ l \in Nat /\ n = k + m /\ k + 1 \in 1..n + 1 /\ l \in k + 1..n + 1 /\ l > 0
    <3>1. k \in Nat /\ n = k + m
      BY <1>3, <1>4
    <3>2. l \in Nat /\ l > 0 /\ l >= k + 1 /\ l <= n
      BY <1>3, <1>4, <1>5, <1>11
    <3>3. k + 1 \in 1..n + 1
      BY <1>3, <3>1
    <3>4. l \in k + 1..n + 1
      BY <1>3, <3>1, <3>2
    <3>5. QED
      BY <3>1, <3>2, <3>3, <3>4
  <2>2. TokensFrom(c, l) > d
    BY <1>6, <2>1
  <2> HIDE DEF k, l
  <2>3. TokensFrom(s, 1) = TokensFrom(c, k + 1)
    <3>1. SameTail(s, c, m, k)
      BY <1>1, <1>2, <1>3, <1>9, <2>1, SuffixTokens
    <3>2. 1 \in 1..m + 1
      BY <1>3
    <3>3. QED
      BY <3>1, <3>2 DEF SameTail
  <2>4. TokensFrom(c, l) <= TokensFrom(c, k + 1)
    BY <1>1, <1>9, <2>1, TokensFall
  <2>5. TokensFrom(c, l) \in Nat /\ TokensFrom(c, k + 1) \in Nat
    <3>1. l \in 1..n + 1
      BY <1>3, <2>1
    <3>2. QED
      BY <1>7, <2>1, <3>1
  <2>6. TokensFrom(s, 1) <= b
    BY DEF CacheTokens
  <2>7. FALSE
    BY <2>2, <2>3, <2>4, <2>5, <2>6
  <2>8. QED
    BY <2>7
<1>12. QED
  BY <1>3, <1>10, <1>11

-----------------------------------------------------------------------------
(* The invariant.  A cache has no block the unlimited one lacks, has hit   *)
(* no more and counted the same tokens; under LRU it is the longest suffix *)
(* that fits.                                                              *)
Beneath(s, c, p, b) ==
    /\ GoodSim(s) /\ DOMAIN s.cache \subseteq DOMAIN c.cache
    /\ s.hit <= c.hit /\ Total(s) = Total(c)
    /\ p = "lru" => Longest(s, c, b) /\ CacheTokens(s) <= b

IInv ==
    /\ policy \in Policies /\ served \in 0..MaxRequests /\ GoodSim(ceiling)
    /\ \A b \in Levels : Beneath(sims[b], ceiling, policy, b)

LEMMA EmptyIsGood ==
    GoodSim(EmptySim) /\ \A p : \A b \in Nat : Beneath(EmptySim, EmptySim, p, b)
<1> DEFINE s == EmptySim
<1>1. s.cache = <<>> /\ s.order = <<>> /\ s.hit = 0 /\ s.miss = 0 /\ s.evictions = 0
  BY DEF EmptySim, Sim
<1> HIDE DEF s
<1>2. Len(s.order) = 0
  BY <1>1
<1>3. s.order \in Seq(Blocks)
  BY <1>1
<1>4. DOMAIN s.cache = {}
  BY <1>1
<1>5. GoodSim(s)
  <2>1. Once(s.order) /\ Elements(s.order) = {}
    BY <1>2 DEF Once, Elements
  <2>2. s.cache = [x \in DOMAIN s.cache |-> Size(x)]
    BY <1>1, <1>4
  <2>3. QED
    BY <1>1, <1>3, <1>4, <2>1, <2>2 DEF GoodSim
<1>6. ASSUME NEW b \in Nat PROVE Longest(s, s, b) /\ CacheTokens(s) <= b
  <2>1. TokensFrom(s, 1) = 0
    BY <1>2, <1>5, GoodTokens
  <2>2. Suffix(s.order, s.order) /\ Tight(s, s, b)
    BY <1>2 DEF Suffix, Tight
  <2>3. QED
    BY <1>5, <2>1, <2>2 DEF Longest, CacheTokens
<1>7. \A p : \A b \in Nat : Beneath(s, s, p, b)
  BY <1>1, <1>5, <1>6 DEF Beneath
<1>8. QED
  BY <1>5, <1>7 DEF s

(* A request keeps a cache beneath the unlimited one.                      *)
LEMMA LookupBeneath ==
    ASSUME NEW e \in Requests, NEW b \in Nat, NEW p, NEW s, NEW c, GoodSim(c),
           Beneath(s, c, p, b), NEW t, t = EnsureBudget(Accessed(s, e, p), b),
           NEW d, d = Accessed(c, e, "lru")
    PROVE  GoodSim(d) /\ Beneath(t, d, p, b) /\ t.hit = Accessed(s, e, p).hit
<1> DEFINE a == Accessed(s, e, p)
<1>1. GoodSim(s) /\ DOMAIN s.cache \subseteq DOMAIN c.cache
  BY DEF Beneath
<1>2. s.hit <= c.hit /\ Total(s) = Total(c)
  BY DEF Beneath
<1>3. Beside(s, c, a, d)
  BY <1>1, AccessedBeside
<1>4. t = EnsureBudget(a, b)
  OBVIOUS
<1> HIDE DEF a
<1>5. GoodSim(a) /\ GoodSim(d) /\ DOMAIN a.cache \subseteq DOMAIN d.cache
  BY <1>3 DEF Beside
<1>6. PICK k \in 0..Len(a.order) : t = EvictFirst(a, k)
  BY <1>4, <1>5, Evicts
<1>7. GoodSim(t) /\ t.hit = a.hit /\ t.miss = a.miss /\ DOMAIN t.cache \subseteq DOMAIN a.cache
  BY <1>5, <1>6, EvictedFacts
<1>8. t.hit <= d.hit
  <2>1. a.hit \in Nat /\ d.hit \in Nat /\ s.hit \in Nat /\ c.hit \in Nat
    BY <1>1, <1>5 DEF GoodSim
  <2>2. a.hit + c.hit <= d.hit + s.hit
    BY <1>3 DEF Beside
  <2>3. QED
    BY <1>2, <1>7, <2>1, <2>2
<1>9. Total(t) = Total(d)
  <2>1. Total(a) \in Nat /\ Total(d) \in Nat /\ Total(s) \in Nat /\ Total(c) \in Nat
    <3>1. ASSUME NEW z, GoodSim(z) PROVE Total(z) \in Nat
      BY <3>1 DEF GoodSim, Total
    <3>2. QED
      BY <1>1, <1>5, <3>1
  <2>2. Total(a) + Total(c) = Total(d) + Total(s)
    BY <1>3 DEF Beside
  <2>3. Total(t) = Total(a)
    BY <1>7 DEF Total
  <2>4. QED
    BY <1>2, <2>1, <2>2, <2>3
<1>10. ASSUME p = "lru" PROVE Longest(t, d, b) /\ CacheTokens(t) <= b
  <2>1. Longest(s, c, b)
    BY <1>10 DEF Beneath
  <2>2. Longest(a, d, b)
    BY <1>10, <2>1, AccessedLongest DEF a
  <2>3. QED
    BY <1>4, <2>2, EvictedLongest
<1>11. QED
  BY <1>5, <1>7, <1>8, <1>9, <1>10 DEF Beneath, a

LEMMA LevelsAreNumbers == Levels \subseteq Nat
  BY SimAssumption

LEMMA InitIInv == Init => IInv
<1> SUFFICES ASSUME Init PROVE IInv
  OBVIOUS
<1>1. GoodSim(ceiling)
  BY EmptyIsGood DEF Init
<1>2. ASSUME NEW b \in Levels PROVE Beneath(sims[b], ceiling, policy, b)
  <2>1. sims[b] = EmptySim /\ ceiling = EmptySim /\ b \in Nat
    BY LevelsAreNumbers DEF Init
  <2>2. QED
    BY <2>1, EmptyIsGood
<1>3. policy \in Policies /\ served \in 0..MaxRequests
  BY SimAssumption DEF Init
<1>4. QED
  BY <1>1, <1>2, <1>3 DEF IInv

(* What a request does at a budget.                                        *)
LEMMA LookupSteps ==
    ASSUME IInv, NEW e \in Requests, Lookup(e), NEW b \in Levels
    PROVE  /\ GoodSim(ceiling') /\ Beneath(sims'[b], ceiling', policy, b)
           /\ sims'[b].hit = Accessed(sims[b], e, policy).hit
<1> DEFINE t == sims'[b]
           d == ceiling'
<1>1. GoodSim(ceiling) /\ Beneath(sims[b], ceiling, policy, b) /\ b \in Nat
  BY LevelsAreNumbers DEF IInv
<1>2. t = EnsureBudget(Accessed(sims[b], e, policy), b) /\ d = Accessed(ceiling, e, "lru")
  BY DEF Lookup
<1> HIDE DEF t, d
<1>3. GoodSim(d) /\ Beneath(t, d, policy, b) /\ t.hit = Accessed(sims[b], e, policy).hit
  BY <1>1, <1>2, LookupBeneath
<1>4. QED
  BY <1>3 DEF t, d

LEMMA LookupIInv ==
    ASSUME IInv, NEW e \in Requests, Lookup(e) PROVE IInv'
<1>1. policy' = policy /\ policy \in Policies
  BY DEF Lookup, IInv
<1>2. served' \in 0..MaxRequests
  <2>1. served \in 0..MaxRequests /\ MaxRequests \in Nat
    BY SimAssumption DEF IInv
  <2>2. served < MaxRequests /\ served' = served + 1
    BY DEF Lookup
  <2>3. QED
    BY <2>1, <2>2
<1>3. ceiling' = Accessed(ceiling, e, "lru")
  BY DEF Lookup
<1>4. GoodSim(ceiling')
  <2>1. GoodSim(ceiling) /\ ceiling.hit \in Nat
    BY DEF IInv, GoodSim
  <2>2. Beside(ceiling, ceiling, ceiling', ceiling')
    BY <1>3, <2>1, AccessedBeside
  <2>3. QED
    BY <2>2 DEF Beside
<1>5. \A b \in Levels : Beneath(sims'[b], ceiling', policy', b)
  BY <1>1, LookupSteps
<1>6. QED
  BY <1>1, <1>2, <1>4, <1>5 DEF IInv

LEMMA NextIInv == IInv /\ [Next]_vars => IInv'
<1> SUFFICES ASSUME IInv, [Next]_vars PROVE IInv'
  OBVIOUS
<1>1. ASSUME NEW e \in Requests, Lookup(e) PROVE IInv'
  BY <1>1, LookupIInv
<1>2. ASSUME UNCHANGED vars PROVE IInv'
  BY <1>2 DEF vars, IInv
<1>3. QED
  BY <1>1, <1>2 DEF Next, TraceEnds

(* The invariant holds in every reachable state.                           *)
THEOREM Invariance == Spec => []IInv
<1>1. QED
  BY InitIInv, NextIInv, PTL DEF Spec

-----------------------------------------------------------------------------
LEMMA GoodIsOK == ASSUME NEW s, GoodSim(s) PROVE SimOK(s)
<1> DEFINE n == Len(s.order)
           S == DOMAIN s.cache
<1>1. /\ n \in Nat /\ S \subseteq Blocks
      /\ \A x \in S : s.cache[x] = Size(x) /\ Size(x) \in Nat \ {0}
  BY GoodTokens
<1>2. s.cache = [x \in S |-> Size(x)]
  BY DEF GoodSim
<1>3. S = {s.order[i] : i \in 1..n} /\ s.order \in Seq(Blocks)
  BY DEF GoodSim, Elements
<1>4. \A i, j \in 1..n : s.order[i] = s.order[j] => i = j
  BY DEF GoodSim, Once
<1>5. s.cache \in [S -> Nat \ {0}]
  BY <1>1, <1>2
<1>6. DOMAIN s.order = 1..n
  BY <1>3
<1> DEFINE f == [i \in 1..n |-> s.order[i]]
<1>7. f \in Bijection(1..n, S)
  <2>1. f \in [1..n -> S] /\ \A i \in 1..n : f[i] = s.order[i]
    BY <1>3
  <2>2. \A x \in S : \E i \in 1..n : f[i] = x
    BY <1>3, <2>1
  <2>3. \A i, j \in 1..n : f[i] = f[j] => i = j
    BY <1>4, <2>1
  <2> HIDE DEF f, S, n
  <2>4. QED
    BY <2>1, <2>2, <2>3 DEF Bijection, Injection, Surjection, IsInjective
<1>8. Cardinality(S) = n
  <2> HIDE DEF f, S, n
  <2>1. ExistsBijection(1..n, S)
    BY <1>7 DEF ExistsBijection
  <2>2. QED
    BY <1>1, <2>1, FS_CountingElements
<1>9. s.hit \in Nat /\ s.miss \in Nat /\ s.evictions \in Nat
  BY DEF GoodSim
<1>10. QED
  BY <1>1, <1>3, <1>5, <1>6, <1>8, <1>9 DEF SimOK

(* Type correctness: the order of every simulator holds each resident      *)
(* block once, whatever the trace.                                         *)
THEOREM TypeCorrect == Spec => []TypeOK
<1>1. IInv => TypeOK
  BY GoodIsOK DEF IInv, TypeOK, Beneath
<1>2. QED
  BY <1>1, Invariance, PTL

(* No budget and no policy hits more than the ceiling does, and all count  *)
(* the same tokens (compute_ceiling).                                      *)
THEOREM CeilingBoundsEveryBudget == Spec => []CeilingIsMaximal
<1>1. IInv => CeilingIsMaximal
  BY DEF IInv, CeilingIsMaximal, Beneath, Total
<1>2. QED
  BY <1>1, Invariance, PTL

LEMMA SuffixIsSuffix ==
    ASSUME NEW s, NEW c, GoodSim(s), GoodSim(c), Suffix(s.order, c.order)
    PROVE  IsSuffix(s.order, c.order)
<1> DEFINE m == Len(s.order)
           n == Len(c.order)
           l == n - m + 1
           q == SubSeq(c.order, l, n)
<1>1. m \in Nat /\ n \in Nat /\ \A i \in 1..n : c.order[i] \in Blocks
  BY GoodTokens
<1>2. m <= n /\ \A i \in 1..m : s.order[i] = c.order[n - m + i]
  BY DEF Suffix
<1>3. s.order \in Seq(Blocks)
  BY DEF GoodSim
<1> HIDE DEF m, n
<1>4. l \in Int /\ n \in Int /\ \A i \in l..n : c.order[i] \in Blocks
  BY <1>1, <1>2
<1>5. /\ q \in Seq(Blocks) /\ Len(q) = IF l <= n THEN n - l + 1 ELSE 0
      /\ \A i \in 1..n - l + 1 : q[i] = c.order[l + i - 1]
  <2> HIDE DEF l
  <2>1. QED
    BY <1>4, SubSeqProperties
<1> HIDE DEF q
<1>6. Len(q) = m /\ \A i \in 1..m : q[i] = c.order[n - m + i]
  BY <1>1, <1>2, <1>5
<1>7. s.order = q
  <2>1. m = Len(s.order)
    BY DEF m
  <2>2. QED
    BY <1>2, <1>3, <1>5, <1>6, <2>1, SeqEqual
<1>8. QED
  BY <1>2, <1>7 DEF IsSuffix, q, m, n

(* Under LRU what a cache holds at every budget is the longest run of most *)
(* recently used blocks that fits (PrefixCacheSim with policy "lru").      *)
THEOREM MostRecentStay == Spec => []ResidentsAreMostRecent
<1>1. IInv => ResidentsAreMostRecent
  <2> SUFFICES ASSUME IInv, policy = "lru", NEW b \in Levels
               PROVE  /\ IsSuffix(sims[b].order, ceiling.order)
                      /\ CacheTokens(sims[b]) <= b
                      /\ Tight(sims[b], ceiling, b)
    BY DEF ResidentsAreMostRecent, Tight
  <2>1. Longest(sims[b], ceiling, b) /\ CacheTokens(sims[b]) <= b
    BY DEF IInv, Beneath
  <2>2. QED
    BY <2>1, SuffixIsSuffix DEF Longest
<1>2. QED
  BY <1>1, Invariance, PTL

(* More budget never hits less under LRU, request by request, whatever the *)
(* trace (sweep_cache_sizes).                                              *)
THEOREM HitsAreMonotone == Spec => HitsGrowWithBudget
<1> DEFINE Grows == \A b, c \in Levels : b <= c =>
                        sims'[b].hit - sims[b].hit <= sims'[c].hit - sims[c].hit
<1>1. ASSUME IInv, [Next]_vars, policy = "lru" PROVE Grows
  <2> SUFFICES ASSUME NEW b \in Levels, NEW c \in Levels, b <= c
               PROVE  sims'[b].hit - sims[b].hit <= sims'[c].hit - sims[c].hit
    OBVIOUS
  <2> DEFINE s == sims[b]
             t == sims[c]
             u == sims'[b]
             v == sims'[c]
  <2>1. b \in Nat /\ c \in Nat
    BY LevelsAreNumbers
  <2>2. /\ Longest(s, ceiling, b) /\ CacheTokens(s) <= b /\ GoodSim(s)
        /\ Longest(t, ceiling, c) /\ CacheTokens(t) <= c /\ GoodSim(t)
    BY <1>1 DEF IInv, Beneath
  <2>3. s.hit \in Nat /\ t.hit \in Nat
    BY <2>2 DEF GoodSim
  <2>4. ASSUME NEW e \in Requests, Lookup(e)
        PROVE  u.hit - s.hit <= v.hit - t.hit
    <3>1. DOMAIN s.cache \subseteq DOMAIN t.cache
      <4> HIDE DEF s, t
      <4>1. QED
        BY <2>1, <2>2, Nested
    <3>2. Beside(s, t, Accessed(s, e, policy), Accessed(t, e, policy))
      <4> HIDE DEF s, t
      <4>1. QED
        BY <2>2, <3>1, AccessedBeside
    <3>3. u.hit = Accessed(s, e, policy).hit /\ v.hit = Accessed(t, e, policy).hit
      BY <1>1, <2>4, LookupSteps
    <3>4. GoodSim(u) /\ GoodSim(v)
      BY <1>1, <2>4, LookupSteps DEF Beneath
    <3>5. u.hit + t.hit <= v.hit + s.hit
      BY <3>2, <3>3 DEF Beside
    <3>6. u.hit \in Nat /\ v.hit \in Nat
      BY <3>4 DEF GoodSim
    <3> HIDE DEF s, t, u, v
    <3>7. QED
      BY <2>3, <3>5, <3>6
  <2>5. ASSUME UNCHANGED vars PROVE u.hit - s.hit <= v.hit - t.hit
    <3>1. u = s /\ v = t
      BY <2>5 DEF vars
    <3> HIDE DEF s, t, u, v
    <3>2. QED
      BY <2>3, <3>1
  <2>6. QED
    BY <1>1, <2>4, <2>5 DEF Next, TraceEnds
<1>2. IInv /\ [Next]_vars => [policy = "lru" => Grows]_vars
  BY <1>1
<1>3. QED
  BY <1>2, Invariance, PTL DEF Spec, HitsGrowWithBudget
=============================================================================

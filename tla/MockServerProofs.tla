-------------------------- MODULE MockServerProofs --------------------------
(***************************************************************************)
(* What holds of the mock server for all chunks, prompts and capacities:   *)
(* live sequences stay cached whole, the second tier never hits.           *)
(***************************************************************************)
EXTENDS MockServer, SequenceTheorems, FiniteSetTheorems, TLAPS

Distinct(q) == \A i, j \in DOMAIN q : q[i] = q[j] => i = j

Elements(q) == {q[i] : i \in DOMAIN q}

(* r is q without its place k.                                             *)
Skips(r, q, k) ==
    /\ Len(r) = Len(q) - 1
    /\ \A j \in 1..Len(q) - 1 : r[j] = IF j < k THEN q[j] ELSE q[j + 1]

Users(t, p) == {s \in Live(t) : p \in Paths(s)}

-----------------------------------------------------------------------------
(* A node on the way to a node on the way of s is on the way of s.         *)
LEMMA PathsOf ==
    ASSUME NEW s \in Seq(Chunks), NEW p \in Paths(s)
    PROVE  p \in Seq(Chunks) /\ p \in Paths(p) /\ Paths(p) \subseteq Paths(s)
<1>1. PICK n \in 1..Len(s) : p = SubSeq(s, 1, n)
  BY DEF Paths
<1>2. \A i \in 1..n : s[i] \in Chunks
  OBVIOUS
<1>3. p \in Seq(Chunks) /\ Len(p) = n
  BY <1>1, <1>2, SubSeqProperties
<1>4. ASSUME NEW k \in 1..n PROVE SubSeq(p, 1, k) = SubSeq(s, 1, k)
  <2>1. SubSeq(SubSeq(s, 1, n), 1, k) = SubSeq(s, 1 + 1 - 1, 1 + k - 1)
    <3>1. n \in 1..Len(s) /\ 1 \in 1..Len(s) /\ 1 \in 1..n - 1 + 1 /\ k \in 1..n - 1 + 1
      BY <1>1
    <3>. QED  BY <3>1, SubSeqOfSubSeq
  <2>. QED  BY <2>1, <1>1
<1>5. SubSeq(p, 1, n) = p
  BY <1>3, SubSeqFull
<1>. QED  BY <1>3, <1>4, <1>5 DEF Paths

(* A sequence passes finitely many nodes.                                  *)
LEMMA PathsFinite ==
    ASSUME NEW s \in Seq(Chunks)
    PROVE  IsFiniteSet(Paths(s))
<1> DEFINE f == [n \in 1..Len(s) |-> SubSeq(s, 1, n)]
<1>1. f \in Surjection(1..Len(s), Paths(s))
  BY DEF Paths, Surjection
<1>2. IsFiniteSet(1..Len(s))
  BY FS_Interval
<1>. QED  BY <1>1, <1>2, FS_Surjection

(* RemoveAt takes out one place and moves up what is behind it.            *)
LEMMA Removal ==
    ASSUME NEW S, NEW q \in Seq(S), NEW i \in 1..Len(q)
    PROVE  RemoveAt(q, i) \in Seq(S) /\ Skips(RemoveAt(q, i), q, i)
<1> DEFINE a == SubSeq(q, 1, i - 1)  b == SubSeq(q, i + 1, Len(q))
<1>1. /\ a \in Seq(S) /\ Len(a) = i - 1
      /\ \A j \in 1..i - 1 : a[j] = q[j]
  <2>1. \A j \in 1..i - 1 : q[j] \in S
    OBVIOUS
  <2>2. 1 \in Int /\ i - 1 \in Int
    OBVIOUS
  <2>. QED  BY <2>1, <2>2, SubSeqProperties
<1>2. /\ b \in Seq(S) /\ Len(b) = Len(q) - i
      /\ \A j \in 1..Len(q) - i : b[j] = q[i + j]
  <2>1. \A j \in i + 1..Len(q) : q[j] \in S
    OBVIOUS
  <2>2. i + 1 \in Int /\ Len(q) \in Int
    OBVIOUS
  <2>3. /\ b \in Seq(S)
        /\ Len(b) = IF i + 1 <= Len(q) THEN Len(q) - (i + 1) + 1 ELSE 0
        /\ \A j \in 1..Len(q) - (i + 1) + 1 : b[j] = q[(i + 1) + j - 1]
    BY <2>1, <2>2, SubSeqProperties
  <2>. QED  BY <2>3
<1>3. RemoveAt(q, i) = a \o b
  BY DEF RemoveAt
<1>. HIDE DEF a, b
<1>4. /\ a \o b \in Seq(S) /\ Len(a \o b) = Len(a) + Len(b)
      /\ \A j \in 1..Len(a) + Len(b) :
           (a \o b)[j] = IF j <= Len(a) THEN a[j] ELSE b[j - Len(a)]
  BY <1>1, <1>2, ConcatProperties
<1>5. Len(a) + Len(b) = Len(q) - 1
  BY <1>1, <1>2
<1>6. ASSUME NEW j \in 1..Len(q) - 1
      PROVE  (a \o b)[j] = IF j < i THEN q[j] ELSE q[j + 1]
  <2>1. CASE j < i
    <3>1. j \in 1..i - 1 /\ j <= Len(a) /\ j \in 1..Len(a) + Len(b)
      BY <2>1, <1>1, <1>5
    <3>. QED  BY <3>1, <2>1, <1>1, <1>4
  <2>2. CASE j >= i
    <3>1. /\ ~ j <= Len(a) /\ j \in 1..Len(a) + Len(b)
          /\ j - Len(a) \in 1..Len(q) - i /\ i + (j - Len(a)) = j + 1
      BY <2>2, <1>1, <1>5
    <3>2. (a \o b)[j] = b[j - Len(a)]
      BY <3>1, <1>4
    <3>3. b[j - Len(a)] = q[i + (j - Len(a))]
      BY <3>1, <1>2
    <3>. QED  BY <3>1, <3>2, <3>3, <2>2
  <2>3. j < i \/ j >= i
    OBVIOUS
  <2>. QED  BY <2>1, <2>2, <2>3, Zenon
<1>. QED  BY <1>3, <1>4, <1>5, <1>6 DEF Skips

(* Without one place, distinct elements stay distinct, and lack just the   *)
(* one that was there.                                                     *)
LEMMA Dropped ==
    ASSUME NEW S, NEW q \in Seq(S), Distinct(q), NEW k \in 1..Len(q),
           NEW r \in Seq(S), Skips(r, q, k)
    PROVE  Distinct(r) /\ Elements(r) = Elements(q) \ {q[k]}
<1> DEFINE from(j) == IF j < k THEN j ELSE j + 1
<1>1. ASSUME NEW j \in 1..Len(r)
      PROVE  from(j) \in 1..Len(q) /\ from(j) # k /\ r[j] = q[from(j)]
  BY DEF Skips
<1>2. \A i, j \in 1..Len(r) : from(i) = from(j) => i = j
  OBVIOUS
<1>3. ASSUME NEW i \in 1..Len(q), i # k
      PROVE  \E j \in 1..Len(r) : from(j) = i
  <2>1. CASE i < k
    <3>1. i \in 1..Len(r) /\ from(i) = i
      BY <2>1 DEF Skips
    <3>. QED  BY <3>1
  <2>2. CASE ~ i < k
    <3>1. i - 1 \in 1..Len(r) /\ from(i - 1) = i
      BY <2>2, <1>3 DEF Skips
    <3>. QED  BY <3>1
  <2>. QED  BY <2>1, <2>2
<1>4. DOMAIN q = 1..Len(q) /\ DOMAIN r = 1..Len(r)
  OBVIOUS
<1>. HIDE DEF from
<1>5. Distinct(r)
  BY <1>1, <1>2, <1>4 DEF Distinct
<1>6. Elements(r) = Elements(q) \ {q[k]}
  <2>1. ASSUME NEW j \in 1..Len(r) PROVE r[j] \in Elements(q) \ {q[k]}
    BY <1>1, <1>4 DEF Distinct, Elements
  <2>2. ASSUME NEW i \in 1..Len(q), q[i] # q[k] PROVE q[i] \in Elements(r)
    <3>1. PICK j \in 1..Len(r) : from(j) = i
      BY <2>2, <1>3
    <3>. QED  BY <3>1, <1>1, <1>4 DEF Elements
  <2>. QED  BY <2>1, <2>2, <1>4 DEF Elements
<1>. QED  BY <1>5, <1>6

(* A new element at the end.                                               *)
LEMMA Added ==
    ASSUME NEW S, NEW q \in Seq(S), Distinct(q), NEW s \in S, s \notin Elements(q)
    PROVE  /\ Append(q, s) \in Seq(S) /\ Len(Append(q, s)) = Len(q) + 1
           /\ Distinct(Append(q, s))
           /\ Elements(Append(q, s)) = Elements(q) \cup {s}
<1>1. PICK r \in Seq(S) : /\ r = Append(q, s) /\ Len(r) = Len(q) + 1
                          /\ \A i \in 1..Len(q) : r[i] = q[i]
                          /\ r[Len(q) + 1] = s
  BY AppendProperties
<1>2. Distinct(r)
  BY <1>1 DEF Distinct, Elements
<1>3. Elements(r) = Elements(q) \cup {s}
  <2>1. \A i \in 1..Len(r) : r[i] \in Elements(q) \cup {s}
    BY <1>1 DEF Elements
  <2>2. \A i \in 1..Len(q) : i \in DOMAIN r /\ r[i] = q[i]
    BY <1>1
  <2>3. Len(q) + 1 \in DOMAIN r
    BY <1>1
  <2>. QED  BY <1>1, <2>1, <2>2, <2>3 DEF Elements
<1>. QED  BY <1>1, <1>2, <1>3

(* Refreshing adds the sequence and keeps the others, each once.           *)
LEMMA RefreshedKeeps ==
    ASSUME NEW S, NEW q \in Seq(S), Distinct(q), NEW s \in S
    PROVE  /\ Refreshed(q, s) \in Seq(S) /\ Distinct(Refreshed(q, s))
           /\ Len(Refreshed(q, s)) <= Len(q) + 1
           /\ s \in Elements(q) => Len(Refreshed(q, s)) = Len(q)
           /\ Elements(Refreshed(q, s)) = Elements(q) \cup {s}
<1>1. CASE s \notin Elements(q)
  <2>1. Refreshed(q, s) = Append(q, s)
    BY <1>1 DEF Refreshed, Elements
  <2>. QED  BY <1>1, <2>1, Added
<1>2. CASE s \in Elements(q)
  <2>1. PICK k \in 1..Len(q) : q[k] = s /\ Refreshed(q, s) = Append(RemoveAt(q, k), s)
    <3>1. (CHOOSE i \in DOMAIN q : q[i] = s) \in 1..Len(q)
          /\ q[CHOOSE i \in DOMAIN q : q[i] = s] = s
      BY <1>2 DEF Elements
    <3>2. \E i \in DOMAIN q : q[i] = s
      BY <1>2 DEF Elements
    <3>3. Refreshed(q, s) = Append(RemoveAt(q, CHOOSE i \in DOMAIN q : q[i] = s), s)
      BY <3>2, Zenon DEF Refreshed
    <3>. QED  BY <3>1, <3>3, Zenon
  <2>2. PICK r \in Seq(S) : r = RemoveAt(q, k) /\ Skips(r, q, k)
    BY Removal
  <2>3. Distinct(r) /\ Elements(r) = Elements(q) \ {s}
    <3>1. Distinct(r) /\ Elements(r) = Elements(q) \ {q[k]}
      BY <2>2, Dropped, Zenon
    <3>. QED  BY <2>1, <3>1
  <2>4. /\ Append(r, s) \in Seq(S) /\ Len(Append(r, s)) = Len(r) + 1
        /\ Distinct(Append(r, s))
        /\ Elements(Append(r, s)) = Elements(r) \cup {s}
    BY <2>3, Added
  <2>5. Len(r) = Len(q) - 1
    BY <2>2 DEF Skips
  <2>. QED  BY <1>2, <2>1, <2>2, <2>3, <2>4, <2>5
<1>. QED  BY <1>1, <1>2

(* Without its head, a sequence of distinct elements lacks just that one.  *)
LEMMA TailKeeps ==
    ASSUME NEW S, NEW q \in Seq(S), Distinct(q), q # <<>>
    PROVE  /\ Head(q) \in Elements(q) /\ Tail(q) \in Seq(S) /\ Distinct(Tail(q))
           /\ Len(Tail(q)) = Len(q) - 1
           /\ Elements(Tail(q)) = Elements(q) \ {Head(q)}
<1>1. PICK r \in Seq(S) : /\ r = Tail(q) /\ Len(r) = Len(q) - 1
                          /\ \A i \in 1..Len(r) : r[i] = q[i + 1]
  BY HeadTailProperties
<1>2. 1 \in 1..Len(q) /\ Head(q) = q[1]
  OBVIOUS
<1>3. Skips(r, q, 1)
  BY <1>1 DEF Skips
<1>4. Distinct(r) /\ Elements(r) = Elements(q) \ {q[1]}
  BY <1>2, <1>3, Dropped, ZenonT(60)
<1>5. q[1] \in Elements(q)
  BY <1>2 DEF Elements
<1>. QED  BY <1>1, <1>2, <1>4, <1>5

-----------------------------------------------------------------------------
(* The account of one node: the nodes on the way to it are there, and it   *)
(* has a reference for each live sequence that passes it, perhaps more.    *)
NodeOK(t, p) ==
    /\ p \in Seq(Chunks) /\ Paths(p) \subseteq DOMAIN t.refs
    /\ t.refs[p] \in Nat \ {0}
    /\ Cardinality(Users(t, p)) <= t.refs[p]

TrieInv(t) ==
    /\ t.sequences \in Seq(Prompts) /\ Distinct(t.sequences)
    /\ IsFiniteSet(Live(t))
    /\ \A s \in Live(t) : Paths(s) \subseteq DOMAIN t.refs
    /\ \A p \in DOMAIN t.refs : NodeOK(t, p)

Entered(t, s) == [refs |-> Referenced(t, s), sequences |-> Refreshed(t.sequences, s)]

LEMMA UsersFinite ==
    ASSUME NEW t, TrieInv(t), NEW p
    PROVE  IsFiniteSet(Users(t, p)) /\ Cardinality(Users(t, p)) \in Nat
<1>1. IsFiniteSet(Live(t)) /\ Users(t, p) \in SUBSET Live(t)
  BY DEF TrieInv, Users
<1>2. IsFiniteSet(Users(t, p))
  BY <1>1, FS_Subset
<1>. QED  BY <1>2, FS_CardinalityType

(* Entering a sequence adds at most one user, and one reference, to each   *)
(* node of its path.                                                       *)
LEMMA EnteredKeeps ==
    ASSUME NEW t, TrieInv(t), NEW s \in Prompts
    PROVE  TrieInv(Entered(t, s)) /\ Live(Entered(t, s)) = Live(t) \cup {s}
<1> DEFINE u == Entered(t, s)
<1>1. /\ u.refs = Referenced(t, s) /\ u.sequences = Refreshed(t.sequences, s)
      /\ DOMAIN u.refs = DOMAIN t.refs \cup Paths(s)
      /\ \A p \in DOMAIN u.refs :
           u.refs[p] = IF p \in Paths(s) THEN Refs(t, p) + 1 ELSE t.refs[p]
  BY DEF Entered, Referenced
<1>2. s \in Seq(Chunks)
  BY MockAssumption
<1>. HIDE DEF u
<1>3. /\ u.sequences \in Seq(Prompts) /\ Distinct(u.sequences)
      /\ Live(u) = Live(t) \cup {s}
  <2>1. t.sequences \in Seq(Prompts) /\ Distinct(t.sequences)
    BY DEF TrieInv
  <2>2. /\ u.sequences \in Seq(Prompts) /\ Distinct(u.sequences)
        /\ Elements(u.sequences) = Elements(t.sequences) \cup {s}
    BY <1>1, <2>1, RefreshedKeeps
  <2>. QED  BY <2>2 DEF Live, Elements
<1>4. IsFiniteSet(Live(u))
  BY <1>3, FS_AddElement DEF TrieInv
<1>5. \A r \in Live(u) : Paths(r) \subseteq DOMAIN u.refs
  BY <1>1, <1>3 DEF TrieInv
<1>6. ASSUME NEW p \in DOMAIN u.refs PROVE NodeOK(u, p)
  <2>1. p \in Seq(Chunks) /\ Paths(p) \subseteq DOMAIN u.refs
    BY <1>1, <1>2, <1>6, PathsOf DEF TrieInv, NodeOK
  <2>2. IsFiniteSet(Users(t, p)) /\ Cardinality(Users(t, p)) \in Nat
    BY UsersFinite
  <2>3. Refs(t, p) \in Nat /\ Cardinality(Users(t, p)) <= Refs(t, p)
    <3>1. CASE p \in DOMAIN t.refs
      BY <3>1 DEF TrieInv, NodeOK, Refs
    <3>2. CASE p \notin DOMAIN t.refs
      <4>1. p \in Paths(p)
        BY <3>2, <1>1, <1>2, <1>6, PathsOf
      <4>2. Users(t, p) = {}
        BY <3>2 DEF TrieInv, Users
      <4>. QED  BY <4>2, <3>2, FS_EmptySet DEF Refs
    <3>. QED  BY <3>1, <3>2
  <2>4. CASE p \in Paths(s)
    <3>1. Users(u, p) = Users(t, p) \cup {s}
      BY <1>3, <2>4 DEF Users
    <3>2. Cardinality(Users(u, p)) <= Cardinality(Users(t, p)) + 1
      <4>1. Cardinality(Users(u, p))
              = IF s \in Users(t, p) THEN Cardinality(Users(t, p))
                ELSE Cardinality(Users(t, p)) + 1
        BY <3>1, <2>2, FS_AddElement
      <4>. QED  BY <4>1, <2>2
    <3>3. u.refs[p] = Refs(t, p) + 1
      BY <1>1, <2>4
    <3>4. Cardinality(Users(u, p)) \in Nat
      BY <3>1, <2>2, FS_AddElement, FS_CardinalityType
    <3>. QED  BY <2>1, <2>2, <2>3, <3>2, <3>3, <3>4 DEF NodeOK
  <2>5. CASE p \notin Paths(s)
    <3>1. Users(u, p) = Users(t, p)
      BY <1>3, <2>5 DEF Users
    <3>2. p \in DOMAIN t.refs /\ u.refs[p] = t.refs[p]
      BY <1>1, <2>5
    <3>. QED  BY <2>1, <3>1, <3>2 DEF TrieInv, NodeOK
  <2>. QED  BY <2>4, <2>5
<1>. QED  BY <1>3, <1>4, <1>5, <1>6 DEF u, TrieInv

(* Evicting the head takes a reference from each node of its path, whose   *)
(* only user it was where the node goes: no other live sequence passes a   *)
(* node that goes.                                                         *)
LEMMA EvictedKeeps ==
    ASSUME NEW t, TrieInv(t), t.sequences # <<>>
    PROVE  /\ TrieInv(EvictOldest(t))
           /\ Live(EvictOldest(t)) = Live(t) \ {Head(t.sequences)}
<1> DEFINE h == Head(t.sequences)
           u == EvictOldest(t)
           emptied == {p \in Paths(h) : t.refs[p] <= 1}
           gone == {p \in DOMAIN t.refs : Paths(p) \cap emptied # {}}
<1>1. /\ h \in Live(t) /\ Tail(t.sequences) \in Seq(Prompts)
      /\ Distinct(Tail(t.sequences))
      /\ Elements(Tail(t.sequences)) = Live(t) \ {h}
  <2>1. t.sequences \in Seq(Prompts) /\ Distinct(t.sequences)
    BY DEF TrieInv
  <2>2. Elements(t.sequences) = Live(t)
    BY DEF Elements, Live
  <2>. QED  BY <2>1, <2>2, TailKeeps
<1>2. h \in Seq(Chunks) /\ Paths(h) \subseteq DOMAIN t.refs
  <2>1. h \in Prompts
    BY <1>1 DEF TrieInv, Live
  <2>. QED  BY <1>1, <2>1, MockAssumption DEF TrieInv
<1>3. Found(t, h) = Paths(h)
  BY <1>2 DEF TrieInv, NodeOK, Found
<1>4. /\ DOMAIN u.refs = DOMAIN t.refs \ gone /\ u.sequences = Tail(t.sequences)
      /\ \A p \in DOMAIN u.refs :
           u.refs[p] = IF p \in Paths(h) THEN t.refs[p] - 1 ELSE t.refs[p]
  BY <1>3 DEF EvictOldest
<1>. HIDE DEF h, u
<1>5. Live(u) = Live(t) \ {h}
  BY <1>1, <1>4 DEF Live, Elements
<1>6. IsFiniteSet(Live(u))
  BY <1>5, FS_Subset DEF TrieInv
<1>7. ASSUME NEW q \in emptied PROVE Users(t, q) = {h}
  <2>1. h \in Users(t, q)
    BY <1>1, <1>7 DEF Users
  <2>2. IsFiniteSet(Users(t, q)) /\ Cardinality(Users(t, q)) \in Nat
    BY UsersFinite
  <2>3. Cardinality(Users(t, q)) <= 1
    <3>1. t.refs[q] \in Nat /\ t.refs[q] <= 1 /\ Cardinality(Users(t, q)) <= t.refs[q]
      BY <1>2, <1>7 DEF TrieInv, NodeOK
    <3>. QED  BY <3>1, <2>2
  <2>4. Cardinality(Users(t, q)) # 0
    BY <2>1, <2>2, FS_EmptySet
  <2>5. Cardinality(Users(t, q)) = 1
    BY <2>2, <2>3, <2>4
  <2>. QED  BY <2>1, <2>2, <2>5, FS_Singleton
<1>8. ASSUME NEW s \in Live(u) PROVE Paths(s) \subseteq DOMAIN u.refs
  <2>1. s \in Live(t) /\ s # h /\ s \in Seq(Chunks) /\ Paths(s) \subseteq DOMAIN t.refs
    <3>1. s \in Live(t) /\ s # h
      BY <1>5
    <3>2. s \in Prompts
      BY <3>1 DEF TrieInv, Live
    <3>. QED  BY <3>1, <3>2, MockAssumption DEF TrieInv
  <2>2. ASSUME NEW p \in Paths(s), p \in gone PROVE FALSE
    <3>1. PICK q \in emptied : q \in Paths(p)
      BY <2>2
    <3>2. q \in Paths(s)
      BY <2>1, <3>1, PathsOf
    <3>. QED  BY <2>1, <3>2, <1>7 DEF Users
  <2>. QED  BY <2>1, <2>2, <1>4
<1>9. ASSUME NEW p \in DOMAIN u.refs PROVE NodeOK(u, p)
  <2>1. p \in DOMAIN t.refs /\ p \notin gone /\ NodeOK(t, p)
    BY <1>4 DEF TrieInv
  <2>2. Paths(p) \subseteq DOMAIN u.refs
    <3>1. ASSUME NEW q \in Paths(p) PROVE q \notin gone
      <4>1. Paths(q) \subseteq Paths(p)
        BY <2>1, PathsOf DEF NodeOK
      <4>. QED  BY <4>1, <2>1
    <3>. QED  BY <2>1, <3>1, <1>4 DEF NodeOK
  <2>3. IsFiniteSet(Users(t, p)) /\ Cardinality(Users(t, p)) \in Nat
    BY UsersFinite
  <2>4. CASE p \in Paths(h)
    <3>1. p \in Paths(p)
      BY <2>4, <1>2, PathsOf
    <3>2. t.refs[p] \in Nat /\ t.refs[p] > 1
      BY <2>1, <2>4, <3>1 DEF NodeOK
    <3>3. Users(u, p) = Users(t, p) \ {h} /\ h \in Users(t, p)
      BY <1>1, <1>5, <2>4 DEF Users
    <3>4. Cardinality(Users(u, p)) = Cardinality(Users(t, p)) - 1
      BY <3>3, <2>3, FS_RemoveElement
    <3>5. u.refs[p] = t.refs[p] - 1
      BY <1>4, <2>4
    <3>6. u.refs[p] \in Nat \ {0}
      BY <3>2, <3>5
    <3>7. Cardinality(Users(u, p)) <= u.refs[p]
      <4>1. Cardinality(Users(t, p)) <= t.refs[p]
        BY <2>1 DEF NodeOK
      <4>. QED  BY <4>1, <3>2, <3>4, <3>5, <2>3
    <3>. QED  BY <2>1, <2>2, <3>6, <3>7 DEF NodeOK
  <2>5. CASE p \notin Paths(h)
    <3>1. Users(u, p) = Users(t, p)
      BY <1>5, <2>5 DEF Users
    <3>2. u.refs[p] = t.refs[p]
      BY <1>4, <2>5
    <3>. QED  BY <2>1, <2>2, <3>1, <3>2 DEF NodeOK
  <2>. QED  BY <2>4, <2>5
<1>10. TrieInv(u)
  BY <1>1, <1>4, <1>6, <1>8, <1>9 DEF TrieInv
<1>. QED  BY <1>5, <1>10 DEF u, h

-----------------------------------------------------------------------------
(* A leak of references is one of every node on the way, too.              *)
Upward(t) == \A p \in DOMAIN t.refs : \A q \in Paths(p) : Excess(t, p) <= Excess(t, q)

LEMMA ExcessType ==
    ASSUME NEW t, TrieInv(t), NEW p
    PROVE  /\ Excess(t, p) = Refs(t, p) - Cardinality(Users(t, p))
           /\ Cardinality(Users(t, p)) \in Nat /\ Refs(t, p) \in Nat
           /\ Excess(t, p) \in Nat
           /\ p \notin DOMAIN t.refs => Excess(t, p) = 0
<1>1. Excess(t, p) = Refs(t, p) - Cardinality(Users(t, p))
  BY DEF Excess, Users
<1>2. Cardinality(Users(t, p)) \in Nat
  BY UsersFinite
<1>3. CASE p \in DOMAIN t.refs
  <2>1. Refs(t, p) \in Nat /\ Cardinality(Users(t, p)) <= Refs(t, p)
    BY <1>3 DEF TrieInv, NodeOK, Refs
  <2>. QED  BY <1>1, <1>2, <1>3, <2>1
<1>4. CASE p \notin DOMAIN t.refs
  <2>1. Users(t, p) = {}
    BY <1>4 DEF TrieInv, Users
  <2>2. Refs(t, p) = 0 /\ Cardinality(Users(t, p)) = 0
    BY <1>4, <2>1, FS_EmptySet DEF Refs
  <2>. QED  BY <1>1, <2>2
<1>. QED  BY <1>3, <1>4

(* A new sequence leaves every account even, a repeat raises those of its  *)
(* path.                                                                   *)
LEMMA EnteredExcess ==
    ASSUME NEW t, TrieInv(t), NEW s \in Prompts, NEW p
    PROVE  Excess(Entered(t, s), p) = IF s \in Live(t) /\ p \in Paths(s)
                                      THEN Excess(t, p) + 1 ELSE Excess(t, p)
<1> DEFINE u == Entered(t, s)
           k == Cardinality(Users(t, p))
<1>1. TrieInv(u) /\ Live(u) = Live(t) \cup {s}
  BY EnteredKeeps
<1>2. Refs(u, p) = IF p \in Paths(s) THEN Refs(t, p) + 1 ELSE Refs(t, p)
  <2>1. /\ DOMAIN u.refs = DOMAIN t.refs \cup Paths(s)
        /\ \A r \in DOMAIN u.refs :
             u.refs[r] = IF r \in Paths(s) THEN Refs(t, r) + 1 ELSE t.refs[r]
    BY DEF Entered, Referenced
  <2>. HIDE DEF u
  <2>. QED  BY <2>1 DEF Refs
<1>. HIDE DEF u
<1>3. Excess(u, p) = Refs(u, p) - Cardinality(Users(u, p))
  BY <1>1, ExcessType
<1>4. Excess(t, p) = Refs(t, p) - k /\ k \in Nat /\ Refs(t, p) \in Nat
  BY ExcessType
<1>5. CASE s \notin Live(t) /\ p \in Paths(s)
  <2>1. Users(u, p) = Users(t, p) \cup {s} /\ s \notin Users(t, p)
    BY <1>1, <1>5 DEF Users
  <2>2. Cardinality(Users(u, p)) = k + 1
    BY <2>1, UsersFinite, FS_AddElement
  <2>. HIDE DEF k
  <2>. QED  BY <1>2, <1>3, <1>4, <1>5, <2>2 DEF u
<1>6. CASE s \in Live(t) \/ p \notin Paths(s)
  <2>1. Users(u, p) = Users(t, p)
    BY <1>1, <1>6 DEF Users
  <2>2. Cardinality(Users(u, p)) = k
    BY <2>1
  <2>. HIDE DEF k
  <2>. QED  BY <1>2, <1>3, <1>4, <1>6, <2>2 DEF u
<1>. QED  BY <1>5, <1>6

LEMMA EnteredUpward ==
    ASSUME NEW t, TrieInv(t), Upward(t), NEW s \in Prompts
    PROVE  Upward(Entered(t, s))
<1> DEFINE u == Entered(t, s)
<1>1. TrieInv(u)
  BY EnteredKeeps
<1>2. ASSUME NEW p \in DOMAIN u.refs, NEW q \in Paths(p) PROVE Excess(u, p) <= Excess(u, q)
  <2>1. Excess(t, p) <= Excess(t, q) /\ Excess(t, p) \in Nat /\ Excess(t, q) \in Nat
    BY ExcessType DEF Upward
  <2>2. s \in Seq(Chunks)
    BY MockAssumption
  <2>3. p \in Paths(s) => q \in Paths(s)
    BY <2>2, PathsOf
  <2>4. /\ Excess(u, p) = IF s \in Live(t) /\ p \in Paths(s) THEN Excess(t, p) + 1
                          ELSE Excess(t, p)
        /\ Excess(u, q) = IF s \in Live(t) /\ q \in Paths(s) THEN Excess(t, q) + 1
                          ELSE Excess(t, q)
    BY EnteredExcess
  <2>. HIDE DEF u
  <2>. QED  BY <2>1, <2>3, <2>4
<1>. QED  BY <1>2 DEF Upward

(* An eviction leaves every account even: a node that goes with an emptied *)
(* one above it has no more references to lose than that one.              *)
LEMMA EvictedExcess ==
    ASSUME NEW t, TrieInv(t), Upward(t), t.sequences # <<>>, NEW p
    PROVE  Excess(EvictOldest(t), p) = Excess(t, p)
<1> DEFINE h == Head(t.sequences)
           u == EvictOldest(t)
           emptied == {q \in Paths(h) : t.refs[q] <= 1}
           gone == {q \in DOMAIN t.refs : Paths(q) \cap emptied # {}}
           k == Cardinality(Users(t, p))
<1>1. TrieInv(u) /\ Live(u) = Live(t) \ {h}
  BY EvictedKeeps
<1>2. h \in Live(t) /\ Paths(h) \subseteq DOMAIN t.refs
  <2>1. t.sequences \in Seq(Prompts)
    BY DEF TrieInv
  <2>2. h = t.sequences[1] /\ 1 \in DOMAIN t.sequences
    BY <2>1
  <2>3. h \in Live(t)
    BY <2>2 DEF Live
  <2>. QED  BY <2>3 DEF TrieInv
<1>3. Found(t, h) = Paths(h)
  BY <1>2 DEF TrieInv, NodeOK, Found
<1>4. /\ DOMAIN u.refs = DOMAIN t.refs \ gone
      /\ \A q \in DOMAIN u.refs :
           u.refs[q] = IF q \in Paths(h) THEN t.refs[q] - 1 ELSE t.refs[q]
  BY <1>3 DEF EvictOldest
<1>. HIDE DEF h, u
<1>5. Excess(u, p) = Refs(u, p) - Cardinality(Users(u, p))
  BY <1>1, ExcessType
<1>6. Excess(t, p) = Refs(t, p) - k /\ k \in Nat /\ Refs(t, p) \in Nat /\ Excess(t, p) \in Nat
  BY ExcessType
<1>7. CASE p \notin DOMAIN t.refs
  <2>1. p \notin DOMAIN u.refs
    BY <1>4, <1>7
  <2>. QED  BY <1>1, <1>7, <2>1, ExcessType DEF u
<1>8. CASE p \in gone
  <2>1. p \notin DOMAIN u.refs /\ p \in DOMAIN t.refs
    BY <1>4, <1>8
  <2>2. PICK q \in emptied : q \in Paths(p)
    BY <1>8
  <2>3. q \in DOMAIN t.refs /\ Refs(t, q) <= 1
    BY <1>2, <2>2 DEF Refs
  <2>4. h \in Users(t, q)
    BY <1>2, <2>2 DEF Users
  <2>5. Cardinality(Users(t, q)) # 0
    BY <2>4, UsersFinite, FS_EmptySet
  <2>6. /\ Excess(t, q) = Refs(t, q) - Cardinality(Users(t, q))
        /\ Cardinality(Users(t, q)) \in Nat /\ Refs(t, q) \in Nat /\ Excess(t, q) \in Nat
    BY ExcessType
  <2>7. Excess(t, q) = 0
    BY <2>3, <2>5, <2>6
  <2>8. Excess(t, p) <= Excess(t, q)
    BY <2>1, <2>2 DEF Upward
  <2>9. Excess(t, p) = 0
    BY <1>6, <2>7, <2>8
  <2>10. Excess(u, p) = 0
    BY <1>1, <2>1, ExcessType
  <2>. QED  BY <2>9, <2>10 DEF u
<1>9. CASE p \in DOMAIN u.refs /\ p \in Paths(h)
  <2>1. Users(u, p) = Users(t, p) \ {h} /\ h \in Users(t, p)
    BY <1>1, <1>2, <1>9 DEF Users
  <2>2. Cardinality(Users(u, p)) = k - 1
    BY <2>1, UsersFinite, FS_RemoveElement
  <2>3. Refs(u, p) = Refs(t, p) - 1
    BY <1>4, <1>9 DEF Refs
  <2>. HIDE DEF k
  <2>. QED  BY <1>5, <1>6, <2>2, <2>3 DEF u
<1>10. CASE p \in DOMAIN u.refs /\ p \notin Paths(h)
  <2>1. Users(u, p) = Users(t, p)
    BY <1>1, <1>10 DEF Users
  <2>2. Refs(u, p) = Refs(t, p)
    BY <1>4, <1>10 DEF Refs
  <2>. QED  BY <1>5, <1>6, <2>1, <2>2 DEF u
<1>. QED  BY <1>4, <1>7, <1>8, <1>9, <1>10

LEMMA EvictedUpward ==
    ASSUME NEW t, TrieInv(t), Upward(t), t.sequences # <<>>
    PROVE  Upward(EvictOldest(t))
<1>1. DOMAIN EvictOldest(t).refs \subseteq DOMAIN t.refs
  BY DEF EvictOldest
<1>. QED  BY <1>1, EvictedExcess DEF Upward

(* Nothing else happens to a trie, and it never holds more than it may.    *)
LEMMA InsertKeeps ==
    ASSUME NEW t, TrieInv(t), Upward(t), Len(t.sequences) <= MaxPrefixes, NEW s \in Prompts
    PROVE  /\ TrieInv(Insert(t, s)) /\ Len(Insert(t, s).sequences) <= MaxPrefixes
           /\ Upward(Insert(t, s))
           /\ Live(Insert(t, s)) # Live(t) => \A p : Excess(Insert(t, s), p) = Excess(t, p)
<1> DEFINE u == Entered(t, s)
<1>1. TrieInv(u) /\ Upward(u) /\ Live(u) = Live(t) \cup {s}
  BY EnteredKeeps, EnteredUpward
<1>2. u.sequences = Refreshed(t.sequences, s) /\ u.sequences \in Seq(Prompts)
  BY <1>1 DEF Entered, TrieInv
<1>3. Insert(t, s) = IF Len(u.sequences) > MaxPrefixes THEN EvictOldest(u) ELSE u
  BY DEF Insert, Overfull, Entered
<1>4. Len(u.sequences) <= MaxPrefixes + 1 /\ Len(u.sequences) \in Nat
  <2>1. t.sequences \in Seq(Prompts) /\ Distinct(t.sequences)
    BY DEF TrieInv
  <2>2. Len(Refreshed(t.sequences, s)) <= Len(t.sequences) + 1
    BY <2>1, RefreshedKeeps
  <2>3. Len(t.sequences) \in Nat /\ Len(u.sequences) \in Nat
    BY <2>1, <1>2
  <2>. QED  BY <1>2, <2>2, <2>3, TrieAssumption
<1>5. s \notin Live(t) => \A p : Excess(u, p) = Excess(t, p)
  BY EnteredExcess
<1>6. s \in Live(t) => ~(Len(u.sequences) > MaxPrefixes)
  <2>1. t.sequences \in Seq(Prompts) /\ Distinct(t.sequences) /\ Elements(t.sequences) = Live(t)
    BY DEF TrieInv, Elements, Live
  <2>2. s \in Live(t) => Len(Refreshed(t.sequences, s)) = Len(t.sequences)
    BY <2>1, RefreshedKeeps
  <2>3. Len(t.sequences) \in Nat
    BY <2>1
  <2>. QED  BY <1>2, <2>2, <2>3, TrieAssumption
<1>. HIDE DEF u
<1>7. CASE Len(u.sequences) > MaxPrefixes
  <2>1. u.sequences # <<>>
    BY <1>7, TrieAssumption
  <2>2. EvictOldest(u).sequences = Tail(u.sequences)
    BY DEF EvictOldest
  <2>3. Len(Tail(u.sequences)) = Len(u.sequences) - 1
    BY <1>2, <2>1, HeadTailProperties
  <2>4. TrieInv(EvictOldest(u)) /\ Upward(EvictOldest(u))
    BY <1>1, <2>1, EvictedKeeps, EvictedUpward
  <2>5. Len(EvictOldest(u).sequences) <= MaxPrefixes
    BY <1>4, <2>2, <2>3, TrieAssumption
  <2>6. \A p : Excess(EvictOldest(u), p) = Excess(t, p)
    <3>1. \A p : Excess(EvictOldest(u), p) = Excess(u, p)
      BY <1>1, <2>1, EvictedExcess
    <3>. QED  BY <1>5, <1>6, <1>7, <3>1
  <2>. QED  BY <1>3, <1>7, <2>4, <2>5, <2>6
<1>8. CASE ~(Len(u.sequences) > MaxPrefixes)
  <2>1. Len(u.sequences) <= MaxPrefixes
    BY <1>4, <1>8, TrieAssumption
  <2>2. Insert(t, s) = u
    BY <1>3, <1>8
  <2>3. Live(u) # Live(t) => s \notin Live(t)
    BY <1>1
  <2>. QED  BY <1>1, <1>5, <2>1, <2>2, <2>3
<1>. QED  BY <1>7, <1>8

(* What is found is counted.                                               *)
LEMMA HitIsCount ==
    ASSUME NEW t, NEW s \in Prompts
    PROVE  Hit(t, s) \in Nat
<1>1. IsFiniteSet(Paths(s)) /\ Found(t, s) \in SUBSET Paths(s)
  BY PathsFinite, MockAssumption DEF Found
<1>2. IsFiniteSet(Found(t, s))
  BY <1>1, FS_Subset
<1>. QED  BY <1>2, FS_CardinalityType DEF Hit

-----------------------------------------------------------------------------
Counters == {"requests", "hit", "evictions", "extRequests", "extHit"}

(* Both tiers are the same trie, kept in order; the gauge.                 *)
IInv ==
    /\ TrieInv(hbm) /\ Upward(hbm) /\ Len(hbm.sequences) <= MaxPrefixes
    /\ ExternalNeverHits
    /\ metrics \in [Counters -> Nat]
    /\ waiting \in Nat /\ open \in Nat /\ running \in Nat
    /\ running >= waiting + open

LEMMA Start == Init => IInv
<1>. SUFFICES ASSUME Init PROVE IInv
  OBVIOUS
<1>1. TrieInv(EmptyTrie) /\ Upward(EmptyTrie) /\ Len(EmptyTrie.sequences) = 0
  <2>1. /\ EmptyTrie.sequences = <<>> /\ DOMAIN EmptyTrie.refs = {}
        /\ EmptyTrie.sequences \in Seq(Prompts)
    BY DEF EmptyTrie
  <2>2. Live(EmptyTrie) = {}
    BY <2>1 DEF Live
  <2>. QED  BY <2>1, <2>2, FS_EmptySet DEF TrieInv, Distinct, Upward
<1>2. metrics \in [Counters -> Nat] /\ metrics.extHit = 0
  BY DEF Init, Counters
<1>. QED  BY <1>1, <1>2, TrieAssumption DEF Init, IInv, ExternalNeverHits

(* A request keeps the invariant: equal tries are asked and grow alike, so *)
(* the second one is only asked for what it does not have either.          *)
LEMMA LookupKeeps ==
    ASSUME IInv, NEW s \in Prompts, Lookup(s)
    PROVE  /\ TrieInv(hbm') /\ Upward(hbm') /\ Len(hbm.sequences') <= MaxPrefixes
           /\ ExternalNeverHits' /\ metrics' \in [Counters -> Nat]
           /\ Live(hbm') # Live(hbm) => \A p : Excess(hbm', p) = Excess(hbm, p)
<1>1. /\ TrieInv(hbm') /\ Upward(hbm') /\ Len(hbm.sequences') <= MaxPrefixes
      /\ Live(hbm') # Live(hbm) => \A p : Excess(hbm', p) = Excess(hbm, p)
  <2>1. TrieInv(hbm) /\ Upward(hbm) /\ Len(hbm.sequences) <= MaxPrefixes
    BY DEF IInv
  <2>2. hbm' = Insert(hbm, s)
    BY DEF Lookup
  <2>. QED  BY <2>1, <2>2, InsertKeeps
<1>2. ext' = hbm'
  BY DEF IInv, ExternalNeverHits, Lookup, InsertExternal
<1>3. Hit(hbm, s) \in Nat /\ Hit(ext, s) = Hit(hbm, s)
  BY HitIsCount DEF IInv, ExternalNeverHits
<1>4. /\ metrics.requests \in Nat /\ metrics.hit \in Nat /\ metrics.evictions \in Nat
      /\ metrics.extRequests \in Nat /\ metrics.extHit = 0
  BY DEF IInv, Counters, ExternalNeverHits
<1>5. (IF Hit(hbm, s) > 0 THEN 0 ELSE Hit(ext, s)) = 0
  BY <1>3
<1>6. metrics' \in [Counters -> Nat] /\ metrics'.extHit = 0
  BY <1>3, <1>4, <1>5 DEF Lookup, Counters
<1>. QED  BY <1>1, <1>2, <1>6 DEF ExternalNeverHits

LEMMA Step == IInv /\ [Next]_vars => IInv'
<1>. SUFFICES ASSUME IInv, [Next]_vars PROVE IInv'
  OBVIOUS
<1>1. ASSUME NEW s \in Prompts, ChatCompletions(s) PROVE IInv'
  <2>1. Lookup(s)
    BY <1>1 DEF ChatCompletions
  <2>2. running' = running + 1
    BY <2>1 DEF Lookup
  <2>3. /\ waiting' \in Nat /\ open' \in Nat /\ running' \in Nat
        /\ running' >= waiting' + open'
    BY <1>1, <2>2 DEF ChatCompletions, IInv
  <2>. QED  BY <2>1, <2>3, LookupKeeps DEF IInv
<1>2. CASE StreamStarts
  BY <1>2 DEF StreamStarts, IInv, ExternalNeverHits
<1>3. CASE ResponseEnds
  BY <1>3 DEF ResponseEnds, ReleaseSlot, IInv, ExternalNeverHits
<1>4. CASE StreamDropped
  BY <1>4 DEF StreamDropped, IInv, ExternalNeverHits
<1>5. CASE UNCHANGED vars
  BY <1>5 DEF vars, IInv, ExternalNeverHits
<1>. QED  BY <1>1, <1>2, <1>3, <1>4, <1>5 DEF Next, AllAnswered

LEMMA Invariance == Spec => []IInv
  BY Start, Step, PTL DEF Spec

(* Eviction takes nothing from a live sequence, for any prompts, capacity  *)
(* and order of insertions, repeats and evictions.                         *)
THEOREM LiveStaysCached == Spec => []LiveIsCached
<1>1. IInv => LiveIsCached
  BY DEF IInv, TrieInv, NodeOK, LiveIsCached, Found
<1>. QED  BY <1>1, Invariance, PTL

(* The second tier of the mock server never scores a hit.                  *)
THEOREM ExternalIsIdle == Spec => []ExternalNeverHits
<1>1. IInv => ExternalNeverHits
  BY DEF IInv
<1>. QED  BY <1>1, Invariance, PTL

(* Nodes hang together and are referenced, capacity is respected, and the  *)
(* gauge of running requests misses none of those under way.               *)
THEOREM TypeCorrect == Spec => []TypeOK
<1>1. IInv => TypeOK
  <2>1. TrieInv(hbm) /\ Len(hbm.sequences) <= MaxPrefixes => TrieOK(hbm)
    BY DEF TrieInv, NodeOK, TrieOK, Distinct
  <2>. QED  BY <2>1 DEF IInv, TypeOK, ExternalNeverHits, Counters
<1>. QED  BY <1>1, Invariance, PTL

(* Only a request for a prompt that is cached already leaves references    *)
(* nobody gives back (insert raises the counts of a path it also re-adds). *)
THEOREM LeaksComeFromRepeats == Spec => LeakOnlyByRepeats
<1> DEFINE Even == Live(hbm') # Live(hbm) =>
              \A p \in DOMAIN hbm.refs \cup DOMAIN hbm'.refs : Excess(hbm', p) = Excess(hbm, p)
<1>1. IInv /\ [Next]_vars => [Even]_vars
  <2>1. ASSUME IInv, NEW s \in Prompts, ChatCompletions(s) PROVE Even
    BY <2>1, LookupKeeps DEF ChatCompletions
  <2>2. ASSUME UNCHANGED hbm PROVE Even
    BY <2>2
  <2>. HIDE DEF Even
  <2>. QED
    BY <2>1, <2>2 DEF Next, StreamStarts, ResponseEnds, StreamDropped, AllAnswered, vars
<1>. QED  BY <1>1, Invariance, PTL DEF Spec, LeakOnlyByRepeats
=============================================================================

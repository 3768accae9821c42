-------------------------- MODULE PrefixCacheTrie --------------------------
(***************************************************************************)
(* PrefixCacheTrie of clawperf/mock_server.py: prompts are sequences of    *)
(* chunks, kept in a trie whose nodes count references, and evicted whole, *)
(* least recently inserted first.  Definitions under a "Faulty" comment    *)
(* are not part of the model, but mistakes this code could contain.        *)
(*                                                                         *)
(* A node is the path that leads to it, and the nested dictionaries are    *)
(* one function from the nodes there are to their counts.                  *)
(***************************************************************************)
EXTENDS Integers, Sequences, FiniteSets, SequencesExt

CONSTANT MaxPrefixes \* max_prefixes

ASSUME TrieAssumption == MaxPrefixes \in Nat

(* The nodes a sequence passes, one for each of its chunks.                *)
Paths(s) == {SubSeq(s, 1, n) : n \in 1..Len(s)}

EmptyTrie == [refs |-> [p \in {} |-> 0], sequences |-> <<>>]

Live(t) == {t.sequences[i] : i \in DOMAIN t.sequences}

Refs(t, p) == IF p \in DOMAIN t.refs THEN t.refs[p] ELSE 0

(* The walk of query and of _evict_oldest: down to the first missing node. *)
Found(t, s) == {p \in Paths(s) : Paths(p) \subseteq DOMAIN t.refs}

-----------------------------------------------------------------------------
Referenced(t, s) ==
    [p \in DOMAIN t.refs \cup Paths(s) |->
        IF p \in Paths(s) THEN Refs(t, p) + 1 ELSE t.refs[p]]

(* The sequence is the most recent one, whether it was there or not.       *)
Refreshed(q, s) ==
    IF \E i \in DOMAIN q : q[i] = s
    THEN Append(RemoveAt(q, CHOOSE i \in DOMAIN q : q[i] = s), s)
    ELSE Append(q, s)

(* Faulty: nodes go with the sequence, whoever else passes them.           *)
DropPath(t) ==
    LET s == Head(t.sequences)
    IN  [refs |-> [p \in DOMAIN t.refs \ Paths(s) |-> t.refs[p]],
         sequences |-> Tail(t.sequences)]

(* Faulty: nodes that stay keep their counts.                              *)
EvictUncounted(t) ==
    LET emptied == {p \in Found(t, Head(t.sequences)) : t.refs[p] <= 1}
        gone == {p \in DOMAIN t.refs : Paths(p) \cap emptied # {}}
    IN  [refs |-> [p \in DOMAIN t.refs \ gone |-> t.refs[p]],
         sequences |-> Tail(t.sequences)]

(* Every node on the way loses a reference; one without goes, and what is  *)
(* below it too.                                                           *)
EvictOldest(t) ==
    LET found == Found(t, Head(t.sequences))
        emptied == {p \in found : t.refs[p] <= 1}
        gone == {p \in DOMAIN t.refs : Paths(p) \cap emptied # {}}
    IN  [refs |-> [p \in DOMAIN t.refs \ gone |->
                      IF p \in found THEN t.refs[p] - 1 ELSE t.refs[p]],
         sequences |-> Tail(t.sequences)]

Overfull(t, s) == Len(Refreshed(t.sequences, s)) > MaxPrefixes

(* The eviction loop: an insertion adds at most one sequence, so one       *)
(* eviction at most is due.                                                *)
Insert(t, s) ==
    LET u == [refs |-> Referenced(t, s), sequences |-> Refreshed(t.sequences, s)]
    IN  IF Overfull(t, s) THEN EvictOldest(u) ELSE u
=============================================================================

----------------------- MODULE Rfc5444ShownProofs ------------------------
(*************************************************************************)
(* Proofs that the TLVs of a message, of its addresses and of a packet   *)
(* are shown right: each entry of a consumer gets the TLVs of the block  *)
(* that fit it and no entry in front of it, for any entries of any       *)
(* consumers in any order, and any packets (BlockShownRight).            *)
(*                                                                       *)
(* The lists: a ring leads from its consumer through the consumer's      *)
(* entries in the order of their keys (ListsOk), whichever consumers     *)
(* have had entries put into theirs, or share an array of them.  The     *)
(* blocks: the TLVs of a block are in the order of theirs, as parsed     *)
(* (BlocksOk).                                                           *)
(*                                                                       *)
(* The loop of _schedule_tlvblock merges the two: what it has passed is  *)
(* given to the first entry it fits, and what is ahead fits nothing that *)
(* was passed (Merged, in Merging).  Equal keys, entries for all         *)
(* extensions of a type, and TLVs for other addresses are where that is  *)
(* not plain.                                                            *)
(*                                                                       *)
(* The invariant is SInv.  It stands on those of Rfc5444Proofs, and is   *)
(* apart from them as it speaks of pointers, which they do not need.     *)
(*************************************************************************)
EXTENDS Rfc5444Proofs

\* Around a ring: the head is in front of its elements and behind them.
Node(x, w, k) == IF k \in 1 .. Len(w) THEN w[k] ELSE x

\* The pointers in L make a ring of x with the entries w, each once.
IsRing(L, x, w) ==
    /\ L \in Rings /\ w \in Seq(Entries)
    /\ \A j, k \in DOMAIN w : w[j] = w[k] => j = k
    /\ \A k \in 0 .. Len(w) : /\ L.next[Node(x, w, k)] = Node(x, w, k + 1)
                              /\ L.prev[Node(x, w, k + 1)] = Node(x, w, k)

\* The consumers and entries are told apart, and there are finitely many.
LEMMA EntitiesAre ==
    /\ IsFiniteSet(Entities) /\ Cardinality(Entities) \in Nat
    /\ NULL \notin Entities
    /\ \A x \in Consumers, e \in Entries : x # e
  <1>1. IsFiniteSet(Entities)
    BY EntriesAssumption, FS_Union DEF Entities
  <1>2. Cardinality(Entities) \in Nat
    BY <1>1, FS_CardinalityType
  <1>3. QED
    BY <1>1, <1>2, EntriesAssumption DEF Entities

\* The elements of a ring are what it was made of.
LEMMA RingIs ==
    ASSUME NEW x \in Consumers, NEW L, NEW w, IsRing(L, x, w)
    PROVE  Ring(L, x) = w
  <1> DEFINE D == DOMAIN L.next
             IsLoop(h) == h = [k \in Nat |-> IF k = 0 THEN <<>> ELSE GoOn(L, x)[h[k - 1]]]
             walk == CHOOSE h : IsLoop(h)
  <1>1. Ring(L, x) = walk[Cardinality(D)]
    BY Zenon DEF Ring
  <1>2. D = Entities /\ w \in Seq(Entries) /\ w \in Seq(Entities) /\ Len(w) \in Nat
    <2>1. L.next \in [Entities -> Entities \cup {NULL}] /\ w \in Seq(Entries)
      BY DEF IsRing, Rings
    <2>2. w \in Seq(Entities)
      BY <2>1, SeqMono DEF Entities
    <2>3. QED
      BY <2>1, <2>2
  <1>3. Len(w) <= Cardinality(D) /\ Cardinality(D) \in Nat
    <2>1. SUFFICES ASSUME Cardinality(Entities) < Len(w) PROVE FALSE
      BY <1>2, EntitiesAre
    <2>2. IsFiniteSet(1 .. Len(w)) /\ Cardinality(1 .. Len(w)) = Len(w)
      <3>1. /\ IsFiniteSet(1 .. Len(w))
            /\ Cardinality(1 .. Len(w)) = IF 1 > Len(w) THEN 0 ELSE Len(w) - 1 + 1
        BY <1>2, FS_Interval, SMTT(20)
      <3>2. QED
        BY <1>2, <3>1
    <2>3. w \in [1 .. Len(w) -> Entities]
      BY <1>2
    <2>4. \E i, j \in 1 .. Len(w) : i # j /\ w[i] = w[j]
      BY <2>1, <2>2, <2>3, EntitiesAre, FS_PigeonHole
    <2>5. QED
      BY <1>2, <2>4 DEF IsRing
  <1> DEFINE upto(k) == IF k <= Len(w) THEN k ELSE Len(w)
  <1> PICK g : g = [k \in Nat |-> SubSeq(w, 1, upto(k))]
    OBVIOUS
  <1>4. /\ \A k \in 0 .. Len(w) : /\ SubSeq(w, 1, k) \in Seq(Entities)
                                  /\ Len(SubSeq(w, 1, k)) = k
                                  /\ \A j \in 1 .. k : SubSeq(w, 1, k)[j] = w[j]
        /\ SubSeq(w, 1, Len(w)) = w /\ SubSeq(w, 1, 0) = <<>>
    <2>1. ASSUME NEW k \in 0 .. Len(w)
          PROVE  /\ SubSeq(w, 1, k) \in Seq(Entities)
                 /\ Len(SubSeq(w, 1, k)) = k
                 /\ \A j \in 1 .. k : SubSeq(w, 1, k)[j] = w[j]
      <3>1. k \in 1 - 1 .. Len(w) /\ 1 \in 1 .. Len(w) + 1 /\ k - 1 + 1 = k /\ \A j \in 1 .. k : 1 - 1 + j = j
        BY <1>2
      <3>2. /\ SubSeq(w, 1, k) \in Seq(Entities) /\ Len(SubSeq(w, 1, k)) = k - 1 + 1
            /\ \A j \in 1 .. k - 1 + 1 : SubSeq(w, 1, k)[j] = w[1 - 1 + j]
        BY <1>2, <3>1, PieceOf
      <3>3. QED
        BY <3>1, <3>2
    <2>2. SubSeq(w, 1, Len(w)) = w
      BY <1>2, SubSeqFull
    <2>3. SubSeq(w, 1, 0) = <<>>
      <3>1. SubSeq(w, 1, 0) \in Seq(Entities) /\ Len(SubSeq(w, 1, 0)) = 0
        BY <1>2, <2>1
      <3>2. QED
        BY <3>1, EmptySeq
    <2>4. QED
      BY <2>1, <2>2, <2>3
  <1>5. ASSUME NEW k \in Nat \ {0} PROVE g[k] = GoOn(L, x)[g[k - 1]]
    <2> PICK j : j = upto(k - 1)
      OBVIOUS
    <2> PICK s : s = SubSeq(w, 1, j)
      OBVIOUS
    <2>1. j \in 0 .. Len(w) /\ k - 1 \in Nat /\ g[k - 1] = s
      BY <1>2
    <2>a. s \in Seq(Entities) /\ Len(s) = j /\ \A i \in 1 .. j : s[i] = w[i]
      BY <1>4, <2>1
    <2>b. j \in Nat /\ (j # 0 => j \in 1 .. j /\ j \in 1 .. Len(w))
      BY <1>2, <2>1
    <2>c. s = <<>> <=> j = 0
      BY <2>a, EmptySeq
    <2>2. s \in Seq(Entities) /\ Len(s) = j /\ (j # 0 => s[j] = w[j]) /\ (s = <<>> <=> j = 0)
      BY <2>a, <2>b, <2>c
    <2> PICK next : next = L.next[Node(x, w, j)]
      OBVIOUS
    <2>3. GoOn(L, x)[s] = IF next \in {x, NULL} THEN s ELSE Append(s, next)
      <3>1. Node(x, w, j) = IF s = <<>> THEN x ELSE s[Len(s)]
        <4>1. CASE j = 0
          <5>1. s = <<>> /\ j \notin 1 .. Len(w)
            BY <2>2, <4>1
          <5>2. QED
            BY <5>1 DEF Node
        <4>2. CASE j # 0
          <5>1. s # <<>> /\ j \in 1 .. Len(w) /\ s[Len(s)] = w[j]
            BY <2>b, <2>2, <4>2
          <5>2. QED
            BY <5>1 DEF Node
        <4>3. QED
          BY <4>1, <4>2
      <3>2. QED
        BY <1>2, <2>2, <3>1 DEF GoOn
    <2>4. next = Node(x, w, j + 1)
      BY <2>1 DEF IsRing
    <2>5. CASE j = Len(w)
      <3>1. next = x
        BY <1>2, <2>4, <2>5 DEF Node
      <3>2. upto(k) = Len(w)
        BY <1>2, <2>5
      <3>3. QED
        BY <2>1, <2>3, <2>5, <3>1, <3>2
    <2>6. CASE j # Len(w)
      <3>1. j = k - 1 /\ upto(k) = k /\ k \in 1 .. Len(w)
        BY <1>2, <2>1, <2>6
      <3>2. next = w[k] /\ w[k] \in Entries
        <4>1. j + 1 = k
          BY <3>1
        <4>2. next = w[k]
          BY <2>4, <3>1, <4>1 DEF Node
        <4>3. w[k] \in Entries
          BY <1>2, <3>1, ElementOfSeq
        <4>4. QED
          BY <4>2, <4>3
      <3>3. next \notin {x, NULL} /\ next \in Entities
        BY <3>2, EntitiesAre DEF Entities
      <3>4. GoOn(L, x)[s] = Append(s, next)
        BY <2>3, <3>3
      <3>5. Append(s, next) = SubSeq(w, 1, k)
        <4>1. /\ Append(s, next) \in Seq(Entities) /\ Len(Append(s, next)) = k
              /\ \A i \in 1 .. j : Append(s, next)[i] = s[i]
              /\ Append(s, next)[k] = next
          BY <2>2, <3>1, <3>3, AppendProperties
        <4>0. k \in 0 .. Len(w)
          BY <3>1
        <4>2. /\ SubSeq(w, 1, k) \in Seq(Entities) /\ Len(SubSeq(w, 1, k)) = k
              /\ \A i \in 1 .. k : SubSeq(w, 1, k)[i] = w[i]
          BY ONLY <1>4, <4>0
        <4>3. \A i \in 1 .. j : s[i] = w[i]
          BY <1>4, <2>1
        <4>4. \A i \in 1 .. k : Append(s, next)[i] = SubSeq(w, 1, k)[i]
          BY <3>1, <3>2, <4>1, <4>2, <4>3
        <4>5. QED
          BY <4>1, <4>2, <4>4, SeqEqual
      <3>6. QED
        BY <2>1, <3>1, <3>4, <3>5
    <2>7. QED
      BY <2>5, <2>6
  <1>6. IsLoop(g)
    <2>1. ASSUME NEW k \in Nat PROVE g[k] = IF k = 0 THEN <<>> ELSE GoOn(L, x)[g[k - 1]]
      <3>1. CASE k = 0
        BY <1>2, <1>4, <3>1
      <3>2. CASE k # 0
        BY <1>5, <3>2
      <3>3. QED
        BY <3>1, <3>2
    <2>2. g = [k \in Nat |-> g[k]]
      OBVIOUS
    <2>3. QED
      BY <2>1, <2>2
  <1>7. IsLoop(walk)
    <2> HIDE DEF IsLoop
    <2>1. QED
      BY <1>6
  <1> HIDE DEF walk
  <1>8. \A k \in Nat : walk[k] = IF k = 0 THEN <<>> ELSE GoOn(L, x)[walk[k - 1]]
    BY <1>7
  <1>9. \A k \in Nat : g[k] = IF k = 0 THEN <<>> ELSE GoOn(L, x)[g[k - 1]]
    BY <1>6
  <1>10. \A k \in Nat : walk[k] = g[k]
    <2> DEFINE Differ == {k \in Nat : walk[k] # g[k]}
    <2>1. SUFFICES ASSUME Differ # {} PROVE FALSE
      OBVIOUS
    <2>a. PICK i \in Differ : \A j \in Differ : i <= j
      BY <2>1, LeastOf
    <2> PICK k : k = i
      OBVIOUS
    <2>2. k \in Nat /\ walk[k] # g[k] /\ \A j \in Nat : walk[j] # g[j] => k <= j
      BY <2>a
    <2>3. k # 0
      BY <1>8, <1>9, <2>2
    <2>4. k - 1 \in Nat /\ ~(k <= k - 1)
      BY <2>2, <2>3
    <2>5. walk[k - 1] = g[k - 1]
      BY <2>2, <2>4
    <2>6. walk[k] = GoOn(L, x)[walk[k - 1]] /\ g[k] = GoOn(L, x)[g[k - 1]]
      <3>1. k \in Nat
        BY <2>2
      <3>2. QED
        BY <1>8, <1>9, <2>3, <3>1
    <2>7. QED
      BY <2>2, <2>5, <2>6
  <1>11. g[Cardinality(D)] = w
    BY <1>2, <1>3, <1>4
  <1>12. QED
    BY <1>1, <1>3, <1>10, <1>11
-----------------------------------------------------------------------------
\* All nodes of a ring are different, the head counted once.
LEMMA NodesDiffer ==
    ASSUME NEW x \in Consumers, NEW L, NEW w, IsRing(L, x, w)
    PROVE  /\ Len(w) \in Nat
           /\ \A j, k \in 0 .. Len(w) : Node(x, w, j) = Node(x, w, k) => j = k
           /\ \A j, k \in 1 .. Len(w) + 1 : Node(x, w, j) = Node(x, w, k) => j = k
           /\ \A k \in 0 .. Len(w) + 1 : Node(x, w, k) \in Entities
           /\ \A e \in Entries, k \in 0 .. Len(w) + 1 :
                 (\A j \in DOMAIN w : w[j] # e) => Node(x, w, k) # e
  <1>1. /\ Len(w) \in Nat /\ DOMAIN w = 1 .. Len(w) /\ \A k \in 1 .. Len(w) : w[k] \in Entries
        /\ \A j, k \in 1 .. Len(w) : w[j] = w[k] => j = k
    <2>1. w \in Seq(Entries) /\ \A j, k \in DOMAIN w : w[j] = w[k] => j = k
      BY DEF IsRing
    <2>2. QED
      BY <2>1
  <1>2. /\ \A k \in 1 .. Len(w) : Node(x, w, k) = w[k] /\ w[k] # x
        /\ \A k \in Int : k \notin 1 .. Len(w) => Node(x, w, k) = x
    BY <1>1, EntitiesAre DEF Node
  <1>3. \A j, k \in 0 .. Len(w) : Node(x, w, j) = Node(x, w, k) => j = k
    BY <1>1, <1>2
  <1>4. \A j, k \in 1 .. Len(w) + 1 : Node(x, w, j) = Node(x, w, k) => j = k
    BY <1>1, <1>2
  <1>5. \A k \in 0 .. Len(w) + 1 : Node(x, w, k) \in Entities
    BY <1>1, <1>2 DEF Entities
  <1>6. ASSUME NEW e \in Entries, \A j \in DOMAIN w : w[j] # e, NEW k \in 0 .. Len(w) + 1
        PROVE  Node(x, w, k) # e
    BY <1>1, <1>2, <1>6, EntitiesAre
  <1>7. QED
    BY <1>1, <1>3, <1>4, <1>5, <1>6

\* What __oonf_list_add writes.
LEMMA ListAdded ==
    ASSUME NEW L \in Rings, NEW p \in Entities, NEW q \in Entities, NEW e \in Entities, e # p, e # q
    PROVE  /\ ListAdd(L, p, q, e) \in Rings
           /\ \A y \in Entities :
                 /\ ListAdd(L, p, q, e).next[y] = IF y = p THEN e ELSE IF y = e THEN q ELSE L.next[y]
                 /\ ListAdd(L, p, q, e).prev[y] = IF y = q THEN e ELSE IF y = e THEN p ELSE L.prev[y]
  <1> PICK M : M = ListAdd(L, p, q, e)
    OBVIOUS
  <1>1. /\ L = [next |-> L.next, prev |-> L.prev]
        /\ L.next \in [Entities -> Entities \cup {NULL}] /\ L.prev \in [Entities -> Entities \cup {NULL}]
    BY DEF Rings
  <1>2. /\ M = [next |-> M.next, prev |-> M.prev]
        /\ M.next = [[L.next EXCEPT ![e] = q] EXCEPT ![p] = e]
        /\ M.prev = [[L.prev EXCEPT ![e] = p] EXCEPT ![q] = e]
    BY <1>1 DEF ListAdd
  <1>3. M.next \in [Entities -> Entities \cup {NULL}] /\ M.prev \in [Entities -> Entities \cup {NULL}]
    BY <1>1, <1>2
  <1>4. M \in Rings
    BY <1>2, <1>3 DEF Rings
  <1>5. ASSUME NEW y \in Entities
        PROVE  /\ M.next[y] = IF y = p THEN e ELSE IF y = e THEN q ELSE L.next[y]
               /\ M.prev[y] = IF y = q THEN e ELSE IF y = e THEN p ELSE L.prev[y]
    BY <1>1, <1>2
  <1>6. QED
    BY <1>4, <1>5

\* An entry that is added between two neighbours of a ring is between them.
LEMMA RingGrows ==
    ASSUME NEW x \in Consumers, NEW L, NEW w, IsRing(L, x, w),
           NEW e \in Entries, \A j \in DOMAIN w : w[j] # e, NEW at \in 0 .. Len(w)
    PROVE  LET M == ListAdd(L, Node(x, w, at), Node(x, w, at + 1), e)
           IN  /\ IsRing(M, x, Put(w, at, e))
               /\ \A y \in Entities : y # e /\ y # x /\ (\A j \in DOMAIN w : w[j] # y) =>
                     M.next[y] = L.next[y] /\ M.prev[y] = L.prev[y]
  <1>0. /\ Put(w, at, e) \in Seq(Entries) /\ Len(Put(w, at, e)) = Len(w) + 1
        /\ \A j \in 1 .. at : Put(w, at, e)[j] = w[j]
        /\ Put(w, at, e)[at + 1] = e
        /\ \A j \in at + 2 .. Len(w) + 1 : Put(w, at, e)[j] = w[j - 1]
    <2>1. w \in Seq(Entries) /\ at \in 0 .. Len(w) /\ e \in Entries
      BY DEF IsRing
    <2>2. Put(w, at, e) \in Seq(Entries)
      BY <2>1, Spliced
    <2>3. Len(Put(w, at, e)) = Len(w) + 1
      BY <2>1, Spliced
    <2>4. \A j \in 1 .. at : Put(w, at, e)[j] = w[j]
      BY <2>1, Spliced
    <2>5. Put(w, at, e)[at + 1] = e
      BY <2>1, Spliced
    <2>6. \A j \in at + 2 .. Len(w) + 1 : Put(w, at, e)[j] = w[j - 1]
      BY <2>1, Spliced
    <2>7. QED
      BY <2>2, <2>3, <2>4, <2>5, <2>6
  <1> PICK n : n = Len(w)
    OBVIOUS
  <1> PICK p, q : p = Node(x, w, at) /\ q = Node(x, w, at + 1)
    OBVIOUS
  <1> PICK M : M = ListAdd(L, p, q, e)
    OBVIOUS
  <1> PICK v : v = Put(w, at, e)
    OBVIOUS
  <1>1. /\ n \in Nat /\ at \in Nat /\ at <= n
        /\ \A j, k \in 0 .. n : Node(x, w, j) = Node(x, w, k) => j = k
        /\ \A j, k \in 1 .. n + 1 : Node(x, w, j) = Node(x, w, k) => j = k
        /\ \A k \in 0 .. n + 1 : Node(x, w, k) \in Entities /\ Node(x, w, k) # e
    <2>1. n \in Nat /\ at \in Nat /\ at <= n
      BY NodesDiffer
    <2>2. /\ \A j, k \in 0 .. n : Node(x, w, j) = Node(x, w, k) => j = k
          /\ \A j, k \in 1 .. n + 1 : Node(x, w, j) = Node(x, w, k) => j = k
          /\ \A k \in 0 .. n + 1 : Node(x, w, k) \in Entities
      BY NodesDiffer
    <2>3. \A k \in 0 .. n + 1 : Node(x, w, k) # e
      BY NodesDiffer
    <2>4. QED
      BY <2>1, <2>2, <2>3
  <1>2. e \in Entities /\ p \in Entities /\ q \in Entities /\ e # p /\ e # q /\ L \in Rings
    <2>1. at \in 0 .. n + 1 /\ at + 1 \in 0 .. n + 1
      BY <1>1
    <2>2. QED
      BY <1>1, <2>1 DEF IsRing, Entities
  <1>3. /\ M \in Rings
        /\ \A y \in Entities : /\ M.next[y] = IF y = p THEN e ELSE IF y = e THEN q ELSE L.next[y]
                               /\ M.prev[y] = IF y = q THEN e ELSE IF y = e THEN p ELSE L.prev[y]
    <2>1. L \in Rings /\ p \in Entities /\ q \in Entities /\ e \in Entities /\ e # p /\ e # q
      BY <1>2
    <2>2. /\ ListAdd(L, p, q, e) \in Rings
          /\ \A y \in Entities :
                /\ ListAdd(L, p, q, e).next[y] = IF y = p THEN e ELSE IF y = e THEN q ELSE L.next[y]
                /\ ListAdd(L, p, q, e).prev[y] = IF y = q THEN e ELSE IF y = e THEN p ELSE L.prev[y]
      BY ONLY <2>1, ListAdded
    <2>3. QED
      BY <2>2
  <1>4. /\ v \in Seq(Entries) /\ Len(v) = n + 1
        /\ \A j \in 1 .. at : v[j] = w[j]
        /\ v[at + 1] = e
        /\ \A j \in at + 2 .. n + 1 : v[j] = w[j - 1]
    BY <1>0
  <1>5. /\ \A k \in 0 .. at : Node(x, v, k) = Node(x, w, k)
        /\ Node(x, v, at + 1) = e
        /\ \A k \in at + 2 .. n + 2 : Node(x, v, k) = Node(x, w, k - 1)
    <2>1. \A k \in 0 .. at : Node(x, v, k) = Node(x, w, k)
      BY <1>1, <1>4 DEF Node
    <2>2. Node(x, v, at + 1) = e
      BY <1>1, <1>4 DEF Node
    <2>3. \A k \in at + 2 .. n + 2 : Node(x, v, k) = Node(x, w, k - 1)
      BY <1>1, <1>4 DEF Node
    <2>4. QED
      BY <2>1, <2>2, <2>3
  <1>6. \A k \in 0 .. n : /\ L.next[Node(x, w, k)] = Node(x, w, k + 1)
                          /\ L.prev[Node(x, w, k + 1)] = Node(x, w, k)
    BY DEF IsRing
  <1>7. ASSUME NEW k \in 0 .. n + 1
        PROVE  /\ M.next[Node(x, v, k)] = Node(x, v, k + 1)
               /\ M.prev[Node(x, v, k + 1)] = Node(x, v, k)
    <2>1. CASE k < at
      <3>1. k \in 0 .. at /\ k + 1 \in 0 .. at /\ k \in 0 .. n /\ k + 1 \in 1 .. n + 1
            /\ at \in 0 .. n /\ at + 1 \in 1 .. n + 1 /\ k # at /\ k + 1 # at + 1 /\ k + 1 \in 0 .. n + 1
            /\ k \in 0 .. n + 1
        BY <1>1, <2>1
      <3>2. Node(x, w, k) # p /\ Node(x, w, k + 1) # q
        BY <1>1, <3>1
      <3>3. M.next[Node(x, w, k)] = Node(x, w, k + 1) /\ M.prev[Node(x, w, k + 1)] = Node(x, w, k)
        BY <1>1, <1>3, <1>6, <3>1, <3>2
      <3>4. QED
        BY <1>5, <3>1, <3>3
    <2>2. CASE k = at
      <3>1. Node(x, v, k) = p /\ Node(x, v, k + 1) = e
        BY <1>1, <1>5, <2>2
      <3>2. QED
        BY <1>2, <1>3, <3>1
    <2>3. CASE k = at + 1
      <3>1. Node(x, v, k) = e
        BY <1>5, <2>3
      <3>2. Node(x, v, k + 1) = q
        <4>1. k + 1 \in at + 2 .. n + 2 /\ k + 1 - 1 = at + 1
          BY <1>1, <2>3
        <4>2. QED
          BY <1>5, <4>1
      <3>3. QED
        BY <1>2, <1>3, <3>1, <3>2
    <2>4. CASE k > at + 1
      <3> PICK j : j = k - 1
        OBVIOUS
      <3>1. k \in at + 2 .. n + 2 /\ k + 1 \in at + 2 .. n + 2 /\ k + 1 - 1 = k /\ j \in 0 .. n
            /\ j + 1 = k /\ k \in 1 .. n + 1 /\ at \in 0 .. n /\ at + 1 \in 1 .. n + 1
            /\ j # at /\ k # at + 1 /\ k \in 0 .. n + 1 /\ j \in 0 .. n + 1
        BY <1>1, <2>4
      <3>2. Node(x, w, j) # p /\ Node(x, w, k) # q
        BY <1>1, <3>1
      <3>3. M.next[Node(x, w, j)] = Node(x, w, k) /\ M.prev[Node(x, w, k)] = Node(x, w, j)
        BY <1>1, <1>3, <1>6, <3>1, <3>2
      <3>4. QED
        BY <1>5, <3>1, <3>3
    <2>5. QED
      BY <1>1, <2>1, <2>2, <2>3, <2>4
  <1>8. \A j, k \in DOMAIN v : v[j] = v[k] => j = k
    <2>1. DOMAIN v = 1 .. n + 1 /\ DOMAIN w = 1 .. n
      BY <1>1, <1>4 DEF IsRing
    <2>2. \A j, k \in 1 .. n : w[j] = w[k] => j = k
      BY <2>1 DEF IsRing
    <2>3. \A k \in 1 .. n + 1 : \/ k = at + 1 /\ v[k] = e
                                \/ k <= at /\ k \in 1 .. n /\ v[k] = w[k]
                                \/ k > at + 1 /\ k - 1 \in 1 .. n /\ v[k] = w[k - 1]
      BY <1>1, <1>4
    <2>4. SUFFICES ASSUME NEW j \in 1 .. n + 1, NEW k \in 1 .. n + 1, v[j] = v[k] PROVE j = k
      BY <2>1
    <2>5. \A i \in 1 .. n : w[i] # e
      BY <2>1
    <2>6. QED
      BY <1>1, <2>2, <2>3, <2>4, <2>5
  <1>9. IsRing(M, x, v)
    BY <1>3, <1>4, <1>7, <1>8 DEF IsRing
  <1>10. ASSUME NEW y \in Entities, y # e, y # x, \A j \in DOMAIN w : w[j] # y
         PROVE  M.next[y] = L.next[y] /\ M.prev[y] = L.prev[y]
    <2>1. DOMAIN w = 1 .. n
      BY <1>1 DEF IsRing
    <2>2. y # p /\ y # q
      BY <1>10, <2>1 DEF Node
    <2>3. QED
      BY <1>3, <1>10, <2>2
  <1>11. QED
    BY <1>9, <1>10
-----------------------------------------------------------------------------
\* What is required of an entry is a number of an octet, and so the order is one.
LEMMA KeyIs ==
    /\ \A e \in Entries : entry[e].type \in 0 .. 255 /\ entry[e].type_ext \in 0 .. 255
    /\ \A e \in Entries : EntryKey(e) = 256 * entry[e].type + entry[e].type_ext /\ EntryKey(e) \in Nat
  <1>1. \A e \in Entries : entry[e].type \in 0 .. 255 /\ entry[e].type_ext \in 0 .. 255
    BY EntriesAssumption
  <1>2. \A e \in Entries : EntryKey(e) = 256 * entry[e].type + entry[e].type_ext
    BY DEF EntryKey
  <1>3. \A t, n \in 0 .. 255 : 256 * t + n \in Nat
    OBVIOUS
  <1>4. ASSUME NEW e \in Entries PROVE EntryKey(e) \in Nat
    <2> PICK t, n : t = entry[e].type /\ n = entry[e].type_ext
      OBVIOUS
    <2>1. t \in 0 .. 255 /\ n \in 0 .. 255 /\ EntryKey(e) = 256 * t + n
      BY <1>1, <1>2
    <2>2. 256 * t + n \in Nat
      BY ONLY <1>3, <2>1
    <2>3. QED
      BY <2>1, <2>2
  <1>5. QED
    BY <1>1, <1>2, <1>4

\* A turn of the loop in _add_consumer puts the entry between those that do not come
\* later and those that do.
LEMMA EntryAdded ==
    ASSUME NEW x \in Consumers, NEW L, NEW w, IsRing(L, x, w), NEW e \in Entries,
           NEW at \in 0 .. Len(w),
           \A j \in 1 .. at : EntryKey(w[j]) <= EntryKey(e),
           \A j \in at + 1 .. Len(w) : EntryKey(w[j]) > EntryKey(e)
    PROVE  AddEntry(L, x, e) = ListAdd(L, Node(x, w, at), Node(x, w, at + 1), e)
  <1> DEFINE before == {y \in ToSet(w) : EntryKey(y) <= EntryKey(e)}
             IsLast(y) == \A z \in before \ {y} : \E m, n \in DOMAIN w : m < n /\ w[m] = z /\ w[n] = y
             last == CHOOSE y \in before : IsLast(y)
  <1>1. Ring(L, x) = w
    BY RingIs
  <1>2. AddEntry(L, x, e) = IF oonf_list_is_empty(L, x) THEN oonf_list_add_tail(L, x, e)
                            ELSE IF before = {} THEN oonf_list_add_head(L, x, e)
                            ELSE oonf_list_add_after(L, last, e)
    BY <1>1 DEF AddEntry
  <1>3. /\ Len(w) \in Nat /\ DOMAIN w = 1 .. Len(w) /\ at \in Nat /\ at <= Len(w)
        /\ \A k \in 1 .. Len(w) : w[k] \in Entries
        /\ \A j, k \in 1 .. Len(w) : w[j] = w[k] => j = k
        /\ ToSet(w) = {w[k] : k \in 1 .. Len(w)}
    <2>1. w \in Seq(Entries) /\ \A j, k \in DOMAIN w : w[j] = w[k] => j = k
      BY DEF IsRing
    <2>2. Len(w) \in Nat /\ DOMAIN w = 1 .. Len(w) /\ \A k \in 1 .. Len(w) : w[k] \in Entries
      BY <2>1
    <2>3. ToSet(w) = {w[k] : k \in 1 .. Len(w)}
      BY <2>2 DEF ToSet
    <2>4. QED
      BY <2>1, <2>2, <2>3
  <1>4. \A k \in 0 .. Len(w) : /\ L.next[Node(x, w, k)] = Node(x, w, k + 1)
                               /\ L.prev[Node(x, w, k + 1)] = Node(x, w, k)
    BY DEF IsRing
  <1>5. Node(x, w, 0) = x /\ \A k \in 1 .. Len(w) : Node(x, w, k) = w[k]
    BY DEF Node
  <1>6. L.next[x] = Node(x, w, 1)
    <2>1. 0 \in 0 .. Len(w) /\ 0 + 1 = 1
      BY <1>3
    <2>2. QED
      BY <1>4, <1>5, <2>1
  <1>7. CASE Len(w) = 0
    <2>1. Node(x, w, 1) = x /\ at = 0 /\ at + 1 = 1 /\ 0 \in 0 .. Len(w)
      BY <1>3, <1>7 DEF Node
    <2>2. L.prev[x] = x
      BY <1>4, <1>5, <2>1
    <2>3. oonf_list_is_empty(L, x)
      BY <1>6, <2>1, <2>2 DEF oonf_list_is_empty
    <2>4. QED
      BY <1>2, <1>5, <2>1, <2>2, <2>3 DEF oonf_list_add_tail
  <1>8. CASE Len(w) # 0
    <2>1. ~oonf_list_is_empty(L, x)
      <3>1. 1 \in 1 .. Len(w)
        BY <1>3, <1>8
      <3>2. L.next[x] = w[1] /\ w[1] \in Entries
        BY <1>3, <1>5, <1>6, <3>1
      <3>3. QED
        BY <3>2, EntitiesAre DEF oonf_list_is_empty
    <2>2. \A k \in 1 .. Len(w) : EntryKey(w[k]) \in Nat /\ EntryKey(e) \in Nat
      BY <1>3, KeyIs
    <2>3. \A k \in 1 .. Len(w) : w[k] \in before <=> k <= at
      <3>1. \A k \in 1 .. Len(w) : k <= at => k \in 1 .. at
        BY <1>3
      <3>2. \A k \in 1 .. Len(w) : ~(k <= at) => k \in at + 1 .. Len(w)
        BY <1>3
      <3>3. QED
        BY <1>3, <2>2, <3>1, <3>2
    <2>4. CASE at = 0
      <3>1. before = {}
        BY <1>3, <2>3, <2>4
      <3>2. at + 1 = 1
        BY <2>4
      <3>3. QED
        BY <1>2, <1>5, <1>6, <2>1, <2>4, <3>1, <3>2 DEF oonf_list_add_head
    <2>5. CASE at # 0
      <3>1. at \in 1 .. Len(w) /\ w[at] \in before
        BY <1>3, <2>3, <2>5
      <3>2. IsLast(w[at])
        <4> SUFFICES ASSUME NEW z \in before, z # w[at]
                     PROVE  \E m, n \in DOMAIN w : m < n /\ w[m] = z /\ w[n] = w[at]
          OBVIOUS
        <4>1. PICK m \in 1 .. Len(w) : z = w[m]
          BY <1>3
        <4>2. m < at
          BY <1>3, <2>3, <4>1
        <4>3. QED
          BY <1>3, <3>1, <4>1, <4>2
      <3>3. ASSUME NEW y \in before, IsLast(y) PROVE y = w[at]
        <4>1. SUFFICES ASSUME y # w[at] PROVE FALSE
          OBVIOUS
        <4>2. PICK m, n \in DOMAIN w : m < n /\ w[m] = w[at] /\ w[n] = y
          BY <3>1, <3>3, <4>1
        <4>3. m = at /\ n \in 1 .. Len(w) /\ n > at
          BY <1>3, <3>1, <4>2
        <4>4. w[n] \notin before
          BY <1>3, <2>3, <4>3
        <4>5. QED
          BY <4>2, <4>4
      <3>4. last = w[at]
        <4> HIDE DEF IsLast, before
        <4>1. QED
          BY <3>1, <3>2, <3>3
      <3>5. L.next[w[at]] = Node(x, w, at + 1)
        <4>1. at \in 0 .. Len(w)
          OBVIOUS
        <4>2. QED
          BY <1>4, <1>5, <3>1, <4>1
      <3>6. QED
        BY <1>2, <1>5, <2>1, <3>1, <3>4, <3>5 DEF oonf_list_add_after
    <2>6. QED
      BY <2>4, <2>5
  <1>9. QED
    BY <1>7, <1>8

-----------------------------------------------------------------------------
\* The order of the entries es of a consumer.
Before(es, y, z) ==
    \/ EntryKey(y) < EntryKey(z)
    \/ EntryKey(y) = EntryKey(z) /\ \E j, k \in DOMAIN es : j < k /\ es[j] = y /\ es[k] = z

\* The first n entries of es in that order.
IsSort(es, n, w) ==
    /\ w \in Seq(Entries)
    /\ \A y : (\E k \in DOMAIN w : w[k] = y) <=> (\E k \in 1 .. n : es[k] = y)
    /\ \A j, k \in DOMAIN w : j < k => Before(es, w[j], w[k])

\* Different entries in an array.
Distinct(es) == es \in Seq(Entries) /\ \A j, k \in DOMAIN es : es[j] = es[k] => j = k

\* Of two entries one is before the other.
LEMMA OneBefore ==
    ASSUME NEW es, Distinct(es), NEW y \in Entries, NEW z \in Entries, Before(es, y, z)
    PROVE  ~Before(es, z, y) /\ y # z
  <1>1. EntryKey(y) \in Nat /\ EntryKey(z) \in Nat
    BY KeyIs
  <1>2. Len(es) \in Nat /\ DOMAIN es = 1 .. Len(es) /\ \A j, k \in 1 .. Len(es) : es[j] = es[k] => j = k
    <2>1. es \in Seq(Entries) /\ \A j, k \in DOMAIN es : es[j] = es[k] => j = k
      BY DEF Distinct
    <2>2. QED
      BY <2>1
  <1>3. CASE EntryKey(y) < EntryKey(z)
    BY <1>1, <1>3 DEF Before
  <1>4. CASE ~(EntryKey(y) < EntryKey(z))
    <2>1. EntryKey(y) = EntryKey(z)
      BY <1>4 DEF Before
    <2>2. PICK j, k \in 1 .. Len(es) : j < k /\ es[j] = y /\ es[k] = z
      BY <1>2, <1>4 DEF Before
    <2>3. y # z
      BY <1>2, <2>2
    <2>4. ASSUME NEW l \in 1 .. Len(es), NEW m \in 1 .. Len(es), l < m, es[l] = z, es[m] = y PROVE FALSE
      <3>1. l = k /\ m = j
        BY <1>2, <2>2, <2>4
      <3>2. QED
        BY <2>2, <2>4, <3>1
    <2>5. QED
      BY <1>1, <1>2, <2>1, <2>3, <2>4 DEF Before
  <1>5. QED
    BY <1>3, <1>4

\* What is in order holds each entry once.
LEMMA SortDistinct ==
    ASSUME NEW es, Distinct(es), NEW n, NEW w, IsSort(es, n, w)
    PROVE  /\ Len(w) \in Nat /\ DOMAIN w = 1 .. Len(w) /\ \A k \in 1 .. Len(w) : w[k] \in Entries
           /\ \A j, k \in DOMAIN w : w[j] = w[k] => j = k
  <1>1. w \in Seq(Entries)
    BY DEF IsSort
  <1>2. Len(w) \in Nat /\ DOMAIN w = 1 .. Len(w) /\ \A k \in 1 .. Len(w) : w[k] \in Entries
    BY <1>1
  <1>3. \A j, k \in DOMAIN w : j < k => w[j] # w[k]
    BY <1>2, OneBefore DEF IsSort
  <1>4. ASSUME NEW j \in DOMAIN w, NEW k \in DOMAIN w, w[j] = w[k] PROVE j = k
    <2>1. j \in Nat /\ k \in Nat
      BY <1>2
    <2>2. ~(j < k) /\ ~(k < j)
      BY <1>3, <1>4
    <2>3. QED
      BY <2>1, <2>2
  <1>5. QED
    BY <1>2, <1>4

\* An entry is in order in one way only.
LEMMA SortUnique ==
    ASSUME NEW es, Distinct(es), NEW n, NEW v, NEW w, IsSort(es, n, v), IsSort(es, n, w)
    PROVE  v = w
  <1>1. /\ Len(v) \in Nat /\ DOMAIN v = 1 .. Len(v) /\ \A k \in 1 .. Len(v) : v[k] \in Entries
        /\ \A j, k \in DOMAIN v : v[j] = v[k] => j = k
    BY SortDistinct
  <1>2. /\ Len(w) \in Nat /\ DOMAIN w = 1 .. Len(w) /\ \A k \in 1 .. Len(w) : w[k] \in Entries
        /\ \A j, k \in DOMAIN w : w[j] = w[k] => j = k
    BY SortDistinct
  <1>a. \A y : (\E k \in DOMAIN v : v[k] = y) <=> (\E k \in DOMAIN w : w[k] = y)
    BY DEF IsSort
  <1>b. /\ \A j, k \in DOMAIN v : j < k => Before(es, v[j], v[k])
        /\ \A j, k \in DOMAIN w : j < k => Before(es, w[j], w[k])
    BY DEF IsSort
  <1> DEFINE Differ == {k \in Nat \ {0} : /\ k \in DOMAIN v \/ k \in DOMAIN w
                                          /\ ~(k \in DOMAIN v /\ k \in DOMAIN w /\ v[k] = w[k])}
  <1>3. CASE Differ = {}
    <2>1. \A k \in Nat \ {0} : k \in DOMAIN v <=> k \in DOMAIN w
      BY <1>3
    <2>2. Len(v) = Len(w)
      <3>1. Len(v) # 0 => Len(v) <= Len(w)
        <4>1. Len(v) # 0 => Len(v) \in Nat \ {0} /\ Len(v) \in DOMAIN v
          BY <1>1
        <4>2. QED
          BY <1>2, <2>1, <4>1
      <3>2. Len(w) # 0 => Len(w) <= Len(v)
        <4>1. Len(w) # 0 => Len(w) \in Nat \ {0} /\ Len(w) \in DOMAIN w
          BY <1>2
        <4>2. QED
          BY <1>1, <2>1, <4>1
      <3>3. Len(v) \in Nat /\ Len(w) \in Nat
        BY <1>1, <1>2
      <3>4. QED
        BY <3>1, <3>2, <3>3
    <2>3. \A k \in 1 .. Len(v) : v[k] = w[k]
      BY <1>1, <1>3
    <2>4. v \in Seq(Entries) /\ w \in Seq(Entries)
      BY DEF IsSort
    <2>5. QED
      BY <2>2, <2>3, <2>4, SeqEqual
  <1>4. CASE Differ # {}
    <2>1. PICK i \in Differ : \A j \in Differ : i <= j
      BY <1>4, LeastOf
    <2>2. /\ i \in Nat /\ i # 0
          /\ i \in DOMAIN v \/ i \in DOMAIN w
          /\ ~(i \in DOMAIN v /\ i \in DOMAIN w /\ v[i] = w[i])
      BY <2>1
    <2>3. \A j \in Nat \ {0} : j < i /\ (j \in DOMAIN v \/ j \in DOMAIN w) =>
             j \in DOMAIN v /\ j \in DOMAIN w /\ v[j] = w[j]
      <3>1. \A j \in Nat \ {0} : j < i => j \notin Differ
        BY <2>1, <2>2
      <3>2. QED
        BY <3>1
    <2>4. ASSUME i \in DOMAIN v PROVE \E j \in DOMAIN w : j > i /\ i \in DOMAIN w /\ w[j] = v[i]
      <3>1. PICK j \in DOMAIN w : w[j] = v[i]
        BY <1>a, <2>4
      <3>2. j \in Nat \ {0}
        BY <1>2
      <3>3. ~(j < i)
        <4>1. SUFFICES ASSUME j < i PROVE FALSE
          OBVIOUS
        <4>2. j \in DOMAIN v /\ v[j] = w[j]
          BY <2>3, <3>2, <4>1
        <4>3. j = i
          BY <1>1, <2>4, <3>1, <4>2
        <4>4. QED
          BY <2>2, <4>1, <4>3
      <3>4. j # i
        BY <2>2, <2>4, <3>1
      <3>5. i \in DOMAIN w
        BY <1>2, <2>2, <3>2, <3>3
      <3>6. QED
        BY <2>2, <3>1, <3>2, <3>3, <3>4, <3>5
    <2>5. ASSUME i \in DOMAIN w PROVE \E j \in DOMAIN v : j > i /\ i \in DOMAIN v /\ v[j] = w[i]
      <3>1. PICK j \in DOMAIN v : v[j] = w[i]
        BY <1>a, <2>5
      <3>2. j \in Nat \ {0}
        BY <1>1
      <3>3. ~(j < i)
        <4>1. SUFFICES ASSUME j < i PROVE FALSE
          OBVIOUS
        <4>2. j \in DOMAIN w /\ v[j] = w[j]
          BY <2>3, <3>2, <4>1
        <4>3. j = i
          BY <1>2, <2>5, <3>1, <4>2
        <4>4. QED
          BY <2>2, <4>1, <4>3
      <3>4. j # i
        BY <2>2, <2>5, <3>1
      <3>5. i \in DOMAIN v
        BY <1>1, <2>2, <3>2, <3>3
      <3>6. QED
        BY <2>2, <3>1, <3>2, <3>3, <3>4, <3>5
    <2>6. i \in DOMAIN v /\ i \in DOMAIN w
      BY <2>2, <2>4, <2>5
    <2>7. Before(es, w[i], v[i]) /\ Before(es, v[i], w[i])
      BY <1>b, <2>4, <2>5, <2>6
    <2>8. v[i] \in Entries /\ w[i] \in Entries
      BY <1>1, <1>2, <2>6
    <2>9. QED
      BY <2>7, <2>8, OneBefore
  <1>5. QED
    BY <1>3, <1>4

\* There is one place for another entry.
LEMMA SortGrows ==
    ASSUME NEW es, Distinct(es), NEW n \in 1 .. Len(es), NEW w, IsSort(es, n - 1, w)
    PROVE  /\ es[n] \in Entries /\ \A j \in DOMAIN w : w[j] # es[n]
           /\ \E at \in 0 .. Len(w) : /\ \A j \in 1 .. at : EntryKey(w[j]) <= EntryKey(es[n])
                                      /\ \A j \in at + 1 .. Len(w) : EntryKey(w[j]) > EntryKey(es[n])
                                      /\ IsSort(es, n, Put(w, at, es[n]))
  <1>1. /\ Len(es) \in Nat /\ DOMAIN es = 1 .. Len(es) /\ n \in Nat /\ n \in DOMAIN es
        /\ \A k \in 1 .. Len(es) : es[k] \in Entries
        /\ \A j, k \in DOMAIN es : es[j] = es[k] => j = k
    <2>1. es \in Seq(Entries) /\ \A j, k \in DOMAIN es : es[j] = es[k] => j = k
      BY DEF Distinct
    <2>2. QED
      BY <2>1
  <1>2. /\ Len(w) \in Nat /\ DOMAIN w = 1 .. Len(w) /\ \A k \in 1 .. Len(w) : w[k] \in Entries
        /\ \A j, k \in DOMAIN w : w[j] = w[k] => j = k
    BY SortDistinct
  <1>3. /\ w \in Seq(Entries)
        /\ \A y : (\E k \in DOMAIN w : w[k] = y) <=> (\E k \in 1 .. n - 1 : es[k] = y)
        /\ \A j, k \in DOMAIN w : j < k => Before(es, w[j], w[k])
    BY DEF IsSort
  <1> PICK e : e = es[n]
    OBVIOUS
  <1>4. e \in Entries
    BY <1>1
  <1>5. \A j \in DOMAIN w : \E k \in 1 .. n - 1 : es[k] = w[j]
    BY <1>3
  <1>6. \A j \in DOMAIN w : w[j] # e
    <2> SUFFICES ASSUME NEW j \in DOMAIN w, w[j] = e PROVE FALSE
      OBVIOUS
    <2>1. PICK k \in 1 .. n - 1 : es[k] = e
      BY <1>5
    <2>2. k \in DOMAIN es /\ k # n
      BY <1>1
    <2>3. QED
      BY <1>1, <2>1, <2>2
  <1>7. EntryKey(e) \in Nat /\ \A j \in 1 .. Len(w) : EntryKey(w[j]) \in Nat
    BY <1>2, <1>4, KeyIs
  <1>8. \A j, k \in 1 .. Len(w) : j < k => EntryKey(w[j]) <= EntryKey(w[k])
    <2> SUFFICES ASSUME NEW j \in 1 .. Len(w), NEW k \in 1 .. Len(w), j < k
                 PROVE  EntryKey(w[j]) <= EntryKey(w[k])
      OBVIOUS
    <2>1. Before(es, w[j], w[k]) /\ EntryKey(w[j]) \in Nat /\ EntryKey(w[k]) \in Nat
      BY <1>2, <1>3, <1>7
    <2>2. QED
      BY <2>1 DEF Before
  <1>9. PICK at \in 0 .. Len(w) : /\ \A j \in 1 .. at : EntryKey(w[j]) <= EntryKey(e)
                                  /\ \A j \in at + 1 .. Len(w) : EntryKey(w[j]) > EntryKey(e)
    <2> DEFINE Behind == {j \in 1 .. Len(w) : EntryKey(w[j]) > EntryKey(e)}
    <2>1. CASE Behind = {}
      <3>1. Len(w) \in 0 .. Len(w) /\ \A j \in Len(w) + 1 .. Len(w) : FALSE
        BY <1>2
      <3>2. \A j \in 1 .. Len(w) : EntryKey(w[j]) <= EntryKey(e)
        BY <1>7, <2>1
      <3>3. QED
        BY <3>1, <3>2
    <2>2. CASE Behind # {}
      <3>1. Behind \in SUBSET Nat
        OBVIOUS
      <3>2. PICK i \in Behind : \A j \in Behind : i <= j
        BY <2>2, <3>1, LeastOf
      <3>3. i \in 1 .. Len(w) /\ EntryKey(w[i]) > EntryKey(e) /\ i - 1 \in 0 .. Len(w) /\ i - 1 + 1 = i
        BY <1>2, <3>2
      <3>4. ASSUME NEW j \in 1 .. i - 1 PROVE EntryKey(w[j]) <= EntryKey(e)
        <4>1. j \in 1 .. Len(w) /\ ~(i <= j)
          BY <1>2, <3>3
        <4>2. j \notin Behind
          BY <3>2, <4>1
        <4>3. QED
          BY <1>7, <4>1, <4>2
      <3>5. ASSUME NEW j \in i .. Len(w) PROVE EntryKey(w[j]) > EntryKey(e)
        <4>1. j \in 1 .. Len(w) /\ (i = j \/ i < j)
          BY <1>2, <3>3
        <4>2. EntryKey(w[i]) <= EntryKey(w[j])
          BY <1>7, <1>8, <3>3, <4>1
        <4>3. EntryKey(w[i]) \in Nat /\ EntryKey(w[j]) \in Nat
          BY <1>7, <3>3, <4>1
        <4>4. QED
          BY <1>7, <3>3, <4>2, <4>3
      <3>6. QED
        BY <3>3, <3>4, <3>5
    <2>3. QED
      BY <2>1, <2>2
  <1>10. /\ Put(w, at, e) \in Seq(Entries) /\ Len(Put(w, at, e)) = Len(w) + 1
         /\ \A j \in 1 .. at : Put(w, at, e)[j] = w[j]
         /\ Put(w, at, e)[at + 1] = e
         /\ \A j \in at + 2 .. Len(w) + 1 : Put(w, at, e)[j] = w[j - 1]
    <2>1. w \in Seq(Entries) /\ at \in 0 .. Len(w) /\ e \in Entries
      BY <1>3, <1>4
    <2>2. Put(w, at, e) \in Seq(Entries)
      BY ONLY <2>1, Spliced
    <2>3. Len(Put(w, at, e)) = Len(w) + 1
      BY ONLY <2>1, Spliced
    <2>4. \A j \in 1 .. at : Put(w, at, e)[j] = w[j]
      BY ONLY <2>1, Spliced
    <2>5. Put(w, at, e)[at + 1] = e
      BY ONLY <2>1, Spliced
    <2>6. \A j \in at + 2 .. Len(w) + 1 : Put(w, at, e)[j] = w[j - 1]
      BY ONLY <2>1, Spliced
    <2>7. QED
      BY <2>2, <2>3, <2>4, <2>5, <2>6
  <1> PICK v : v = Put(w, at, e)
    OBVIOUS
  <1>11. /\ v \in Seq(Entries) /\ DOMAIN v = 1 .. Len(w) + 1
         /\ \A k \in 1 .. Len(w) + 1 : \/ k = at + 1 /\ v[k] = e
                                       \/ k <= at /\ k \in 1 .. Len(w) /\ v[k] = w[k]
                                       \/ k > at + 1 /\ k - 1 \in 1 .. Len(w) /\ v[k] = w[k - 1]
    <2>1. v \in Seq(Entries) /\ DOMAIN v = 1 .. Len(w) + 1
      BY <1>10
    <2>2. \A k \in 1 .. Len(w) + 1 : \/ k = at + 1
                                     \/ k \in 1 .. at /\ k <= at /\ k \in 1 .. Len(w)
                                     \/ k \in at + 2 .. Len(w) + 1 /\ k > at + 1 /\ k - 1 \in 1 .. Len(w)
      BY <1>2
    <2>3. QED
      BY <1>10, <2>1, <2>2
  <1>12. ASSUME NEW y PROVE (\E k \in DOMAIN v : v[k] = y) <=> (\E k \in 1 .. n : es[k] = y)
    <2>1. ASSUME NEW k \in DOMAIN v, v[k] = y PROVE \E j \in 1 .. n : es[j] = y
      <3>1. CASE v[k] = e
        <4>1. n \in 1 .. n
          BY <1>1
        <4>2. QED
          BY <2>1, <3>1, <4>1
      <3>2. CASE \E j \in DOMAIN w : v[k] = w[j]
        <4>1. PICK i \in 1 .. n - 1 : es[i] = y
          BY <1>5, <2>1, <3>2
        <4>2. i \in 1 .. n
          BY <1>1
        <4>3. QED
          BY <4>1, <4>2
      <3>3. QED
        BY <1>2, <1>11, <2>1, <3>1, <3>2
    <2>2. ASSUME NEW j \in 1 .. n, es[j] = y PROVE \E k \in DOMAIN v : v[k] = y
      <3>1. CASE j = n
        <4>1. at + 1 \in DOMAIN v /\ v[at + 1] = e
          BY <1>2, <1>10, <1>11
        <4>2. QED
          BY <2>2, <3>1, <4>1
      <3>2. CASE j # n
        <4>1. j \in 1 .. n - 1
          BY <1>1, <3>2
        <4>2. PICK k \in DOMAIN w : w[k] = y
          BY <1>3, <2>2, <4>1
        <4>3. CASE k <= at
          <5>1. k \in 1 .. at /\ k \in DOMAIN v
            BY <1>2, <1>11, <4>3
          <5>2. QED
            BY <1>10, <4>2, <5>1
        <4>4. CASE ~(k <= at)
          <5>1. k + 1 \in at + 2 .. Len(w) + 1 /\ k + 1 \in DOMAIN v /\ k + 1 - 1 = k
            BY <1>2, <1>11, <4>4
          <5>2. v[k + 1] = w[k]
            BY <1>10, <5>1
          <5>3. QED
            BY <4>2, <5>1, <5>2
        <4>5. QED
          BY <4>3, <4>4
      <3>3. QED
        BY <3>1, <3>2
    <2>3. QED
      BY <2>1, <2>2
  <1>13. ASSUME NEW j \in DOMAIN v, NEW k \in DOMAIN v, j < k PROVE Before(es, v[j], v[k])
    <2>0. j \in 1 .. Len(w) + 1 /\ k \in 1 .. Len(w) + 1
      BY <1>11
    <2>1. CASE k = at + 1
      <3>1. v[k] = e /\ j <= at /\ j \in DOMAIN w /\ v[j] = w[j] /\ j \in 1 .. at
        BY <1>2, <1>10, <1>11, <1>13, <2>0, <2>1
      <3>2. PICK i \in 1 .. n - 1 : es[i] = v[j]
        BY <1>5, <3>1
      <3>3. i \in DOMAIN es /\ n \in DOMAIN es /\ i < n
        BY <1>1
      <3>4. EntryKey(v[j]) <= EntryKey(e) /\ EntryKey(v[j]) \in Nat
        BY <1>2, <1>7, <1>9, <3>1
      <3>5. QED
        BY <1>7, <3>1, <3>2, <3>3, <3>4 DEF Before
    <2>2. CASE j = at + 1
      <3>1. v[j] = e /\ k - 1 \in DOMAIN w /\ v[k] = w[k - 1] /\ k - 1 \in at + 1 .. Len(w)
        BY <1>2, <1>10, <1>11, <1>13, <2>0, <2>2
      <3>2. EntryKey(v[k]) > EntryKey(e) /\ EntryKey(v[k]) \in Nat
        BY <1>2, <1>7, <1>9, <3>1
      <3>3. QED
        BY <1>7, <3>1, <3>2 DEF Before
    <2>3. CASE j # at + 1 /\ k # at + 1
      <3> PICK i, l : i = (IF j <= at THEN j ELSE j - 1) /\ l = IF k <= at THEN k ELSE k - 1
        OBVIOUS
      <3>0. at \in Nat /\ j \in Nat /\ k \in Nat
        BY <1>2, <2>0
      <3>a. i \in DOMAIN w /\ v[j] = w[i]
        BY <1>2, <1>11, <2>0, <2>3, <3>0
      <3>b. l \in DOMAIN w /\ v[k] = w[l]
        BY <1>2, <1>11, <2>0, <2>3, <3>0
      <3>c. i < l
        BY <1>13, <2>3, <3>0
      <3>1. i \in DOMAIN w /\ l \in DOMAIN w /\ i < l /\ v[j] = w[i] /\ v[k] = w[l]
        BY <3>a, <3>b, <3>c
      <3>2. QED
        BY <1>3, <3>1
    <2>4. QED
      BY <2>1, <2>2, <2>3
  <1>14. IsSort(es, n, v)
    BY <1>11, <1>12, <1>13 DEF IsSort
  <1>15. QED
    BY <1>4, <1>6, <1>9, <1>14

\* _add_consumer makes a ring of the consumer with its entries in order, and leaves
\* the pointers of all others.
LEMMA EntriesAdded ==
    ASSUME NEW x \in Consumers, NEW L \in Rings, NEW es, Distinct(es)
    PROVE  LET step == [M \in Rings |-> [e \in Entries |-> AddEntry(M, x, e)]]
               N    == ForEach(step, oonf_list_init_head(L, x), es)
           IN  \E w : /\ IsSort(es, Len(es), w) /\ IsRing(N, x, w)
                      /\ \A y \in Entities : y # x /\ (\A k \in DOMAIN es : es[k] # y) =>
                            N.next[y] = L.next[y] /\ N.prev[y] = L.prev[y]
  <1>1. /\ Len(es) \in Nat /\ DOMAIN es = 1 .. Len(es)
        /\ \A k \in 1 .. Len(es) : es[k] \in Entries
    <2>1. es \in Seq(Entries)
      BY DEF Distinct
    <2>2. QED
      BY <2>1
  <1> DEFINE step == [M \in Rings |-> [e \in Entries |-> AddEntry(M, x, e)]]
             init == oonf_list_init_head(L, x)
             N    == ForEach(step, init, es)
             Untouched(M) == \A y \in Entities : y # x /\ (\A k \in DOMAIN es : es[k] # y) =>
                             M.next[y] = L.next[y] /\ M.prev[y] = L.prev[y]
             Ok(n, M) == Untouched(M) /\ \E w : IsSort(es, n, w) /\ IsRing(M, x, w)
             Good == [n \in 0 .. Len(es) |-> {M \in Rings : Ok(n, M)}]
  <1>2. x \in Entities
    BY DEF Entities
  <1>3. init \in Good[0]
    <2>1. /\ L = [next |-> L.next, prev |-> L.prev]
          /\ L.next \in [Entities -> Entities \cup {NULL}] /\ L.prev \in [Entities -> Entities \cup {NULL}]
      BY DEF Rings
    <2>2. /\ init = [next |-> init.next, prev |-> init.prev]
          /\ init.next = [L.next EXCEPT ![x] = x] /\ init.prev = [L.prev EXCEPT ![x] = x]
      <3> PICK I : I = oonf_list_init_head(L, x)
        OBVIOUS
      <3>1. /\ I = [next |-> I.next, prev |-> I.prev]
            /\ I.next = [L.next EXCEPT ![x] = x] /\ I.prev = [L.prev EXCEPT ![x] = x]
        BY <2>1 DEF oonf_list_init_head
      <3>2. QED
        BY <3>1
    <2>3. init \in Rings
      BY <1>2, <2>1, <2>2 DEF Rings
    <2>4. init.next[x] = x /\ init.prev[x] = x
      BY <1>2, <2>1, <2>2
    <2>5. \A y \in Entities : y # x => init.next[y] = L.next[y] /\ init.prev[y] = L.prev[y]
      BY <2>1, <2>2
    <2>6. <<>> \in Seq(Entries) /\ Len(<<>>) = 0 /\ DOMAIN <<>> = {} /\ \A k : k \notin 1 .. 0
      OBVIOUS
    <2>7. IsRing(init, x, <<>>)
      <3>1. \A k : Node(x, <<>>, k) = x
        BY <2>6 DEF Node
      <3>2. QED
        BY <2>3, <2>4, <2>6, <3>1 DEF IsRing
    <2>8. IsSort(es, 0, <<>>)
      BY <2>6 DEF IsSort
    <2>9. 0 \in 0 .. Len(es)
      BY <1>1
    <2>10. Ok(0, init)
      BY <2>5, <2>7, <2>8
    <2>11. QED
      BY <2>3, <2>9, <2>10
  <1>4. ASSUME NEW n \in 1 .. Len(es), NEW M \in Good[n - 1] PROVE step[M][es[n]] \in Good[n]
    <2>1. n - 1 \in 0 .. Len(es) /\ n \in 0 .. Len(es) /\ n \in DOMAIN es /\ es[n] \in Entries
      BY <1>1
    <2>2. M \in Rings /\ Untouched(M) /\ \E w : IsSort(es, n - 1, w) /\ IsRing(M, x, w)
      BY <2>1
    <2>3. PICK w : IsSort(es, n - 1, w) /\ IsRing(M, x, w)
      BY <2>2
    <2>4. PICK at \in 0 .. Len(w) : /\ \A j \in 1 .. at : EntryKey(w[j]) <= EntryKey(es[n])
                                    /\ \A j \in at + 1 .. Len(w) : EntryKey(w[j]) > EntryKey(es[n])
                                    /\ IsSort(es, n, Put(w, at, es[n]))
      BY <2>3, SortGrows
    <2>5. \A j \in DOMAIN w : w[j] # es[n]
      BY <2>3, SortGrows
    <2> PICK K : K = AddEntry(M, x, es[n])
      OBVIOUS
    <2>6. K = ListAdd(M, Node(x, w, at), Node(x, w, at + 1), es[n])
      BY <2>1, <2>3, <2>4, EntryAdded
    <2>7. /\ IsRing(K, x, Put(w, at, es[n]))
          /\ \A y \in Entities : y # es[n] /\ y # x /\ (\A j \in DOMAIN w : w[j] # y) =>
                K.next[y] = M.next[y] /\ K.prev[y] = M.prev[y]
      BY <2>1, <2>3, <2>5, <2>6, RingGrows
    <2>8. Untouched(K)
      <3> SUFFICES ASSUME NEW y \in Entities, y # x, \A k \in DOMAIN es : es[k] # y
                   PROVE  K.next[y] = L.next[y] /\ K.prev[y] = L.prev[y]
        OBVIOUS
      <3>1. y # es[n]
        BY <2>1
      <3>2. \A j \in DOMAIN w : w[j] # y
        <4>1. \A j \in DOMAIN w : \E k \in 1 .. n - 1 : es[k] = w[j]
          BY <2>3 DEF IsSort
        <4>2. \A k \in 1 .. n - 1 : k \in DOMAIN es
          BY <1>1
        <4>3. QED
          BY <4>1, <4>2
      <3>3. QED
        BY <2>2, <2>7, <3>1, <3>2
    <2>9. K \in Rings
      BY <2>7 DEF IsRing
    <2>10. Ok(n, K)
      BY <2>4, <2>7, <2>8
    <2>11. step[M][es[n]] = K
      BY <2>1, <2>2
    <2>12. QED
      BY <2>1, <2>9, <2>10, <2>11
  <1>5. N \in Good[Len(es)]
    <2> HIDE DEF step, init, Good
    <2>1. QED
      BY <1>1, <1>3, <1>4, LoopReaches
  <1>6. N \in Rings /\ Ok(Len(es), N)
    <2>1. Len(es) \in 0 .. Len(es)
      BY <1>1
    <2> HIDE DEF N
    <2>2. QED
      BY <1>5, <2>1
  <1>7. QED
    BY <1>6
-----------------------------------------------------------------------------
\* A consumer was registered.
Was(x) == \E k \in 1 .. done : Registrations[k].c = x /\ Registrations[k].add

\* The pointers lead from consumer x through its entries w; behind the last they may
\* lead to another consumer that has the same ones.
Chain(L, x, w) ==
    /\ w = <<>> => L.next[x] = x /\ L.prev[x] = x
    /\ w # <<>> => L.next[x] = w[1] /\ L.prev[x] = w[Len(w)]
    /\ \A k \in 1 .. Len(w) - 1 : L.next[w[k]] = w[k + 1]

\* Every consumer that was registered has its entries, in order.
ListsOk ==
    /\ lists \in Rings /\ done \in 0 .. Len(Registrations)
    /\ \A x : Was(x) => \E w : /\ IsSort(EntriesOf(x), Len(EntriesOf(x)), w)
                               /\ Chain(lists, x, w)

\* A ring is a chain.
LEMMA RingChain ==
    ASSUME NEW x \in Consumers, NEW L, NEW w, IsRing(L, x, w)
    PROVE  Chain(L, x, w)
  <1>1. /\ w \in Seq(Entries)
        /\ \A k \in 0 .. Len(w) : /\ L.next[Node(x, w, k)] = Node(x, w, k + 1)
                                  /\ L.prev[Node(x, w, k + 1)] = Node(x, w, k)
    BY DEF IsRing
  <1>2. Len(w) \in Nat /\ (w = <<>> <=> Len(w) = 0)
    BY <1>1, EmptySeq
  <1>3. 0 \in 0 .. Len(w) /\ Len(w) \in 0 .. Len(w) /\ 0 + 1 = 1
    BY <1>2
  <1>4. Node(x, w, 0) = x /\ Node(x, w, Len(w) + 1) = x
    BY <1>2 DEF Node
  <1>5. L.next[x] = Node(x, w, 1) /\ L.prev[x] = Node(x, w, Len(w))
    BY <1>1, <1>3, <1>4
  <1>6. ASSUME w = <<>> PROVE L.next[x] = x /\ L.prev[x] = x
    <2>1. Len(w) = 0 /\ Len(w) + 1 = 1
      BY <1>2, <1>6
    <2>2. QED
      BY <1>4, <1>5, <2>1
  <1>7. ASSUME w # <<>> PROVE L.next[x] = w[1] /\ L.prev[x] = w[Len(w)]
    <2>1. 1 \in 1 .. Len(w) /\ Len(w) \in 1 .. Len(w)
      BY <1>2, <1>7
    <2>2. QED
      BY <1>5, <2>1 DEF Node
  <1>8. ASSUME NEW k \in 1 .. Len(w) - 1 PROVE L.next[w[k]] = w[k + 1]
    <2>1. k \in 0 .. Len(w) /\ k \in 1 .. Len(w) /\ k + 1 \in 1 .. Len(w)
      BY <1>2
    <2>2. Node(x, w, k) = w[k] /\ Node(x, w, k + 1) = w[k + 1]
      BY <2>1 DEF Node
    <2>3. QED
      BY <1>1, <2>1, <2>2
  <1>9. QED
    BY <1>6, <1>7, <1>8 DEF Chain

\* The registrations are calls, and each array holds different entries.
LEMMA RegistrationIs ==
    ASSUME NEW k \in DOMAIN Registrations
    PROVE  /\ DOMAIN Registrations = 1 .. Len(Registrations) /\ Len(Registrations) \in Nat
           /\ Registrations[k].c \in Consumers /\ Registrations[k].add \in BOOLEAN
           /\ Registrations[k].where \in {"pkt", "msg"}
           /\ Registrations[k].add => Distinct(Registrations[k].entries)
  <1>1. Registrations \in Seq([add : BOOLEAN, c : Consumers, where : {"pkt", "msg"},
                               entries : Seq(Entries)])
    BY RegistrationsAssumption
  <1>2. DOMAIN Registrations = 1 .. Len(Registrations) /\ Len(Registrations) \in Nat
    BY <1>1
  <1>3. Registrations[k] \in [add : BOOLEAN, c : Consumers, where : {"pkt", "msg"},
                              entries : Seq(Entries)]
    <2>1. k \in 1 .. Len(Registrations)
      BY <1>2
    <2>2. QED
      BY <1>1, <2>1, ElementOfSeq
  <1>4. ASSUME Registrations[k].add PROVE Distinct(Registrations[k].entries)
    <2>1. Registrations[k].entries \in Seq(Entries)
      BY <1>3
    <2>2. IsInjective(Registrations[k].entries)
      BY <1>4, EntriesAssumption
    <2>3. QED
      BY <2>1, <2>2 DEF Distinct, IsInjective
  <1>5. QED
    BY <1>2, <1>3, <1>4

\* The entries of a consumer are those of its last registration.
LEMMA EntriesAre ==
    ASSUME NEW x, done \in 0 .. Len(Registrations), Was(x)
    PROVE  \E k \in 1 .. done : /\ Registrations[k].c = x /\ Registrations[k].add
                                /\ EntriesOf(x) = Registrations[k].entries
                                /\ k \in DOMAIN Registrations
                                /\ Distinct(EntriesOf(x)) /\ x \in Consumers
  <1> PICK R : R = {k \in 1 .. done : Registrations[k].c = x /\ Registrations[k].add}
    OBVIOUS
  <1>0. Len(Registrations) \in Nat /\ done \in Nat /\ DOMAIN Registrations = 1 .. Len(Registrations)
        /\ \A k \in 1 .. done : k \in DOMAIN Registrations
    BY RegistrationsAssumption
  <1>1. EntriesOf(x) = Registrations[CHOOSE k \in R : \A j \in R : j <= k].entries
    BY DEF EntriesOf
  <1>2. \E k \in R : \A j \in R : j <= k
    <2> DEFINE S == {done - k : k \in R}
    <2>1. S # {}
      BY DEF Was
    <2>2. S \in SUBSET Nat
      BY <1>0
    <2>3. PICK i \in S : \A j \in S : i <= j
      BY <2>1, <2>2, LeastOf
    <2>4. PICK k \in R : i = done - k
      BY <2>3
    <2>5. ASSUME NEW j \in R PROVE j <= k
      <3>1. done - k <= done - j
        BY <2>3, <2>4
      <3>2. QED
        BY <1>0, <3>1
    <2>6. QED
      BY <2>5
  <1>3. PICK k \in R : EntriesOf(x) = Registrations[k].entries
    BY <1>1, <1>2
  <1>4. k \in 1 .. done /\ Registrations[k].c = x /\ Registrations[k].add /\ k \in DOMAIN Registrations
    BY <1>0
  <1>5. Distinct(EntriesOf(x)) /\ x \in Consumers
    BY <1>3, <1>4, RegistrationIs
  <1>6. QED
    BY <1>3, <1>4, <1>5

\* What was registered stays as it was.
LEMMA OthersStay ==
    ASSUME NEW x, done \in Nat, done' = done + 1,
           ~(Registrations[done + 1].c = x /\ Registrations[done + 1].add)
    PROVE  EntriesOf(x)' = EntriesOf(x) /\ (Was(x)' <=> Was(x))
  <1> DEFINE R == {k \in 1 .. done : Registrations[k].c = x /\ Registrations[k].add}
             S == {k \in 1 .. done + 1 : Registrations[k].c = x /\ Registrations[k].add}
  <1>1. R = S
    <2>1. \A k : k \in 1 .. done + 1 <=> k \in 1 .. done \/ k = done + 1
      OBVIOUS
    <2>2. QED
      BY <2>1
  <1>2. EntriesOf(x) = Registrations[CHOOSE k \in R : \A j \in R : j <= k].entries
    BY DEF EntriesOf
  <1>3. EntriesOf(x)' = Registrations[CHOOSE k \in S : \A j \in S : j <= k].entries
    BY DEF EntriesOf
  <1>4. EntriesOf(x)' = EntriesOf(x)
    BY <1>1, <1>2, <1>3
  <1>5. (Was(x) <=> R # {}) /\ (Was(x)' <=> S # {})
    BY DEF Was
  <1>6. QED
    BY <1>1, <1>4, <1>5

\* And what is registered has what it was registered with.
LEMMA NewOne ==
    ASSUME NEW x, done \in Nat, done' = done + 1,
           Registrations[done + 1].c = x, Registrations[done + 1].add
    PROVE  EntriesOf(x)' = Registrations[done + 1].entries
  <1> DEFINE S == {k \in 1 .. done + 1 : Registrations[k].c = x /\ Registrations[k].add}
             IsLast(k) == \A j \in S : j <= k
  <1>1. EntriesOf(x)' = Registrations[CHOOSE k \in S : IsLast(k)].entries
    BY DEF EntriesOf
  <1>2. done + 1 \in S /\ IsLast(done + 1)
    OBVIOUS
  <1>3. \A k \in S : IsLast(k) => k = done + 1
    OBVIOUS
  <1>4. (CHOOSE k \in S : IsLast(k)) = done + 1
    <2> HIDE DEF S, IsLast
    <2>1. QED
      BY <1>2, <1>3
  <1>5. QED
    BY <1>1, <1>4

\* Adding a consumer gives it its entries, and takes none from the others.
LEMMA RegisterLists == ListsOk /\ Register => ListsOk'
  <1> SUFFICES ASSUME ListsOk, Register PROVE ListsOk'
    OBVIOUS
  <1>1. /\ done \in 0 .. Len(Registrations) /\ done < Len(Registrations) /\ done' = done + 1
        /\ Len(Registrations) \in Nat /\ lists \in Rings
    BY RegistrationsAssumption DEF ListsOk, Register
  <1>2. done \in Nat /\ done' \in 0 .. Len(Registrations) /\ done + 1 \in DOMAIN Registrations
    BY <1>1, RegistrationsAssumption
  <1> PICK r : r = Registrations[done + 1]
    OBVIOUS
  <1>3. /\ r.c \in Consumers /\ (r.add => Distinct(r.entries))
        /\ IF r.add THEN AddConsumer(r.c, r.where, r.entries) ELSE RemoveConsumer(r.c, r.where)
    BY <1>2, RegistrationIs DEF Register
  <1>4. CASE ~r.add
    <2>1. lists' = lists
      BY <1>3, <1>4 DEF RemoveConsumer
    <2>2. ASSUME NEW x PROVE EntriesOf(x)' = EntriesOf(x) /\ (Was(x)' <=> Was(x))
      BY <1>1, <1>2, <1>4, OthersStay
    <2>3. ASSUME NEW x, Was(x)' PROVE \E w : /\ IsSort(EntriesOf(x)', Len(EntriesOf(x)'), w)
                                             /\ Chain(lists', x, w)
      BY <2>1, <2>2, <2>3 DEF ListsOk
    <2>4. lists' \in Rings
      BY <1>1, <2>1
    <2>5. \A x : (Was(x) => \E w : /\ IsSort(EntriesOf(x), Len(EntriesOf(x)), w)
                                   /\ Chain(lists, x, w))'
      BY <2>3 DEF IsSort, Chain, Before
    <2>6. QED
      BY <1>2, <2>4, <2>5 DEF ListsOk
  <1>5. CASE r.add
    <2> PICK es : es = r.entries
      OBVIOUS
    <2> PICK u : u = r.c
      OBVIOUS
    <2>1. Distinct(es) /\ u \in Consumers
      BY <1>3, <1>5
    <2>2. PICK v : /\ IsSort(es, Len(es), v) /\ IsRing(lists', u, v)
                   /\ \A y \in Entities : y # u /\ (\A k \in DOMAIN es : es[k] # y) =>
                         lists'.next[y] = lists.next[y] /\ lists'.prev[y] = lists.prev[y]
      <3>1. lists' = ForEach([M \in Rings |-> [e \in Entries |-> AddEntry(M, u, e)]],
                             oonf_list_init_head(lists, u), es)
        BY <1>3, <1>5 DEF AddConsumer
      <3>2. lists \in Rings /\ Distinct(es) /\ u \in Consumers
        BY <1>1, <2>1
      <3> DEFINE N == ForEach([M \in Rings |-> [e \in Entries |-> AddEntry(M, u, e)]],
                              oonf_list_init_head(lists, u), es)
      <3>3. \E w : /\ IsSort(es, Len(es), w) /\ IsRing(N, u, w)
                   /\ \A y \in Entities : y # u /\ (\A k \in DOMAIN es : es[k] # y) =>
                         N.next[y] = lists.next[y] /\ N.prev[y] = lists.prev[y]
        BY ONLY <3>2, EntriesAdded
      <3> HIDE DEF N
      <3>4. lists' = N
        BY <3>1 DEF N
      <3>5. QED
        BY <3>3, <3>4
    <2>3. EntriesOf(u)' = es
      BY <1>1, <1>2, <1>5, NewOne
    <2>4. Chain(lists', u, v)
      BY <2>1, <2>2, RingChain
    <2>5. ASSUME NEW x, x # u, Was(x)'
          PROVE  \E w : IsSort(EntriesOf(x)', Len(EntriesOf(x)'), w) /\ Chain(lists', x, w)
      <3>1. EntriesOf(x)' = EntriesOf(x) /\ Was(x)
        BY <1>1, <1>2, <2>5, OthersStay
      <3> PICK s : s = EntriesOf(x)
        OBVIOUS
      <3>2. PICK w : IsSort(s, Len(s), w) /\ Chain(lists, x, w)
        BY <3>1 DEF ListsOk
      <3>3. PICK k \in DOMAIN Registrations : Registrations[k].add /\ s = Registrations[k].entries
        BY <1>1, <3>1, EntriesAre
      <3>4. Distinct(s) /\ x \in Consumers
        BY <1>1, <3>1, EntriesAre
      <3>5. /\ w \in Seq(Entries) /\ Len(w) \in Nat /\ DOMAIN w = 1 .. Len(w)
            /\ \A j \in 1 .. Len(w) : w[j] \in Entries
            /\ (w # <<>> => Len(w) \in 1 .. Len(w) /\ 1 \in 1 .. Len(w))
        BY <3>2 DEF IsSort
      <3>6. x \in Entities /\ \A j \in DOMAIN es : es[j] # x
        <4>1. \A j \in DOMAIN es : es[j] \in Entries
          BY <2>1 DEF Distinct
        <4>2. QED
          BY <3>4, <4>1, EntitiesAre DEF Entities
      <3>7. lists'.next[x] = lists.next[x] /\ lists'.prev[x] = lists.prev[x]
        BY <2>2, <2>5, <3>6
      <3>8. CASE s = es
        <4>1. v = w
          BY <2>1, <2>2, <3>2, <3>8, SortUnique
        <4>2. \A j \in 1 .. Len(w) - 1 : lists'.next[w[j]] = w[j + 1]
          BY <2>4, <4>1 DEF Chain
        <4>3. Chain(lists', x, w)
          BY <3>2, <3>7, <4>2 DEF Chain
        <4>4. QED
          BY <3>1, <3>2, <4>3
      <3>9. CASE s # es
        <4>1. ToSet(es) \cap ToSet(s) = {}
          <5>1. Registrations[done + 1].add /\ Registrations[done + 1].entries # Registrations[k].entries
            BY <1>5, <3>3, <3>9
          <5>2. ToSet(Registrations[done + 1].entries) \cap ToSet(Registrations[k].entries) = {}
            BY <1>2, <3>3, <5>1, EntriesAssumption
          <5>3. QED
            BY <3>3, <5>2
        <4>2. ASSUME NEW j \in 1 .. Len(w) PROVE lists'.next[w[j]] = lists.next[w[j]]
          <5>1. \E i \in DOMAIN s : s[i] = w[j]
            <6>1. \E i \in 1 .. Len(s) : s[i] = w[j]
              BY <3>2, <3>5 DEF IsSort
            <6>2. DOMAIN s = 1 .. Len(s)
              BY <3>4 DEF Distinct
            <6>3. QED
              BY <6>1, <6>2
          <5>2. \A i \in DOMAIN es : es[i] # w[j]
            BY <4>1, <5>1 DEF ToSet
          <5>3. w[j] \in Entities /\ w[j] # u
            BY <2>1, <3>5, EntitiesAre DEF Entities
          <5>4. QED
            BY <2>2, <5>2, <5>3
        <4>3. \A j \in 1 .. Len(w) - 1 : lists'.next[w[j]] = w[j + 1]
          <5>1. \A j \in 1 .. Len(w) - 1 : j \in 1 .. Len(w)
            BY <3>5
          <5>2. QED
            BY <3>2, <4>2, <5>1 DEF Chain
        <4>4. Chain(lists', x, w)
          BY <3>2, <3>7, <4>3 DEF Chain
        <4>5. QED
          BY <3>1, <3>2, <4>4
      <3>10. QED
        BY <3>8, <3>9
    <2>6. ASSUME NEW x, Was(x)'
          PROVE  \E w : IsSort(EntriesOf(x)', Len(EntriesOf(x)'), w) /\ Chain(lists', x, w)
      BY <2>2, <2>3, <2>4, <2>5, <2>6
    <2>7. \A x : (Was(x) => \E w : /\ IsSort(EntriesOf(x), Len(EntriesOf(x)), w)
                                   /\ Chain(lists, x, w))'
      BY <2>6 DEF IsSort, Chain, Before
    <2>8. lists' \in Rings
      BY <2>2 DEF IsRing
    <2>9. QED
      BY <1>2, <2>7, <2>8 DEF ListsOk
  <1>6. QED
    BY <1>4, <1>5

\* Before the first registration no consumer has any.
LEMMA NoLists == ReaderInit => ListsOk
  <1> SUFFICES ASSUME ReaderInit PROVE ListsOk
    OBVIOUS
  <1>1. lists \in Rings
    BY DEF ReaderInit, Rings, Entities
  <1>2. done = 0 /\ Len(Registrations) \in Nat
    BY RegistrationsAssumption DEF ReaderInit
  <1>3. \A x : ~Was(x)
    BY <1>2 DEF Was
  <1>4. QED
    BY <1>1, <1>2, <1>3 DEF ListsOk
-----------------------------------------------------------------------------
\* A TLV that was parsed: its type and extension are octets, and one that is for all
\* its addresses shows its value, if it has any.
IsTlv(v) ==
    /\ v = [type |-> v.type, ext |-> v.ext, index1 |-> v.index1, index2 |-> v.index2,
            multi |-> v.multi, values |-> v.values, length |-> v.length, single |-> v.single]
    /\ v.type \in 0 .. 255 /\ v.ext \in 0 .. 255
    /\ v.length > 0 /\ ~v.multi => v.single = v.values

\* The TLVs of a block, in order.
BlockOk(s) ==
    /\ IsSeq(s)
    /\ \A k \in DOMAIN s : IsTlv(s[k])
    /\ \A j, k \in DOMAIN s : j < k => intorder(s[j]) <= intorder(s[k])

\* The order of TLVs is a number.
LEMMA IntorderIs == ASSUME NEW v, IsTlv(v) PROVE intorder(v) \in Nat
  <1> PICK t, n : t = v.type /\ n = v.ext
    OBVIOUS
  <1>1. t \in 0 .. 255 /\ n \in 0 .. 255 /\ intorder(v) = 256 * t + n
    BY DEF IsTlv, intorder
  <1>2. \A t1, n1 \in 0 .. 255 : 256 * t1 + n1 \in Nat
    OBVIOUS
  <1>3. 256 * t + n \in Nat
    BY ONLY <1>1, <1>2
  <1>4. QED
    BY <1>1, <1>3

\* What is read of a packet of octets are octets.
LEMMA ReadsOctets ==
    ASSUME NEW buf \in Seq(0 .. 255), NEW p \in Nat, NEW eob \in Int, eob <= Len(buf)
    PROVE  get_u8(buf, p, eob) \in 0 .. 255
  <1>1. CASE p < eob
    <2>1. p + 1 \in 1 .. Len(buf)
      BY <1>1
    <2>2. buf[p + 1] \in 0 .. 255
      BY <2>1, ElementOfSeq
    <2>3. QED
      BY <1>1, <2>2 DEF get_u8
  <1>2. CASE ~(p < eob)
    BY <1>2 DEF get_u8
  <1>3. QED
    BY <1>1, <1>2

\* What _parse_tlv makes of its fields.
LEMMA TlvParsed ==
    ASSUME NEW buf \in Seq(0 .. 255), NEW p \in Nat, NEW eob \in Int, eob <= Len(buf),
           NEW addr_count, NEW stale, parse_tlv(buf, p, eob, addr_count, stale).res = OKAY
    PROVE  IsTlv(parse_tlv(buf, p, eob, addr_count, stale).tlv)
  <1>0. PICK f, got : /\ f = TlvFields(buf, p, eob, addr_count)
                      /\ got = parse_tlv(buf, p, eob, addr_count, stale)
    OBVIOUS
  <1>1. f.type \in 0 .. 255 /\ f.ext \in 0 .. 255
    <2>1. p + 2 \in Nat
      OBVIOUS
    <2>2. get_u8(buf, p, eob) \in 0 .. 255 /\ get_u8(buf, p + 2, eob) \in 0 .. 255
      BY <2>1, ReadsOctets
    <2>3. /\ f.type = get_u8(buf, p, eob)
          /\ f.ext \in {0, get_u8(buf, p + 2, eob)}
      BY <1>0 DEF TlvFields
    <2>4. QED
      BY ONLY <2>2, <2>3
  <1>2. got = CheckedTlv(buf, f, eob, addr_count, stale) /\ got.res = OKAY
    BY <1>0 DEF parse_tlv, Given
  <1>3. PICK count, many, value :
           /\ many = (HasFlag(f.flags, MULTIVALUE) /\ (f.length = 0 \/ count # 1))
           /\ got.tlv = [type |-> f.type, ext |-> f.ext, index1 |-> f.index1,
                         index2 |-> f.index2, multi |-> many, values |-> value,
                         length |-> IF many /\ f.length > 0 THEN f.length \div count
                                    ELSE f.length,
                         single |-> IF many \/ f.length = 0 THEN stale ELSE value]
    <2> DEFINE count == (f.index2 - f.index1 + 1) % 256
               many  == HasFlag(f.flags, MULTIVALUE) /\ (f.length = 0 \/ count # 1)
               value == Octets(buf, f.p_val, f.length)
               tlv   == [type |-> f.type, ext |-> f.ext, index1 |-> f.index1,
                         index2 |-> f.index2, multi |-> many, values |-> value,
                         length |-> IF many /\ f.length > 0 THEN f.length \div count
                                    ELSE f.length,
                         single |-> IF many \/ f.length = 0 THEN stale ELSE value]
               good  == [res |-> OKAY, p |-> f.p_val + f.length, tlv |-> tlv]
    <2>1. got = IF HasFlag(f.flags, SINGLE_IDX) /\ HasFlag(f.flags, MULTI_IDX)
                THEN Failed(BAD_TLV_IDXFLAGS)
                ELSE IF addr_count > 0 /\ (f.index1 >= addr_count \/ f.index2 >= addr_count)
                THEN Failed(BAD_TLV_INDEX)
                ELSE IF HasFlag(f.flags, EXTVALUE) /\ ~HasFlag(f.flags, VALUE)
                THEN Failed(BAD_TLV_VALUEFLAGS)
                ELSE IF f.p_val + f.length > eob
                THEN Failed(END_OF_BUFFER)
                ELSE IF f.length > 0 /\ many /\ f.length % count # 0
                THEN Failed(BAD_TLV_LENGTH)
                ELSE good
      BY <1>2 DEF CheckedTlv
    <2>2. got = good
      <3> HIDE DEF good
      <3>1. QED
        BY <1>2, <2>1 DEF Failed, OKAY, BAD_TLV_IDXFLAGS, BAD_TLV_INDEX,
               BAD_TLV_VALUEFLAGS, END_OF_BUFFER, BAD_TLV_LENGTH
    <2>3. got.tlv = tlv
      <3> HIDE DEF tlv
      <3>1. QED
        BY <2>2
    <2> HIDE DEF count, value
    <2>4. QED
      BY <2>3
  <1>4. IsTlv(got.tlv)
    <2>1. got.tlv.type \in 0 .. 255 /\ got.tlv.ext \in 0 .. 255
      BY <1>1, <1>3
    <2>2. ASSUME got.tlv.length > 0, ~got.tlv.multi PROVE got.tlv.single = got.tlv.values
      <3>1. ~many /\ f.length > 0
        BY <1>3, <2>2
      <3>2. ~(f.length = 0)
        BY <3>1
      <3>3. QED
        BY <1>3, <3>1, <3>2
    <2>3. QED
      BY <1>3, <2>1, <2>2 DEF IsTlv
  <1>5. QED
    BY <1>0, <1>4

\* A TLV is put into its block in order.
LEMMA TlvInserted ==
    ASSUME NEW s, BlockOk(s), NEW v, IsTlv(v)
    PROVE  BlockOk(InsertTlv(s, v))
  <1>1. PICK S, keys, at, w : /\ S = ToSet(s) \cup {v} /\ keys = [u \in S |-> intorder(u)]
                              /\ at = KeyPlace(s, keys, keys[v]) /\ w = Put(s, at, v)
    OBVIOUS
  <1>2. /\ s \in Seq(S) /\ Len(s) \in Nat /\ DOMAIN s = 1 .. Len(s)
        /\ \A j \in 1 .. Len(s) : s[j] \in S
        /\ v \in S /\ \A u \in S : IsTlv(u)
    <2>1. IsSeq(s) /\ Len(s) \in Nat /\ DOMAIN s = 1 .. Len(s)
      BY DEF BlockOk, IsSeq
    <2>2. \A j \in 1 .. Len(s) : s[j] \in S
      BY <1>1, <2>1 DEF ToSet
    <2>3. s \in Seq(S)
      <3>1. s = [j \in 1 .. Len(s) |-> s[j]]
        BY <2>1 DEF IsSeq
      <3>2. QED
        BY <2>1, <2>2, <3>1
    <2>4. \A u \in S : u = v \/ \E j \in 1 .. Len(s) : u = s[j]
      BY <1>1, <2>1 DEF ToSet
    <2>5. QED
      BY <1>1, <2>1, <2>2, <2>3, <2>4 DEF BlockOk
  <1>3. \A u \in S : keys[u] = intorder(u) /\ keys[u] \in Int
    <2>1. \A u \in S : keys[u] = intorder(u)
      BY <1>1
    <2>2. \A u \in S : intorder(u) \in Nat
      BY <1>2, IntorderIs
    <2>3. QED
      BY <2>1, <2>2
  <1>4. \A j, k \in 1 .. Len(s) : j < k => keys[s[j]] <= keys[s[k]]
    BY <1>2, <1>3 DEF BlockOk
  <1>5. /\ at \in 0 .. Len(s)
        /\ \A j \in 1 .. at : keys[s[j]] <= keys[v]
        /\ \A j \in at + 1 .. Len(s) : keys[v] <= keys[s[j]]
    <2>1. Sorted(s, S, keys)
      BY <1>2, <1>4 DEF Sorted
    <2>2. \A u \in S : keys[u] \in Int
      BY <1>3
    <2>3. v \in S
      BY <1>2
    <2>4. LET a == KeyPlace(s, keys, keys[v])
          IN  /\ a \in 0 .. Len(s)
              /\ \A j \in 1 .. a : keys[s[j]] <= keys[v]
              /\ \A j \in a + 1 .. Len(s) : keys[v] <= keys[s[j]]
      BY ONLY <2>1, <2>2, <2>3, PlaceFound
    <2>5. QED
      BY <1>1, <2>4
  <1>6. /\ w \in Seq(S) /\ Len(w) = Len(s) + 1
        /\ \A j \in 1 .. at : w[j] = s[j]
        /\ w[at + 1] = v
        /\ \A j \in at + 2 .. Len(s) + 1 : w[j] = s[j - 1]
    <2>1. s \in Seq(S) /\ at \in 0 .. Len(s) /\ v \in S
      BY <1>2, <1>5
    <2>2. Put(s, at, v) \in Seq(S)
      BY ONLY <2>1, Spliced
    <2>3. Len(Put(s, at, v)) = Len(s) + 1
      BY ONLY <2>1, Spliced
    <2>4. \A j \in 1 .. at : Put(s, at, v)[j] = s[j]
      BY ONLY <2>1, Spliced
    <2>5. Put(s, at, v)[at + 1] = v
      BY ONLY <2>1, Spliced
    <2>6. \A j \in at + 2 .. Len(s) + 1 : Put(s, at, v)[j] = s[j - 1]
      BY ONLY <2>1, Spliced
    <2>7. QED
      BY <1>1, <2>2, <2>3, <2>4, <2>5, <2>6
  <1>7. \A j \in 1 .. Len(s) + 1 : \/ j <= at /\ j \in 1 .. Len(s) /\ j \in 1 .. at /\ w[j] = s[j]
                                   \/ j = at + 1 /\ w[j] = v
                                   \/ j > at + 1 /\ j - 1 \in 1 .. Len(s) /\ j - 1 \in at + 1 .. Len(s) /\ w[j] = s[j - 1]
    BY <1>2, <1>5, <1>6
  <1>8. \A j, k \in 1 .. Len(s) + 1 : j < k => keys[w[j]] <= keys[w[k]]
    <2> SUFFICES ASSUME NEW j \in 1 .. Len(s) + 1, NEW k \in 1 .. Len(s) + 1, j < k
                 PROVE  keys[w[j]] <= keys[w[k]]
      OBVIOUS
    <2>1. at \in Nat /\ \A i \in 1 .. Len(s) : keys[s[i]] \in Int /\ keys[v] \in Int
      BY <1>2, <1>3, <1>5
    <2>2. CASE j <= at
      <3>1. j \in 1 .. at /\ j \in 1 .. Len(s) /\ w[j] = s[j]
        BY <1>7, <2>1, <2>2
      <3>2. CASE k <= at
        BY <1>4, <1>7, <2>1, <3>1, <3>2
      <3>3. CASE k = at + 1
        BY <1>5, <1>6, <3>1, <3>3
      <3>4. CASE k > at + 1
        <4>1. k - 1 \in 1 .. Len(s) /\ w[k] = s[k - 1] /\ j < k - 1
          BY <1>7, <2>1, <2>2, <3>4
        <4>2. QED
          BY <1>4, <3>1, <4>1
      <3>5. QED
        BY <2>1, <3>2, <3>3, <3>4, SMTT(20)
    <2>3. CASE j = at + 1
      <3>1. k - 1 \in at + 1 .. Len(s) /\ w[k] = s[k - 1] /\ w[j] = v
        BY <1>6, <1>7, <2>1, <2>3
      <3>2. QED
        BY <1>5, <3>1
    <2>4. CASE j > at + 1
      <3>1. /\ k - 1 \in 1 .. Len(s) /\ w[k] = s[k - 1] /\ j - 1 \in 1 .. Len(s) /\ w[j] = s[j - 1]
            /\ j - 1 < k - 1
        BY <1>7, <2>1, <2>4
      <3>2. QED
        BY <1>4, <3>1
    <2>5. QED
      BY <2>1, <2>2, <2>3, <2>4
  <1>9. DOMAIN w = 1 .. Len(s) + 1 /\ \A j \in 1 .. Len(s) + 1 : w[j] \in S
    BY <1>2, <1>6, <1>7
  <1>10. BlockOk(w)
    BY <1>2, <1>3, <1>6, <1>8, <1>9 DEF BlockOk, IsSeq
  <1>11. InsertTlv(s, v) = w
    BY <1>1 DEF InsertTlv, InsertByKey, Put
  <1>12. QED
    BY <1>10, <1>11

\* The loop of _parse_tlvblock keeps its TLVs in order.
LEMMA LoopKeepsOrder ==
    ASSUME NEW buf \in Seq(0 .. 255), NEW start \in Nat, NEW end \in Nat, NEW eob \in Int,
           eob <= Len(buf), start <= eob, NEW addr_count, NEW n \in Nat,
           TlvTurns(buf, start, end, eob, addr_count)[n].res = OKAY
    PROVE  BlockOk(TlvTurns(buf, start, end, eob, addr_count)[n].tlvs)
  <1> PICK turn : turn = TlvTurns(buf, start, end, eob, addr_count)
    OBVIOUS
  <1> DEFINE Lost == {m \in Nat : turn[m].res = OKAY /\ ~BlockOk(turn[m].tlvs)}
  <1> PICK zero : zero = [res |-> OKAY, p |-> start, stale |-> <<>>, tlvs |-> <<>>]
    OBVIOUS
  <1>0. \A m \in Nat : Turns(turn, m, zero, buf, end, eob, addr_count)
    BY TlvTurnsAre
  <1>1. turn[0] = zero
    BY <1>0 DEF Turns
  <1>2. \A m \in Nat \ {0} : turn[m] = TakeTlv(buf, end, eob, addr_count, turn[m - 1])
    <2> SUFFICES ASSUME NEW m \in Nat \ {0}
                 PROVE  turn[m] = TakeTlv(buf, end, eob, addr_count, turn[m - 1])
      OBVIOUS
    <2>1. m \in Nat /\ m # 0 /\ m \in 0 .. m
      OBVIOUS
    <2>2. QED
      BY <1>0, <2>1 DEF Turns
  <1>a. buf \in Seq(Nat)
    BY SeqMono
  <1>3. CASE Lost = {}
    BY <1>3
  <1>4. CASE Lost # {}
    <2>1. PICK m \in Lost : \A j \in Lost : m <= j
      BY <1>4, LeastOf
    <2>2. m \in Nat /\ turn[m].res = OKAY /\ ~BlockOk(turn[m].tlvs)
      BY <2>1
    <2>3. m # 0
      <3>1. BlockOk(zero.tlvs)
        BY EmptyIsSeq DEF BlockOk
      <3>2. QED
        BY <1>1, <2>2, <3>1
    <2>4. m - 1 \in Nat /\ m - 1 \notin Lost
      BY <2>1, <2>2, <2>3
    <2> PICK s : s = turn[m - 1]
      OBVIOUS
    <2>5. turn[m] = TakeTlv(buf, end, eob, addr_count, s)
      BY <1>2, <2>2, <2>3
    <2> PICK got : got = parse_tlv(buf, s.p, eob, addr_count, s.stale)
      OBVIOUS
    <2>6. CASE s.res # OKAY \/ s.p >= end
      <3>1. turn[m] = s
        BY <2>5, <2>6 DEF TakeTlv
      <3>2. QED
        BY <2>2, <2>4, <3>1
    <2>7. CASE ~(s.res # OKAY \/ s.p >= end)
      <3>1. s.p \in Nat /\ BlockOk(s.tlvs)
        <4>1. TlvTurns(buf, start, end, eob, addr_count)[m - 1].res = OKAY
          BY <2>7
        <4>2. LET p == TlvTurns(buf, start, end, eob, addr_count)[m - 1].p
              IN  p \in Nat /\ p <= eob /\ (p >= end \/ p >= start + (m - 1))
          BY <1>a, <2>4, <4>1, LoopGoesOn
        <4>3. QED
          BY <2>4, <2>7, <4>2
      <3>2. turn[m] = WithTlv(s, got)
        <4>1. s.res = OKAY /\ ~(s.p >= end)
          BY <2>7
        <4>2. QED
          BY <2>5, <4>1, TlvTaken
      <3>3. got.res = OKAY /\ turn[m].tlvs = InsertTlv(s.tlvs, got.tlv)
        BY <2>2, <3>2 DEF WithTlv, Failed
      <3>4. IsTlv(got.tlv)
        BY <3>1, <3>3, TlvParsed
      <3>5. QED
        BY <2>2, <3>1, <3>3, <3>4, TlvInserted
    <2>8. QED
      BY <2>6, <2>7
  <1>5. QED
    BY <1>3, <1>4

\* A TLV block that was parsed is in order.
LEMMA BlockParsed ==
    ASSUME NEW buf \in Seq(0 .. 255), NEW p \in Nat, NEW eob \in Int, eob <= Len(buf),
           NEW addr_count, parse_tlvblock(buf, p, eob, addr_count).res = OKAY
    PROVE  BlockOk(parse_tlvblock(buf, p, eob, addr_count).tlvs)
  <1> PICK start, size, end : start = p + 2 /\ size = get_u16(buf, p, eob) /\ end = start + size
    OBVIOUS
  <1> PICK block : block = parse_tlvblock(buf, p, eob, addr_count)
    OBVIOUS
  <1>1. size \in Nat /\ start \in Nat /\ end \in Nat /\ end - start \in Nat
    <2>0. buf \in Seq(Nat)
      BY SeqMono, SMTT(20)
    <2>1. size \in Nat
      BY <2>0, ReadsNumbers
    <2>2. QED
      BY <2>1
  <1>2. ~(end > eob)
    BY DEF parse_tlvblock, Failed, END_OF_BUFFER, OKAY
  <1>3. block = TlvTurns(buf, start, end, eob, addr_count)[end - start]
    BY <1>2 DEF parse_tlvblock
  <1>4. start <= eob
    BY <1>1, <1>2
  <1>5. QED
    <2> PICK n : n = end - start
      OBVIOUS
    <2>1. n \in Nat /\ TlvTurns(buf, start, end, eob, addr_count)[n].res = OKAY
      BY <1>1, <1>3
    <2>2. BlockOk(TlvTurns(buf, start, end, eob, addr_count)[n].tlvs)
      BY <1>1, <1>4, <2>1, LoopKeepsOrder
    <2>3. QED
      BY <1>3, <2>2
-----------------------------------------------------------------------------
\* The first turns of a loop of TakeBlock from zero are the numbers of h.
AtBlock(h, m, zero, buf, end, addr_len) ==
    \A n \in 0 .. m : h[n] = IF n = 0 THEN zero ELSE TakeBlock(buf, end, addr_len, h[n - 1])

\* Its turns are determined.
LEMMA BlocksUnique ==
    ASSUME NEW buf, NEW end, NEW addr_len, NEW zero, NEW h, NEW g, NEW l \in Nat, NEW m \in Nat,
           AtBlock(h, l, zero, buf, end, addr_len), AtBlock(g, m, zero, buf, end, addr_len), l <= m
    PROVE  \A n \in 0 .. l : h[n] = g[n]
  <1> DEFINE Differ == {n \in 0 .. l : h[n] # g[n]}
  <1>1. CASE Differ = {}
    BY <1>1
  <1>2. CASE Differ # {}
    <2>0. Differ \in SUBSET Nat
      OBVIOUS
    <2>1. PICK n \in Differ : \A j \in Differ : n <= j
      BY <1>2, <2>0, LeastOf
    <2>2. n \in 0 .. l /\ n \in 0 .. m /\ h[n] # g[n]
      BY <2>1
    <2>3. n # 0
      <3>1. h[0] = zero /\ g[0] = zero
        BY DEF AtBlock
      <3>2. QED
        BY <2>2, <3>1
    <2>4. n - 1 \in 0 .. l /\ n - 1 \notin Differ
      BY <2>1, <2>2, <2>3
    <2>5. h[n - 1] = g[n - 1]
      BY <2>4
    <2>6. QED
      BY <2>2, <2>3, <2>5 DEF AtBlock
  <1>3. QED
    BY <1>1, <1>2

\* There are any number of them.
LEMMA BlocksGoOn ==
    ASSUME NEW buf, NEW end, NEW addr_len, NEW zero
    PROVE  \A m \in Nat : \E h : AtBlock(h, m, zero, buf, end, addr_len)
  <1> DEFINE T(h, m) == AtBlock(h, m, zero, buf, end, addr_len)
             Missing == {m \in Nat : ~ \E h : T(h, m)}
  <1>1. CASE Missing = {}
    BY <1>1
  <1>2. CASE Missing # {}
    <2>1. PICK m \in Missing : \A j \in Missing : m <= j
      BY <1>2, LeastOf
    <2>2. m \in Nat /\ ~ \E h : T(h, m)
      BY <2>1
    <2>3. CASE m = 0
      <3>1. T([n \in 0 .. 0 |-> zero], 0)
        BY DEF AtBlock
      <3>2. QED
        BY <2>2, <2>3, <3>1
    <2>4. CASE m # 0
      <3>1. m - 1 \in Nat /\ m - 1 \notin Missing
        BY <2>1, <2>2, <2>4
      <3>2. PICK h : T(h, m - 1)
        BY <3>1
      <3>3. PICK g : g = [n \in 0 .. m |-> IF n = m THEN TakeBlock(buf, end, addr_len, h[m - 1])
                                           ELSE h[n]]
        OBVIOUS
      <3>4. ASSUME NEW n \in 0 .. m
            PROVE  g[n] = IF n = 0 THEN zero ELSE TakeBlock(buf, end, addr_len, g[n - 1])
        <4>1. CASE n = m
          <5>1. n # 0 /\ n - 1 \in 0 .. m /\ n - 1 # m
            BY <2>2, <2>4, <4>1
          <5>2. g[n] = TakeBlock(buf, end, addr_len, h[m - 1]) /\ g[n - 1] = h[m - 1]
            BY <3>3, <4>1, <5>1
          <5>3. QED
            BY <5>1, <5>2
        <4>2. CASE n # m
          <5>1. n \in 0 .. m - 1 /\ g[n] = h[n]
            BY <2>2, <3>3, <4>2
          <5>2. n # 0 => n - 1 \in 0 .. m - 1 /\ n - 1 \in 0 .. m /\ n - 1 # m
            BY <2>2, <5>1
          <5>3. n # 0 => g[n - 1] = h[n - 1]
            BY <3>3, <5>2
          <5>4. h[n] = IF n = 0 THEN zero ELSE TakeBlock(buf, end, addr_len, h[n - 1])
            BY <3>2, <5>1 DEF AtBlock
          <5>5. QED
            BY <5>1, <5>3, <5>4
        <4>3. QED
          BY <4>1, <4>2
      <3>5. T(g, m)
        BY <3>4 DEF AtBlock
      <3>6. QED
        BY <2>2, <3>5
    <2>5. QED
      BY <2>3, <2>4
  <1>3. QED
    BY <1>1, <1>2

\* So the loop over the address blocks of a message is what its definition says.
LEMMA BlockTurnsAre ==
    ASSUME NEW buf, NEW start, NEW end, NEW addr_len
    PROVE  \A m \in Nat : AtBlock(BlockTurns(buf, start, end, addr_len), m,
                                [res |-> OKAY, p |-> start, blocks |-> <<>>],
                                buf, end, addr_len)
  <1> DEFINE Step(s) == TakeBlock(buf, end, addr_len, s)
  <1> PICK zero : zero = [res |-> OKAY, p |-> start, blocks |-> <<>>]
    OBVIOUS
  <1> DEFINE T(h, m) == AtBlock(h, m, zero, buf, end, addr_len)
             IsLoop(h) == h = [n \in Nat |-> IF n = 0 THEN zero
                                ELSE Given(h[n - 1], LAMBDA s : TakeBlock(buf, end, addr_len, s))]
             loop == BlockTurns(buf, start, end, addr_len)
  <1>1. \A s : Given(s, LAMBDA t : TakeBlock(buf, end, addr_len, t)) = Step(s)
    BY DEF Given
  <1>2. loop = CHOOSE h : IsLoop(h)
    BY Zenon DEF BlockTurns
  <1>3. \A n \in Nat : T(CHOOSE h : T(h, n), n)
    BY BlocksGoOn
  <1> PICK g : g = [n \in Nat |-> (CHOOSE h : T(h, n))[n]]
    OBVIOUS
  <1>4. ASSUME NEW n \in Nat PROVE g[n] = IF n = 0 THEN zero ELSE Step(g[n - 1])
    <2> PICK h : h = CHOOSE f : T(f, n)
      OBVIOUS
    <2>1. T(h, n) /\ g[n] = h[n] /\ n \in 0 .. n
      BY <1>3
    <2>2. h[n] = IF n = 0 THEN zero ELSE Step(h[n - 1])
      BY <2>1 DEF AtBlock
    <2>3. CASE n = 0
      BY <2>1, <2>2, <2>3
    <2>4. CASE n # 0
      <3>1. n - 1 \in Nat /\ n - 1 <= n /\ n - 1 \in 0 .. n - 1
        BY <2>4
      <3> PICK f : f = CHOOSE k : T(k, n - 1)
        OBVIOUS
      <3>2. T(f, n - 1) /\ g[n - 1] = f[n - 1]
        BY <1>3, <3>1
      <3>3. f[n - 1] = h[n - 1]
        BY <2>1, <3>1, <3>2, BlocksUnique
      <3>4. QED
        BY <2>1, <2>2, <2>4, <3>2, <3>3
    <2>5. QED
      BY <2>3, <2>4
  <1>5. IsLoop(g)
    <2>1. ASSUME NEW n \in Nat
          PROVE  g[n] = IF n = 0 THEN zero
                        ELSE Given(g[n - 1], LAMBDA s : TakeBlock(buf, end, addr_len, s))
      BY <1>1, <1>4
    <2>2. g = [n \in Nat |-> g[n]]
      OBVIOUS
    <2>3. QED
      BY <2>1, <2>2
  <1>6. IsLoop(loop)
    <2> HIDE DEF IsLoop, loop
    <2>1. QED
      BY <1>2, <1>5
  <1>7. \A n \in Nat : loop[n] = IF n = 0 THEN zero ELSE Step(loop[n - 1])
    BY <1>1, <1>6
  <1>8. QED
    BY <1>7 DEF AtBlock

-----------------------------------------------------------------------------
\* The addresses of a block that was parsed end in front of eob.
LEMMA AddressesEnd ==
    ASSUME NEW buf \in Seq(Nat), NEW p \in Nat, NEW eob \in Int, eob <= Len(buf),
           NEW addr_len \in Nat, parse_addrblock(buf, p, eob, addr_len).res = OKAY
    PROVE  /\ parse_addrblock(buf, p, eob, addr_len).p \in Nat
           /\ parse_addrblock(buf, p, eob, addr_len).p <= eob
  <1>0. PICK f, got : f = AddrFields(buf, p, eob, addr_len) /\ got = parse_addrblock(buf, p, eob, addr_len)
    OBVIOUS
  <1>1. got.p = f.p_end /\ ~(f.p_end > eob)
    <2> DEFINE bad(n) == n < 1 \/ n >= addr_len
               good == [res |-> OKAY, p |-> f.p_end, addrs |-> Addresses(buf, p, f, addr_len)]
    <2>1. got = IF f.num = 0 THEN Failed(EMPTY_ADDRBLOCK)
                ELSE IF HasFlag(f.flags, HEAD_FLAG) /\ bad(f.head) THEN Failed(BAD_ADDR_HEAD_LENGTH)
                ELSE IF f.p_tail > eob THEN Failed(END_OF_BUFFER)
                ELSE IF HasFlag(f.flags, FULLTAIL) /\ HasFlag(f.flags, ZEROTAIL)
                THEN Failed(BAD_MSG_TAILFLAGS)
                ELSE IF HasFlag(f.flags, FULLTAIL) /\ bad(f.tail) THEN Failed(BAD_ADDR_TAIL_LENGTH)
                ELSE IF f.p_plen > eob THEN Failed(END_OF_BUFFER)
                ELSE IF HasFlag(f.flags, SINGLEPLEN) /\ HasFlag(f.flags, MULTIPLEN)
                THEN Failed(BAD_MSG_PREFIXFLAGS)
                ELSE IF f.p_end > eob THEN Failed(END_OF_BUFFER)
                ELSE good
      BY <1>0 DEF parse_addrblock, Given
    <2>2. got.res = OKAY
      BY <1>0
    <2>3. good.p = f.p_end
      OBVIOUS
    <2> HIDE DEF bad, good
    <2>4. got = good /\ ~(f.p_end > eob)
      BY <2>1, <2>2 DEF Failed, OKAY, EMPTY_ADDRBLOCK, BAD_ADDR_HEAD_LENGTH, END_OF_BUFFER,
             BAD_MSG_TAILFLAGS, BAD_ADDR_TAIL_LENGTH, BAD_MSG_PREFIXFLAGS
    <2>5. QED
      BY <2>3, <2>4
  <1>2. f.p_end \in Nat
    <2> DEFINE num   == get_u8(buf, p, eob)
               flags == get_u8(buf, p + 1, eob)
               head  == IF HasFlag(flags, HEAD_FLAG) THEN get_u8(buf, p + 2, eob) ELSE 0
               p_tail == p + 2 + (IF HasFlag(flags, HEAD_FLAG) THEN 1 + head ELSE 0)
               has_tail == HasFlag(flags, FULLTAIL) \/ HasFlag(flags, ZEROTAIL)
               tail  == IF has_tail THEN get_u8(buf, p_tail, eob) ELSE 0
               p_mid == p_tail + (IF has_tail THEN 1 ELSE 0)
                          + (IF HasFlag(flags, FULLTAIL) THEN tail ELSE 0)
               mid   == (addr_len - head - tail) % 256
               p_plen == p_mid + mid * num
    <2>9. f.p_end = p_plen + (IF HasFlag(flags, SINGLEPLEN) THEN 1
                              ELSE IF HasFlag(flags, MULTIPLEN) THEN num ELSE 0)
      BY <1>0 DEF AddrFields
    <2> HIDE DEF num, flags, head, p_tail, has_tail, tail, p_mid, mid, p_plen
    <2>a. num \in Nat /\ get_u8(buf, p + 2, eob) \in Nat
      <3>1. p + 2 \in Nat
        OBVIOUS
      <3>2. QED
        BY <3>1, ReadsNumbers DEF num
    <2>b. head \in Nat
      BY <2>a DEF head
    <2>c. p_tail \in Nat
      BY <2>b DEF p_tail
    <2>d. tail \in Nat
      BY <2>c, ReadsNumbers DEF tail
    <2>e. p_mid \in Nat
      BY <2>c, <2>d DEF p_mid
    <2>f. mid \in Nat
      BY <2>b, <2>d DEF mid
    <2>g. p_plen \in Nat
      <3>1. \A m, n \in Nat : m * n \in Nat
        OBVIOUS
      <3>2. mid * num \in Nat
        BY ONLY <2>a, <2>f, <3>1
      <3>3. \A m, n \in Nat : m + n \in Nat
        OBVIOUS
      <3>4. p_mid + mid * num \in Nat
        BY ONLY <2>e, <3>2, <3>3
      <3>5. QED
        BY <3>4 DEF p_plen
    <2>h. QED
      BY <2>9, <2>a, <2>g
  <1>3. QED
    BY <1>0, <1>1, <1>2

\* The address blocks of a message, each with its TLVs in order.
BlocksAreOk(s) == IsSeq(s) /\ \A k \in DOMAIN s : BlockOk(s[k].tlvs)

\* The loop over the address blocks keeps them so.
LEMMA BlocksParsed ==
    ASSUME NEW buf \in Seq(0 .. 255), NEW start \in Nat, NEW end \in Nat, end <= Len(buf),
           NEW addr_len \in Nat, ParseBlocks(buf, start, end, addr_len).res = OKAY
    PROVE  BlocksAreOk(ParseBlocks(buf, start, end, addr_len).blocks)
  <1> PICK turn : turn = BlockTurns(buf, start, end, addr_len)
    OBVIOUS
  <1> DEFINE Good(s) == s.p \in Nat /\ BlocksAreOk(s.blocks)
             Lost == {m \in Nat : turn[m].res = OKAY /\ ~Good(turn[m])}
  <1> PICK zero : zero = [res |-> OKAY, p |-> start, blocks |-> <<>>]
    OBVIOUS
  <1>0. \A m \in Nat : AtBlock(turn, m, zero, buf, end, addr_len)
    BY BlockTurnsAre
  <1>1. turn[0] = zero
    BY <1>0 DEF AtBlock
  <1>2. \A m \in Nat \ {0} : turn[m] = TakeBlock(buf, end, addr_len, turn[m - 1])
    <2> SUFFICES ASSUME NEW m \in Nat \ {0}
                 PROVE  turn[m] = TakeBlock(buf, end, addr_len, turn[m - 1])
      OBVIOUS
    <2>1. m \in Nat /\ m # 0 /\ m \in 0 .. m
      OBVIOUS
    <2>2. QED
      BY <1>0, <2>1 DEF AtBlock
  <1>a. buf \in Seq(Nat) /\ end \in Int
    <2>1. buf \in Seq(0 .. 255) /\ 0 .. 255 \subseteq Nat
      OBVIOUS
    <2>2. buf \in Seq(Nat)
      BY ONLY <2>1, SeqMono
    <2>3. QED
      BY <2>2
  <1>3. Lost = {}
    <2> SUFFICES ASSUME Lost # {} PROVE FALSE
      OBVIOUS
    <2>1. PICK m \in Lost : \A j \in Lost : m <= j
      BY LeastOf
    <2>2. m \in Nat /\ turn[m].res = OKAY /\ ~Good(turn[m])
      BY <2>1
    <2>3. m # 0
      <3>1. Good(zero)
        BY EmptyIsSeq DEF BlocksAreOk
      <3>2. QED
        BY <1>1, <2>2, <3>1
    <2>4. m - 1 \in Nat /\ m - 1 \notin Lost
      <3>1. m - 1 \in Nat /\ ~(m <= m - 1)
        BY <2>2, <2>3
      <3>2. QED
        BY <2>1, <3>1, Zenon
    <2> PICK s : s = turn[m - 1]
      OBVIOUS
    <2>5. turn[m] = TakeBlock(buf, end, addr_len, s)
      BY <1>2, <2>2, <2>3
    <2> PICK got : got = parse_addrblock(buf, s.p, end, addr_len)
      OBVIOUS
    <2> PICK block : block = parse_tlvblock(buf, got.p, end, Len(got.addrs))
      OBVIOUS
    <2>6. CASE s.res # OKAY \/ s.p >= end
      <3>1. turn[m] = s
        BY <2>5, <2>6 DEF TakeBlock
      <3>2. QED
        BY <2>2, <2>4, <3>1
    <2>7. CASE ~(s.res # OKAY \/ s.p >= end)
      <3>1. s.p \in Nat /\ BlocksAreOk(s.blocks)
        BY <2>4, <2>7
      <3>2. turn[m] = WithAddresses(buf, end, s, got)
        <4>1. Given(parse_addrblock(buf, s.p, end, addr_len), LAMBDA g : WithAddresses(buf, end, s, g))
                = WithAddresses(buf, end, s, got)
          BY DEF Given
        <4>2. s.res = OKAY /\ ~(s.p >= end)
          BY <2>7
        <4>3. QED
          BY <2>5, <4>1, <4>2, Zenon DEF TakeBlock
      <3>a. got.res = OKAY
        <4>1. turn[m].res = OKAY
          BY <2>2
        <4>2. QED
          BY ONLY <3>2, <4>1 DEF WithAddresses, Failed
      <3>b. turn[m] = WithBlock(s, got, block)
        <4>1. Given(parse_tlvblock(buf, got.p, end, Len(got.addrs)), LAMBDA b : WithBlock(s, got, b))
                = WithBlock(s, got, block)
          BY DEF Given
        <4>2. QED
          BY <3>2, <3>a, <4>1 DEF WithAddresses
      <3>3. /\ got.res = OKAY /\ block.res = OKAY /\ turn[m].p = block.p
            /\ turn[m].blocks = Append(s.blocks, [addrs |-> got.addrs, tlvs |-> block.tlvs])
        <4>1. block.res = OKAY
          <5>1. ASSUME block.res # OKAY PROVE FALSE
            <6>1. WithBlock(s, got, block) = Failed(block.res)
              BY ONLY <5>1 DEF WithBlock
            <6>2. turn[m].res = block.res
              BY ONLY <3>b, <6>1 DEF Failed
            <6>3. QED
              BY ONLY <2>2, <5>1, <6>2
          <5>2. QED
            BY <5>1
        <4>2. PICK t : t = Append(s.blocks, [addrs |-> got.addrs, tlvs |-> block.tlvs])
          OBVIOUS
        <4>3. turn[m] = [res |-> OKAY, p |-> block.p, blocks |-> t]
          BY <3>b, <4>1, <4>2 DEF WithBlock
        <4>4. QED
          BY ONLY <3>a, <4>1, <4>2, <4>3
      <3>4. got.p \in Nat
        BY <1>a, <3>1, <3>3, AddressesEnd
      <3>5. block.p \in Nat
        BY <1>a, <3>3, <3>4, TlvBlocksAreWhole
      <3>6. BlockOk(block.tlvs)
        BY <1>a, <3>3, <3>4, BlockParsed
      <3>7. BlocksAreOk(turn[m].blocks)
        <4>1. PICK e, t : e = [addrs |-> got.addrs, tlvs |-> block.tlvs] /\ t = s.blocks
          OBVIOUS
        <4>2. IsSeq(t) /\ \A k \in DOMAIN t : BlockOk(t[k].tlvs)
          BY <3>1, <4>1 DEF BlocksAreOk
        <4>3. /\ IsSeq(Append(t, e)) /\ Len(t) \in Nat /\ DOMAIN t = 1 .. Len(t)
              /\ Len(Append(t, e)) = Len(t) + 1 /\ DOMAIN Append(t, e) = 1 .. Len(t) + 1
              /\ \A k \in 1 .. Len(t) : Append(t, e)[k] = t[k]
              /\ Append(t, e)[Len(t) + 1] = e
          BY <4>2, Appended
        <4>4. e.tlvs = block.tlvs
          BY <4>1
        <4>5. \A k \in 1 .. Len(t) + 1 : BlockOk(Append(t, e)[k].tlvs)
          BY ONLY <3>6, <4>2, <4>3, <4>4
        <4>6. QED
          <5>1. turn[m].blocks = Append(t, e)
            BY <3>3, <4>1
          <5>2. BlocksAreOk(Append(t, e))
            BY <4>3, <4>5 DEF BlocksAreOk
          <5>3. QED
            BY <5>1, <5>2
      <3>8. QED
        BY <2>2, <3>3, <3>5, <3>7
    <2>8. QED
      BY <2>6, <2>7
  <1>4. PICK n : n = IF start < end THEN end - start ELSE 0
    OBVIOUS
  <1>5. n \in Nat /\ ParseBlocks(buf, start, end, addr_len) = turn[n]
    BY <1>4 DEF ParseBlocks
  <1>6. QED
    BY <1>3, <1>5

\* The TLV blocks of a message that was parsed are in order.
LEMMA MessageParsed ==
    ASSUME NEW buf \in Seq(0 .. 255), NEW p \in Nat, parse_message(buf, p, Len(buf)).res = OKAY
    PROVE  /\ BlockOk(parse_message(buf, p, Len(buf)).tlvs)
           /\ BlocksAreOk(parse_message(buf, p, Len(buf)).blocks)
  <1>0. PICK f, m, block, rest, eob :
           /\ f = MsgFields(buf, p, Len(buf)) /\ m = parse_message(buf, p, Len(buf))
           /\ block = parse_tlvblock(buf, f.p_tlvs, f.end, 0)
           /\ rest = ParseBlocks(buf, block.p, f.end, f.addr_len)
           /\ eob = Len(buf)
    OBVIOUS
  <1>a. buf \in Seq(Nat) /\ eob \in Nat /\ eob = Len(buf)
    BY <1>0, SeqMono
  <1>b. get_u8(buf, p + 1, eob) \in Nat /\ get_u16(buf, p + 2, eob) \in Nat
    <2>1. eob \in Int /\ eob <= Len(buf) /\ p + 1 \in Nat /\ p + 2 \in Nat
      BY <1>a
    <2>2. QED
      BY <1>a, <2>1, ReadsNumbers
  <1>1. f.end \in Nat /\ f.p_tlvs \in Nat /\ f.addr_len \in Nat
    <2>1. f.end = p + get_u16(buf, p + 2, eob) /\ f.addr_len = (get_u8(buf, p + 1, eob) % 16) + 1
      BY <1>0 DEF MsgFields
    <2>2. f.p_tlvs \in Nat
      <3> PICK flags : flags = get_u8(buf, p + 1, eob)
        OBVIOUS
      <3> DEFINE has(flag, n) == IF HasFlag(flags, flag) THEN n ELSE 0
      <3>1. (flags % 16) + 1 \in Nat
        BY <1>b
      <3>2. f.p_tlvs = p + 4 + has(ORIGINATOR, (flags % 16) + 1) + has(HOPLIMIT, 1)
                         + has(HOPCOUNT, 1) + has(MSG_SEQNO, 2)
        BY <1>0 DEF MsgFields
      <3>3. /\ has(ORIGINATOR, (flags % 16) + 1) \in Nat /\ has(HOPLIMIT, 1) \in Nat
            /\ has(HOPCOUNT, 1) \in Nat /\ has(MSG_SEQNO, 2) \in Nat
        BY <3>1
      <3> HIDE DEF has
      <3>4. QED
        BY <3>2, <3>3
    <2>3. QED
      BY <1>b, <2>1, <2>2
  <1>2. /\ f.end <= eob /\ block.res = OKAY /\ rest.res = OKAY
        /\ m.tlvs = block.tlvs /\ m.blocks = rest.blocks
    <2>1. m = WithHeader(buf, f, eob) /\ m.res = OKAY
      BY <1>0 DEF parse_message, Given
    <2>2. ~(f.p_tlvs > eob \/ f.end > eob)
      BY <2>1 DEF WithHeader, Failed, OKAY, END_OF_BUFFER
    <2>3. m = WithTlvs(buf, f, block)
      <3>1. Given(parse_tlvblock(buf, f.p_tlvs, f.end, 0), LAMBDA b : WithTlvs(buf, f, b))
              = WithTlvs(buf, f, block)
        BY <1>0 DEF Given
      <3>2. QED
        BY <2>1, <2>2, <3>1 DEF WithHeader
    <2>4. block.res = OKAY
      BY <2>1, <2>3 DEF WithTlvs, Failed
    <2>5. m = WithBlocks(f, block, rest)
      <3>1. Given(ParseBlocks(buf, block.p, f.end, f.addr_len), LAMBDA r : WithBlocks(f, block, r))
              = WithBlocks(f, block, rest)
        BY <1>0 DEF Given
      <3>2. QED
        BY <2>3, <2>4, <3>1 DEF WithTlvs
    <2>6. rest.res = OKAY
      BY <2>1, <2>5 DEF WithBlocks, Failed
    <2>7. m.tlvs = block.tlvs /\ m.blocks = rest.blocks
      BY <2>5, <2>6 DEF WithBlocks
    <2>8. QED
      BY <1>a, <1>1, <2>2, <2>4, <2>6, <2>7
  <1>3. f.end \in Int /\ f.end <= Len(buf)
    BY <1>a, <1>1, <1>2
  <1>4. BlockOk(block.tlvs)
    BY <1>0, <1>1, <1>2, <1>3, BlockParsed
  <1>5. block.p \in Nat
    BY <1>0, <1>a, <1>1, <1>2, <1>3, TlvBlocksAreWhole
  <1>6. BlocksAreOk(rest.blocks)
    BY <1>0, <1>1, <1>2, <1>3, <1>5, BlocksParsed
  <1>7. QED
    BY <1>0, <1>2, <1>4, <1>6

\* And so are those of a packet.
LEMMA PacketParsed ==
    ASSUME NEW buf \in Seq(0 .. 255), parse_pkt_header(buf).res = OKAY
    PROVE  BlockOk(parse_pkt_header(buf).tlvs)
  <1>0. PICK hdr, p, block, eob :
           /\ hdr = parse_pkt_header(buf)
           /\ p = 1 + (IF HasFlag(get_u8(buf, 0, Len(buf)), PKT_SEQNO) THEN 2 ELSE 0)
           /\ block = parse_tlvblock(buf, p, Len(buf), 0) /\ eob = Len(buf)
    OBVIOUS
  <1>1. p \in Nat /\ eob \in Int /\ eob <= Len(buf)
    BY <1>0
  <1>2. hdr.tlvs = <<>> \/ (block.res = OKAY /\ hdr.tlvs = block.tlvs)
    <2>1. hdr = IF get_u8(buf, 0, Len(buf)) \div 16 # 0 THEN Failed(UNSUPPORTED_VERSION)
                ELSE IF p > Len(buf) THEN Failed(END_OF_BUFFER)
                ELSE IF HasFlag(get_u8(buf, 0, Len(buf)), PKT_TLV)
                THEN IF block.res # OKAY THEN Failed(block.res)
                     ELSE [res |-> OKAY, p |-> block.p, has_tlv |-> TRUE, tlvs |-> block.tlvs]
                ELSE [res |-> OKAY, p |-> p, has_tlv |-> FALSE, tlvs |-> <<>>]
      <3>1. Given(block, LAMBDA b : WithPktTlvs(b)) = WithPktTlvs(block)
        BY DEF Given
      <3>2. QED
        BY <1>0, <3>1 DEF parse_pkt_header, WithPktTlvs
    <2>2. hdr.res = OKAY
      BY <1>0
    <2>3. QED
      BY <2>1, <2>2 DEF Failed, OKAY, UNSUPPORTED_VERSION, END_OF_BUFFER
  <1>3. BlockOk(<<>>)
    BY EmptyIsSeq DEF BlockOk
  <1>4. block.res = OKAY => BlockOk(block.tlvs)
    BY <1>0, <1>1, BlockParsed
  <1>5. QED
    BY <1>0, <1>2, <1>3, <1>4
-----------------------------------------------------------------------------
\* Entry number j of w is the first that TLV v fits.
FirstFit(w, v, j) == FitsEntry(w[j], v) /\ \A i \in 1 .. j - 1 : ~FitsEntry(w[i], v)

\* Of the numbers S of TLVs of block B, those in front of T that are for entry j.
Taken(w, B, S, T, j) == {n \in S : n < T /\ FirstFit(w, B[n], j)}

\* The loop of _schedule_tlvblock through block B and the entries w is at TLV T and
\* entry p; the TLVs S are for address i and not dropped, F is what was found so far.
\* No TLV in front of T is for an entry behind p, none from T on for one in front of p.
Merged(w, B, i, S, T, p, F, failed) ==
    /\ T \in 1 .. Len(B) + 1 /\ p \in 1 .. Len(w) + 1
    /\ \A n \in 1 .. T - 1, j \in 1 .. Len(w) : FirstFit(w, B[n], j) => j <= p
    /\ \A n \in T .. Len(B), j \in 1 .. p - 1 : ~FitsEntry(w[j], B[n])
    /\ \A j \in 1 .. Len(w) : j <= p => Increasing(F[w[j]], Taken(w, B, S, T, j))
    /\ ~failed => \A j \in 1 .. Len(w) :
          /\ j < p /\ entry[w[j]].mandatory => F[w[j]] # <<>>
          /\ j <= p => \A n \in Taken(w, B, S, T, j) : ~BadLength(w[j], B[n])
    /\ \A n \in S : n < T /\ B[n].multi => B[n].single = ValueFor(B[n], i)

\* What the result k of comparing TLV T with entry p says of the others.
Compared(w, B, T, p, k) ==
    /\ k \in Int
    /\ k > 0 => p <= Len(w) /\ \A n \in T .. Len(B) : ~FitsEntry(w[p], B[n])
    /\ k <= 0 /\ p <= Len(w) => T <= Len(B) /\ \A j \in p + 1 .. Len(w) : ~FirstFit(w, B[T], j)
    /\ T <= Len(B) /\ p <= Len(w) => (k = 0 <=> FitsEntry(w[p], B[T]))

\* A TLV fits an entry by its type and extension, or by its type.
LEMMA FitIs ==
    ASSUME NEW e \in Entries, NEW v, IsTlv(v)
    PROVE  /\ entry[e].match_type_ext => (FitsEntry(e, v) <=> intorder(v) = EntryKey(e))
           /\ ~entry[e].match_type_ext => (FitsEntry(e, v) <=> v.type = entry[e].type)
           /\ FitsEntry(e, v) => EntryKey(e) <= intorder(v) /\ v.type = entry[e].type
           /\ intorder(v) \in Nat /\ EntryKey(e) \in Nat
  <1> PICK t, n, t1, n1 : t = v.type /\ n = v.ext /\ t1 = entry[e].type /\ n1 = entry[e].type_ext
    OBVIOUS
  <1>1. t \in 0 .. 255 /\ n \in 0 .. 255 /\ t1 \in 0 .. 255 /\ n1 \in 0 .. 255
    BY KeyIs DEF IsTlv
  <1>2. intorder(v) = 256 * t + n /\ EntryKey(e) = 256 * t1 + n1
    BY DEF intorder, EntryKey
  <1>3. FitsEntry(e, v) <=> t = t1 /\ (entry[e].match_type_ext => n = n1)
    BY DEF FitsEntry
  <1>4. ~entry[e].match_type_ext => n1 = 0
    BY EntriesAssumption
  <1>5. 256 * t + n \in Nat /\ 256 * t1 + n1 \in Nat
    BY ONLY <1>1
  <1>6. 256 * t + n = 256 * t1 + n1 <=> t = t1 /\ n = n1
    BY ONLY <1>1
  <1>7. t = t1 /\ (n = n1 \/ n1 = 0) => 256 * t1 + n1 <= 256 * t + n
    BY ONLY <1>1
  <1>8. QED
    BY <1>2, <1>3, <1>4, <1>5, <1>6, <1>7

\* _compare_tlvtypes.
LEMMA ComparedTlv ==
    ASSUME NEW es, Distinct(es), NEW w, IsSort(es, Len(es), w), NEW B, BlockOk(B),
           NEW T \in 1 .. Len(B), NEW p \in 1 .. Len(w)
    PROVE  Compared(w, B, T, p, IF entry[w[p]].match_type_ext THEN intorder(B[T]) - EntryKey(w[p])
                                ELSE B[T].type - entry[w[p]].type)
  <1> PICK e, v, k : /\ e = w[p] /\ v = B[T]
                     /\ k = IF entry[e].match_type_ext THEN intorder(v) - EntryKey(e)
                            ELSE v.type - entry[e].type
    OBVIOUS
  <1>1. /\ Len(w) \in Nat /\ DOMAIN w = 1 .. Len(w) /\ \A j \in 1 .. Len(w) : w[j] \in Entries
    BY SortDistinct
  <1>2. Len(B) \in Nat /\ DOMAIN B = 1 .. Len(B) /\ \A n \in 1 .. Len(B) : IsTlv(B[n])
    BY DEF BlockOk, IsSeq
  <1>3. e \in Entries /\ IsTlv(v)
    BY <1>1, <1>2
  <1>4. v.type \in 0 .. 255 /\ entry[e].type \in 0 .. 255
    BY <1>3, KeyIs DEF IsTlv
  <1>5. /\ entry[e].match_type_ext => (FitsEntry(e, v) <=> intorder(v) = EntryKey(e))
        /\ ~entry[e].match_type_ext => (FitsEntry(e, v) <=> v.type = entry[e].type)
        /\ intorder(v) \in Nat /\ EntryKey(e) \in Nat
    BY <1>3, FitIs
  <1>a. PICK a, b, m, o : a = v.type /\ b = entry[e].type /\ m = intorder(v) /\ o = EntryKey(e)
    OBVIOUS
  <1>b. a \in Int /\ b \in Int /\ m \in Int /\ o \in Int
    <2>1. m \in Nat /\ o \in Nat
      BY <1>5, <1>a
    <2>2. a \in 0 .. 255 /\ b \in 0 .. 255
      BY <1>4, <1>a
    <2>3. QED
      BY ONLY <2>1, <2>2
  <1>c. k = IF entry[e].match_type_ext THEN m - o ELSE a - b
    BY <1>a
  <1>6. /\ k \in Int /\ (k = 0 <=> FitsEntry(e, v))
        /\ entry[e].match_type_ext => (k > 0 <=> m > o) /\ (k < 0 <=> m < o)
        /\ ~entry[e].match_type_ext => (k > 0 <=> a > b) /\ (k < 0 <=> a < b)
    <2>1. CASE entry[e].match_type_ext
      <3>1. k = m - o /\ (FitsEntry(e, v) <=> m = o)
        BY <1>5, <1>a, <1>c, <2>1
      <3>2. k \in Int /\ (k = 0 <=> m = o) /\ (k > 0 <=> m > o) /\ (k < 0 <=> m < o)
        BY ONLY <1>b, <3>1
      <3>3. QED
        BY <2>1, <3>1, <3>2
    <2>2. CASE ~entry[e].match_type_ext
      <3>1. k = a - b /\ (FitsEntry(e, v) <=> a = b)
        BY <1>5, <1>a, <1>c, <2>2
      <3>2. k \in Int /\ (k = 0 <=> a = b) /\ (k > 0 <=> a > b) /\ (k < 0 <=> a < b)
        BY ONLY <1>b, <3>1
      <3>3. QED
        BY <2>2, <3>1, <3>2
    <2>3. QED
      BY <2>1, <2>2
  <1>7. ASSUME k > 0, NEW n \in T .. Len(B) PROVE ~FitsEntry(e, B[n])
    <2>1. n \in 1 .. Len(B) /\ IsTlv(B[n])
      BY <1>2
    <2>2. intorder(v) <= intorder(B[n]) /\ intorder(B[n]) \in Nat
      <3>1. CASE n = T
        BY <1>5, <3>1
      <3>2. CASE n # T
        <4>1. T < n
          BY <2>1, <3>2
        <4>2. intorder(B[T]) <= intorder(B[n])
          BY <1>2, <2>1, <4>1 DEF BlockOk
        <4>3. QED
          BY <2>1, <4>2, IntorderIs
      <3>3. QED
        BY <3>1, <3>2
    <2>3. CASE entry[e].match_type_ext
      <3>1. intorder(v) > EntryKey(e)
        BY <1>6, <1>7, <1>a, <2>3
      <3>2. FitsEntry(e, B[n]) <=> intorder(B[n]) = EntryKey(e)
        BY <1>3, <2>1, <2>3, FitIs
      <3>3. QED
        BY <1>5, <2>2, <3>1, <3>2
    <2>4. CASE ~entry[e].match_type_ext
      <3>1. a > b
        BY <1>6, <1>7, <2>4
      <3>2. a <= B[n].type /\ B[n].type \in Int
        <4> PICK t, l, t1, l1 : t = v.type /\ l = v.ext /\ t1 = B[n].type /\ l1 = B[n].ext
          OBVIOUS
        <4>1. t \in 0 .. 255 /\ l \in 0 .. 255 /\ t1 \in 0 .. 255 /\ l1 \in 0 .. 255
          BY <1>3, <2>1 DEF IsTlv
        <4>2. 256 * t + l <= 256 * t1 + l1
          BY <2>2 DEF intorder
        <4>3. t <= t1
          BY ONLY <4>1, <4>2
        <4>4. QED
          BY <1>a, <4>1, <4>3
      <3>3. FitsEntry(e, B[n]) => B[n].type = entry[e].type
        BY DEF FitsEntry
      <3>4. B[n].type # b
        BY ONLY <1>b, <3>1, <3>2
      <3>5. QED
        BY <1>a, <3>3, <3>4
    <2>5. QED
      BY <2>3, <2>4
  <1>8. ASSUME k <= 0, NEW j \in p + 1 .. Len(w) PROVE ~FirstFit(w, v, j)
    <2>1. SUFFICES ASSUME FirstFit(w, v, j) PROVE FALSE
      OBVIOUS
    <2> PICK f : f = w[j]
      OBVIOUS
    <2>2. j \in 1 .. Len(w) /\ f \in Entries /\ p < j /\ p \in 1 .. j - 1
      BY <1>1
    <2>3. FitsEntry(f, v) /\ ~FitsEntry(e, v)
      BY <2>1, <2>2 DEF FirstFit
    <2>4. k < 0
      BY <1>6, <1>8, <2>3
    <2>5. EntryKey(e) <= EntryKey(f) /\ EntryKey(f) \in Nat
      <3>1. Before(es, e, f)
        BY <1>1, <2>2 DEF IsSort
      <3>2. EntryKey(f) \in Nat /\ EntryKey(e) \in Nat
        BY <1>3, <2>2, KeyIs
      <3>3. QED
        BY <3>1, <3>2 DEF Before
    <2>6. EntryKey(f) <= intorder(v) /\ v.type = entry[f].type
      BY <1>3, <2>2, <2>3, FitIs
    <2>7. CASE entry[e].match_type_ext
      <3>1. intorder(v) < EntryKey(e)
        BY <1>6, <1>a, <2>4, <2>7
      <3>2. QED
        BY <1>5, <2>5, <2>6, <3>1
    <2>8. CASE ~entry[e].match_type_ext
      <3>1. a < b
        BY <1>6, <2>4, <2>8
      <3>2. b <= entry[f].type /\ entry[f].type \in Int
        <4> PICK t, l, t1, l1 : /\ t = entry[e].type /\ l = entry[e].type_ext
                                /\ t1 = entry[f].type /\ l1 = entry[f].type_ext
          OBVIOUS
        <4>1. t \in 0 .. 255 /\ l \in 0 .. 255 /\ t1 \in 0 .. 255 /\ l1 \in 0 .. 255
          BY <1>3, <2>2, KeyIs
        <4>2. 256 * t + l <= 256 * t1 + l1
          BY <2>5 DEF EntryKey
        <4>3. t <= t1
          BY ONLY <4>1, <4>2
        <4>4. QED
          <5>1. b = t /\ entry[f].type = t1
            BY <1>a
          <5>2. QED
            BY ONLY <4>1, <4>3, <5>1
      <3>3. a = entry[f].type
        BY <1>a, <2>6
      <3>4. QED
        BY ONLY <1>b, <3>1, <3>2, <3>3
    <2>9. QED
      BY <2>7, <2>8
  <1>9. QED
    BY <1>6, <1>7, <1>8 DEF Compared

\* TLVs that differ in the value shown only.
SameTlv(u, v) == /\ u.type = v.type /\ u.ext = v.ext /\ u.index1 = v.index1 /\ u.index2 = v.index2
                 /\ u.multi = v.multi /\ u.values = v.values /\ u.length = v.length

\* They fit the same entries.
LEMMA SameFits ==
    ASSUME NEW u, NEW v, SameTlv(u, v)
    PROVE  /\ \A e : (FitsEntry(e, u) <=> FitsEntry(e, v)) /\ (BadLength(e, u) <=> BadLength(e, v))
           /\ \A w, j : FirstFit(w, u, j) <=> FirstFit(w, v, j)
           /\ \A i : ValueFor(u, i) = ValueFor(v, i)
  <1>1. \A e : (FitsEntry(e, u) <=> FitsEntry(e, v)) /\ (BadLength(e, u) <=> BadLength(e, v))
    BY DEF SameTlv, FitsEntry, BadLength
  <1>2. \A w, j : FirstFit(w, u, j) <=> FirstFit(w, v, j)
    BY <1>1 DEF FirstFit
  <1>3. \A i : ValueFor(u, i) = ValueFor(v, i)
    BY DEF SameTlv, ValueFor
  <1>4. QED
    BY <1>1, <1>2, <1>3

\* A number behind all of a sequence in increasing order.
LEMMA IncreasingGrows ==
    ASSUME NEW S \in SUBSET Nat, NEW s, Increasing(s, S), NEW t \in Nat, \A n \in S : n < t
    PROVE  Increasing(Append(s, t), S \cup {t}) /\ Append(s, t) # <<>>
  <1>0. PICK R, u : R = S \cup {t} /\ u = Append(s, t)
    OBVIOUS
  <1>1. /\ s \in Seq(S) /\ Len(s) \in Nat /\ DOMAIN s = 1 .. Len(s) /\ ToSet(s) = S
        /\ \A j \in 1 .. Len(s) : s[j] \in S
        /\ \A j, k \in 1 .. Len(s) : j < k => s[j] < s[k]
    BY DEF Increasing
  <1>2. s \in Seq(R) /\ t \in R
    <2>1. S \subseteq R /\ s \in Seq(S)
      BY <1>0, <1>1
    <2>2. s \in Seq(R)
      BY ONLY <2>1, SeqMono
    <2>3. QED
      BY <1>0, <2>2
  <1>3. /\ u \in Seq(R) /\ Len(u) = Len(s) + 1
        /\ \A j \in 1 .. Len(s) : u[j] = s[j]
        /\ u[Len(s) + 1] = t
    BY <1>0, <1>2, AppendProperties
  <1>4. DOMAIN u = 1 .. Len(s) + 1
    BY <1>1, <1>3
  <1>5. ToSet(u) = R
    <2>1. ToSet(u) = {u[j] : j \in 1 .. Len(s) + 1} /\ ToSet(s) = {s[j] : j \in 1 .. Len(s)}
      BY <1>1, <1>4 DEF ToSet
    <2>2. \A y : y \in ToSet(u) <=> y \in ToSet(s) \/ y = t
      <3>1. \A j : j \in 1 .. Len(s) + 1 <=> j \in 1 .. Len(s) \/ j = Len(s) + 1
        BY <1>1
      <3>2. QED
        BY <1>3, <2>1, <3>1
    <2>3. QED
      BY <1>0, <1>1, <2>2
  <1>6. \A j, k \in 1 .. Len(s) + 1 : j < k => u[j] < u[k]
    <2> SUFFICES ASSUME NEW j \in 1 .. Len(s) + 1, NEW k \in 1 .. Len(s) + 1, j < k PROVE u[j] < u[k]
      OBVIOUS
    <2>1. j \in 1 .. Len(s) /\ u[j] = s[j] /\ s[j] \in S
      BY <1>1, <1>3
    <2>2. CASE k = Len(s) + 1
      BY <1>3, <2>1, <2>2
    <2>3. CASE k # Len(s) + 1
      <3>1. k \in 1 .. Len(s)
        BY <1>1, <2>3
      <3>2. QED
        BY <1>1, <1>3, <2>1, <3>1
    <2>4. QED
      BY <2>2, <2>3
  <1>7. u # <<>>
    BY <1>1, <1>3, EmptySeq
  <1>8. QED
    BY <1>0, <1>3, <1>4, <1>5, <1>6, <1>7 DEF Increasing

\* A turn of the loop in _schedule_tlvblock: TLV T of block B was compared with entry
\* p, with result k, and the next TLV U with the same entry, with result l.  The TLV is
\* taken by the entry, if it fits; then one of the two goes on, or both.
MergeTurn(w, B, Bn, i, S, Sn, T, U, p, q, k, l, F, Fn, match, failed, failedn) ==
    /\ IsSeq(Bn) /\ Len(Bn) = Len(B)
    /\ \A n \in 1 .. Len(B) : SameTlv(Bn[n], B[n]) /\ (n # T => Bn[n] = B[n])
    /\ T \in Sn /\ B[T].multi => Bn[T].single = ValueFor(B[T], i)
    /\ \A n \in 1 .. Len(B) : n # T => (n \in Sn <=> n \in S)
    /\ match \in BOOLEAN /\ failedn \in BOOLEAN
    /\ U = (IF T = Len(B) + 1 \/ k > 0 THEN T ELSE T + 1) /\ q = (IF l > 0 THEN p + 1 ELSE p)
    /\ match <=> T <= Len(B) /\ p <= Len(w) /\ T \in Sn /\ k = 0
    /\ \A j \in 1 .. Len(w) : j <= q =>
          Fn[w[j]] = IF j = p /\ match THEN Append(F[w[j]], T)
                     ELSE IF j = q /\ q # p THEN <<>> ELSE F[w[j]]
    /\ ~failedn => /\ ~failed
                   /\ p <= Len(w) /\ (k >= 0 \/ l > 0) /\ entry[w[p]].mandatory => match
                   /\ match => ~BadLength(w[p], B[T])

\* The loop stays where it should be.
LEMMA MergeGoesOn ==
    ASSUME NEW es, Distinct(es), NEW w, IsSort(es, Len(es), w), NEW B, BlockOk(B), NEW Bn, NEW i,
           NEW S, NEW Sn, S \subseteq 1 .. Len(B), Sn \subseteq 1 .. Len(B), NEW T, NEW p, NEW F,
           NEW failed, Merged(w, B, i, S, T, p, F, failed), NEW k, NEW l, NEW U, NEW q,
           Compared(w, B, T, p, k), Compared(w, B, U, p, l), NEW Fn, NEW match, NEW failedn,
           MergeTurn(w, B, Bn, i, S, Sn, T, U, p, q, k, l, F, Fn, match, failed, failedn)
    PROVE  Merged(w, Bn, i, Sn, U, q, Fn, failedn)
  <1> SUFFICES
        ASSUME IsSeq(Bn), Len(Bn) = Len(B),
               \A n \in 1 .. Len(B) : SameTlv(Bn[n], B[n]) /\ (n # T => Bn[n] = B[n]),
               T \in Sn /\ B[T].multi => Bn[T].single = ValueFor(B[T], i),
               \A n \in 1 .. Len(B) : n # T => (n \in Sn <=> n \in S),
               match \in BOOLEAN, failedn \in BOOLEAN,
               U = (IF T = Len(B) + 1 \/ k > 0 THEN T ELSE T + 1),
               q = (IF l > 0 THEN p + 1 ELSE p),
               match <=> T <= Len(B) /\ p <= Len(w) /\ T \in Sn /\ k = 0,
               \A j \in 1 .. Len(w) : j <= q =>
                  Fn[w[j]] = IF j = p /\ match THEN Append(F[w[j]], T)
                             ELSE IF j = q /\ q # p THEN <<>> ELSE F[w[j]],
               ~failedn => /\ ~failed
                           /\ p <= Len(w) /\ (k >= 0 \/ l > 0) /\ entry[w[p]].mandatory => match
                           /\ match => ~BadLength(w[p], B[T])
        PROVE  Merged(w, Bn, i, Sn, U, q, Fn, failedn)
    BY DEF MergeTurn
  <1>1. /\ Len(w) \in Nat /\ DOMAIN w = 1 .. Len(w) /\ \A j \in 1 .. Len(w) : w[j] \in Entries
    BY SortDistinct
  <1>2. Len(B) \in Nat /\ DOMAIN B = 1 .. Len(B) /\ \A n \in 1 .. Len(B) : IsTlv(B[n])
    BY DEF BlockOk, IsSeq
  <1>3. /\ T \in 1 .. Len(B) + 1 /\ p \in 1 .. Len(w) + 1
        /\ \A n \in 1 .. T - 1, j \in 1 .. Len(w) : FirstFit(w, B[n], j) => j <= p
        /\ \A n \in T .. Len(B), j \in 1 .. p - 1 : ~FitsEntry(w[j], B[n])
        /\ \A j \in 1 .. Len(w) : j <= p => Increasing(F[w[j]], Taken(w, B, S, T, j))
        /\ ~failed => \A j \in 1 .. Len(w) :
              /\ j < p /\ entry[w[j]].mandatory => F[w[j]] # <<>>
              /\ j <= p => \A n \in Taken(w, B, S, T, j) : ~BadLength(w[j], B[n])
        /\ \A n \in S : n < T /\ B[n].multi => B[n].single = ValueFor(B[n], i)
    BY DEF Merged
  <1>4. /\ k \in Int /\ l \in Int
        /\ k > 0 => p <= Len(w) /\ \A n \in T .. Len(B) : ~FitsEntry(w[p], B[n])
        /\ k <= 0 /\ p <= Len(w) => T <= Len(B) /\ \A j \in p + 1 .. Len(w) : ~FirstFit(w, B[T], j)
        /\ T <= Len(B) /\ p <= Len(w) => (k = 0 <=> FitsEntry(w[p], B[T]))
        /\ l > 0 => p <= Len(w) /\ \A n \in U .. Len(B) : ~FitsEntry(w[p], B[n])
    BY DEF Compared
  <1>5. \A n \in 1 .. Len(B) :
           /\ \A e : (FitsEntry(e, Bn[n]) <=> FitsEntry(e, B[n])) /\ (BadLength(e, Bn[n]) <=> BadLength(e, B[n]))
           /\ \A j : FirstFit(w, Bn[n], j) <=> FirstFit(w, B[n], j)
           /\ ValueFor(Bn[n], i) = ValueFor(B[n], i)
           /\ Bn[n].multi = B[n].multi
    <2> SUFFICES ASSUME NEW n \in 1 .. Len(B)
                 PROVE  /\ \A e : (FitsEntry(e, Bn[n]) <=> FitsEntry(e, B[n])) /\ (BadLength(e, Bn[n]) <=> BadLength(e, B[n]))
                        /\ \A j : FirstFit(w, Bn[n], j) <=> FirstFit(w, B[n], j)
                        /\ ValueFor(Bn[n], i) = ValueFor(B[n], i)
                        /\ Bn[n].multi = B[n].multi
      OBVIOUS
    <2>1. SameTlv(Bn[n], B[n])
      OBVIOUS
    <2>2. Bn[n].multi = B[n].multi
      BY <2>1 DEF SameTlv
    <2>3. QED
      BY <2>1, <2>2, SameFits
  <1>6. /\ U \in 1 .. Len(B) + 1 /\ (U = T \/ U = T + 1) /\ (U = T + 1 => T \in 1 .. Len(B) /\ k <= 0)
        /\ (U = T => T = Len(B) + 1 \/ k > 0)
        /\ q \in 1 .. Len(w) + 1 /\ (q = p \/ (q = p + 1 /\ l > 0 /\ p \in 1 .. Len(w)))
        /\ T \in Nat /\ p \in Nat
    BY <1>1, <1>2, <1>3, <1>4, SMTT(20)
  \* A match is the first fit.
  <1>7. match => U = T + 1 /\ p \in 1 .. Len(w) /\ T \in Sn /\ FirstFit(w, B[T], p) /\ T \in 1 .. Len(B)
    <2> SUFFICES ASSUME match PROVE U = T + 1 /\ p \in 1 .. Len(w) /\ T \in Sn /\ FirstFit(w, B[T], p) /\ T \in 1 .. Len(B)
      OBVIOUS
    <2>1. T <= Len(B) /\ p <= Len(w) /\ T \in Sn /\ k = 0
      OBVIOUS
    <2>2. T \in T .. Len(B) /\ U = T + 1 /\ p \in 1 .. Len(w) /\ T \in 1 .. Len(B)
      BY <1>1, <1>2, <1>6, <2>1
    <2>3. FirstFit(w, B[T], p)
      BY <1>3, <1>4, <2>1, <2>2 DEF FirstFit
    <2>4. QED
      BY <2>1, <2>2, <2>3
  <1>8. ASSUME NEW n \in 1 .. U - 1, NEW j \in 1 .. Len(w), FirstFit(w, B[n], j) PROVE j <= p
    <2>1. CASE n < T
      <3>1. n \in 1 .. T - 1
        BY <1>6, <2>1
      <3>2. QED
        BY <1>3, <1>8, <3>1
    <2>2. CASE ~(n < T)
      <3>1. n = T /\ U = T + 1 /\ k <= 0
        BY <1>6, <2>2
      <3>2. SUFFICES ASSUME ~(j <= p) PROVE FALSE
        OBVIOUS
      <3>3. j \in p + 1 .. Len(w) /\ p <= Len(w)
        BY <1>1, <1>6, <3>2
      <3>4. ~FirstFit(w, B[T], j)
        BY <1>4, <3>1, <3>3
      <3>5. QED
        BY <1>8, <3>1, <3>4
    <2>3. QED
      BY <2>1, <2>2
  <1>9. ASSUME NEW n \in U .. Len(B), NEW j \in 1 .. q - 1 PROVE ~FitsEntry(w[j], B[n])
    <2>1. n \in T .. Len(B)
      BY <1>2, <1>6
    <2>2. CASE j <= p - 1
      <3>1. j \in 1 .. p - 1
        BY <1>6, <2>2
      <3>2. QED
        BY <1>3, <2>1, <3>1
    <2>3. CASE ~(j <= p - 1)
      <3>1. j = p /\ l > 0
        BY <1>6, <2>3
      <3>2. QED
        BY <1>4, <3>1
    <2>4. QED
      BY <2>2, <2>3
  \* What has been taken.
  <1>10. ASSUME NEW j \in 1 .. Len(w), j <= q
         PROVE  Taken(w, Bn, Sn, U, j) = IF j = p /\ match THEN Taken(w, B, S, T, j) \cup {T}
                                         ELSE IF j = q /\ q # p THEN {} ELSE Taken(w, B, S, T, j)
    <2>1. ASSUME NEW n PROVE n \in Taken(w, Bn, Sn, U, j) <=>
                       n \in Sn /\ n \in 1 .. Len(B) /\ n < U /\ FirstFit(w, B[n], j)
      BY <1>5 DEF Taken
    <2>2. ASSUME NEW n PROVE n \in Taken(w, B, S, T, j) <=>
                       n \in S /\ n \in 1 .. Len(B) /\ n < T /\ FirstFit(w, B[n], j)
      BY DEF Taken
    <2>3. ASSUME NEW n \in 1 .. Len(B), n # T PROVE n < U <=> n < T
      BY <1>6, <2>3
    <2>4. T \in 1 .. Len(B) /\ T < U /\ FirstFit(w, B[T], j) /\ T \in Sn => j = p /\ match
      <3> SUFFICES ASSUME T \in 1 .. Len(B), T < U, FirstFit(w, B[T], j), T \in Sn PROVE j = p /\ match
        OBVIOUS
      <3>1. U = T + 1 /\ k <= 0 /\ T \in 1 .. U - 1
        BY <1>6
      <3>2. j <= p
        BY <1>8, <3>1
      <3>3. ~(j \in 1 .. p - 1)
        <4>1. T \in T .. Len(B) /\ FitsEntry(w[j], B[T])
          BY DEF FirstFit
        <4>2. QED
          BY <1>3, <4>1
      <3>4. j = p /\ p <= Len(w)
        BY <1>6, <3>2, <3>3
      <3>5. FitsEntry(w[p], B[T])
        BY <3>4 DEF FirstFit
      <3>6. k = 0
        BY <1>4, <3>4, <3>5
      <3>7. QED
        BY <3>4, <3>6
    <2>5. CASE j = p /\ match
      <3>1. \A n : n \in Taken(w, Bn, Sn, U, j) <=> n \in Taken(w, B, S, T, j) \/ n = T
        <4> SUFFICES ASSUME NEW n PROVE n \in Taken(w, Bn, Sn, U, j) <=> n \in Taken(w, B, S, T, j) \/ n = T
          OBVIOUS
        <4>1. CASE n = T
          <5>1. T \in Sn /\ FirstFit(w, B[T], j) /\ T \in 1 .. Len(B)
            BY <1>7, <2>5
          <5>2. T < U
            BY <1>6, <1>7, <2>5
          <5>3. QED
            BY <2>1, <4>1, <5>1, <5>2
        <4>2. CASE n # T
          BY <2>1, <2>2, <2>3, <4>2
        <4>3. QED
          BY <4>1, <4>2
      <3>2. QED
        BY <2>5, <3>1
    <2>6. CASE ~(j = p /\ match)
      <3>1. T \notin Taken(w, Bn, Sn, U, j) /\ T \notin Taken(w, B, S, T, j)
        BY <1>6, <2>1, <2>2, <2>4, <2>6
      <3>2. \A n : n \in Taken(w, Bn, Sn, U, j) <=> n \in Taken(w, B, S, T, j)
        <4> SUFFICES ASSUME NEW n PROVE n \in Taken(w, Bn, Sn, U, j) <=> n \in Taken(w, B, S, T, j)
          OBVIOUS
        <4>1. CASE n = T
          BY <3>1, <4>1
        <4>2. CASE n # T
          BY <2>1, <2>2, <2>3, <4>2
        <4>3. QED
          BY <4>1, <4>2
      <3>3. Taken(w, Bn, Sn, U, j) = Taken(w, B, S, T, j)
        BY <3>2
      <3>4. CASE j = q /\ q # p
        <4>1. ~(j <= p)
          BY <1>6, <3>4
        <4>2. \A n : n \notin Taken(w, B, S, T, j)
          <5> SUFFICES ASSUME NEW n, n \in Taken(w, B, S, T, j) PROVE FALSE
            OBVIOUS
          <5>1. n \in 1 .. Len(B) /\ n < T /\ FirstFit(w, B[n], j)
            BY <2>2
          <5>2. n \in 1 .. T - 1
            BY <1>6, <5>1
          <5>3. QED
            BY <1>3, <4>1, <5>1, <5>2
        <4>3. QED
          BY <2>6, <3>3, <3>4, <4>2
      <3>5. CASE ~(j = q /\ q # p)
        BY <2>6, <3>3, <3>5
      <3>6. QED
        BY <3>4, <3>5
    <2>7. QED
      BY <2>5, <2>6
  <1>11. ASSUME NEW j \in 1 .. Len(w), j <= q PROVE Increasing(Fn[w[j]], Taken(w, Bn, Sn, U, j))
    <2>1. CASE j = p /\ match
      <3> PICK R, s : R = Taken(w, B, S, T, j) /\ s = F[w[j]]
        OBVIOUS
      <3>1. Increasing(s, R)
        BY <1>3, <1>6, <2>1
      <3>2. R \in SUBSET Nat /\ \A n \in R : n < T
        <4>1. R \subseteq S /\ \A n \in R : n < T
          BY DEF Taken
        <4>2. S \subseteq 1 .. Len(B) /\ Len(B) \in Nat
          BY <1>2
        <4>3. QED
          BY ONLY <4>1, <4>2
      <3>3. Increasing(Append(s, T), R \cup {T})
        BY <1>6, <3>1, <3>2, IncreasingGrows
      <3>4. QED
        BY <1>10, <1>11, <2>1, <3>3
    <2>2. CASE ~(j = p /\ match) /\ j = q /\ q # p
      <3>1. Increasing(<<>>, {})
        BY DEF Increasing, ToSet
      <3>2. QED
        BY <1>10, <1>11, <2>2, <3>1
    <2>3. CASE ~(j = p /\ match) /\ ~(j = q /\ q # p)
      <3>1. j <= p
        BY <1>6, <1>11, <2>3
      <3>2. QED
        BY <1>3, <1>10, <1>11, <2>3, <3>1
    <2>4. QED
      BY <2>1, <2>2, <2>3
  <1>12. ASSUME ~failedn, NEW j \in 1 .. Len(w)
         PROVE  /\ j < q /\ entry[w[j]].mandatory => Fn[w[j]] # <<>>
                /\ j <= q => \A n \in Taken(w, Bn, Sn, U, j) : ~BadLength(w[j], Bn[n])
    <2>1. /\ ~failed
          /\ p <= Len(w) /\ (k >= 0 \/ l > 0) /\ entry[w[p]].mandatory => match
          /\ match => ~BadLength(w[p], B[T])
      BY <1>12
    <2>2. ASSUME j < q, entry[w[j]].mandatory PROVE Fn[w[j]] # <<>>
      <3>1. j <= q /\ j # q /\ j <= p
        BY <1>6, <2>2
      <3>2. CASE j = p
        <4>1. match
          BY <1>6, <2>1, <2>2, <3>2
        <4>2. Fn[w[j]] = Append(F[w[j]], T)
          BY <3>1, <3>2, <4>1
        <4> PICK R, s : R = Taken(w, B, S, T, j) /\ s = F[w[j]]
          OBVIOUS
        <4>3. Increasing(s, R)
          BY <1>3, <3>1
        <4>4. R \in SUBSET Nat /\ \A n \in R : n < T
          <5>1. R \subseteq S /\ \A n \in R : n < T
            BY DEF Taken
          <5>2. S \subseteq 1 .. Len(B) /\ Len(B) \in Nat
            BY <1>2
          <5>3. QED
            BY ONLY <5>1, <5>2
        <4>7. T \in Nat
          BY <1>6
        <4>5. Append(s, T) # <<>>
          BY ONLY <4>3, <4>4, <4>7, IncreasingGrows
        <4>6. QED
          BY <4>2, <4>5
      <3>3. CASE j # p
        <4>1. Fn[w[j]] = F[w[j]] /\ j < p
          BY <1>6, <3>1, <3>3
        <4>2. QED
          BY <1>3, <2>1, <2>2, <4>1
      <3>4. QED
        BY <3>2, <3>3
    <2>3. ASSUME j <= q, NEW n \in Taken(w, Bn, Sn, U, j) PROVE ~BadLength(w[j], Bn[n])
      <3>1. n \in 1 .. Len(B)
        BY DEF Taken
      <3>2. BadLength(w[j], Bn[n]) <=> BadLength(w[j], B[n])
        BY <1>5, <3>1
      <3>3. CASE j = p /\ match /\ n = T
        BY <2>1, <3>2, <3>3
      <3>4. CASE ~(j = p /\ match /\ n = T)
        <4>0. PICK R, V : R = Taken(w, Bn, Sn, U, j) /\ V = Taken(w, B, S, T, j)
          OBVIOUS
        <4>3. /\ j = p /\ match => R = V \cup {T}
              /\ ~(j = p /\ match) /\ (j = q /\ q # p) => R = {}
              /\ ~(j = p /\ match) /\ ~(j = q /\ q # p) => R = V
          BY <1>10, <2>3, <4>0
        <4>4. n \in R
          BY <4>0
        <4>1. n \in V /\ (j # q \/ q = p \/ (j = p /\ match))
          BY <3>4, <4>3, <4>4
        <4>2. j <= p /\ n \in Taken(w, B, S, T, j)
          BY <1>6, <2>3, <4>0, <4>1
        <4>5. QED
          BY <1>3, <2>1, <3>2, <4>1, <4>2
      <3>5. QED
        BY <3>3, <3>4
    <2>4. QED
      BY <2>2, <2>3
  <1>13. ASSUME NEW n \in Sn, n < U, Bn[n].multi PROVE Bn[n].single = ValueFor(Bn[n], i)
    <2>1. n \in 1 .. Len(B)
      OBVIOUS
    <2>2. Bn[n].multi = B[n].multi /\ ValueFor(Bn[n], i) = ValueFor(B[n], i)
      BY <1>5, <2>1
    <2>3. CASE n = T
      BY <1>13, <2>2, <2>3
    <2>4. CASE n # T
      <3>1. n < T /\ n \in S /\ Bn[n] = B[n]
        BY <1>6, <1>13, <2>1, <2>4
      <3>2. QED
        BY <1>3, <1>13, <3>1
    <2>5. QED
      BY <2>3, <2>4
  <1>14. \A n \in 1 .. U - 1, j \in 1 .. Len(w) : FirstFit(w, Bn[n], j) => j <= q
    <2> SUFFICES ASSUME NEW n \in 1 .. U - 1, NEW j \in 1 .. Len(w), FirstFit(w, Bn[n], j) PROVE j <= q
      OBVIOUS
    <2>1. n \in 1 .. Len(B)
      BY <1>2, <1>6
    <2>2. FirstFit(w, B[n], j)
      BY <1>5, <2>1
    <2>3. j <= p
      BY <1>8, <2>2
    <2>4. QED
      BY <1>6, <2>3
  <1>15. \A n \in U .. Len(Bn), j \in 1 .. q - 1 : ~FitsEntry(w[j], Bn[n])
    <2> SUFFICES ASSUME NEW n \in U .. Len(B), NEW j \in 1 .. q - 1 PROVE ~FitsEntry(w[j], Bn[n])
      OBVIOUS
    <2>1. n \in 1 .. Len(B)
      BY <1>2, <1>6
    <2>2. QED
      BY <1>5, <1>9, <2>1
  <1>16. QED
    BY <1>6, <1>11, <1>12, <1>13, <1>14, <1>15 DEF Merged
-----------------------------------------------------------------------------
\* The blocks under way are those of the packet and of the message, in order.
BlocksOk ==
    /\ rd.buf \in Seq(0 .. 255)
    /\ tlvs = [b \in DOMAIN tlvs |-> tlvs[b]] /\ 0 \in DOMAIN tlvs
    /\ \A b \in DOMAIN tlvs : BlockOk(tlvs[b])
    /\ InMessage => IsSeq(msg.blocks) /\ DOMAIN tlvs = 0 .. Len(msg.blocks) + 1
    /\ rd.phase = "tlvs" => sched.b \in DOMAIN tlvs
    /\ found = [e \in Entries |-> found[e]]

\* The TLVs of block B, which is number b, for address i, without those in gone.
ForAddress(B, b, i, gone) ==
    {n \in DOMAIN B : B[n].index1 <= i /\ i <= B[n].index2 /\ <<b, n, i>> \notin gone}

\* The consumer's entries and the block are merged up to where they are compared.
MergedTo(x, b, i, t, e, failed, w, p) ==
    /\ IsSort(EntriesOf(x), Len(EntriesOf(x)), w) /\ Chain(lists, x, w)
    /\ t \in 0 .. Len(tlvs[b])
    /\ e = (IF p <= Len(w) THEN w[p] ELSE NULL)
    /\ Merged(w, tlvs[b], i, ForAddress(tlvs[b], b, i, dropped.tlv),
              IF t = 0 THEN Len(tlvs[b]) + 1 ELSE t, p, found, failed)
Merging ==
    rd.phase = "tlvs" =>
       /\ Was(sched.c) /\ sched.failed \in BOOLEAN
       /\ \E w, p : MergedTo(sched.c, sched.b, sched.i, sched.t, sched.e, sched.failed, w, p)

SInv == ListsOk /\ BlocksOk /\ Merging

\* What a consumer was registered with changes with registrations only.
LEMMA SameEntries ==
    ASSUME NEW x, done' = done
    PROVE  EntriesOf(x)' = EntriesOf(x) /\ (Was(x)' <=> Was(x))
  BY DEF EntriesOf, Was

LEMMA SameLists == ASSUME ListsOk, lists' = lists, done' = done PROVE ListsOk'
  <1>1. ASSUME NEW x, Was(x)'
        PROVE  \E w : IsSort(EntriesOf(x)', Len(EntriesOf(x)'), w) /\ Chain(lists', x, w)
    <2>1. EntriesOf(x)' = EntriesOf(x) /\ Was(x)
      BY <1>1, SameEntries
    <2>2. \E w : IsSort(EntriesOf(x), Len(EntriesOf(x)), w) /\ Chain(lists, x, w)
      BY <2>1 DEF ListsOk
    <2>3. QED
      BY <2>1, <2>2
  <1>2. QED
    BY <1>1 DEF ListsOk

\* Steps that show nothing and read nothing new.
LEMMA QuietShows ==
    ASSUME SInv, lists' = lists, done' = done, tlvs' = tlvs, msg' = msg, rd'.buf = rd.buf,
           found' = found, InMessage' => InMessage, rd'.phase # "tlvs"
    PROVE  SInv'
  <1>1. ListsOk'
    BY SameLists DEF SInv
  <1>2. BlocksOk'
    BY DEF SInv, BlocksOk
  <1>3. Merging'
    BY DEF Merging
  <1>4. QED
    BY <1>1, <1>2, <1>3 DEF SInv

\* The first entry of a consumer, as it was registered.
LEMMA FirstIs ==
    ASSUME ListsOk, NEW x \in Consumers, NEW es, Distinct(es), NEW w, IsSort(es, Len(es), w),
           Chain(lists, x, w)
    PROVE  FirstEntry(x) = IF 1 <= Len(w) THEN w[1] ELSE NULL
  <1>1. Len(w) \in Nat /\ \A k \in 1 .. Len(w) : w[k] \in Entries
    BY SortDistinct
  <1>2. CASE w = <<>>
    <2>1. Len(w) = 0 /\ lists.next[x] = x /\ lists.prev[x] = x
      BY <1>2 DEF Chain
    <2>2. QED
      BY <2>1 DEF FirstEntry, oonf_list_is_empty
  <1>3. CASE w # <<>>
    <2>1. Len(w) >= 1
      BY <1>1, <1>3, EmptySeq DEF IsSort
    <2>2. lists.next[x] = w[1] /\ w[1] \in Entries
      BY <1>1, <1>3, <2>1 DEF Chain
    <2>3. w[1] # x
      BY <2>2, EntitiesAre
    <2>4. QED
      BY <2>1, <2>2, <2>3 DEF FirstEntry, oonf_list_is_empty, oonf_list_first_element
  <1>4. QED
    BY <1>2, <1>3

\* A block begins to be shown.
LEMMA ScheduleMerges ==
    ASSUME SInv, NEW x, Was(x), NEW b \in DOMAIN tlvs, NEW i, Schedule(x, b, i),
           tlvs' = tlvs, lists' = lists, done' = done, msg' = msg, rd'.buf = rd.buf,
           InMessage' => InMessage
    PROVE  SInv'
  <1>1. ListsOk' /\ ListsOk
    BY SameLists DEF SInv
  <1>2. /\ sched'.c = x /\ sched'.b = b /\ sched'.i = i /\ sched'.failed = FALSE
        /\ sched'.t = (IF tlvs[b] = <<>> THEN 0 ELSE 1) /\ sched'.e = FirstEntry(x)
        /\ found' = IF FirstEntry(x) = NULL THEN found ELSE [found EXCEPT ![FirstEntry(x)] = <<>>]
    BY DEF Schedule
  <1>3. BlocksOk'
    <2>1. found' = [e \in Entries |-> found'[e]]
      BY <1>2 DEF SInv, BlocksOk
    <2>2. QED
      BY <1>2, <2>1 DEF SInv, BlocksOk
  <1>4. PICK es : es = EntriesOf(x) /\ Distinct(es) /\ x \in Consumers
    BY <1>1, EntriesAre DEF ListsOk
  <1>5. PICK w : IsSort(es, Len(es), w) /\ Chain(lists, x, w)
    BY <1>1, <1>4 DEF ListsOk
  <1>6. Len(w) \in Nat /\ \A k \in 1 .. Len(w) : w[k] \in Entries
    BY <1>4, <1>5, SortDistinct
  <1>7. FirstEntry(x) = IF 1 <= Len(w) THEN w[1] ELSE NULL
    BY <1>1, <1>4, <1>5, FirstIs
  <1> PICK B, F, gone : B = tlvs[b] /\ F = found' /\ gone = dropped'.tlv
    OBVIOUS
  <1>8. BlockOk(B) /\ Len(B) \in Nat /\ DOMAIN B = 1 .. Len(B) /\ IsSeq(B)
    BY DEF SInv, BlocksOk, BlockOk, IsSeq
  <1>9. PICK t, T : /\ t = (IF B = <<>> THEN 0 ELSE 1) /\ T = (IF t = 0 THEN Len(B) + 1 ELSE t)
    OBVIOUS
  <1>10. t \in 0 .. Len(B) /\ T = 1
    <2>1. CASE B = <<>>
      <3>1. t = 0 /\ Len(B) = 0
        BY <1>9, <2>1
      <3>2. QED
        BY <1>9, <3>1
    <2>2. CASE B # <<>>
      <3>1. Len(B) # 0
        BY <1>8, <2>2, EmptySeq DEF IsSeq
      <3>2. QED
        BY <1>8, <1>9, <2>2, <3>1
    <2>3. QED
      BY <2>1, <2>2
  <1> PICK S : S = ForAddress(B, b, i, gone)
    OBVIOUS
  <1>11. S \subseteq 1 .. Len(B)
    BY <1>8 DEF ForAddress
  <1>12. Merged(w, B, i, S, 1, 1, F, FALSE)
    <2>1. 1 \in 1 .. Len(B) + 1 /\ 1 \in 1 .. Len(w) + 1
      BY <1>6, <1>8
    <2>2. 1 .. 1 - 1 = {} /\ \A n \in S : ~(n < 1)
      BY <1>11
    <2>3. \A j : Taken(w, B, S, 1, j) = {}
      BY <2>2 DEF Taken
    <2>4. ASSUME NEW j \in 1 .. Len(w), j <= 1 PROVE Increasing(F[w[j]], {})
      <3>1. j = 1 /\ 1 <= Len(w) /\ w[1] \in Entries
        BY <1>6, <2>4
      <3>2. w[1] # NULL
        BY <3>1, EntriesAssumption
      <3>3. F = [found EXCEPT ![w[1]] = <<>>] /\ found = [e \in Entries |-> found[e]]
        BY <1>2, <1>7, <3>1, <3>2 DEF SInv, BlocksOk
      <3>4. F[w[1]] = <<>>
        BY <3>1, <3>3
      <3>5. QED
        BY <3>1, <3>4 DEF Increasing, ToSet
    <2>5. \A j \in 1 .. Len(w) : ~(j < 1)
      BY <1>6
    <2>6. QED
      BY <2>1, <2>2, <2>3, <2>4, <2>5 DEF Merged
  <1>13. /\ Was(x)' /\ EntriesOf(x)' = es
    BY <1>4, SameEntries
  <1>14. MergedTo(x, b, i, t, FirstEntry(x), FALSE, w, 1)'
    <2>1. t \in 0 .. Len(B) /\ FirstEntry(x) = (IF 1 <= Len(w) THEN w[1] ELSE NULL)
          /\ Merged(w, B, i, S, IF t = 0 THEN Len(B) + 1 ELSE t, 1, F, FALSE)
      BY <1>7, <1>9, <1>10, <1>12
    <2>2. FirstEntry(x)' = FirstEntry(x)
      BY DEF FirstEntry
    <2>3. tlvs'[b] = B /\ found' = F /\ dropped'.tlv = gone
      OBVIOUS
    <2>4. IsSort(EntriesOf(x)', Len(EntriesOf(x)'), w) /\ Chain(lists', x, w)
      BY <1>5, <1>13
    <2>5. QED
      BY <2>1, <2>2, <2>3, <2>4 DEF MergedTo
  <1>15. Merging'
    <2>1. sched'.e = FirstEntry(x)' /\ sched'.t = t
      BY <1>2, <1>9 DEF FirstEntry
    <2>2. MergedTo(sched.c, sched.b, sched.i, sched.t, sched.e, sched.failed, w, 1)'
      BY <1>2, <1>14, <2>1
    <2>3. QED
      BY <1>2, <1>13, <2>2 DEF Merging
  <1>16. QED
    BY <1>1, <1>3, <1>15 DEF SInv

\* _compare_tlvtypes, also behind the last TLV and the last entry.
LEMMA ComparedAny ==
    ASSUME NEW es, Distinct(es), NEW w, IsSort(es, Len(es), w), NEW B, BlockOk(B), B = tlvs[sched.b],
           NEW t \in 0 .. Len(B), NEW T, T = (IF t = 0 THEN Len(B) + 1 ELSE t),
           NEW p \in 1 .. Len(w) + 1, NEW e, e = (IF p <= Len(w) THEN w[p] ELSE NULL)
    PROVE  Compared(w, B, T, p, compare_tlvtypes(t, e))
  <1>1. Len(w) \in Nat /\ \A k \in 1 .. Len(w) : w[k] \in Entries
    BY SortDistinct
  <1>2. Len(B) \in Nat
    BY DEF BlockOk, IsSeq
  <1>3. CASE p = Len(w) + 1
    <2>1. e = NULL /\ ~(p <= Len(w))
      BY <1>1, <1>3
    <2>2. compare_tlvtypes(t, e) \in {0, -1}
      BY <2>1 DEF compare_tlvtypes
    <2>3. QED
      BY <2>1, <2>2 DEF Compared
  <1>4. CASE p # Len(w) + 1
    <2>1. p \in 1 .. Len(w) /\ p <= Len(w) /\ e = w[p] /\ e \in Entries /\ e # NULL
      BY <1>1, <1>4, EntriesAssumption
    <2>2. CASE t = 0
      <3>1. compare_tlvtypes(t, e) = 1
        BY <2>1, <2>2 DEF compare_tlvtypes
      <3>2. T = Len(B) + 1 /\ T .. Len(B) = {} /\ ~(T <= Len(B))
        BY <1>2, <2>2
      <3>3. QED
        BY <2>1, <3>1, <3>2 DEF Compared
    <2>3. CASE t # 0
      <3>1. t \in 1 .. Len(B) /\ T = t
        BY <1>2, <2>3
      <3>2. compare_tlvtypes(t, e) = IF entry[e].match_type_ext THEN intorder(B[t]) - EntryKey(e)
                                     ELSE B[t].type - entry[e].type
        BY <2>1, <2>3 DEF compare_tlvtypes
      <3>3. Compared(w, B, t, p, IF entry[w[p]].match_type_ext THEN intorder(B[t]) - EntryKey(w[p])
                                 ELSE B[t].type - entry[w[p]].type)
        BY <2>1, <3>1, ComparedTlv
      <3>4. QED
        BY <2>1, <3>1, <3>2, <3>3
    <2>4. QED
      BY <2>2, <2>3
  <1>5. QED
    BY <1>3, <1>4

\* A turn of the loop shows the value of the address, and changes the TLVs in no
\* other way.
LEMMA ValueShown ==
    ASSUME BlocksOk, rd.phase = "tlvs", sched.t \in 0 .. Len(tlvs[sched.b]),
           tlvs' = IF IndexMatch /\ tlvs[sched.b][sched.t].multi
                   THEN [tlvs EXCEPT ![sched.b][sched.t].single =
                                        ValueFor(tlvs[sched.b][sched.t], sched.i)]
                   ELSE tlvs
    PROVE  /\ DOMAIN tlvs' = DOMAIN tlvs /\ tlvs' = [b \in DOMAIN tlvs' |-> tlvs'[b]]
           /\ \A b \in DOMAIN tlvs : BlockOk(tlvs'[b])
           /\ IsSeq(tlvs'[sched.b]) /\ Len(tlvs'[sched.b]) = Len(tlvs[sched.b])
           /\ DOMAIN tlvs'[sched.b] = DOMAIN tlvs[sched.b]
           /\ \A n \in 1 .. Len(tlvs[sched.b]) :
                 /\ SameTlv(tlvs'[sched.b][n], tlvs[sched.b][n])
                 /\ n # sched.t => tlvs'[sched.b][n] = tlvs[sched.b][n]
           /\ IndexMatch /\ tlvs[sched.b][sched.t].multi =>
                 tlvs'[sched.b][sched.t].single = ValueFor(tlvs[sched.b][sched.t], sched.i)
  <1> PICK b, t, B, v, y : /\ b = sched.b /\ t = sched.t /\ B = tlvs[b] /\ v = B[t]
                           /\ y = ValueFor(v, sched.i)
    OBVIOUS
  <1>1. /\ b \in DOMAIN tlvs /\ BlockOk(B) /\ Len(B) \in Nat /\ DOMAIN B = 1 .. Len(B) /\ IsSeq(B)
        /\ tlvs = [a \in DOMAIN tlvs |-> tlvs[a]]
    BY DEF BlocksOk, BlockOk, IsSeq
  <1>2. CASE ~(IndexMatch /\ v.multi)
    <2>1. tlvs' = tlvs
      BY <1>2
    <2>2. \A n \in 1 .. Len(B) : SameTlv(B[n], B[n])
      BY DEF SameTlv
    <2>3. QED
      BY <1>1, <1>2, <2>1, <2>2 DEF BlocksOk
  <1>3. CASE IndexMatch /\ v.multi
    <2> PICK u, C : u = [v EXCEPT !.single = y] /\ C = [B EXCEPT ![t] = u]
      OBVIOUS
    <2>1. tlvs' = [tlvs EXCEPT ![b] = C]
      BY <1>3
    <2>2. t \in 1 .. Len(B)
      BY <1>1, <1>3 DEF IndexMatch
    <2>3. IsTlv(v)
      BY <1>1, <2>2 DEF BlockOk
    <2>4. /\ u.type = v.type /\ u.ext = v.ext /\ u.index1 = v.index1 /\ u.index2 = v.index2
          /\ u.multi = v.multi /\ u.values = v.values /\ u.length = v.length /\ u.single = y
          /\ u = [type |-> u.type, ext |-> u.ext, index1 |-> u.index1, index2 |-> u.index2,
                  multi |-> u.multi, values |-> u.values, length |-> u.length,
                  single |-> u.single]
      BY <2>3 DEF IsTlv
    <2>5. IsTlv(u) /\ SameTlv(u, v) /\ intorder(u) = intorder(v)
      BY <1>3, <2>3, <2>4 DEF IsTlv, SameTlv, intorder
    <2>6. PICK Z : B \in Seq(Z)
      BY <1>1 DEF IsSeq
    <2>7. C \in Seq(Z \cup {u}) /\ Len(C) = Len(B) /\ C[t] = u
          /\ \A n \in 1 .. Len(B) : n # t => C[n] = B[n]
      <3>1. B \in [1 .. Len(B) -> Z \cup {u}]
        BY <1>1, <2>6
      <3>2. C \in [1 .. Len(B) -> Z \cup {u}]
        BY <2>2, <3>1
      <3>3. QED
        BY <1>1, <2>2, <3>1, <3>2, SMTT(20)
    <2>8. IsSeq(C) /\ DOMAIN C = DOMAIN B
      BY <1>1, <2>7 DEF IsSeq
    <2>9. \A n \in 1 .. Len(B) : SameTlv(C[n], B[n]) /\ IsTlv(C[n]) /\ intorder(C[n]) = intorder(B[n])
      <3> SUFFICES ASSUME NEW n \in 1 .. Len(B)
                   PROVE  SameTlv(C[n], B[n]) /\ IsTlv(C[n]) /\ intorder(C[n]) = intorder(B[n])
        OBVIOUS
      <3>1. CASE n = t
        BY <2>5, <2>7, <3>1
      <3>2. CASE n # t
        <4>1. C[n] = B[n] /\ IsTlv(B[n])
          BY <1>1, <2>7, <3>2 DEF BlockOk
        <4>2. QED
          BY <4>1 DEF SameTlv
      <3>3. QED
        BY <3>1, <3>2
    <2>10. BlockOk(C)
      <3>1. \A j, k \in 1 .. Len(B) : j < k => intorder(B[j]) <= intorder(B[k])
        BY <1>1 DEF BlockOk
      <3>2. \A j, k \in DOMAIN C : j < k => intorder(C[j]) <= intorder(C[k])
        <4>1. DOMAIN C = 1 .. Len(B) /\ \A n \in 1 .. Len(B) : intorder(C[n]) = intorder(B[n])
          BY <1>1, <2>8, <2>9
        <4>2. QED
          BY ONLY <3>1, <4>1
      <3>3. \A k \in DOMAIN C : IsTlv(C[k])
        BY <1>1, <2>8, <2>9
      <3>4. QED
        BY <2>8, <3>2, <3>3 DEF BlockOk
    <2>11. /\ DOMAIN tlvs' = DOMAIN tlvs /\ tlvs'[b] = C
           /\ tlvs' = [a \in DOMAIN tlvs' |-> tlvs'[a]]
           /\ \A a \in DOMAIN tlvs : a # b => tlvs'[a] = tlvs[a]
      <3>1. tlvs' = [tlvs EXCEPT ![b] = C]
        BY <2>1
      <3>2. b \in DOMAIN tlvs /\ tlvs = [a \in DOMAIN tlvs |-> tlvs[a]]
        BY <1>1
      <3>3. QED
        BY ONLY <3>1, <3>2
    <2>12. \A a \in DOMAIN tlvs : BlockOk(tlvs'[a])
      BY <2>10, <2>11 DEF BlocksOk
    <2>13. \A n \in 1 .. Len(B) : n # t => C[n] = B[n]
      BY <2>7
    <2>14. C[t].single = y
      BY <2>4, <2>7
    <2>15. /\ IsSeq(tlvs'[b]) /\ Len(tlvs'[b]) = Len(B) /\ DOMAIN tlvs'[b] = DOMAIN B
           /\ \A n \in 1 .. Len(B) : /\ SameTlv(tlvs'[b][n], B[n])
                                     /\ n # t => tlvs'[b][n] = B[n]
           /\ tlvs'[b][t].single = y
      <3>1. tlvs'[b] = C
        BY <2>11
      <3>2. /\ IsSeq(C) /\ Len(C) = Len(B) /\ DOMAIN C = DOMAIN B
            /\ \A n \in 1 .. Len(B) : /\ SameTlv(C[n], B[n])
                                      /\ n # t => C[n] = B[n]
            /\ C[t].single = y
        BY ONLY <2>7, <2>8, <2>9, <2>13, <2>14
      <3>3. QED
        BY ONLY <3>1, <3>2
    <2>16. b = sched.b /\ t = sched.t /\ B = tlvs[sched.b] /\ y = ValueFor(B[t], sched.i)
      OBVIOUS
    <2>17. QED
      BY ONLY <2>11, <2>12, <2>15, <2>16
  <1>4. QED
    BY <1>2, <1>3

\* What follows an entry of a consumer in its ring.
LEMMA NextIs ==
    ASSUME NEW x, NEW es, Distinct(es), NEW w, IsSort(es, Len(es), w), Chain(lists, x, w),
           NEW p \in 1 .. Len(w)
    PROVE  (IF oonf_list_is_last(lists, x, w[p]) THEN NULL ELSE oonf_list_next_element(lists, w[p]))
             = IF p + 1 <= Len(w) THEN w[p + 1] ELSE NULL
  <1>1. Len(w) \in Nat /\ DOMAIN w = 1 .. Len(w) /\ \A j, k \in DOMAIN w : w[j] = w[k] => j = k
    BY SortDistinct
  <1>2. w # <<>> /\ Len(w) \in 1 .. Len(w)
    BY <1>1
  <1>3. lists.prev[x] = w[Len(w)]
    BY <1>2 DEF Chain
  <1>4. oonf_list_is_last(lists, x, w[p]) <=> p = Len(w)
    BY <1>1, <1>2, <1>3 DEF oonf_list_is_last
  <1>5. p # Len(w) => lists.next[w[p]] = w[p + 1]
    <2>0. Len(w) \in Nat /\ p \in 1 .. Len(w)
      BY <1>1
    <2>1. p # Len(w) => p \in 1 .. Len(w) - 1
      BY ONLY <2>0
    <2>2. QED
      BY <2>1 DEF Chain
  <1>6. CASE p = Len(w)
    <2>0. Len(w) \in Nat /\ p \in 1 .. Len(w)
      BY <1>1
    <2>1. oonf_list_is_last(lists, x, w[p]) /\ ~(p + 1 <= Len(w))
      <3>1. ~(p + 1 <= Len(w))
        BY ONLY <1>6, <2>0
      <3>2. QED
        BY ONLY <1>4, <1>6, <3>1
    <2>2. QED
      BY ONLY <2>1
  <1>7. CASE p # Len(w)
    <2>0. Len(w) \in Nat /\ p \in 1 .. Len(w)
      BY <1>1
    <2>1. ~oonf_list_is_last(lists, x, w[p]) /\ p + 1 <= Len(w)
      <3>1. p + 1 <= Len(w)
        BY ONLY <1>7, <2>0
      <3>2. QED
        BY ONLY <1>4, <1>7, <3>1
    <2>2. oonf_list_next_element(lists, w[p]) = w[p + 1]
      BY <1>5, <1>7 DEF oonf_list_next_element
    <2>3. QED
      BY ONLY <2>1, <2>2
  <1>8. QED
    BY <1>6, <1>7

\* The rest of the turn compares on: the merge stays one.
LEMMA AdvanceMerges ==
    ASSUME SInv, Records, rd.phase = "tlvs", rd'.phase = "tlvs",
           NEW match \in BOOLEAN, NEW gone \in BOOLEAN, Advance(match),
           match <=> /\ IndexMatch /\ sched.e # NULL /\ ~gone
                     /\ compare_tlvtypes(sched.t, sched.e) = 0,
           gone => IndexMatch,
           dropped'.tlv = dropped.tlv \cup (IF gone THEN {<<sched.b, sched.t, sched.i>>} ELSE {}),
           tlvs' = IF IndexMatch /\ tlvs[sched.b][sched.t].multi
                   THEN [tlvs EXCEPT ![sched.b][sched.t].single =
                                        ValueFor(tlvs[sched.b][sched.t], sched.i)]
                   ELSE tlvs,
           lists' = lists, done' = done, msg' = msg, rd'.buf = rd.buf
    PROVE  SInv'
  <1> PICK x, b, i, t, e, B, Bn, failed, here :
           /\ x = sched.c /\ b = sched.b /\ i = sched.i /\ t = sched.t /\ e = sched.e
           /\ B = tlvs[b] /\ Bn = tlvs'[b] /\ failed = sched.failed /\ here = IndexMatch
    OBVIOUS
  <1>1. /\ ListsOk /\ ListsOk' /\ BlocksOk /\ Was(x) /\ failed \in BOOLEAN
    BY SameLists DEF SInv, Merging
  <1>2. PICK w, p : MergedTo(x, b, i, t, e, failed, w, p)
    BY DEF SInv, Merging
  <1>3. PICK es : es = EntriesOf(x) /\ Distinct(es) /\ x \in Consumers
    BY <1>1, EntriesAre DEF ListsOk
  <1> PICK T, S, Sn, F, Fn : /\ T = (IF t = 0 THEN Len(B) + 1 ELSE t) /\ F = found /\ Fn = found'
                             /\ S = ForAddress(B, b, i, dropped.tlv)
                             /\ Sn = ForAddress(Bn, b, i, dropped'.tlv)
    OBVIOUS
  <1>4. /\ IsSort(es, Len(es), w) /\ Chain(lists, x, w) /\ t \in 0 .. Len(B)
        /\ e = (IF p <= Len(w) THEN w[p] ELSE NULL)
        /\ Merged(w, B, i, S, T, p, F, failed)
    BY <1>2, <1>3 DEF MergedTo
  <1>5. /\ BlockOk(B) /\ Len(B) \in Nat /\ DOMAIN B = 1 .. Len(B)
        /\ Len(w) \in Nat /\ \A j \in 1 .. Len(w) : w[j] \in Entries /\ w[j] # NULL
        /\ \A j, m \in 1 .. Len(w) : w[j] = w[m] => j = m
        /\ p \in 1 .. Len(w) + 1 /\ F = [y \in Entries |-> F[y]]
    <2>1. BlockOk(B)
      BY <1>1 DEF BlocksOk, Merging, SInv
    <2>2. Len(B) \in Nat /\ DOMAIN B = 1 .. Len(B)
      BY <2>1 DEF BlockOk, IsSeq
    <2>3. /\ Len(w) \in Nat /\ DOMAIN w = 1 .. Len(w) /\ \A j \in 1 .. Len(w) : w[j] \in Entries
          /\ \A j, m \in DOMAIN w : w[j] = w[m] => j = m
      BY <1>3, <1>4, SortDistinct
    <2>4. NULL \notin Entries
      BY EntriesAssumption
    <2>5. p \in 1 .. Len(w) + 1
      BY <1>4 DEF Merged
    <2>6. F = [y \in Entries |-> F[y]]
      BY <1>1 DEF BlocksOk
    <2>7. QED
      BY ONLY <2>1, <2>2, <2>3, <2>4, <2>5, <2>6
  <1>a. /\ Len(B) \in Nat /\ Len(w) \in Nat /\ p \in 1 .. Len(w) + 1 /\ t \in 0 .. Len(B)
        /\ T = (IF t = 0 THEN Len(B) + 1 ELSE t) /\ e = (IF p <= Len(w) THEN w[p] ELSE NULL)
        /\ \A j \in 1 .. Len(w) : w[j] \in Entries /\ w[j] # NULL
    BY <1>4, <1>5
  <1> PICK k : k = compare_tlvtypes(t, e)
    OBVIOUS
  <1> PICK t1 : t1 = (IF t = 0 \/ k > 0 THEN t ELSE IF t = Len(B) THEN 0 ELSE t + 1)
    OBVIOUS
  <1> PICK l : l = compare_tlvtypes(t1, e)
    OBVIOUS
  <1> PICK e1 : e1 = (IF ~(l > 0) THEN e ELSE IF oonf_list_is_last(lists, x, e) THEN NULL
                      ELSE oonf_list_next_element(lists, e))
    OBVIOUS
  <1> PICK fn : fn = (\/ failed \/ ((k >= 0 \/ l > 0) /\ entry[e].mandatory /\ ~match)
                      \/ (k >= 0 /\ match /\ BadLength(e, B[t])))
    OBVIOUS
  <1> PICK G : G = (IF k >= 0 /\ match THEN [F EXCEPT ![e] = Append(@, t)] ELSE F)
    OBVIOUS
  <1>6. /\ k = compare_tlvtypes(t, e) /\ l = compare_tlvtypes(t1, e)
        /\ t1 = (IF t = 0 \/ k > 0 THEN t ELSE IF t = Len(B) THEN 0 ELSE t + 1)
        /\ e1 = (IF ~(l > 0) THEN e ELSE IF oonf_list_is_last(lists, x, e) THEN NULL
                 ELSE oonf_list_next_element(lists, e))
        /\ G = (IF k >= 0 /\ match THEN [F EXCEPT ![e] = Append(@, t)] ELSE F)
        /\ sched' = [sched EXCEPT !.t = t1, !.e = e1, !.failed = fn]
        /\ Fn = (IF l > 0 /\ e1 # NULL THEN [G EXCEPT ![e1] = <<>>] ELSE G)
    <2>1. sched' = [sched EXCEPT !.t = t1, !.e = e1, !.failed = fn]
      BY DEF Advance
    <2>2. Fn = (IF l > 0 /\ e1 # NULL THEN [G EXCEPT ![e1] = <<>>] ELSE G)
      BY DEF Advance
    <2>3. QED
      BY <2>1, <2>2
  <1>7. /\ sched'.c = x /\ sched'.b = b /\ sched'.i = i /\ sched'.t = t1 /\ sched'.e = e1
        /\ sched'.failed = fn /\ fn \in BOOLEAN
    BY <1>1, <1>6 DEF Records
  <1>8. /\ IsSeq(Bn) /\ Len(Bn) = Len(B) /\ DOMAIN Bn = DOMAIN B
        /\ \A n \in 1 .. Len(B) : SameTlv(Bn[n], B[n]) /\ (n # t => Bn[n] = B[n])
        /\ here /\ B[t].multi => Bn[t].single = ValueFor(B[t], i)
        /\ DOMAIN tlvs' = DOMAIN tlvs /\ tlvs' = [a \in DOMAIN tlvs' |-> tlvs'[a]]
        /\ \A a \in DOMAIN tlvs : BlockOk(tlvs'[a])
    <2>1. /\ BlocksOk /\ rd.phase = "tlvs" /\ sched.t \in 0 .. Len(tlvs[sched.b])
          /\ tlvs' = IF IndexMatch /\ tlvs[sched.b][sched.t].multi
                     THEN [tlvs EXCEPT ![sched.b][sched.t].single =
                                          ValueFor(tlvs[sched.b][sched.t], sched.i)]
                     ELSE tlvs
      BY <1>1, <1>4
    <2>2. /\ DOMAIN tlvs' = DOMAIN tlvs /\ tlvs' = [a \in DOMAIN tlvs' |-> tlvs'[a]]
          /\ \A a \in DOMAIN tlvs : BlockOk(tlvs'[a])
          /\ IsSeq(tlvs'[sched.b]) /\ Len(tlvs'[sched.b]) = Len(tlvs[sched.b])
          /\ DOMAIN tlvs'[sched.b] = DOMAIN tlvs[sched.b]
          /\ \A n \in 1 .. Len(tlvs[sched.b]) :
                /\ SameTlv(tlvs'[sched.b][n], tlvs[sched.b][n])
                /\ n # sched.t => tlvs'[sched.b][n] = tlvs[sched.b][n]
          /\ IndexMatch /\ tlvs[sched.b][sched.t].multi =>
                tlvs'[sched.b][sched.t].single = ValueFor(tlvs[sched.b][sched.t], sched.i)
      BY ONLY <2>1, ValueShown
    <2>3. /\ b = sched.b /\ t = sched.t /\ i = sched.i /\ B = tlvs[sched.b] /\ Bn = tlvs'[sched.b]
          /\ here = IndexMatch
      OBVIOUS
    <2>4. QED
      BY ONLY <2>2, <2>3
  <1> PICK U, q : U = (IF t1 = 0 THEN Len(B) + 1 ELSE t1) /\ q = (IF l > 0 THEN p + 1 ELSE p)
    OBVIOUS
  <1>9. Compared(w, B, T, p, k)
    <2>1. /\ Distinct(es) /\ IsSort(es, Len(es), w) /\ BlockOk(B) /\ B = tlvs[sched.b]
          /\ t \in 0 .. Len(B) /\ T = (IF t = 0 THEN Len(B) + 1 ELSE t)
          /\ p \in 1 .. Len(w) + 1 /\ e = (IF p <= Len(w) THEN w[p] ELSE NULL)
      BY <1>3, <1>4, <1>5
    <2>2. Compared(w, B, T, p, compare_tlvtypes(t, e))
      BY ONLY <2>1, ComparedAny
    <2>3. QED
      BY <1>6, <2>2
  <1>10. k \in Int
    BY <1>9 DEF Compared
  <1>11. t1 \in 0 .. Len(B) /\ U = (IF T = Len(B) + 1 \/ k > 0 THEN T ELSE T + 1)
    <2>1. /\ t \in 0 .. Len(B) /\ Len(B) \in Nat /\ T = (IF t = 0 THEN Len(B) + 1 ELSE t)
          /\ U = (IF t1 = 0 THEN Len(B) + 1 ELSE t1) /\ k \in Int
          /\ t1 = (IF t = 0 \/ k > 0 THEN t ELSE IF t = Len(B) THEN 0 ELSE t + 1)
      BY <1>4, <1>5, <1>6, <1>10
    <2>2. QED
      BY ONLY <2>1
  <1>12. Compared(w, B, U, p, l)
    <2>1. /\ Distinct(es) /\ IsSort(es, Len(es), w) /\ BlockOk(B) /\ B = tlvs[sched.b]
          /\ t1 \in 0 .. Len(B) /\ U = (IF t1 = 0 THEN Len(B) + 1 ELSE t1)
          /\ p \in 1 .. Len(w) + 1 /\ e = (IF p <= Len(w) THEN w[p] ELSE NULL)
      BY <1>3, <1>4, <1>5, <1>11
    <2>2. Compared(w, B, U, p, compare_tlvtypes(t1, e))
      BY ONLY <2>1, ComparedAny
    <2>3. QED
      BY <1>6, <2>2
  <1>13. l \in Int /\ (l > 0 => p \in 1 .. Len(w) /\ e = w[p])
    <2>1. l \in Int /\ (l > 0 => p <= Len(w))
      BY <1>12 DEF Compared
    <2>2. p \in 1 .. Len(w) + 1 /\ Len(w) \in Nat
      BY <1>5
    <2>3. p <= Len(w) => p \in 1 .. Len(w)
      BY ONLY <2>2
    <2>4. QED
      BY <1>4, <2>1, <2>3
  <1>14. /\ e1 = (IF q <= Len(w) THEN w[q] ELSE NULL)
         /\ q \in 1 .. Len(w) + 1 /\ (q = p \/ q = p + 1) /\ (q # p <=> l > 0)
    <2>1. CASE l > 0
      <3>1. p \in 1 .. Len(w) /\ e = w[p] /\ q = p + 1
        BY <1>13, <2>1
      <3>4. e1 = IF oonf_list_is_last(lists, x, w[p]) THEN NULL
                 ELSE oonf_list_next_element(lists, w[p])
        BY <1>6, <2>1, <3>1
      <3>2. e1 = IF p + 1 <= Len(w) THEN w[p + 1] ELSE NULL
        BY <1>3, <1>4, <3>1, <3>4, NextIs
      <3>3. QED
        <4>1. Len(w) \in Nat
          BY <1>5
        <4>2. QED
          BY ONLY <2>1, <3>1, <3>2, <4>1
    <2>2. CASE ~(l > 0)
      BY <1>4, <1>5, <1>6, <2>2
    <2>3. QED
      BY <2>1, <2>2
  <1>15. T <= Len(B) <=> t # 0
    BY ONLY <1>a
  <1>16. here <=> /\ t # 0 /\ <<b, t, i>> \notin dropped.tlv
                  /\ B[t].index1 <= i /\ i <= B[t].index2
    BY DEF IndexMatch
  <1>17. S \subseteq 1 .. Len(B) /\ Sn \subseteq 1 .. Len(B)
    BY <1>5, <1>8 DEF ForAddress
  <1>18. \A n \in 1 .. Len(B) : Bn[n].index1 = B[n].index1 /\ Bn[n].index2 = B[n].index2
    BY <1>8 DEF SameTlv
  <1>19. \A n \in 1 .. Len(B) : n # T => (n \in Sn <=> n \in S)
    <2> SUFFICES ASSUME NEW n \in 1 .. Len(B), n # T PROVE n \in Sn <=> n \in S
      OBVIOUS
    <2>1. <<b, n, i>> \in dropped'.tlv <=> <<b, n, i>> \in dropped.tlv
      <3>1. gone => t = T
        <4>1. gone => here
          OBVIOUS
        <4>2. QED
          BY ONLY <1>a, <1>16, <4>1
      <3>2. gone => <<b, n, i>> # <<b, t, i>>
        BY <3>1
      <3>3. QED
        BY <3>2
    <2>2. QED
      BY <1>5, <1>8, <1>18, <2>1 DEF ForAddress
  <1>20. T <= Len(B) => (T \in Sn <=> here /\ ~gone)
    <2> SUFFICES ASSUME T <= Len(B) PROVE T \in Sn <=> here /\ ~gone
      OBVIOUS
    <2>1. T = t /\ t \in 1 .. Len(B)
      <3>1. T <= Len(B)
        OBVIOUS
      <3>2. QED
        BY ONLY <1>a, <1>15, <3>1
    <2>2. <<b, t, i>> \in dropped'.tlv <=> <<b, t, i>> \in dropped.tlv \/ gone
      OBVIOUS
    <2>3. T \in DOMAIN Bn /\ Bn[T].index1 = B[T].index1 /\ Bn[T].index2 = B[T].index2
      <3>1. T \in 1 .. Len(B) /\ DOMAIN Bn = 1 .. Len(B)
        BY <1>5, <1>8, <2>1
      <3>2. QED
        BY ONLY <1>18, <3>1
    <2>4. T \in Sn <=> /\ B[T].index1 <= i /\ i <= B[T].index2
                      /\ <<b, T, i>> \notin dropped'.tlv
      BY <2>3 DEF ForAddress
    <2>5. gone => here
      OBVIOUS
    <2>6. QED
      BY <1>15, <1>16, <2>1, <2>2, <2>4, <2>5
  <1>21. match <=> T <= Len(B) /\ p <= Len(w) /\ T \in Sn /\ k = 0
    <2>1. e # NULL <=> p <= Len(w)
      <3>1. p <= Len(w) => p \in 1 .. Len(w)
        BY ONLY <1>a
      <3>2. QED
        BY ONLY <1>a, <3>1
    <2>2. match <=> here /\ e # NULL /\ ~gone /\ k = 0
      BY <1>6
    <2>3. here => T <= Len(B)
      BY <1>15, <1>16
    <2>4. QED
      BY <1>20, <2>1, <2>2, <2>3
  <1>22. \A n \in 1 .. Len(B) : SameTlv(Bn[n], B[n]) /\ (n # T => Bn[n] = B[n])
    <2> SUFFICES ASSUME NEW n \in 1 .. Len(B), n # T PROVE Bn[n] = B[n]
      BY <1>8
    <2>1. CASE n = t
      <3>1. t # 0
        BY <2>1
      <3>2. QED
        BY <2>1, <3>1
    <2>2. CASE n # t
      BY <1>8, <2>2
    <2>3. QED
      BY <2>1, <2>2
  <1>23. T \in Sn /\ B[T].multi => Bn[T].single = ValueFor(B[T], i)
    <2> SUFFICES ASSUME T \in Sn, B[T].multi PROVE Bn[T].single = ValueFor(B[T], i)
      OBVIOUS
    <2>0. T \in 1 .. Len(B)
      BY <1>17
    <2>1. T <= Len(B)
      BY ONLY <1>5, <2>0
    <2>2. here /\ T = t
      BY <1>15, <1>20, <2>1
    <2>3. QED
      BY <1>8, <2>2
  <1>24. \A j \in 1 .. Len(w) : j <= q =>
            Fn[w[j]] = IF j = p /\ match THEN Append(F[w[j]], T)
                       ELSE IF j = q /\ q # p THEN <<>> ELSE F[w[j]]
    <2> SUFFICES ASSUME NEW j \in 1 .. Len(w), j <= q
                 PROVE  Fn[w[j]] = IF j = p /\ match THEN Append(F[w[j]], T)
                                   ELSE IF j = q /\ q # p THEN <<>> ELSE F[w[j]]
      OBVIOUS
    <2>1. match => t = T /\ k >= 0 /\ p \in 1 .. Len(w) /\ e = w[p]
      <3>1. SUFFICES ASSUME match PROVE t = T /\ k >= 0 /\ p \in 1 .. Len(w) /\ e = w[p]
        OBVIOUS
      <3>2. T <= Len(B) /\ p <= Len(w) /\ k = 0
        BY <1>21, <3>1
      <3>3. p \in 1 .. Len(w) /\ e = w[p]
        BY ONLY <1>a, <3>2
      <3>4. t = T /\ k >= 0
        BY ONLY <1>a, <1>15, <3>2
      <3>5. QED
        BY ONLY <3>3, <3>4
    <2>2. G = [y \in Entries |-> G[y]] /\ G[w[j]] = IF j = p /\ match THEN Append(F[w[j]], T) ELSE F[w[j]]
      <3>1. CASE match
        <4>1. G = [F EXCEPT ![w[p]] = Append(@, T)] /\ w[p] \in Entries
          BY <1>5, <1>6, <2>1, <3>1
        <4>2. w[j] = w[p] <=> j = p
          BY <1>5, <2>1, <3>1
        <4>3. QED
          BY <1>5, <3>1, <4>1, <4>2
      <3>2. CASE ~match
        BY <1>5, <1>6, <3>2
      <3>3. QED
        BY <3>1, <3>2
    <2>3. CASE l > 0
      <3>1. q = p + 1 /\ q # p
        BY <1>14, <2>3
      <3>2. CASE q <= Len(w)
        <4>1. e1 = w[q] /\ q \in 1 .. Len(w) /\ w[q] \in Entries /\ e1 # NULL
          <5>1. q \in 1 .. Len(w) /\ e1 = w[q]
            BY ONLY <1>a, <1>14, <3>2
          <5>2. QED
            BY ONLY <1>a, <5>1
        <4>2. Fn = [G EXCEPT ![w[q]] = <<>>]
          BY <1>6, <2>3, <4>1
        <4>3. w[j] = w[q] <=> j = q
          BY <1>5, <4>1
        <4>4. Fn[w[j]] = IF j = q THEN <<>> ELSE G[w[j]]
          BY <1>5, <2>2, <4>1, <4>2, <4>3
        <4>5. ~(j = q /\ j = p)
          BY <3>1
        <4>6. QED
          BY <2>2, <3>1, <4>4, <4>5
      <3>3. CASE ~(q <= Len(w))
        <4>1. Fn = G
          BY <1>6, <1>14, <3>3
        <4>2. j # q
          <5>1. j \in 1 .. Len(w)
            OBVIOUS
          <5>2. QED
            BY ONLY <1>a, <3>3, <5>1
        <4>3. QED
          BY <2>2, <4>1, <4>2
      <3>4. QED
        BY <3>2, <3>3
    <2>4. CASE ~(l > 0)
      <3>1. Fn = G /\ q = p
        BY <1>6, <2>4
      <3>2. QED
        BY <2>2, <3>1
    <2>5. QED
      BY <2>3, <2>4
  <1>25. ~fn => /\ ~failed
                /\ p <= Len(w) /\ (k >= 0 \/ l > 0) /\ entry[w[p]].mandatory => match
                /\ match => ~BadLength(w[p], B[T])
    <2>1. p <= Len(w) => e = w[p]
      BY <1>4
    <2>2. match => p <= Len(w) /\ T = t /\ k >= 0
      <3>1. match => p <= Len(w) /\ T <= Len(B) /\ k = 0
        BY ONLY <1>21
      <3>2. T <= Len(B) => T = t
        BY ONLY <1>a, <1>15
      <3>3. QED
        BY ONLY <3>1, <3>2
    <2>3. ASSUME ~fn
          PROVE  /\ ~failed
                 /\ (k >= 0 \/ l > 0) /\ entry[e].mandatory => match
                 /\ k >= 0 /\ match => ~BadLength(e, B[t])
      BY <2>3
    <2>4. QED
      BY <2>1, <2>2, <2>3
  <1>26. Merged(w, Bn, i, Sn, U, q, Fn, fn)
    <2>1. /\ Distinct(es) /\ IsSort(es, Len(es), w) /\ BlockOk(B)
          /\ S \subseteq 1 .. Len(B) /\ Sn \subseteq 1 .. Len(B)
          /\ Merged(w, B, i, S, T, p, F, failed)
          /\ Compared(w, B, T, p, k) /\ Compared(w, B, U, p, l)
      BY <1>3, <1>4, <1>5, <1>9, <1>12, <1>17
    <2>2. /\ IsSeq(Bn) /\ Len(Bn) = Len(B) /\ match \in BOOLEAN /\ fn \in BOOLEAN
          /\ U = (IF T = Len(B) + 1 \/ k > 0 THEN T ELSE T + 1)
          /\ q = (IF l > 0 THEN p + 1 ELSE p)
      BY <1>7, <1>8, <1>11
    <2>3. MergeTurn(w, B, Bn, i, S, Sn, T, U, p, q, k, l, F, Fn, match, failed, fn)
      BY ONLY <1>19, <1>21, <1>22, <1>23, <1>24, <1>25, <2>2 DEF MergeTurn
    <2>4. QED
      BY ONLY <2>1, <2>3, MergeGoesOn
  <1>27. BlocksOk'
    <2>1. found' = [y \in Entries |-> found'[y]]
      BY <1>5, <1>6, ZenonT(60)
    <2>2. InMessage' => InMessage
      BY <1>7 DEF InMessage
    <2>3. QED
      BY <1>1, <1>7, <1>8, <2>1, <2>2 DEF BlocksOk
  <1>28. Was(x)' /\ EntriesOf(x)' = es
    BY <1>1, <1>3, SameEntries
  <1>29. MergedTo(x, b, i, t1, e1, fn, w, q)'
    <2>1. IsSort(EntriesOf(x)', Len(EntriesOf(x)'), w) /\ Chain(lists', x, w)
      BY <1>4, <1>28
    <2>2. t1 \in 0 .. Len(tlvs'[b]) /\ U = (IF t1 = 0 THEN Len(tlvs'[b]) + 1 ELSE t1)
      BY <1>8, <1>11
    <2>3. QED
      BY <1>14, <1>26, <2>1, <2>2 DEF MergedTo
  <1>30. Merging'
    <2>1. MergedTo(sched.c, sched.b, sched.i, sched.t, sched.e, sched.failed, w, q)'
      BY <1>7, <1>29
    <2>2. QED
      BY <1>7, <1>28, <2>1 DEF Merging
  <1>31. QED
    BY <1>1, <1>27, <1>30 DEF SInv

\* tlv_callback, and the turn of the loop around it.
LEMMA ScheduleTurnShows == IInv /\ SInv /\ ScheduleTurn => SInv'
  <1> SUFFICES ASSUME IInv, SInv, ScheduleTurn PROVE SInv'
    OBVIOUS
  <1> PICK fits \in BOOLEAN : fits <=> /\ IndexMatch /\ sched.e # NULL
                                       /\ compare_tlvtypes(sched.t, sched.e) = 0
    OBVIOUS
  <1>1. /\ rd.phase = "tlvs" /\ Records /\ lists' = lists /\ done' = done /\ msg' = msg
        /\ tlvs' = IF IndexMatch /\ tlvs[sched.b][sched.t].multi
                   THEN [tlvs EXCEPT ![sched.b][sched.t].single =
                                        ValueFor(tlvs[sched.b][sched.t], sched.i)]
                   ELSE tlvs
    BY DEF ScheduleTurn, IInv, Place
  <1>2. fits = (IndexMatch /\ sched.e # NULL /\ compare_tlvtypes(sched.t, sched.e) = 0)
    OBVIOUS
  <1>3. IF ~IndexMatch \/ ~consumer[sched.c].tlv_callback
        THEN Advance(fits) /\ UNCHANGED <<rd, dropped, calls>>
        ELSE \E r \in Verdicts :
               /\ Call("tlv", sched.c, sched.b, sched.i, r)
               /\ IF r \in {OKAY, DROP_TLV}
                  THEN /\ rd' = [rd EXCEPT !.drops = Drops(r)]
                       /\ dropped' = IF r = OKAY THEN dropped
                                     ELSE [dropped EXCEPT !.tlv = @ \cup
                                             {<<sched.b, sched.t, sched.i>>}]
                       /\ Advance(fits /\ r = OKAY)
                  ELSE /\ rd' = [rd EXCEPT !.drops = Drops(r), !.res = r, !.phase = "shown"]
                       /\ UNCHANGED <<sched, found, dropped>>
    BY <1>2 DEF ScheduleTurn
  <1>4. CASE ~IndexMatch \/ ~consumer[sched.c].tlv_callback
    <2>1. Advance(fits) /\ rd' = rd /\ dropped' = dropped
      BY <1>3, <1>4
    <2>2. /\ fits <=> /\ IndexMatch /\ sched.e # NULL /\ ~FALSE
                      /\ compare_tlvtypes(sched.t, sched.e) = 0
          /\ dropped'.tlv = dropped.tlv \cup (IF FALSE THEN {<<sched.b, sched.t, sched.i>>} ELSE {})
      BY <2>1
    <2>3. QED
      BY <1>1, <2>1, <2>2, AdvanceMerges
  <1>5. ASSUME NEW r \in Verdicts, IndexMatch, r \in {OKAY, DROP_TLV},
               rd' = [rd EXCEPT !.drops = Drops(r)],
               dropped' = IF r = OKAY THEN dropped
                          ELSE [dropped EXCEPT !.tlv = @ \cup {<<sched.b, sched.t, sched.i>>}],
               Advance(fits /\ r = OKAY)
        PROVE  SInv'
    <2> PICK match \in BOOLEAN, gone \in BOOLEAN : match = (fits /\ r = OKAY) /\ gone = (r # OKAY)
      OBVIOUS
    <2>1. Advance(match)
      BY <1>5
    <2>2. match <=> /\ IndexMatch /\ sched.e # NULL /\ ~gone
                    /\ compare_tlvtypes(sched.t, sched.e) = 0
      OBVIOUS
    <2>3. rd'.phase = "tlvs" /\ rd'.buf = rd.buf
      BY <1>1, <1>5 DEF Records
    <2>4. dropped'.tlv = dropped.tlv \cup (IF gone THEN {<<sched.b, sched.t, sched.i>>} ELSE {})
      BY <1>1, <1>5 DEF Records
    <2>5. gone => IndexMatch
      BY <1>5
    <2>6. QED
      BY <1>1, <2>1, <2>2, <2>3, <2>4, <2>5, AdvanceMerges
  <1>6. ASSUME NEW r, rd' = [rd EXCEPT !.drops = Drops(r), !.res = r, !.phase = "shown"],
               UNCHANGED <<sched, found, dropped>>
        PROVE  SInv'
    <2>1. rd'.phase = "shown" /\ rd'.buf = rd.buf /\ sched' = sched /\ found' = found
      BY <1>1, <1>6 DEF Records
    <2>2. ListsOk'
      BY <1>1, SameLists DEF SInv
    <2>3. sched.t \in 0 .. Len(tlvs[sched.b])
      BY <1>1 DEF SInv, Merging, MergedTo
    <2>4. /\ DOMAIN tlvs' = DOMAIN tlvs /\ tlvs' = [b \in DOMAIN tlvs' |-> tlvs'[b]]
          /\ \A b \in DOMAIN tlvs : BlockOk(tlvs'[b])
      BY <1>1, <2>3, ValueShown DEF SInv
    <2>5. InMessage' => InMessage
      BY <1>1, <2>1 DEF InMessage
    <2>6. BlocksOk'
      BY <1>1, <2>1, <2>4, <2>5 DEF SInv, BlocksOk
    <2>7. Merging'
      BY <2>1 DEF Merging
    <2>8. QED
      BY <2>2, <2>6, <2>7 DEF SInv
  <1>7. QED
    BY <1>3, <1>4, <1>5, <1>6

\* Every consumer in the trees was registered.
LEMMA TreeWas ==
    ASSUME BInv
    PROVE  /\ Len(tree.pkt) \in Nat /\ \A k \in 1 .. Len(tree.pkt) : Was(tree.pkt[k])
           /\ Len(tree.msg) \in Nat /\ \A k \in 1 .. Len(tree.msg) : Was(tree.msg[k])
  <1>1. ASSUME NEW x, NEW v, Kept(x, v) PROVE Was(x)
    BY <1>1 DEF Kept, Was
  <1>2. /\ tree.pkt \in Seq(Consumers) /\ \A j \in DOMAIN tree.pkt : Kept(tree.pkt[j], "pkt")
        /\ tree.msg \in Seq(Consumers) /\ \A j \in DOMAIN tree.msg : Kept(tree.msg[j], "msg")
    BY DEF BInv, Trees, TreeOk
  <1>3. QED
    BY <1>1, <1>2

\* start_callback of a packet consumer.
LEMMA PacketConsumerShows == IInv /\ BInv /\ SInv /\ PacketConsumer => SInv'
  <1> SUFFICES ASSUME IInv, BInv, SInv, PacketConsumer PROVE SInv'
    OBVIOUS
  <1> PICK x : x = tree.pkt[rd.k]
    OBVIOUS
  <1>1. /\ rd.phase = "packet" /\ rd.k <= Len(tree.pkt) /\ Records
        /\ lists' = lists /\ done' = done /\ msg' = msg /\ tlvs' = tlvs
    BY DEF PacketConsumer, IInv, Place
  <1> DEFINE tlv_block == rd.has_tlv /\ (consumer[x].tlv_callback \/ consumer[x].block_callback)
  <1>2. PICK r \in IF consumer[x].start_callback THEN Verdicts ELSE {OKAY} :
          /\ rd' = [rd EXCEPT !.started = rd.k, !.drops = Drops(r), !.result = r,
                          !.k = IF r = OKAY /\ ~tlv_block THEN @ + 1 ELSE @,
                          !.phase = IF r # OKAY THEN "packet_end"
                                    ELSE IF tlv_block THEN "tlvs" ELSE "packet"]
          /\ IF r = OKAY /\ tlv_block THEN Schedule(x, 0, 0) ELSE UNCHANGED <<sched, found>>
    BY DEF PacketConsumer
  <1> PICK phase : phase = (IF r # OKAY THEN "packet_end" ELSE IF tlv_block THEN "tlvs" ELSE "packet")
    OBVIOUS
  <1>3. /\ rd'.phase = phase /\ rd'.buf = rd.buf
        /\ \/ phase = "tlvs" /\ Schedule(x, 0, 0)
           \/ phase \in {"packet", "packet_end"} /\ UNCHANGED <<sched, found>>
    <2>1. rd'.phase = phase /\ rd'.buf = rd.buf
      BY <1>1, <1>2 DEF Records
    <2>2. QED
      BY <1>2, <2>1
  <1>4. CASE phase = "tlvs" /\ Schedule(x, 0, 0)
    <2>1. Was(x)
      <3>1. rd.k \in 1 .. Len(tree.pkt)
        BY <1>1, TreeWas DEF BInv, Turn, PacketTurn
      <3>2. QED
        BY <3>1, TreeWas
    <2>2. 0 \in DOMAIN tlvs
      BY DEF SInv, BlocksOk
    <2>3. ~InMessage'
      BY <1>3, <1>4, Scheduled DEF InMessage
    <2>4. QED
      BY <1>1, <1>3, <1>4, <2>1, <2>2, <2>3, ScheduleMerges
  <1>5. CASE phase \in {"packet", "packet_end"} /\ UNCHANGED <<sched, found>>
    <2>1. ~InMessage' /\ rd'.phase # "tlvs"
      BY <1>3, <1>5 DEF InMessage
    <2>2. QED
      BY <1>1, <1>3, <1>5, <2>1, QuietShows
  <1>6. QED
    BY <1>3, <1>4, <1>5

\* start_callback of a message consumer.
LEMMA MessageConsumerShows == IInv /\ BInv /\ SInv /\ MessageConsumer => SInv'
  <1> SUFFICES ASSUME IInv, BInv, SInv, MessageConsumer PROVE SInv'
    OBVIOUS
  <1> PICK x : x = tree.msg[rd.k]
    OBVIOUS
  <1>1. /\ rd.phase = "message" /\ rd.k <= Len(tree.msg) /\ Records /\ InMessage
        /\ lists' = lists /\ done' = done /\ msg' = msg /\ tlvs' = tlvs
    BY DEF MessageConsumer, IInv, Place, InMessage
  <1>2. PICK r \in IF consumer[x].start_callback THEN Verdicts ELSE {OKAY} :
          /\ rd' = [rd EXCEPT !.res = r, !.drops = Drops(r),
                          !.same_order = IF @ = <<>> THEN <<rd.k, rd.k>> ELSE <<@[1], rd.k>>,
                          !.phase = IF r = OKAY THEN "tlvs" ELSE "message_end", !.i = rd.k]
          /\ IF r = OKAY THEN Schedule(x, 1, 0) ELSE UNCHANGED <<sched, found>>
    BY DEF MessageConsumer
  <1> PICK phase : phase = (IF r = OKAY THEN "tlvs" ELSE "message_end")
    OBVIOUS
  <1>3. /\ rd'.phase = phase /\ rd'.buf = rd.buf
        /\ \/ phase = "tlvs" /\ Schedule(x, 1, 0)
           \/ phase = "message_end" /\ UNCHANGED <<sched, found>>
    <2>1. rd'.phase = phase /\ rd'.buf = rd.buf
      BY <1>1, <1>2 DEF Records
    <2>2. QED
      BY <1>2, <2>1
  <1>4. CASE phase = "tlvs" /\ Schedule(x, 1, 0)
    <2>1. Was(x)
      <3>1. rd.k \in 1 .. Len(tree.msg)
        BY <1>1, TreeWas DEF BInv, Turn, MessageTurn
      <3>2. QED
        BY <3>1, TreeWas
    <2>2. 1 \in DOMAIN tlvs
      <3>1. DOMAIN tlvs = 0 .. Len(msg.blocks) + 1 /\ Len(msg.blocks) \in Nat
        BY <1>1 DEF SInv, BlocksOk, IsSeq
      <3>2. QED
        BY <3>1
    <2>3. QED
      BY <1>1, <1>3, <1>4, <2>1, <2>2, ScheduleMerges
  <1>5. CASE phase = "message_end" /\ UNCHANGED <<sched, found>>
    BY <1>1, <1>3, <1>5, QuietShows
  <1>6. QED
    BY <1>3, <1>4, <1>5

\* start_callback for an address.
LEMMA StartAddressShows == IInv /\ BInv /\ SInv /\ StartAddress => SInv'
  <1> SUFFICES ASSUME IInv, BInv, SInv, StartAddress PROVE SInv'
    OBVIOUS
  <1> PICK x : x = tree.msg[rd.k]
    OBVIOUS
  <1>1. /\ rd.phase = "address" /\ rd.b <= Len(msg.blocks) /\ Records /\ InMessage
        /\ rd.b \in Nat /\ rd.b > 0
        /\ lists' = lists /\ done' = done /\ msg' = msg /\ tlvs' = tlvs
    BY DEF StartAddress, IInv, Place, InMessage
  <1>2. \/ rd' = NextAddress(rd) /\ UNCHANGED <<calls, sched, found>>
        \/ \E r : \/ /\ rd' = [rd EXCEPT !.res = r, !.drops = Drops(r), !.phase = "tlvs"]
                     /\ Schedule(x, rd.b + 1, rd.i)
                  \/ /\ rd' = [rd EXCEPT !.res = r, !.drops = Drops(r), !.phase = "address_end"]
                     /\ UNCHANGED <<sched, found>>
    BY DEF StartAddress
  <1>3. CASE rd' = NextAddress(rd) /\ UNCHANGED <<calls, sched, found>>
    <2>1. rd'.phase = "address" /\ rd'.buf = rd.buf
      BY <1>1, <1>3 DEF NextAddress, Records
    <2>2. QED
      BY <1>1, <1>3, <2>1, QuietShows
  <1>4. ASSUME NEW r, rd' = [rd EXCEPT !.res = r, !.drops = Drops(r), !.phase = "tlvs"],
               Schedule(x, rd.b + 1, rd.i)
        PROVE  SInv'
    <2>1. rd'.phase = "tlvs" /\ rd'.buf = rd.buf
      BY <1>1, <1>4 DEF Records
    <2>2. Was(x)
      <3>1. rd.k \in 1 .. Len(tree.msg)
        BY <1>1, AmongAddresses DEF InAddresses
      <3>2. QED
        BY <3>1, TreeWas
    <2>3. rd.b + 1 \in DOMAIN tlvs
      <3>1. DOMAIN tlvs = 0 .. Len(msg.blocks) + 1 /\ Len(msg.blocks) \in Nat
        BY <1>1 DEF SInv, BlocksOk, IsSeq
      <3>2. QED
        BY <1>1, <3>1
    <2>4. QED
      BY <1>1, <1>4, <2>1, <2>2, <2>3, ScheduleMerges
  <1>5. ASSUME NEW r, rd' = [rd EXCEPT !.res = r, !.drops = Drops(r), !.phase = "address_end"],
               UNCHANGED <<sched, found>>
        PROVE  SInv'
    <2>1. rd'.phase = "address_end" /\ rd'.buf = rd.buf
      BY <1>1, <1>5 DEF Records
    <2>2. QED
      BY <1>1, <1>5, <2>1, QuietShows
  <1>6. QED
    BY <1>2, <1>3, <1>4, <1>5

\* The next message, whose blocks are in order.
LEMMA ParseMessageShows == IInv /\ SInv /\ ParseMessage => SInv'
  <1> SUFFICES ASSUME IInv, SInv, ParseMessage PROVE SInv'
    OBVIOUS
  <1>1. /\ rd.phase \in {"packet", "messages"} /\ Records /\ rd.ptr \in Nat
        /\ lists' = lists /\ done' = done /\ sched' = sched /\ found' = found
        /\ rd.buf \in Seq(0 .. 255)
    BY DEF ParseMessage, IInv, Place, SInv, BlocksOk
  <1>2. \/ /\ rd' = [rd EXCEPT !.phase = "packet_end"]
           /\ UNCHANGED <<msg, tlvs>>
        \/ \E m \in {parse_message(rd.buf, rd.ptr, Len(rd.buf))} :
             \/ /\ rd' = [rd EXCEPT !.phase = "packet_end", !.result = m.res]
                /\ UNCHANGED <<msg, tlvs>>
             \/ /\ m.res = OKAY
                /\ rd' = [rd EXCEPT !.phase = "message", !.res = OKAY, !.k = 1,
                                    !.same_order = <<>>, !.do_not_forward = FALSE]
                /\ msg' = m
                /\ tlvs' = [b \in 0..Len(m.blocks) + 1 |->
                               IF b = 0 THEN tlvs[0] ELSE IF b = 1 THEN m.tlvs
                               ELSE m.blocks[b - 1].tlvs]
    BY DEF ParseMessage
  <1>3. ASSUME NEW res, \/ rd' = [rd EXCEPT !.phase = "packet_end"]
                        \/ rd' = [rd EXCEPT !.phase = "packet_end", !.result = res],
               UNCHANGED <<msg, tlvs>>
        PROVE  SInv'
    <2>1. rd'.phase = "packet_end" /\ rd'.buf = rd.buf
      BY <1>1, <1>3 DEF Records
    <2>2. ~InMessage'
      BY <2>1 DEF InMessage
    <2>3. QED
      BY <1>1, <1>3, <2>1, <2>2, QuietShows
  <1>4. ASSUME NEW m, m = parse_message(rd.buf, rd.ptr, Len(rd.buf)), m.res = OKAY,
               rd' = [rd EXCEPT !.phase = "message", !.res = OKAY, !.k = 1,
                                !.same_order = <<>>, !.do_not_forward = FALSE],
               msg' = m,
               tlvs' = [b \in 0..Len(m.blocks) + 1 |->
                           IF b = 0 THEN tlvs[0] ELSE IF b = 1 THEN m.tlvs
                           ELSE m.blocks[b - 1].tlvs]
        PROVE  SInv'
    <2>1. rd'.phase = "message" /\ rd'.buf = rd.buf
      BY <1>1, <1>4 DEF Records
    <2>2. BlockOk(m.tlvs) /\ BlocksAreOk(m.blocks)
      BY <1>1, <1>4, MessageParsed
    <2>3. IsSeq(m.blocks) /\ Len(m.blocks) \in Nat /\ DOMAIN m.blocks = 1 .. Len(m.blocks)
          /\ \A k \in 1 .. Len(m.blocks) : BlockOk(m.blocks[k].tlvs)
      BY <2>2 DEF BlocksAreOk, IsSeq
    <2>4. BlockOk(tlvs[0])
      BY DEF SInv, BlocksOk
    <2>5. ASSUME NEW b \in 0 .. Len(m.blocks) + 1 PROVE BlockOk(tlvs'[b])
      <3>1. tlvs'[b] = IF b = 0 THEN tlvs[0] ELSE IF b = 1 THEN m.tlvs ELSE m.blocks[b - 1].tlvs
        BY <1>4
      <3>2. b # 0 /\ b # 1 => b - 1 \in 1 .. Len(m.blocks)
        BY <2>3
      <3>3. QED
        BY <2>2, <2>3, <2>4, <3>1, <3>2
    <2>6. /\ DOMAIN tlvs' = 0 .. Len(m.blocks) + 1 /\ tlvs' = [b \in DOMAIN tlvs' |-> tlvs'[b]]
          /\ 0 \in DOMAIN tlvs'
      BY <1>4, <2>3
    <2>7. BlocksOk'
      BY <1>1, <1>4, <2>1, <2>3, <2>5, <2>6 DEF SInv, BlocksOk
    <2>8. ListsOk' /\ Merging'
      BY <1>1, <2>1, SameLists DEF SInv, Merging
    <2>9. QED
      BY <2>7, <2>8 DEF SInv
  <1>5. QED
    BY <1>2, <1>3, <1>4

\* A packet, whose own TLVs are in order.
LEMMA ReadShows == SInv /\ ReadAny => SInv'
  <1> SUFFICES ASSUME SInv, NEW buf \in Seq(0 .. 255), NEW drops, HandlePacket(buf, drops)
               PROVE  SInv'
    BY DEF ReadAny
  <1>1. lists' = lists /\ done' = done /\ msg' = msg /\ found' = found /\ sched' = sched
    BY ZenonT(60) DEF HandlePacket
  <1>2. \E hdr \in {parse_pkt_header(buf)} :
          IF hdr.res # OKAY
          THEN /\ rd' = [AtRest EXCEPT !.phase = "refused", !.result = hdr.res]
               /\ tlvs' = tlvs
          ELSE /\ rd' = [AtRest EXCEPT !.phase = "packet", !.buf = buf, !.ptr = hdr.p,
                                       !.has_tlv = hdr.has_tlv, !.k = 1, !.drops = drops]
               /\ tlvs' = [b \in {0} |-> hdr.tlvs]
    BY ZenonT(60) DEF HandlePacket
  <1>3. /\ rd'.phase \in {"refused", "packet"} /\ rd'.buf \in {<<>>, buf}
        /\ \/ tlvs' = tlvs
           \/ parse_pkt_header(buf).res = OKAY /\ tlvs' = [b \in {0} |-> parse_pkt_header(buf).tlvs]
    BY <1>2, ZenonT(60) DEF AtRest
  <1>4. ListsOk' /\ Merging'
    BY <1>1, <1>3, SameLists DEF SInv, Merging
  <1>5. ~InMessage'
    BY <1>3 DEF InMessage
  <1>6. tlvs' = [b \in DOMAIN tlvs' |-> tlvs'[b]] /\ 0 \in DOMAIN tlvs'
        /\ \A b \in DOMAIN tlvs' : BlockOk(tlvs'[b])
    <2>1. CASE tlvs' = tlvs
      BY <2>1 DEF SInv, BlocksOk
    <2>2. CASE parse_pkt_header(buf).res = OKAY /\ tlvs' = [b \in {0} |-> parse_pkt_header(buf).tlvs]
      <3>1. BlockOk(parse_pkt_header(buf).tlvs)
        BY <2>2, PacketParsed
      <3>2. QED
        BY <2>2, <3>1
    <2>3. QED
      BY <1>3, <2>1, <2>2
  <1>7. rd'.buf \in Seq(0 .. 255)
    <2>1. <<>> \in Seq(0 .. 255)
      OBVIOUS
    <2>2. QED
      BY <1>3, <2>1
  <1>8. BlocksOk'
    BY <1>1, <1>3, <1>5, <1>6, <1>7 DEF SInv, BlocksOk
  <1>9. QED
    BY <1>4, <1>8 DEF SInv

\* Without a packet there is one empty block, and nothing was found.
LEMMA RestShows ==
    ASSUME ListsOk', rd' = AtRest, tlvs' = [b \in {0} |-> <<>>], found' = [e \in Entries |-> <<>>]
    PROVE  SInv'
  <1>1. rd'.phase = "idle" /\ rd'.buf = <<>>
    BY DEF AtRest
  <1>2. <<>> \in Seq(0 .. 255) /\ <<>> \in Seq({}) /\ DOMAIN (<<>>) = {}
    OBVIOUS
  <1>3. BlockOk(<<>>)
    BY <1>2 DEF BlockOk, IsSeq
  <1>4. ~InMessage' /\ Merging'
    BY <1>1 DEF InMessage, Merging
  <1>5. DOMAIN tlvs' = {0} /\ tlvs'[0] = <<>>
    OBVIOUS
  <1>6. BlocksOk'
    BY <1>1, <1>2, <1>3, <1>4, <1>5 DEF BlocksOk
  <1>7. QED
    BY <1>4, <1>6 DEF SInv

\* The steps that show nothing.
LEMMA OtherStepsShow ==
    ASSUME IInv, SInv,
           \/ ScheduleVerdict \/ PacketBlockShown \/ SkipConsumer \/ EndOfOrder
           \/ MessageBlockShown \/ MessageEnd \/ BeginAddresses \/ EndAddress \/ EndAddresses
           \/ EndMessage \/ PacketEnd
    PROVE  SInv'
  <1>1. /\ Records /\ lists' = lists /\ done' = done /\ msg' = msg /\ tlvs' = tlvs
        /\ sched' = sched /\ found' = found
    BY DEF IInv, Place, ScheduleVerdict, PacketBlockShown, SkipConsumer, EndOfOrder,
           MessageBlockShown, MessageEnd, BeginAddresses, EndAddress, EndAddresses, EndMessage,
           PacketEnd
  <1>2. CASE ScheduleVerdict
    <2>1. rd.phase = "tlvs" /\ rd'.phase = "shown" /\ rd'.buf = rd.buf
      BY <1>1, <1>2, ZenonT(60) DEF ScheduleVerdict, Records
    <2>2. InMessage' => InMessage
      BY <1>1, <2>1 DEF InMessage
    <2>3. QED
      BY <1>1, <2>1, <2>2, QuietShows
  <1>3. CASE PacketBlockShown
    <2>1. rd'.phase \in {"packet", "packet_end"} /\ rd'.buf = rd.buf
      BY <1>1, <1>3 DEF PacketBlockShown, Records
    <2>2. QED
      BY <1>1, <2>1, QuietShows DEF InMessage
  <1>4. CASE SkipConsumer \/ EndOfOrder \/ BeginAddresses \/ EndAddresses
    <2>1. /\ rd.phase \in {"message", "address"} /\ rd'.buf = rd.buf
          /\ rd'.phase \in {"message", "message_end", "address"}
      BY <1>1, <1>4 DEF SkipConsumer, EndOfOrder, BeginAddresses, EndAddresses, Records
    <2>2. QED
      BY <1>1, <2>1, QuietShows DEF InMessage
  <1>5. CASE MessageBlockShown
    <2>1. rd.phase = "shown" /\ sched.b = 1 /\ rd'.buf = rd.buf
          /\ rd'.phase \in {"message", "message_end"}
      BY <1>1, <1>5, ZenonT(60) DEF MessageBlockShown, Records
    <2>2. QED
      BY <1>1, <2>1, QuietShows DEF InMessage
  <1>6. CASE MessageEnd
    <2>1. /\ rd.phase = "message_end" /\ rd'.buf = rd.buf
          /\ rd'.phase \in {"message", "message_end", "cleanup"}
      BY <1>1, <1>6, ZenonT(60) DEF MessageEnd, Records
    <2>2. QED
      BY <1>1, <2>1, QuietShows DEF InMessage
  <1>7. CASE EndAddress
    <2>1. /\ rd.phase = "address_end" \/ (rd.phase = "shown" /\ sched.b > 1)
          /\ rd'.buf = rd.buf /\ rd'.phase \in {"address", "cleanup", "message_end"}
      <3>1. rd.phase = "address_end" \/ (rd.phase = "shown" /\ sched.b > 1)
        BY <1>7 DEF EndAddress
      <3>2. \E r, worst : LET rest == [rd EXCEPT !.drops = Drops(r), !.res = OKAY]
                          IN  \/ rd' = NextAddress(rest)
                              \/ rd' = [rest EXCEPT !.res = worst,
                                          !.phase = IF rd.same_order = <<>> THEN "cleanup"
                                                    ELSE "message_end",
                                          !.i = IF rd.same_order = <<>> THEN 0
                                                ELSE rd.same_order[2]]
        BY <1>7 DEF EndAddress
      <3>3. QED
        <4>a. PICK r, worst :
                \/ rd' = NextAddress([rd EXCEPT !.drops = Drops(r), !.res = OKAY])
                \/ rd' = [[rd EXCEPT !.drops = Drops(r), !.res = OKAY] EXCEPT
                            !.res = worst,
                            !.phase = IF rd.same_order = <<>> THEN "cleanup"
                                      ELSE "message_end",
                            !.i = IF rd.same_order = <<>> THEN 0 ELSE rd.same_order[2]]
          BY ONLY <3>2
        <4>b. PICK rest : rest = [rd EXCEPT !.drops = Drops(r), !.res = OKAY]
          OBVIOUS
        <4>c. PICK y : y = IF rd.same_order = <<>> THEN "cleanup" ELSE "message_end"
          OBVIOUS
        <4>d. PICK z : z = IF rd.same_order = <<>> THEN 0 ELSE rd.same_order[2]
          OBVIOUS
        <4>e. \/ rd' = NextAddress(rest)
              \/ rd' = [rest EXCEPT !.res = worst, !.phase = y, !.i = z]
          BY ONLY <4>a, <4>b, <4>c, <4>d
        <4>1. rest.buf = rd.buf /\ rest = [phase |-> rest.phase, buf |-> rest.buf,
                 ptr |-> rest.ptr, has_tlv |-> rest.has_tlv,
                 started |-> rest.started, result |-> rest.result, k |-> rest.k, b |-> rest.b,
                 i |-> rest.i, same_order |-> rest.same_order, res |-> rest.res,
                 do_not_forward |-> rest.do_not_forward, drops |-> rest.drops]
          BY <1>1, <4>b DEF Records
        <4>2. NextAddress(rest).buf = rest.buf /\ NextAddress(rest).phase = "address"
          BY <4>1 DEF NextAddress
        <4>3. CASE rd' = NextAddress(rest)
          BY <3>1, <4>1, <4>2, <4>3
        <4>4. CASE rd' = [rest EXCEPT !.res = worst, !.phase = y, !.i = z]
          <5>1. rd'.buf = rest.buf /\ rd'.phase = y
            BY ONLY <4>1, <4>4
          <5>2. y \in {"cleanup", "message_end"}
            BY <4>c
          <5>3. QED
            BY <3>1, <4>1, <5>1, <5>2
        <4>5. QED
          BY <4>e, <4>3, <4>4
    <2>2. InMessage
      BY <2>1 DEF InMessage
    <2>3. QED
      BY <1>1, <2>1, <2>2, QuietShows
  <1>8. CASE EndMessage \/ PacketEnd
    <2>1. rd'.phase \in {"messages", "packet_end"} /\ rd'.buf = rd.buf
      BY <1>1, <1>8 DEF EndMessage, PacketEnd, Records
    <2>2. QED
      BY <1>1, <2>1, QuietShows DEF InMessage
  <1>9. QED
    BY <1>2, <1>3, <1>4, <1>5, <1>6, <1>7, <1>8

\* An entry takes a TLV by the array if and only if it does by the merge.
LEMMA TakenIs ==
    ASSUME NEW x, NEW es, es = EntriesOf(x), Distinct(es), NEW w, IsSort(es, Len(es), w),
           NEW k \in DOMAIN es, NEW j \in 1 .. Len(w), w[j] = es[k], NEW v
    PROVE  TakenBy(x, k, v) <=> FirstFit(w, v, j)
  <1>1. /\ Len(w) \in Nat /\ DOMAIN w = 1 .. Len(w) /\ \A a \in 1 .. Len(w) : w[a] \in Entries
        /\ \A a, m \in 1 .. Len(w) : w[a] = w[m] => a = m
    BY SortDistinct
  <1>2. /\ Len(es) \in Nat /\ DOMAIN es = 1 .. Len(es)
        /\ \A a, m \in DOMAIN es : es[a] = es[m] => a = m
    BY DEF Distinct
  <1>3. /\ \A a \in 1 .. Len(w) : \E m \in 1 .. Len(es) : es[m] = w[a]
        /\ \A m \in 1 .. Len(es) : \E a \in 1 .. Len(w) : w[a] = es[m]
        /\ \A a, m \in 1 .. Len(w) : a < m => Before(es, w[a], w[m])
    BY <1>1 DEF IsSort
  <1>4. TakenBy(x, k, v) <=>
           /\ FitsEntry(es[k], v)
           /\ \A m \in DOMAIN es : FitsEntry(es[m], v) =>
                 EntryKey(es[k]) < EntryKey(es[m]) \/ (EntryKey(es[k]) = EntryKey(es[m]) /\ k <= m)
    BY DEF TakenBy
  <1>5. \A e \in Entries : EntryKey(e) \in Nat
    BY KeyIs
  <1>6. ASSUME NEW a \in 1 .. Len(w), NEW m \in 1 .. Len(es), es[m] = w[a]
        PROVE  /\ a < j => EntryKey(es[m]) < EntryKey(es[k])
                           \/ (EntryKey(es[m]) = EntryKey(es[k]) /\ m < k)
               /\ j < a => EntryKey(es[k]) < EntryKey(es[m])
                           \/ (EntryKey(es[k]) = EntryKey(es[m]) /\ k < m)
    <2>1. ASSUME a < j PROVE EntryKey(es[m]) < EntryKey(es[k])
                             \/ (EntryKey(es[m]) = EntryKey(es[k]) /\ m < k)
      <3>1. Before(es, w[a], w[j])
        BY <1>3, <2>1
      <3>2. QED
        BY <1>2, <1>6, <3>1 DEF Before
    <2>2. ASSUME j < a PROVE EntryKey(es[k]) < EntryKey(es[m])
                             \/ (EntryKey(es[k]) = EntryKey(es[m]) /\ k < m)
      <3>1. Before(es, w[j], w[a])
        BY <1>3, <2>2
      <3>2. QED
        BY <1>2, <1>6, <3>1 DEF Before
    <2>3. QED
      BY <2>1, <2>2
  <1>7. ASSUME TakenBy(x, k, v) PROVE FirstFit(w, v, j)
    <2>1. ASSUME NEW a \in 1 .. j - 1, FitsEntry(w[a], v) PROVE FALSE
      <3>1. a \in 1 .. Len(w) /\ a < j
        BY <1>1
      <3>2. PICK m \in 1 .. Len(es) : es[m] = w[a]
        BY <1>3, <3>1
      <3>3. EntryKey(es[k]) < EntryKey(es[m]) \/ (EntryKey(es[k]) = EntryKey(es[m]) /\ k <= m)
        BY <1>2, <1>4, <1>7, <2>1, <3>2
      <3>4. EntryKey(es[m]) < EntryKey(es[k]) \/ (EntryKey(es[m]) = EntryKey(es[k]) /\ m < k)
        BY <1>6, <3>1, <3>2
      <3>5. EntryKey(es[m]) \in Nat /\ EntryKey(es[k]) \in Nat /\ m \in Nat /\ k \in Nat
        BY <1>1, <1>2, <1>5, <3>1, <3>2
      <3>6. QED
        BY ONLY <3>3, <3>4, <3>5
    <2>2. QED
      BY <1>4, <1>7, <2>1 DEF FirstFit
  <1>8. ASSUME FirstFit(w, v, j) PROVE TakenBy(x, k, v)
    <2>1. ASSUME NEW m \in DOMAIN es, FitsEntry(es[m], v)
          PROVE  EntryKey(es[k]) < EntryKey(es[m]) \/ (EntryKey(es[k]) = EntryKey(es[m]) /\ k <= m)
      <3>1. PICK a \in 1 .. Len(w) : w[a] = es[m]
        BY <1>2, <1>3
      <3>2. ~(a < j)
        <4>1. SUFFICES ASSUME a < j PROVE FALSE
          OBVIOUS
        <4>2. a \in 1 .. j - 1
          BY <1>1, <4>1
        <4>3. QED
          BY <1>8, <2>1, <3>1, <4>2 DEF FirstFit
      <3>3. CASE a = j
        BY <1>2, <3>1, <3>3
      <3>4. CASE a # j
        <4>1. j < a
          BY <1>1, <3>2, <3>4
        <4>2. EntryKey(es[k]) < EntryKey(es[m]) \/ (EntryKey(es[k]) = EntryKey(es[m]) /\ k < m)
          BY <1>2, <1>6, <3>1, <4>1
        <4>3. k \in Nat /\ m \in Nat
          BY <1>2
        <4>4. QED
          BY ONLY <4>2, <4>3
      <3>5. QED
        BY <3>3, <3>4
    <2>2. FitsEntry(es[k], v)
      BY <1>8 DEF FirstFit
    <2>3. QED
      BY <1>4, <2>1, <2>2
  <1>9. QED
    BY <1>7, <1>8

\* At the end of the loop all were compared.
LEMMA ShowsRight == SInv => BlockShownRight
  <1> SUFFICES ASSUME SInv, rd.phase = "tlvs", sched.t = 0, sched.e = NULL,
                      NEW k \in DOMAIN EntriesOf(sched.c)
      PROVE  LET block == tlvs[sched.b]
                 es    == EntriesOf(sched.c)
                 Shown == {n \in DOMAIN block :
                             /\ TakenBy(sched.c, k, block[n])
                             /\ block[n].index1 <= sched.i /\ sched.i <= block[n].index2
                             /\ <<sched.b, n, sched.i>> \notin dropped.tlv}
             IN  /\ Increasing(found[es[k]], Shown)
                 /\ \A n \in Shown : block[n].length > 0 =>
                       block[n].single = (IF block[n].multi THEN ValueFor(block[n], sched.i)
                                          ELSE block[n].values)
                 /\ ~sched.failed =>
                       /\ entry[es[k]].mandatory => Shown # {}
                       /\ \A n \in Shown : ~BadLength(es[k], block[n])
    BY DEF BlockShownRight
  <1> PICK x, b, i, B, es, failed, F, Shown :
           /\ x = sched.c /\ b = sched.b /\ i = sched.i /\ B = tlvs[b] /\ es = EntriesOf(x)
           /\ failed = sched.failed /\ F = found
           /\ Shown = {n \in DOMAIN B : /\ TakenBy(x, k, B[n])
                                        /\ B[n].index1 <= i /\ i <= B[n].index2
                                        /\ <<b, n, i>> \notin dropped.tlv}
    OBVIOUS
  <1>1. PICK w, p : MergedTo(x, b, i, 0, NULL, failed, w, p)
    BY DEF SInv, Merging
  <1>2. PICK S : S = ForAddress(B, b, i, dropped.tlv)
    OBVIOUS
  <1>3. /\ IsSort(es, Len(es), w) /\ NULL = (IF p <= Len(w) THEN w[p] ELSE NULL)
        /\ Merged(w, B, i, S, Len(B) + 1, p, F, failed)
    BY <1>1, <1>2 DEF MergedTo
  <1>4. Distinct(es) /\ Was(x)
    BY EntriesAre DEF SInv, ListsOk, Merging
  <1>5. /\ Len(w) \in Nat /\ \A j \in 1 .. Len(w) : w[j] \in Entries /\ w[j] # NULL
    BY <1>3, <1>4, SortDistinct, EntriesAssumption
  <1>6. p = Len(w) + 1
    <2>1. p \in 1 .. Len(w) + 1
      BY <1>3 DEF Merged
    <2>2. CASE p <= Len(w)
      <3>1. p \in 1 .. Len(w)
        BY <1>5, <2>1, <2>2
      <3>2. QED
        BY <1>3, <1>5, <2>2, <3>1
    <2>3. QED
      BY <1>5, <2>1, <2>2
  <1>7. BlockOk(B) /\ Len(B) \in Nat /\ DOMAIN B = 1 .. Len(B) /\ \A n \in 1 .. Len(B) : IsTlv(B[n])
    BY DEF SInv, BlocksOk, BlockOk, IsSeq
  <1>8. PICK j \in 1 .. Len(w) : w[j] = es[k]
    <2>1. k \in 1 .. Len(es) /\ DOMAIN w = 1 .. Len(w)
      BY <1>3, <1>4, SortDistinct DEF Distinct
    <2>2. QED
      BY <1>3, <2>1 DEF IsSort
  <1>9. \A v : TakenBy(x, k, v) <=> FirstFit(w, v, j)
    <2> SUFFICES ASSUME NEW v PROVE TakenBy(x, k, v) <=> FirstFit(w, v, j)
      OBVIOUS
    <2>1. es = EntriesOf(x) /\ k \in DOMAIN es
      OBVIOUS
    <2>2. QED
      BY ONLY <1>3, <1>4, <1>8, <2>1, TakenIs
  <1>10. Shown = Taken(w, B, S, Len(B) + 1, j) /\ Shown \subseteq S
    <2>1. ASSUME NEW n PROVE n \in Shown <=> n \in Taken(w, B, S, Len(B) + 1, j)
      <3>1. n \in DOMAIN B => n < Len(B) + 1
        BY <1>7
      <3>2. n \in Shown <=> n \in S /\ TakenBy(x, k, B[n])
        BY <1>2 DEF ForAddress
      <3>3. n \in S => n \in DOMAIN B
        BY <1>2 DEF ForAddress
      <3>4. QED
        BY <1>9, <3>1, <3>2, <3>3 DEF Taken
    <2>2. QED
      BY <2>1 DEF Taken
  <1>11. /\ j <= p /\ j < p
         /\ Increasing(F[w[j]], Taken(w, B, S, Len(B) + 1, j))
         /\ ~failed => /\ entry[w[j]].mandatory => F[w[j]] # <<>>
                       /\ \A n \in Taken(w, B, S, Len(B) + 1, j) : ~BadLength(w[j], B[n])
         /\ \A n \in S : n < Len(B) + 1 /\ B[n].multi => B[n].single = ValueFor(B[n], i)
    <2>1. j <= p /\ j < p
      BY <1>5, <1>6
    <2>2. QED
      BY <1>3, <2>1 DEF Merged
  <1>12. Increasing(F[es[k]], Shown)
    BY <1>8, <1>10, <1>11
  <1>13. ASSUME NEW n \in Shown, B[n].length > 0
         PROVE  B[n].single = (IF B[n].multi THEN ValueFor(B[n], i) ELSE B[n].values)
    <2>1. n \in S /\ n \in 1 .. Len(B) /\ n < Len(B) + 1 /\ IsTlv(B[n])
      BY <1>7, <1>10
    <2>2. ~B[n].multi => B[n].single = B[n].values
      BY <1>13, <2>1 DEF IsTlv
    <2>3. QED
      BY <1>11, <2>1, <2>2
  <1>14. ASSUME ~failed
         PROVE  /\ entry[es[k]].mandatory => Shown # {}
                /\ \A n \in Shown : ~BadLength(es[k], B[n])
    <2>1. /\ entry[es[k]].mandatory => F[es[k]] # <<>>
          /\ \A n \in Shown : ~BadLength(es[k], B[n])
      BY <1>8, <1>10, <1>11, <1>14
    <2>2. ASSUME F[es[k]] # <<>> PROVE Shown # {}
      <3> PICK s : s = F[es[k]]
        OBVIOUS
      <3>1. s \in Seq(Shown) /\ s # <<>>
        BY <1>12, <2>2 DEF Increasing
      <3>2. Len(s) \in Nat /\ Len(s) # 0
        BY <3>1, EmptySeq
      <3>3. s[1] \in Shown
        BY <3>1, <3>2, ElementOfSeq
      <3>4. QED
        BY <3>3
    <2>3. QED
      BY <2>1, <2>2
  <1>15. QED
    BY <1>12, <1>13, <1>14

\* Every step of the reader and of its set-up keeps the invariant.
LEMMA NothingShown == ReaderInit => SInv
  <1> SUFFICES ASSUME ReaderInit PROVE SInv
    OBVIOUS
  <1>1. ListsOk
    BY NoLists
  <1>2. rd.phase = "idle" /\ rd.buf = <<>>
    BY DEF ReaderInit, AtRest
  <1>3. tlvs = [b \in {0} |-> <<>>] /\ found = [e \in Entries |-> <<>>]
    BY DEF ReaderInit
  <1>4. <<>> \in Seq(0 .. 255) /\ <<>> \in Seq({}) /\ DOMAIN (<<>>) = {}
    OBVIOUS
  <1>5. BlockOk(<<>>)
    BY <1>4 DEF BlockOk, IsSeq
  <1>6. DOMAIN tlvs = {0} /\ tlvs[0] = <<>>
    BY <1>3
  <1>7. BlocksOk
    BY <1>2, <1>3, <1>4, <1>5, <1>6 DEF BlocksOk, InMessage
  <1>8. QED
    BY <1>1, <1>2, <1>7 DEF SInv, Merging

LEMMA StepShows == IInv /\ BInv /\ SInv /\ [Register \/ ReadAny \/ ReaderStep]_rvars => SInv'
  <1> SUFFICES ASSUME IInv, BInv, SInv, [Register \/ ReadAny \/ ReaderStep]_rvars PROVE SInv'
    OBVIOUS
  <1>1. CASE Register
    <2>1. /\ rd.phase = "idle" /\ rd' = rd /\ msg' = msg /\ tlvs' = tlvs /\ sched' = sched
          /\ found' = found
      BY <1>1 DEF Register
    <2>2. ListsOk'
      BY <1>1, RegisterLists DEF SInv
    <2>3. BlocksOk' /\ Merging'
      BY <2>1 DEF SInv, BlocksOk, Merging, InMessage
    <2>4. QED
      BY <2>2, <2>3 DEF SInv
  <1>2. CASE PacketDone
    <2>1. /\ rd' = AtRest /\ tlvs' = [b \in {0} |-> <<>>] /\ found' = [e \in Entries |-> <<>>]
          /\ lists' = lists /\ done' = done
      BY <1>2 DEF PacketDone
    <2>2. ListsOk'
      BY <2>1, SameLists DEF SInv
    <2>3. QED
      BY <2>1, <2>2, RestShows
  <1>3. CASE UNCHANGED rvars
    <2>1. /\ lists' = lists /\ done' = done /\ rd' = rd /\ msg' = msg /\ tlvs' = tlvs
          /\ sched' = sched /\ found' = found /\ dropped' = dropped
      BY <1>3 DEF rvars
    <2>2. ListsOk'
      BY <2>1, SameLists DEF SInv
    <2>3. BlocksOk'
      BY <2>1 DEF SInv, BlocksOk, InMessage
    <2>4. Merging'
      BY <2>1 DEF SInv, Merging, MergedTo, Was, EntriesOf
    <2>5. QED
      BY <2>2, <2>3, <2>4 DEF SInv
  <1>4. QED
    BY <1>1, <1>2, <1>3, ReadShows, ScheduleTurnShows, PacketConsumerShows, ParseMessageShows,
       MessageConsumerShows, StartAddressShows, OtherStepsShow DEF ReaderStep

\* Each entry of a consumer is shown exactly the TLVs of its type that are for the
\* address and that nobody dropped, in their order and with the address' own value,
\* and a block is complete only if nothing mandatory is missing (_schedule_tlvblock).
THEOREM BlocksAreShownRight == ReaderSpec => []BlockShownRight
  <1>1. ReaderInit => IInv /\ BInv /\ SInv
    BY InitOk, NothingKept, NothingShown
  <1>2. IInv /\ BInv /\ SInv /\ [Register \/ ReadAny \/ ReaderStep]_rvars => (IInv /\ BInv /\ SInv)'
    BY NextOk, StepKeeps, StepShows
  <1>3. IInv /\ BInv /\ SInv => BlockShownRight
    BY ShowsRight
  <1>4. QED
    BY <1>1, <1>2, <1>3, PTL DEF ReaderSpec
=============================================================================

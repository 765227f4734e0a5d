------------------------- MODULE ContentStoreProofs -------------------------
(***************************************************************************)
(* Proofs about LruCache and ContentStore, for every set of chunks and     *)
(* every size of the stores.                                               *)
(*                                                                         *)
(* ListIsSound is not inductive: a chunk that is its neighbour's neighbour *)
(* on both sides satisfies it, and moving that chunk would break the list. *)
(* What excludes such a circle is that the elements form one chain from    *)
(* mru to lru (Chain).  That no timer is started twice and that the stores *)
(* hold no chunk twice needs the PIT: what is waited for with the right to *)
(* be stored is not in the store.                                          *)
(***************************************************************************)
EXTENDS ContentStore, FiniteSetTheorems, SequenceTheorems, TLAPS

-----------------------------------------------------------------------------
(***************************************************************************)
(* The doubly linked list.                                                 *)
(***************************************************************************)

\* The elements of the map, from the most to the least recently used, are those of
\* s, and the pointers are those of s.
Chain(s) ==
  /\ s \in [1 .. actual_size -> Chunk]
  /\ \A i, j \in 1 .. actual_size : s[i] = s[j] => i = j
  /\ cache = {s[i] : i \in 1 .. actual_size}
  /\ actual_size > 0 => mru = s[1] /\ lru = s[actual_size]
  /\ \A i \in 1 .. actual_size :
       /\ older[s[i]] = IF i = actual_size THEN Null ELSE s[i + 1]
       /\ newer[s[i]] = IF i = 1 THEN Null ELSE s[i - 1]

\* The types of the pointers.
Pointers ==
  /\ cache \in SUBSET Chunk
  /\ older \in [Chunk -> Pointer] /\ newer \in [Chunk -> Pointer]
  /\ lru \in Pointer /\ mru \in Pointer
  /\ cache_size \in Nat \ {0} /\ actual_size \in 0 .. cache_size

\* c in front of the first elements of s without its j-th: n in all.
Fronted(c, s, j, n) == [k \in 1 .. n |-> IF k = 1 THEN c ELSE IF k <= j THEN s[k - 1] ELSE s[k]]

\* A chunk of the list is an element of the chain, and no other chunk is.
LEMMA ChainCovers ==
  ASSUME NEW s, Chain(s), NEW c \in Chunk
  PROVE  c \in cache <=> \E j \in 1 .. actual_size : c = s[j]
BY DEF Chain

\* Moving an element that is not the first one makes the chain that begins with it
\* and goes on as before without it.
LEMMA ChainMoveToFront ==
  ASSUME Pointers, NEW s, Chain(s), NEW j \in 1 .. actual_size, j # 1,
         MoveToFront(s[j]), UNCHANGED <<cache, actual_size, cache_size>>
  PROVE  Pointers' /\ \E t : t = Fronted(s[j], s, j, actual_size) /\ Chain(t)'
<1> USE LruAssumption
<1> DEFINE c == s[j]
           o == older[c]
           n == newer[c]
<1> PICK t : t = Fronted(c, s, j, actual_size)
  OBVIOUS
<1>0. /\ actual_size \in Nat /\ j \in Nat /\ j > 1 /\ j <= actual_size
      /\ s \in [1 .. actual_size -> Chunk]
      /\ \A i, k \in 1 .. actual_size : s[i] = s[k] => i = k
  BY DEF Pointers, Chain
<1>1. /\ n = s[j - 1] /\ n \in Chunk
      /\ o = IF j = actual_size THEN Null ELSE s[j + 1]
      /\ o \in Pointer
      /\ mru = s[1] /\ lru = s[actual_size]
  BY <1>0 DEF Chain, Pointer
<1>2. /\ older' = [older EXCEPT ![n] = o, ![c] = mru]
      /\ newer' = [d \in Chunk |-> CASE d = c   -> Null
                                     [] d = mru -> c
                                     [] d = o   -> n
                                     [] OTHER   -> newer[d]]
      /\ lru' = IF o = Null THEN n ELSE lru
      /\ mru' = c
  BY DEF MoveToFront
<1>3. /\ older'[c] = mru /\ older'[n] = o
      /\ \A d \in Chunk : d \notin {c, n} => older'[d] = older[d]
  BY <1>0, <1>1, <1>2 DEF Pointers
<1>4. /\ newer'[c] = Null /\ newer'[mru] = c
      /\ o # Null => newer'[o] = n
      /\ \A d \in Chunk : d \notin {c, mru, o} => newer'[d] = newer[d]
  BY <1>0, <1>1, <1>2, SMTT(20) DEF Pointer
<1>5. /\ t[1] = c
      /\ \A k \in 2 .. j : t[k] = s[k - 1]
      /\ \A k \in (j + 1) .. actual_size : t[k] = s[k]
      /\ t \in [1 .. actual_size -> Chunk]
  BY <1>0 DEF Fronted
<1>6. Pointers'
  <2>1. newer' \in [Chunk -> Pointer]
    <3>1. \A d \in Chunk : newer'[d] \in Pointer
      BY <1>0, <1>1, <1>4 DEF Pointers, Pointer
    <3> QED
      BY <1>2, <3>1
  <2>2. older' \in [Chunk -> Pointer]
    BY <1>1, <1>2 DEF Pointers
  <2> QED
    BY <1>0, <1>1, <1>2, <2>1, <2>2 DEF Pointers, Pointer
<1>7. \A i, k \in 1 .. actual_size : t[i] = t[k] => i = k
  BY <1>0, <1>5
<1>8. cache = {t[i] : i \in 1 .. actual_size}
  <2>1. ASSUME NEW i \in 1 .. actual_size
        PROVE  \E k \in 1 .. actual_size : s[i] = t[k]
    <3>1. CASE i = j
      BY <1>0, <1>5, <3>1
    <3>2. CASE i < j
      <4>1. i + 1 \in 2 .. j /\ i + 1 \in 1 .. actual_size /\ (i + 1) - 1 = i
        BY <1>0, <3>2
      <4> QED
        BY <1>5, <4>1
    <3>3. CASE i > j
      BY <1>0, <1>5, <3>3
    <3> QED
      BY <1>0, <3>1, <3>2, <3>3
  <2>2. ASSUME NEW i \in 1 .. actual_size
        PROVE  \E k \in 1 .. actual_size : t[i] = s[k]
    <3>1. CASE i = 1
      BY <1>0, <1>5, <3>1
    <3>2. CASE i \in 2 .. j
      <4>1. i - 1 \in 1 .. actual_size
        BY <1>0, <3>2
      <4> QED
        BY <1>5, <3>2, <4>1
    <3>3. CASE i > j
      BY <1>0, <1>5, <3>3
    <3> QED
      BY <1>0, <3>1, <3>2, <3>3
  <2>3. cache = {s[i] : i \in 1 .. actual_size}
    BY DEF Chain
  <2> QED
    BY <2>1, <2>2, <2>3
<1>9. mru' = t[1] /\ lru' = t[actual_size]
  BY <1>0, <1>1, <1>2, <1>5
<1>10. ASSUME NEW i \in 1 .. actual_size
       PROVE  older'[t[i]] = IF i = actual_size THEN Null ELSE t[i + 1]
  <2>1. CASE i = 1
    BY <1>0, <1>1, <1>3, <1>5, <2>1
  <2>2. CASE i \in 2 .. j /\ i # j
    <3>1. t[i] = s[i - 1] /\ t[i + 1] = s[i] /\ i - 1 \in 1 .. actual_size /\ i # actual_size
      BY <1>0, <1>5, <2>2
    <3>2. older[s[i - 1]] = s[i]
      BY <1>0, <2>2, <3>1 DEF Chain
    <3>3. s[i - 1] # s[j] /\ s[i - 1] # s[j - 1]
      BY <1>0, <2>2, <3>1
    <3> QED
      BY <1>0, <1>1, <1>3, <3>1, <3>2, <3>3
  <2>3. CASE i = j
    BY <1>0, <1>1, <1>3, <1>5, <2>3
  <2>4. CASE i > j
    <3>1. t[i] = s[i] /\ (i # actual_size => t[i + 1] = s[i + 1])
      BY <1>0, <1>5, <2>4
    <3>2. s[i] # s[j] /\ s[i] # s[j - 1]
      BY <1>0, <2>4
    <3>3. older'[s[i]] = older[s[i]]
      BY <1>0, <1>1, <1>3, <3>2
    <3> QED
      BY <1>0, <3>1, <3>3 DEF Chain
  <2> QED
    BY <1>0, <2>1, <2>2, <2>3, <2>4
<1>11. ASSUME NEW i \in 1 .. actual_size
       PROVE  newer'[t[i]] = IF i = 1 THEN Null ELSE t[i - 1]
  <2>1. CASE i = 1
    BY <1>4, <1>5, <2>1
  <2>2. CASE i = 2
    BY <1>0, <1>1, <1>4, <1>5, <2>2
  <2>3. CASE i \in 3 .. j
    <3>1. t[i] = s[i - 1] /\ t[i - 1] = s[i - 2] /\ i - 1 \in 2 .. actual_size
      BY <1>0, <1>5, <2>3
    <3>2. newer[s[i - 1]] = s[i - 2]
      BY <1>0, <2>3, <3>1 DEF Chain
    <3>3. s[i - 1] \notin {s[j], s[1]} /\ s[i - 1] # o
      BY <1>0, <1>1, <2>3, <3>1
    <3> QED
      BY <1>0, <1>1, <1>4, <3>1, <3>2, <3>3
  <2>4. CASE i = j + 1
    BY <1>0, <1>1, <1>4, <1>5, <2>4
  <2>5. CASE i > j + 1
    <3>1. t[i] = s[i] /\ t[i - 1] = s[i - 1]
      BY <1>0, <1>5, <2>5
    <3>2. s[i] \notin {s[j], s[1]} /\ s[i] # o
      BY <1>0, <1>1, <2>5
    <3>3. newer'[s[i]] = newer[s[i]]
      BY <1>0, <1>1, <1>4, <3>2
    <3> QED
      BY <1>0, <2>5, <3>1, <3>3 DEF Chain
  <2> QED
    BY <1>0, <2>1, <2>2, <2>3, <2>4, <2>5
<1>12. Chain(t)'
  BY <1>0, <1>5, <1>7, <1>8, <1>9, <1>10, <1>11, ZenonT(30) DEF Chain
<1> QED
  BY <1>6, <1>12

\* The next chain, given its length.
LEMMA ChainOfNext ==
  ASSUME NEW t, NEW n, actual_size' = n,
         t \in [1 .. n -> Chunk],
         \A i, j \in 1 .. n : t[i] = t[j] => i = j,
         cache' = {t[i] : i \in 1 .. n},
         mru' = t[1] /\ lru' = t[n],
         \A i \in 1 .. n : older'[t[i]] = IF i = n THEN Null ELSE t[i + 1],
         \A i \in 1 .. n : newer'[t[i]] = IF i = 1 THEN Null ELSE t[i - 1]
  PROVE  Chain(t)'
BY DEF Chain

\* The first chunk, a chunk in front, and a chunk in front of all but the last, each
\* makes the chain that begins with it.
LEMMA ChainStoreFirst ==
  ASSUME Pointers, NEW s, Chain(s), NEW c \in Chunk, c \notin cache,
         StoreFirst(c), UNCHANGED cache_size
  PROVE  Pointers' /\ \E t : t = Fronted(c, s, 1, 1) /\ Chain(t)'
<1> USE LruAssumption DEF Pointers, Pointer
<1> PICK t : t = Fronted(c, s, 1, 1)
  OBVIOUS
<1>1. actual_size = 0 /\ cache = {}
  BY DEF StoreFirst, Chain
<1>2. /\ cache' = {c} /\ lru' = c /\ mru' = c /\ actual_size' = 1
      /\ older' = [older EXCEPT ![c] = Null] /\ newer' = [newer EXCEPT ![c] = Null]
  BY <1>1 DEF StoreFirst
<1>3. t \in [1 .. 1 -> Chunk] /\ t[1] = c
  BY DEF Fronted
<1>4. Pointers'
  BY <1>2
<1>5. older'[c] = Null /\ newer'[c] = Null
  BY <1>2
<1>6. Chain(t)'
  BY <1>2, <1>3, <1>5 DEF Chain
<1> QED
  BY <1>4, <1>6

LEMMA ChainStoreInFront ==
  ASSUME Pointers, NEW s, Chain(s), NEW c \in Chunk, c \notin cache,
         StoreInFront(c), UNCHANGED cache_size
  PROVE  Pointers' /\ \E t : t = Fronted(c, s, actual_size + 1, actual_size + 1) /\ Chain(t)'
<1> USE LruAssumption
<1> PICK t : t = Fronted(c, s, actual_size + 1, actual_size + 1)
  OBVIOUS
<1>0. /\ actual_size \in Nat \ {0} /\ actual_size # cache_size
      /\ s \in [1 .. actual_size -> Chunk]
      /\ \A i, k \in 1 .. actual_size : s[i] = s[k] => i = k
      /\ mru = s[1] /\ lru = s[actual_size]
      /\ \A i \in 1 .. actual_size : s[i] # c
  BY DEF Pointers, StoreInFront, Chain
<1>1. /\ cache' = cache \cup {c}
      /\ older' = [older EXCEPT ![c] = mru]
      /\ newer' = [newer EXCEPT ![mru] = c, ![c] = Null]
      /\ mru' = c /\ lru' = lru /\ actual_size' = actual_size + 1
      /\ UNCHANGED cache_size
  BY DEF StoreInFront
<1>2. /\ older'[c] = mru /\ newer'[c] = Null /\ newer'[mru] = c
      /\ \A d \in Chunk : d # c => older'[d] = older[d]
      /\ \A d \in Chunk : d # c /\ d # mru => newer'[d] = newer[d]
  BY <1>0, <1>1 DEF Pointers
<1>3. /\ t \in [1 .. actual_size + 1 -> Chunk]
      /\ t[1] = c /\ \A k \in 2 .. actual_size + 1 : t[k] = s[k - 1]
  BY <1>0 DEF Fronted
<1>4. Pointers'
  BY <1>0, <1>1 DEF Pointers, Pointer
<1>5. \A i, k \in 1 .. actual_size + 1 : t[i] = t[k] => i = k
  BY <1>0, <1>3
<1>6. cache' = {t[i] : i \in 1 .. actual_size + 1}
  <2>1. ASSUME NEW i \in 1 .. actual_size
        PROVE  \E k \in 1 .. actual_size + 1 : s[i] = t[k]
    <3>1. i + 1 \in 2 .. actual_size + 1 /\ (i + 1) - 1 = i
      BY <1>0
    <3> QED
      BY <1>3, <3>1
  <2>2. ASSUME NEW i \in 2 .. actual_size + 1
        PROVE  \E k \in 1 .. actual_size : t[i] = s[k]
    <3>1. i - 1 \in 1 .. actual_size
      BY <1>0
    <3> QED
      BY <1>3, <3>1
  <2>3. cache = {s[i] : i \in 1 .. actual_size}
    BY DEF Chain
  <2>4. 1 \in 1 .. actual_size + 1 /\ \A i \in 1 .. actual_size + 1 : i = 1 \/ i \in 2 .. actual_size + 1
    BY <1>0
  <2> QED
    BY <1>1, <1>3, <2>1, <2>2, <2>3, <2>4
<1>7. mru' = t[1] /\ lru' = t[actual_size + 1]
  BY <1>0, <1>1, <1>3
<1>8. ASSUME NEW i \in 1 .. actual_size + 1
      PROVE  older'[t[i]] = IF i = actual_size + 1 THEN Null ELSE t[i + 1]
  <2>1. CASE i = 1
    BY <1>0, <1>2, <1>3, <2>1
  <2>2. CASE i # 1
    <3>1. t[i] = s[i - 1] /\ i - 1 \in 1 .. actual_size /\ (i # actual_size + 1 => t[i + 1] = s[i])
      BY <1>0, <1>3, <2>2
    <3>2. older[s[i - 1]] = IF i - 1 = actual_size THEN Null ELSE s[(i - 1) + 1]
      BY <3>1 DEF Chain
    <3> QED
      BY <1>0, <1>2, <3>1, <3>2
  <2> QED
    BY <2>1, <2>2
<1>9. ASSUME NEW i \in 1 .. actual_size + 1
      PROVE  newer'[t[i]] = IF i = 1 THEN Null ELSE t[i - 1]
  <2>1. CASE i = 1
    BY <1>2, <1>3, <2>1
  <2>2. CASE i = 2
    BY <1>0, <1>2, <1>3, <2>2
  <2>3. CASE i > 2
    <3>1. t[i] = s[i - 1] /\ t[i - 1] = s[i - 2] /\ i - 1 \in 2 .. actual_size
      BY <1>0, <1>3, <2>3
    <3>2. newer[s[i - 1]] = s[i - 2]
      <4>1. newer[s[i - 1]] = IF i - 1 = 1 THEN Null ELSE s[(i - 1) - 1]
        BY <1>0, <3>1, SMTT(20) DEF Chain
      <4>2. i - 1 # 1 /\ (i - 1) - 1 = i - 2
        BY <1>0, <3>1
      <4> QED
        BY <4>1, <4>2
    <3>3. s[i - 1] # c /\ s[i - 1] # mru
      BY <1>0, <3>1
    <3> QED
      BY <1>0, <1>2, <2>3, <3>1, <3>2, <3>3
  <2> QED
    BY <1>0, <2>1, <2>2, <2>3
<1>10. Chain(t)'
  <2>1. actual_size' = actual_size + 1
    BY <1>1
  <2> QED
    BY <2>1, <1>3, <1>5, <1>6, <1>7, <1>8, <1>9, ChainOfNext
<1> QED
  BY <1>4, <1>10

LEMMA ChainStoreAndEvict ==
  ASSUME Pointers, NEW s, Chain(s), NEW c \in Chunk, c \notin cache,
         StoreAndEvict(c), UNCHANGED cache_size
  PROVE  Pointers' /\ \E t : t = Fronted(c, s, actual_size, actual_size) /\ Chain(t)'
<1> USE LruAssumption
<1> DEFINE linked == [newer EXCEPT ![mru] = c, ![c] = Null]
           next == linked[lru]
<1> PICK t : t = Fronted(c, s, actual_size, actual_size)
  OBVIOUS
<1>0. /\ actual_size \in Nat \ {0}
      /\ s \in [1 .. actual_size -> Chunk]
      /\ \A i, k \in 1 .. actual_size : s[i] = s[k] => i = k
      /\ mru = s[1] /\ lru = s[actual_size]
      /\ \A i \in 1 .. actual_size : s[i] # c
  BY DEF Pointers, StoreAndEvict, Chain
<1>1. /\ cache' = (cache \ {lru}) \cup {c}
      /\ newer' = [linked EXCEPT ![lru] = Null]
      /\ lru' = next
      /\ older' = [older EXCEPT ![c] = IF next = c THEN Null ELSE mru, ![next] = Null]
      /\ mru' = c
      /\ UNCHANGED <<actual_size, cache_size>>
  BY DEF StoreAndEvict
<1>2. /\ linked[c] = Null /\ linked[mru] = c
      /\ \A d \in Chunk : d # c /\ d # mru => linked[d] = newer[d]
      /\ linked \in [Chunk -> Pointer]
  BY <1>0 DEF Pointers, Pointer
<1>3. /\ t \in [1 .. actual_size -> Chunk]
      /\ t[1] = c /\ \A k \in 2 .. actual_size : t[k] = s[k - 1]
  BY <1>0 DEF Fronted
<1>4. next = t[actual_size] /\ (next = c <=> actual_size = 1)
  <2>1. CASE actual_size = 1
    BY <1>0, <1>2, <1>3, <2>1
  <2>2. CASE actual_size # 1
    <3>1. lru # mru /\ newer[lru] = s[actual_size - 1] /\ actual_size - 1 \in 1 .. actual_size
      BY <1>0, <2>2 DEF Chain
    <3>2. t[actual_size] = s[actual_size - 1]
      BY <1>0, <1>3, <2>2
    <3> QED
      BY <1>0, <1>2, <2>2, <3>1, <3>2
  <2> QED
    BY <2>1, <2>2
<1> HIDE DEF linked, next
<1>5. next \in Chunk
  BY <1>0, <1>3, <1>4
<1>6. /\ \A d \in Chunk : d # lru => newer'[d] = linked[d]
      /\ older'[next] = Null
      /\ next # c => older'[c] = mru
      /\ \A d \in Chunk : d # c /\ d # next => older'[d] = older[d]
  BY <1>0, <1>1, <1>2, <1>5 DEF Pointers
<1>7. Pointers'
  BY <1>0, <1>1, <1>2, <1>5 DEF Pointers, Pointer
<1>8. \A i, k \in 1 .. actual_size : t[i] = t[k] => i = k
  BY <1>0, <1>3
<1>9. cache' = {t[i] : i \in 1 .. actual_size}
  <2>1. ASSUME NEW d \in cache, d # lru
        PROVE  \E k \in 1 .. actual_size : d = t[k]
    <3>1. PICK i \in 1 .. actual_size : d = s[i]
      BY DEF Chain
    <3>2. i + 1 \in 2 .. actual_size /\ (i + 1) - 1 = i
      BY <1>0, <2>1, <3>1
    <3>3. t[i + 1] = s[(i + 1) - 1]
      BY <1>3, <3>2
    <3>4. i + 1 \in 1 .. actual_size
      BY <1>0, <3>2
    <3> QED
      BY <3>1, <3>2, <3>3, <3>4
  <2>2. ASSUME NEW i \in 2 .. actual_size
        PROVE  t[i] \in cache /\ t[i] # lru
    <3>1. i - 1 \in 1 .. actual_size /\ i - 1 # actual_size /\ t[i] = s[i - 1]
      BY <1>0, <1>3
    <3> QED
      BY <1>0, <3>1 DEF Chain
  <2>3. 1 \in 1 .. actual_size /\ \A i \in 1 .. actual_size : i = 1 \/ i \in 2 .. actual_size
    BY <1>0
  <2> QED
    BY <1>1, <1>3, <2>1, <2>2, <2>3
<1>10. ASSUME NEW i \in 1 .. actual_size
       PROVE  older'[t[i]] = IF i = actual_size THEN Null ELSE t[i + 1]
  <2>1. CASE i = actual_size
    BY <1>4, <1>6, <2>1
  <2>2. CASE i = 1 /\ i # actual_size
    BY <1>0, <1>3, <1>4, <1>6, <2>2
  <2>3. CASE i # 1 /\ i # actual_size
    <3>1. t[i] = s[i - 1] /\ i - 1 \in 1 .. actual_size /\ t[i + 1] = s[i]
      BY <1>0, <1>3, <2>3
    <3>2. older[s[i - 1]] = s[i]
      BY <1>0, <2>3, <3>1 DEF Chain
    <3>3. t[i] # c /\ t[i] # next /\ t[i] \in Chunk
      BY <1>0, <1>3, <1>4, <1>8, <2>3
    <3> QED
      BY <1>6, <2>3, <3>1, <3>2, <3>3
  <2> QED
    BY <2>1, <2>2, <2>3
<1>11. ASSUME NEW i \in 1 .. actual_size
       PROVE  newer'[t[i]] = IF i = 1 THEN Null ELSE t[i - 1]
  <2>1. t[i] # lru /\ t[i] \in Chunk /\ newer'[t[i]] = linked[t[i]]
    <3>1. t[i] # lru
      BY <1>0, <1>3
    <3> QED
      BY <1>3, <1>6, <3>1
  <2>2. CASE i = 1
    BY <1>2, <1>3, <2>1, <2>2
  <2>3. CASE i = 2
    BY <1>0, <1>2, <1>3, <2>1, <2>3
  <2>4. CASE i > 2
    <3>1. t[i] = s[i - 1] /\ t[i - 1] = s[i - 2] /\ i - 1 \in 2 .. actual_size
      BY <1>0, <1>3, <2>4
    <3>2. newer[s[i - 1]] = s[i - 2]
      <4>1. newer[s[i - 1]] = IF i - 1 = 1 THEN Null ELSE s[(i - 1) - 1]
        BY <1>0, <3>1 DEF Chain
      <4>2. i - 1 # 1 /\ (i - 1) - 1 = i - 2
        BY <1>0, <3>1
      <4> QED
        BY <4>1, <4>2
    <3>3. s[i - 1] # c /\ s[i - 1] # mru
      BY <1>0, <3>1
    <3> QED
      BY <1>0, <1>2, <2>1, <2>4, <3>1, <3>2, <3>3
  <2> QED
    BY <1>0, <2>2, <2>3, <2>4
<1>12. mru' = t[1] /\ lru' = t[actual_size]
  BY <1>1, <1>3, <1>4
<1>13. Chain(t)'
  <2>1. actual_size' = actual_size
    BY <1>1
  <2> QED
    BY <2>1, <1>3, <1>8, <1>9, <1>10, <1>11, <1>12 DEF Chain
<1> QED
  BY <1>7, <1>13

-----------------------------------------------------------------------------
(***************************************************************************)
(* What holds in a chain.                                                  *)
(***************************************************************************)

\* The list is as long as the map has keys.
LEMMA ChainCounts ==
  ASSUME Pointers, NEW s, Chain(s)
  PROVE  actual_size = Cardinality(cache) /\ IsFiniteSet(cache)
<1>1. actual_size \in Nat
  BY DEF Pointers
<1>2. /\ s \in [1 .. actual_size -> cache]
      /\ \A i, j \in 1 .. actual_size : s[i] = s[j] => i = j
      /\ \A c \in cache : \E i \in 1 .. actual_size : s[i] = c
  BY DEF Chain
<1>3. s \in Bijection(1 .. actual_size, cache)
  BY <1>2 DEF Bijection, Injection, Surjection, IsInjective
<1>4. ExistsBijection(1 .. actual_size, cache)
  BY <1>3 DEF ExistsBijection
<1> QED
  BY <1>1, <1>4, FS_CountingElements, FS_NatBijection

\* Every chunk of the map and its neighbours know each other.
LEMMA ChainIsSound ==
  ASSUME Pointers, NEW s, Chain(s)
  PROVE  /\ actual_size = Cardinality(cache)
         /\ cache # {} => lru \in cache /\ mru \in cache
         /\ \A c \in cache :
              /\ older[c] = Null <=> c = lru
              /\ newer[c] = Null <=> c = mru
              /\ c # lru => older[c] \in cache /\ newer[older[c]] = c
              /\ c # mru => newer[c] \in cache /\ older[newer[c]] = c
<1> USE LruAssumption
<1>1. /\ actual_size \in Nat
      /\ s \in [1 .. actual_size -> Chunk]
      /\ \A i, k \in 1 .. actual_size : s[i] = s[k] => i = k
      /\ \A i \in 1 .. actual_size : s[i] \in cache /\ s[i] # Null
      /\ actual_size > 0 => mru = s[1] /\ lru = s[actual_size]
  BY DEF Pointers, Chain
<1>2. ASSUME NEW c \in cache
      PROVE  /\ lru \in cache /\ mru \in cache
             /\ older[c] = Null <=> c = lru
             /\ newer[c] = Null <=> c = mru
             /\ c # lru => older[c] \in cache /\ newer[older[c]] = c
             /\ c # mru => newer[c] \in cache /\ older[newer[c]] = c
  <2>1. PICK i \in 1 .. actual_size : c = s[i]
    BY DEF Chain
  <2>2. actual_size > 0 /\ mru = s[1] /\ lru = s[actual_size]
    BY <1>1, <2>1
  <2>3. /\ older[c] = IF i = actual_size THEN Null ELSE s[i + 1]
        /\ newer[c] = IF i = 1 THEN Null ELSE s[i - 1]
    BY <2>1 DEF Chain
  <2>4. ASSUME i # actual_size
        PROVE  i + 1 \in 1 .. actual_size /\ newer[s[i + 1]] = s[i]
    <3>1. i + 1 \in 1 .. actual_size /\ i + 1 # 1 /\ (i + 1) - 1 = i
      BY <1>1, <2>4
    <3> QED
      BY <3>1 DEF Chain
  <2>5. ASSUME i # 1
        PROVE  i - 1 \in 1 .. actual_size /\ older[s[i - 1]] = s[i]
    <3>1. i - 1 \in 1 .. actual_size /\ i - 1 # actual_size /\ (i - 1) + 1 = i
      BY <1>1, <2>5
    <3> QED
      BY <3>1 DEF Chain
  <2>6. (c = lru <=> i = actual_size) /\ (c = mru <=> i = 1)
    BY <1>1, <2>1, <2>2
  <2>7. lru \in cache /\ mru \in cache
    BY <1>1, <2>2
  <2>8. older[c] = Null <=> c = lru
    BY <1>1, <2>3, <2>4, <2>6
  <2>9. newer[c] = Null <=> c = mru
    BY <1>1, <2>3, <2>5, <2>6
  <2> QED
    BY <1>1, <2>1, <2>3, <2>4, <2>5, <2>6, <2>7, <2>8, <2>9
<1> QED
  BY <1>2, ChainCounts

\* Induction over the natural numbers: a set of them has a least element.
LEMMA LeastNat ==
  ASSUME NEW T, T \subseteq Nat, T # {}
  PROVE  \E n \in T : \A m \in T : n <= m
<1>1. \E n \in T : \A m \in T : ~(<<m, n>> \in OpToRel(<, Nat))
  BY NatLessThanWellFounded, WFMin, Zenon
<1>2. \A m \in Nat, n \in Nat : m < n => <<m, n>> \in OpToRel(<, Nat)
  BY Zenon DEF OpToRel
<1>3. \A m \in Nat, n \in Nat : ~(m < n) => n <= m
  OBVIOUS
<1> QED
  BY <1>1, <1>2, <1>3, Zenon

\* What is seen on a walk from the MRU.
Order == [k \in 1 .. actual_size |-> Walk[k - 1]]

\* The walk is defined, and takes the elements of the chain one after the other.
LEMMA WalkFollowsChain ==
  ASSUME Pointers, NEW s, Chain(s), actual_size > 0
  PROVE  \A k \in 0 .. actual_size - 1 : Walk[k] = s[k + 1]
<1> USE LruAssumption
<1> DEFINE step(f) == [k \in 0 .. cache_size |->
                         IF k = 0 THEN mru
                         ELSE IF f[k - 1] = Null THEN Null ELSE older[f[k - 1]]]
           f0 == [k \in 0 .. cache_size |-> IF k < actual_size THEN s[k + 1] ELSE Null]
<1>1. /\ actual_size \in Nat \ {0} /\ cache_size \in Nat /\ actual_size <= cache_size
      /\ s \in [1 .. actual_size -> Chunk]
      /\ \A i \in 1 .. actual_size : s[i] # Null
      /\ mru = s[1]
      /\ \A i \in 1 .. actual_size : older[s[i]] = IF i = actual_size THEN Null ELSE s[i + 1]
  BY DEF Pointers, Chain
<1>2. f0 = step(f0)
  <2>1. ASSUME NEW k \in 0 .. cache_size
        PROVE  f0[k] = IF k = 0 THEN mru
                       ELSE IF f0[k - 1] = Null THEN Null ELSE older[f0[k - 1]]
    <3>1. CASE k = 0
      BY <1>1, <3>1
    <3>2. CASE k # 0
      <4>1. k - 1 \in 0 .. cache_size /\ k \in 1 .. cache_size /\ (k - 1) + 1 = k
        BY <1>1, <3>2
      <4>2. f0[k - 1] = IF k - 1 < actual_size THEN s[k] ELSE Null
        BY <4>1
      <4>3. CASE k <= actual_size
        <5>1. f0[k - 1] = s[k] /\ k \in 1 .. actual_size
          BY <1>1, <4>1, <4>2, <4>3
        <5>2. f0[k] = IF k = actual_size THEN Null ELSE s[k + 1]
          BY <1>1, <4>1, <4>3
        <5> QED
          BY <1>1, <3>2, <5>1, <5>2
      <4>4. CASE k > actual_size
        BY <1>1, <3>2, <4>1, <4>2, <4>4
      <4> QED
        BY <1>1, <4>1, <4>3, <4>4
    <3> QED
      BY <3>1, <3>2
  <2> QED
    BY <2>1
<1>3. Walk = step(Walk)
  <2> HIDE DEF step, f0
  <2>1. \E f : f = step(f)
    BY <1>2
  <2>2. Walk = CHOOSE f : f = step(f)
    BY DEF Walk, step
  <2> QED
    BY <2>1, <2>2, Zenon
<1>4. /\ Walk[0] = mru
      /\ \A k \in 1 .. cache_size :
           Walk[k] = IF Walk[k - 1] = Null THEN Null ELSE older[Walk[k - 1]]
  BY <1>1, <1>3
<1> DEFINE wrong == {k \in 0 .. actual_size - 1 : Walk[k] # s[k + 1]}
<1>5. SUFFICES ASSUME wrong # {} PROVE FALSE
  OBVIOUS
<1>6. PICK k \in wrong : \A m \in wrong : k <= m
  <2>1. wrong \subseteq Nat
    OBVIOUS
  <2> HIDE DEF wrong
  <2> QED
    BY <1>5, <2>1, LeastNat
<1>7. k # 0
  BY <1>1, <1>4, <1>6
<1>8. k - 1 \in 0 .. actual_size - 1 /\ k - 1 \notin wrong
  BY <1>1, <1>6, <1>7
<1>9. Walk[k - 1] = s[k]
  BY <1>1, <1>8
<1>10. k \in 1 .. cache_size /\ k \in 1 .. actual_size /\ k # actual_size
  BY <1>1, <1>6, <1>7
<1>11. Walk[k] = s[k + 1]
  BY <1>1, <1>4, <1>9, <1>10
<1> QED
  BY <1>6, <1>11

\* So the order of the walk is the chain.
LEMMA ChainIsOrder ==
  ASSUME Pointers, NEW s, Chain(s)
  PROVE  Order = s
<1>1. CASE actual_size = 0
  BY <1>1 DEF Order, Chain
<1>2. CASE actual_size # 0
  <2>1. actual_size \in Nat /\ actual_size > 0 /\ s \in [1 .. actual_size -> Chunk]
    BY <1>2 DEF Pointers, Chain
  <2>2. ASSUME NEW k \in 1 .. actual_size PROVE Walk[k - 1] = s[k]
    <3>1. k - 1 \in 0 .. actual_size - 1 /\ (k - 1) + 1 = k
      BY <2>1
    <3> QED
      BY <2>1, <3>1, WalkFollowsChain
  <2> QED
    BY <2>1, <2>2 DEF Order
<1> QED
  BY <1>1, <1>2

-----------------------------------------------------------------------------
(***************************************************************************)
(* The calls of the LRU store.                                             *)
(***************************************************************************)

\* The timers are those of chunks of the map, and run from the steady state on only.
Monitored ==
  /\ cache_size \in Sizes
  /\ stability \in BOOLEAN
  /\ answer \in [chunk : Chunk, found : BOOLEAN] \cup {NoLookup}
  /\ monitored_contents \subseteq cache
  /\ ~stability => monitored_contents = {}
  /\ exited = FALSE

LruInv == Pointers /\ (\E s : Chain(s)) /\ Monitored

LEMMA LruInitially == Init => LruInv
<1> SUFFICES ASSUME Init PROVE LruInv
  OBVIOUS
<1> USE LruAssumption DEF Init
<1>1. Pointers
  BY DEF Pointers, Pointer, Nowhere
<1>2. Chain(<<>>)
  BY DEF Chain
<1>3. Monitored
  BY DEF Monitored
<1> QED
  BY <1>1, <1>2, <1>3 DEF LruInv

\* The order of the walk is the chain, now and in the next state.
OrderIsChain == Pointers => \A s : Chain(s) => Order = s

LEMMA OrderIsChainHolds == OrderIsChain
  BY ChainIsOrder DEF OrderIsChain

LEMMA OrderIsChainNext == OrderIsChain'
  BY OrderIsChainHolds, PTL

LEMMA ChainIsSequence ==
  ASSUME Pointers, NEW s, Chain(s)
  PROVE  s \in Seq(Chunk) /\ Len(s) = actual_size /\ cache = ToSet(s)
<1>1. actual_size \in Nat /\ s \in [1 .. actual_size -> Chunk]
  BY DEF Pointers, Chain
<1>2. s \in Seq(Chunk) /\ Len(s) = actual_size /\ DOMAIN s = 1 .. actual_size
  BY <1>1
<1> QED
  BY <1>2 DEF Chain, ToSet

\* A chunk in front of the others, as the abstract cache says it.
LEMMA FrontedIsToFront ==
  ASSUME NEW s \in Seq(Chunk), NEW j \in 1 .. Len(s)
  PROVE  Fronted(s[j], s, j, Len(s)) = Recency!ToFront(j, s)
<1> DEFINE a == SubSeq(s, 1, j - 1)
           b == SubSeq(s, j + 1, Len(s))
           t == <<s[j]>> \o (a \o b)
<1>1. Len(s) \in Nat /\ j \in Nat /\ j >= 1 /\ j <= Len(s)
  OBVIOUS
<1>2. /\ a \in Seq(Chunk) /\ Len(a) = j - 1
      /\ \A k \in 1 .. j - 1 : a[k] = s[k]
  BY <1>1
<1>3. /\ b \in Seq(Chunk) /\ Len(b) = Len(s) - j
      /\ \A k \in 1 .. Len(s) - j : b[k] = s[j + k]
  <2>1. /\ b \in Seq(Chunk) /\ Len(b) = IF j + 1 <= Len(s) THEN Len(s) - (j + 1) + 1 ELSE 0
        /\ \A k \in 1 .. Len(b) : b[k] = s[(j + 1) + k - 1]
    BY <1>1, SMTT(20)
  <2> QED
    BY <1>1, <2>1
<1> HIDE DEF a, b
<1>4. /\ a \o b \in Seq(Chunk) /\ Len(a \o b) = Len(s) - 1
      /\ \A k \in 1 .. Len(s) - 1 : (a \o b)[k] = IF k < j THEN s[k] ELSE s[k + 1]
  <2>1. /\ a \o b \in Seq(Chunk) /\ Len(a \o b) = Len(a) + Len(b)
        /\ \A k \in 1 .. Len(a) + Len(b) :
             (a \o b)[k] = IF k <= Len(a) THEN a[k] ELSE b[k - Len(a)]
    BY <1>2, <1>3, ConcatProperties
  <2>2. ASSUME NEW k \in 1 .. Len(s) - 1
        PROVE  (a \o b)[k] = IF k < j THEN s[k] ELSE s[k + 1]
    <3>1. (a \o b)[k] = IF k <= j - 1 THEN a[k] ELSE b[k - (j - 1)]
      BY <1>1, <1>2, <1>3, <2>1
    <3>2. CASE k < j
      BY <1>1, <1>2, <3>1, <3>2
    <3>3. CASE k >= j
      <4>1. k - (j - 1) \in 1 .. Len(s) - j /\ j + (k - (j - 1)) = k + 1
        BY <1>1, <3>3
      <4>2. ~(k <= j - 1) /\ ~(k < j)
        BY <1>1, <3>3
      <4> QED
        BY <1>3, <3>1, <4>1, <4>2
    <3>4. k < j \/ k >= j
      BY <1>1
    <3> QED
      BY <3>2, <3>3, <3>4
  <2> QED
    <3>1. Len(a) + Len(b) = Len(s) - 1
      BY <1>1, <1>2, <1>3
    <3> QED
      BY <2>1, <2>2, <3>1
<1>5. /\ t \in Seq(Chunk) /\ Len(t) = Len(s)
      /\ t[1] = s[j]
      /\ \A k \in 2 .. Len(s) : t[k] = IF k <= j THEN s[k - 1] ELSE s[k]
  <2> DEFINE u == a \o b
  <2>1. /\ u \in Seq(Chunk) /\ Len(u) = Len(s) - 1
        /\ \A k \in 1 .. Len(s) - 1 : u[k] = IF k < j THEN s[k] ELSE s[k + 1]
    BY <1>4
  <2> HIDE DEF u
  <2>2. /\ <<s[j]>> \o u \in Seq(Chunk) /\ Len(<<s[j]>> \o u) = 1 + Len(u)
        /\ (<<s[j]>> \o u)[1] = s[j]
        /\ \A k \in 2 .. 1 + Len(u) : (<<s[j]>> \o u)[k] = u[k - 1]
    BY <1>1, <2>1
  <2>3. ASSUME NEW k \in 2 .. Len(s)
        PROVE  (<<s[j]>> \o u)[k] = IF k <= j THEN s[k - 1] ELSE s[k]
    <3>1. k - 1 \in 1 .. Len(s) - 1 /\ (k - 1) + 1 = k /\ (k - 1 < j <=> k <= j)
      BY <1>1
    <3>2. (<<s[j]>> \o u)[k] = u[k - 1]
      BY <1>1, <2>1, <2>2
    <3> QED
      BY <2>1, <3>1, <3>2
  <2>4. t = <<s[j]>> \o u
    BY DEF u
  <2> HIDE DEF t
  <2> QED
    BY <1>1, <2>1, <2>2, <2>3, <2>4
<1> HIDE DEF t
<1>6. t = [k \in 1 .. Len(s) |-> IF k = 1 THEN s[j] ELSE IF k <= j THEN s[k - 1] ELSE s[k]]
  BY <1>1, <1>5
<1>7. t = Recency!ToFront(j, s)
  BY DEF t, a, b, Recency!ToFront, Recency!RemoveAt
<1> QED
  BY <1>6, <1>7 DEF Fronted

LEMMA FrontedIsAdded ==
  ASSUME NEW s \in Seq(Chunk), NEW c \in Chunk
  PROVE  Fronted(c, s, Len(s) + 1, Len(s) + 1) = <<c>> \o s
<1> DEFINE t == <<c>> \o s
<1>1. /\ t \in Seq(Chunk) /\ Len(t) = Len(s) + 1 /\ t[1] = c
      /\ \A k \in 2 .. Len(s) + 1 : t[k] = s[k - 1]
  OBVIOUS
<1> HIDE DEF t
<1>2. t = [k \in 1 .. Len(s) + 1 |-> IF k = 1 THEN c ELSE IF k <= Len(s) + 1 THEN s[k - 1] ELSE s[k]]
  BY <1>1
<1> QED
  BY <1>2 DEF t, Fronted

LEMMA FrontedIsReplaced ==
  ASSUME NEW s \in Seq(Chunk), NEW c \in Chunk, Len(s) > 0
  PROVE  Fronted(c, s, Len(s), Len(s)) = <<c>> \o SubSeq(s, 1, Len(s) - 1)
<1> DEFINE u == SubSeq(s, 1, Len(s) - 1)
<1>1. /\ u \in Seq(Chunk) /\ Len(u) = Len(s) - 1
      /\ \A k \in 1 .. Len(s) - 1 : u[k] = s[k]
  BY SMTT(20)
<1> HIDE DEF u
<1>2. Fronted(c, u, Len(u) + 1, Len(u) + 1) = <<c>> \o u
  BY <1>1, FrontedIsAdded
<1>3. Fronted(c, u, Len(u) + 1, Len(u) + 1) = Fronted(c, s, Len(s), Len(s))
  BY <1>1 DEF Fronted
<1> QED
  BY <1>2, <1>3 DEF u

\* An order that becomes that of a chain t was that of a chain s.
LEMMA OrderNext ==
  ASSUME Pointers, Pointers', NEW s, Chain(s), NEW t, Chain(t)'
  PROVE  Order = s /\ Order' = t
BY OrderIsChainHolds, OrderIsChainNext DEF OrderIsChain

\* An unchanged list is an unchanged chain.
LEMMA ListStays ==
  ASSUME Pointers, NEW s, Chain(s), UNCHANGED <<listVars, cache_size>>
  PROVE  Pointers' /\ Chain(s)' /\ UNCHANGED Order
<1>1. Pointers'
  BY DEF Pointers, listVars
<1>2. Chain(s)'
  BY DEF Chain, listVars
<1> QED
  BY <1>1, <1>2, OrderNext

\* A chunk of the map that is renewed moves to the front of the order.
LEMMA RenewStep ==
  ASSUME Pointers, NEW s, Chain(s), NEW c \in cache, Renew(c), UNCHANGED cache_size
  PROVE  Pointers' /\ (\E t : Chain(t)') /\ Recency!Renew(c)
<1>1. PICK j \in 1 .. actual_size : c = s[j]
  BY DEF Chain
<1>2. \E t : t = Fronted(s[j], s, j, actual_size) /\ Pointers' /\ Chain(t)'
  <2>1. CASE newer[c] = Null
    <3>1. j = 1
      <4>1. s[j - 1] # Null \/ j = 1
        BY LruAssumption DEF Pointers, Chain
      <4> QED
        BY <1>1, <2>1, <4>1 DEF Chain
    <3>2. Pointers' /\ Chain(s)'
      BY <2>1, ListStays DEF Renew, listVars
    <3>3. s = Fronted(s[j], s, j, actual_size)
      BY <3>1 DEF Chain, Fronted, Pointers
    <3> QED
      BY <3>2, <3>3
  <2>2. CASE newer[c] # Null
    <3>1. j # 1
      BY <1>1, <2>2 DEF Chain
    <3>2. MoveToFront(c) /\ UNCHANGED <<cache, actual_size>>
      BY <2>2 DEF Renew
    <3> QED
      BY <1>1, <3>1, <3>2, ChainMoveToFront
  <2> QED
    BY <2>1, <2>2
<1>3. PICK t : t = Fronted(s[j], s, j, actual_size) /\ Pointers' /\ Chain(t)'
  BY <1>2
<1>4. s \in Seq(Chunk) /\ Len(s) = actual_size
  BY ChainIsSequence
<1>5. t = Recency!ToFront(j, s)
  BY <1>1, <1>3, <1>4, FrontedIsToFront
<1>6. Order = s /\ Order' = t
  BY <1>3, OrderNext
<1>7. j \in DOMAIN Order /\ Order[j] = c /\ Order' = Recency!ToFront(j, Order)
  BY <1>1, <1>5, <1>6 DEF Chain
<1>8. Recency!Renew(c)
  BY <1>7, Zenon DEF Recency!Renew, Order
<1> QED
  BY <1>3, <1>8

\* A new chunk becomes the first of the order, in place of the last if there is no room.
LEMMA AddStep ==
  ASSUME Pointers, NEW s, Chain(s), NEW c \in Chunk, c \notin cache, UNCHANGED cache_size,
         StoreFirst(c) \/ StoreInFront(c) \/ StoreAndEvict(c)
  PROVE  Pointers' /\ (\E t : Chain(t)') /\ Recency!Add(c)
<1> DEFINE n == actual_size
           added == <<c>> \o IF Len(s) = cache_size THEN SubSeq(s, 1, cache_size - 1) ELSE s
<1>1. /\ s \in Seq(Chunk) /\ Len(s) = n /\ cache = ToSet(s)
      /\ cache_size \in Nat \ {0} /\ n \in Nat
  BY ChainIsSequence DEF Pointers
<1>2. \E t : t = added /\ Pointers' /\ Chain(t)'
  <2>1. CASE StoreFirst(c)
    <3>1. n = 0
      BY <2>1 DEF StoreFirst
    <3>2. Fronted(c, s, 1, 1) = added
      <4>1. Len(s) + 1 = 1 /\ Len(s) # cache_size
        BY <1>1, <3>1
      <4>2. Fronted(c, s, Len(s) + 1, Len(s) + 1) = <<c>> \o s
        BY <1>1, FrontedIsAdded
      <4> QED
        BY <4>1, <4>2
    <3> HIDE DEF added
    <3> QED
      BY <2>1, <3>2, ChainStoreFirst
  <2>2. CASE StoreInFront(c)
    <3>1. n # cache_size
      BY <2>2 DEF StoreInFront
    <3>2. Fronted(c, s, n + 1, n + 1) = added
      BY <1>1, <3>1, FrontedIsAdded
    <3> HIDE DEF added
    <3> QED
      BY <2>2, <3>2, ChainStoreInFront
  <2>3. CASE StoreAndEvict(c)
    <3>1. n # 0 /\ n = cache_size
      BY <2>3 DEF StoreAndEvict
    <3>2. Fronted(c, s, n, n) = added
      <4>1. Len(s) = n /\ Len(s) = cache_size /\ Len(s) > 0
        BY <1>1, <3>1
      <4>2. Fronted(c, s, Len(s), Len(s)) = <<c>> \o SubSeq(s, 1, Len(s) - 1)
        BY <1>1, <4>1, FrontedIsReplaced
      <4> QED
        BY <4>1, <4>2
    <3> HIDE DEF added
    <3> QED
      BY <2>3, <3>2, ChainStoreAndEvict
  <2> QED
    BY <2>1, <2>2, <2>3
<1>3. PICK t : t = added /\ Pointers' /\ Chain(t)'
  BY <1>2
<1>4. Order = s /\ Order' = t
  BY <1>3, OrderNext
<1>5. c \notin ToSet(Order)
  BY <1>1, <1>4
<1>6. Order' = <<c>> \o IF Len(Order) = cache_size
                         THEN SubSeq(Order, 1, cache_size - 1) ELSE Order
  BY <1>3, <1>4
<1>7. Recency!Add(c)
  BY <1>5, <1>6, Zenon DEF Recency!Add, Recency!Held, Recency!ToSet, ToSet, Order
<1> QED
  BY <1>3, <1>7

\* The timers of the chunks of the map: a new chunk has none yet.
LEMMA MonitorStep ==
  ASSUME Monitored, NEW c \in Chunk, c \notin cache, NEW evicted, Monitor(c, evicted),
         cache' = (cache \ evicted) \cup {c}, UNCHANGED <<cache_size, stability, answer>>
  PROVE  Monitored'
<1>1. CASE stability
  <2>1. exited' = FALSE
    <3>1. exited' = (c \in monitored_contents)
      BY <1>1 DEF Monitor
    <3>2. (c \in monitored_contents) = FALSE
      BY DEF Monitored
    <3> QED
      BY <3>1, <3>2, Zenon
  <2>2. monitored_contents' \subseteq cache'
    BY <1>1 DEF Monitored, Monitor
  <2> QED
    BY <1>1, <2>1, <2>2 DEF Monitored
<1>2. CASE ~stability
  BY <1>2 DEF Monitored, Monitor, monitorVars
<1> QED
  BY <1>1, <1>2

LEMMA LookupStep ==
  ASSUME LruInv, NEW c \in Chunk, Lookup(c), UNCHANGED cache_size
  PROVE  LruInv' /\ Recency!Lookup(c)
<1>1. PICK s : Pointers /\ Chain(s) /\ Monitored
  BY DEF LruInv
<1>2. Order = s /\ cache = ToSet(Order)
  BY <1>1, ChainIsSequence, OrderIsChainHolds DEF OrderIsChain
<1>3. answer' = [chunk |-> c, found |-> c \in ToSet(Order)]
  BY <1>2 DEF Lookup
<1>4. CASE c \in cache
  <2>1. Renew(c) /\ UNCHANGED stability
    BY <1>4 DEF Lookup
  <2>2. Pointers' /\ (\E t : Chain(t)') /\ Recency!Renew(c)
    BY <1>1, <1>4, <2>1, RenewStep
  <2>3. Monitored'
    BY <1>1, <1>3, <1>4, <2>1 DEF Monitored, Renew
  <2>4. Recency!Lookup(c)
    BY <1>3, <2>2, Zenon DEF Recency!Lookup, Recency!Held, Recency!ToSet, ToSet, Order
  <2> QED
    BY <2>2, <2>3, <2>4 DEF LruInv
<1>5. CASE c \notin cache
  <2>1. UNCHANGED <<listVars, monitorVars, stability>>
    BY <1>5 DEF Lookup
  <2>2. Pointers' /\ Chain(s)' /\ UNCHANGED Order
    BY <1>1, <2>1, ListStays
  <2>3. Monitored'
    BY <1>1, <1>3, <2>1 DEF Monitored, listVars, monitorVars
  <2>4. c \notin ToSet(Order)
    BY <1>2, <1>5
  <2>5. Recency!Lookup(c)
    BY <1>3, <2>2, <2>4, Zenon DEF Recency!Lookup, Recency!Held, Recency!ToSet, ToSet, Order
  <2> QED
    BY <2>2, <2>3, <2>5 DEF LruInv
<1> QED
  BY <1>4, <1>5

LEMMA StoreStep ==
  ASSUME LruInv, NEW c \in Chunk, Store(c), UNCHANGED cache_size
  PROVE  LruInv' /\ Recency!Store(c)
<1>1. PICK s : Pointers /\ Chain(s) /\ Monitored
  BY DEF LruInv
<1>2. UNCHANGED <<stability, answer>>
  BY DEF Store
<1>3. CASE c \in cache
  <2>1. Renew(c)
    BY <1>3 DEF Store
  <2>2. Pointers' /\ (\E t : Chain(t)') /\ Recency!Renew(c)
    BY <1>1, <1>3, <2>1, RenewStep
  <2>3. Monitored'
    BY <1>1, <1>2, <1>3, <2>1 DEF Monitored, Renew
  <2> QED
    BY <1>2, <2>2, <2>3 DEF LruInv, Recency!Store
<1>4. CASE c \notin cache
  <2>1. StoreFirst(c) \/ StoreInFront(c) \/ StoreAndEvict(c)
    BY <1>4 DEF Store
  <2>2. Pointers' /\ (\E t : Chain(t)') /\ Recency!Add(c)
    BY <1>1, <1>4, <2>1, AddStep
  <2>3. \E evicted : Monitor(c, evicted) /\ cache' = (cache \ evicted) \cup {c}
    <3>1. CASE StoreFirst(c) \/ StoreInFront(c)
      <4>1. Monitor(c, {}) /\ cache' = (cache \ {}) \cup {c}
        BY <3>1 DEF StoreFirst, StoreInFront
      <4> QED
        BY <4>1
    <3>2. CASE StoreAndEvict(c)
      <4>1. Monitor(c, {lru}) /\ cache' = (cache \ {lru}) \cup {c}
        BY <3>2 DEF StoreAndEvict
      <4> QED
        BY <4>1
    <3> QED
      BY <2>1, <3>1, <3>2
  <2>4. Monitored'
    BY <1>1, <1>2, <1>4, <2>3, MonitorStep
  <2> QED
    BY <1>2, <2>2, <2>4 DEF LruInv, Recency!Store
<1> QED
  BY <1>3, <1>4

LEMMA FlushStep ==
  ASSUME LruInv, Flush, UNCHANGED cache_size
  PROVE  LruInv' /\ Recency!Flush
<1>1. Pointers /\ Monitored
  BY DEF LruInv
<1>2. Pointers'
  BY <1>1 DEF Flush, Pointers, Pointer, Nowhere
<1>3. Chain(<<>>)'
  BY DEF Flush, Chain
<1>4. Monitored'
  BY <1>1 DEF Flush, Monitored
<1>5. Order' = <<>>
  BY DEF Flush, Order
<1>6. Recency!Flush
  BY <1>5 DEF Flush, Recency!Flush, Order
<1> QED
  BY <1>2, <1>3, <1>4, <1>6 DEF LruInv

\* A step that leaves the list alone, and the timers, is none of the abstract cache.
LEMMA IdleStep ==
  ASSUME LruInv,
         UNCHANGED <<cache_size, listVars, monitored_contents, answer>>,
         stability' \in BOOLEAN, stability => stability', exited' = FALSE
  PROVE  LruInv' /\ UNCHANGED Recency!vars
<1>1. PICK s : Pointers /\ Chain(s) /\ Monitored
  BY DEF LruInv
<1>2. Pointers' /\ Chain(s)' /\ UNCHANGED Order
  BY <1>1, ListStays
<1>3. Monitored'
  BY <1>1 DEF Monitored, listVars
<1> QED
  BY <1>2, <1>3 DEF LruInv, Recency!vars, Order

-----------------------------------------------------------------------------
(***************************************************************************)
(* The stores in the node.                                                 *)
(***************************************************************************)

NodeTyped ==
  /\ C \in Nat
  /\ copies \in [Chunk -> Nat] /\ deq \in Seq(Chunk)
  /\ measuring \in BOOLEAN
  /\ pending \in [Chunk -> {"none", "yes", "no"}]
  /\ asked \in [Chunk -> 0 .. 2]

\* A name in the name cache was asked for once, and what is waited for with the
\* right to be stored twice, like what is stored.
AskedEnough ==
  /\ RS = "lru_cache" => DS # "two_lru"
  /\ DS = "two_lru" =>
       /\ \A c \in cache : asked[c] >= 1
       /\ \A c \in Chunk : pending[c] = "yes" => asked[c] = 2
       /\ \A c \in Present : asked[c] = 2

\* Only a fifo_cache has timers, from the steady state on.
FifoTimers == RS # "fifo_cache" \/ ~measuring => timers = {}

IInv == LruInv /\ NodeTyped /\ FifoTimers /\ StoreIsExact /\ AskedEnough

\* A new chunk at the back, the front one dropped, a new one in place of another.
LEMMA AppendIsExact ==
  ASSUME NEW q \in Seq(Chunk), IsInjective(q), NEW c \in Chunk, c \notin ToSet(q)
  PROVE  /\ Append(q, c) \in Seq(Chunk) /\ IsInjective(Append(q, c))
         /\ Len(Append(q, c)) = Len(q) + 1
         /\ ToSet(Append(q, c)) = ToSet(q) \cup {c}
<1> DEFINE r == Append(q, c)
<1>1. /\ r \in Seq(Chunk) /\ DOMAIN r = 1 .. Len(q) + 1 /\ Len(r) = Len(q) + 1
      /\ \A i \in 1 .. Len(q) : r[i] = q[i]
      /\ r[Len(q) + 1] = c
      /\ DOMAIN q = 1 .. Len(q) /\ Len(q) \in Nat
  OBVIOUS
<1> HIDE DEF r
<1>2. \A i \in 1 .. Len(q) : q[i] # c
  BY <1>1 DEF ToSet
<1>3. IsInjective(r)
  BY <1>1, <1>2 DEF IsInjective
<1>4. ToSet(r) = ToSet(q) \cup {c}
  BY <1>1 DEF ToSet
<1> QED
  BY <1>1, <1>3, <1>4 DEF r

LEMMA TailIsExact ==
  ASSUME NEW q \in Seq(Chunk), IsInjective(q), Len(q) > 0
  PROVE  /\ Tail(q) \in Seq(Chunk) /\ IsInjective(Tail(q))
         /\ Len(Tail(q)) = Len(q) - 1
         /\ Head(q) \in ToSet(q)
         /\ ToSet(Tail(q)) = ToSet(q) \ {Head(q)}
<1> DEFINE r == Tail(q)
<1>1. /\ r \in Seq(Chunk) /\ DOMAIN r = 1 .. Len(q) - 1 /\ Len(r) = Len(q) - 1
      /\ \A i \in 1 .. Len(q) - 1 : r[i] = q[i + 1]
      /\ Head(q) = q[1]
      /\ DOMAIN q = 1 .. Len(q) /\ Len(q) \in Nat
  OBVIOUS
<1> HIDE DEF r
<1>2. \A i, j \in 1 .. Len(q) : q[i] = q[j] => i = j
  BY <1>1 DEF IsInjective
<1>3. IsInjective(r)
  <2>1. ASSUME NEW i \in 1 .. Len(q) - 1, NEW j \in 1 .. Len(q) - 1, r[i] = r[j]
        PROVE  i = j
    <3>1. i + 1 \in 1 .. Len(q) /\ j + 1 \in 1 .. Len(q) /\ q[i + 1] = q[j + 1]
      BY <1>1, <2>1
    <3>2. i + 1 = j + 1
      BY <1>2, <3>1
    <3> QED
      BY <3>2
  <2> QED
    BY <1>1, <2>1 DEF IsInjective
<1>4. ToSet(r) = ToSet(q) \ {q[1]}
  <2>1. ASSUME NEW i \in 1 .. Len(q) - 1 PROVE r[i] \in ToSet(q) /\ r[i] # q[1]
    <3>1. i + 1 \in 1 .. Len(q) /\ i + 1 # 1 /\ 1 \in 1 .. Len(q) /\ r[i] = q[i + 1]
      BY <1>1
    <3> QED
      BY <1>1, <1>2, <3>1 DEF ToSet
  <2>2. ASSUME NEW i \in 1 .. Len(q), i # 1 PROVE q[i] \in ToSet(r)
    <3>1. i - 1 \in 1 .. Len(q) - 1 /\ (i - 1) + 1 = i
      BY <1>1, <2>2
    <3>2. r[i - 1] = q[i]
      BY <1>1, <3>1
    <3> QED
      BY <1>1, <3>1, <3>2 DEF ToSet
  <2> QED
    BY <1>1, <2>1, <2>2 DEF ToSet
<1>5. q[1] \in ToSet(q)
  BY <1>1 DEF ToSet
<1> QED
  BY <1>1, <1>3, <1>4, <1>5 DEF r

LEMMA ReplaceIsExact ==
  ASSUME NEW q \in Seq(Chunk), IsInjective(q), NEW c \in Chunk, c \notin ToSet(q),
         NEW pos \in DOMAIN q, NEW r, r = [q EXCEPT ![pos] = c]
  PROVE  /\ r \in Seq(Chunk) /\ IsInjective(r)
         /\ Len(r) = Len(q)
         /\ q[pos] \in ToSet(q)
         /\ ToSet(r) = (ToSet(q) \ {q[pos]}) \cup {c}
<1>1. /\ r \in Seq(Chunk) /\ DOMAIN r = 1 .. Len(q) /\ Len(r) = Len(q)
      /\ \A i \in 1 .. Len(q) : r[i] = IF i = pos THEN c ELSE q[i]
      /\ DOMAIN q = 1 .. Len(q) /\ Len(q) \in Nat /\ pos \in 1 .. Len(q)
  OBVIOUS
<1>2. \A i, j \in 1 .. Len(q) : q[i] = q[j] => i = j
  BY <1>1 DEF IsInjective
<1>3. \A i \in 1 .. Len(q) : q[i] # c
  BY <1>1 DEF ToSet
<1>4. IsInjective(r)
  BY <1>1, <1>2, <1>3 DEF IsInjective
<1>5. ToSet(r) = (ToSet(q) \ {q[pos]}) \cup {c}
  BY <1>1, <1>2 DEF ToSet
<1>6. q[pos] \in ToSet(q)
  BY <1>1 DEF ToSet
<1> QED
  BY <1>1, <1>4, <1>5, <1>6

\* The map of a store and its deque say the same of every chunk.
Matching(map, q) == \A c \in Chunk : map[c] = IF c \in ToSet(q) THEN 1 ELSE 0

\* What storing a chunk that is not there makes of the tables.
Stored(c) ==
  /\ copies' \in [Chunk -> Nat] /\ deq' \in Seq(Chunk)
  /\ Len(deq') <= C /\ IsInjective(deq') /\ Matching(copies', deq')
  /\ timers' \subseteq Present'
  /\ Present' \subseteq Present \cup {c}
  /\ exited' = FALSE

\* The chunks that are present are those of the deque.
LEMMA PresentIsDeque ==
  ASSUME NodeTyped, Matching(copies, deq)
  PROVE  Present = ToSet(deq)
<1>1. ToSet(deq) \subseteq Chunk
  BY DEF NodeTyped, ToSet
<1> QED
  BY <1>1 DEF Present, Matching

\* In a store of at least one place that holds c nowhere, data_store keeps map,
\* deque and timers in step.
LEMMA DataStoreIsExact ==
  ASSUME NodeTyped, FifoTimers, exited = FALSE,
         C # 0, Len(deq) <= C, IsInjective(deq), Matching(copies, deq),
         timers \subseteq Present, NEW c \in Chunk, c \notin Present, DataStore(c)
  PROVE  Stored(c)
<1>0. /\ deq \in Seq(Chunk) /\ C \in Nat \ {0} /\ Len(deq) \in Nat
      /\ copies \in [Chunk -> Nat]
      /\ Present = ToSet(deq) /\ c \notin ToSet(deq)
      /\ \A d \in Chunk : copies[d] = IF d \in ToSet(deq) THEN 1 ELSE 0
  BY PresentIsDeque DEF NodeTyped, Matching
<1>1. ASSUME NEW map, NEW q, copies' = map, deq' = q, map \in [Chunk -> Nat], q \in Seq(Chunk),
             Len(q) <= C, IsInjective(q), Matching(map, q),
             ToSet(q) \subseteq ToSet(deq) \cup {c},
             timers' \subseteq ToSet(q), exited' = FALSE
      PROVE  Stored(c)
  <2>1. ToSet(q) \subseteq Chunk
    BY <1>1 DEF ToSet
  <2>2. Present' = ToSet(q)
    BY <1>1, <2>1 DEF Present, Matching
  <2> QED
    BY <1>0, <1>1, <2>2 DEF Stored
<1>2. ASSUME Len(deq) # C, deq' = Append(deq, c), copies' = [copies EXCEPT ![c] = 1],
             timers' \subseteq timers \cup {c}, exited' = FALSE
      PROVE  Stored(c)
  <2>1. /\ Append(deq, c) \in Seq(Chunk) /\ IsInjective(Append(deq, c))
        /\ Len(Append(deq, c)) = Len(deq) + 1
        /\ ToSet(Append(deq, c)) = ToSet(deq) \cup {c}
    BY <1>0, AppendIsExact
  <2>2. Len(Append(deq, c)) <= C
    BY <1>0, <1>2, <2>1
  <2>3. Matching([copies EXCEPT ![c] = 1], Append(deq, c))
    BY <1>0, <2>1 DEF Matching
  <2>4. [copies EXCEPT ![c] = 1] \in [Chunk -> Nat]
    BY <1>0
  <2>5. timers' \subseteq ToSet(Append(deq, c))
    BY <1>0, <1>2, <2>1
  <2> QED
    BY <1>1, <1>2, <2>1, <2>2, <2>3, <2>4, <2>5
<1>3. ASSUME Len(deq) = C, NEW pos \in DOMAIN deq, deq' = [deq EXCEPT ![pos] = c],
             copies' = [copies EXCEPT ![c] = 1, ![deq[pos]] = 0],
             timers' \subseteq timers, timers = {}, exited' = FALSE
      PROVE  Stored(c)
  <2> PICK q : q = [deq EXCEPT ![pos] = c]
    OBVIOUS
  <2>1. /\ q \in Seq(Chunk) /\ IsInjective(q) /\ Len(q) = Len(deq)
        /\ deq[pos] \in ToSet(deq)
        /\ ToSet(q) = (ToSet(deq) \ {deq[pos]}) \cup {c}
    <3>1. deq \in Seq(Chunk) /\ c \notin ToSet(deq) /\ pos \in DOMAIN deq
      BY <1>0, <1>3
    <3> QED
      BY <3>1, ReplaceIsExact, Zenon
  <2>2. deq[pos] \in Chunk /\ deq[pos] # c
    BY <1>0, <2>1
  <2>3. Matching(copies', q)
    BY <1>0, <1>3, <2>1, <2>2 DEF Matching
  <2>4. copies' \in [Chunk -> Nat]
    BY <1>0, <1>3, <2>2
  <2> QED
    BY <1>0, <1>1, <1>3, <2>1, <2>3, <2>4
<1>4. CASE RS = "random_cache" \/ RS = "two_cache"
  <2>1. timers = {}
    BY <1>4 DEF FifoTimers
  <2>2. UNCHANGED <<timers, exited>>
    BY <1>4 DEF DataStore, RandomStore, TwoStore
  <2>3. CASE Len(deq) = C
    <3>1. \E pos \in DOMAIN deq : /\ deq' = [deq EXCEPT ![pos] = c]
                                  /\ copies' = [copies EXCEPT ![c] = 1, ![deq[pos]] = 0]
      BY <1>4, <2>3 DEF DataStore, RandomStore, TwoStore
    <3> QED
      BY <1>3, <2>1, <2>2, <2>3, <3>1
  <2>4. CASE Len(deq) # C
    <3>1. deq' = Append(deq, c) /\ copies' = [copies EXCEPT ![c] = 1]
      BY <1>4, <2>4 DEF DataStore, RandomStore, TwoStore
    <3> QED
      BY <1>2, <2>2, <2>4, <3>1
  <2> QED
    BY <2>3, <2>4
<1>5. CASE RS = "fifo_cache"
  <2> DEFINE longer == Append(deq, c)
             more   == [copies EXCEPT ![c] = @ + 1]
             front  == Head(longer)
             less   == [more EXCEPT ![front] = @ - 1]
  <2>1. FifoStore(c)
    BY <1>5 DEF DataStore
  <2>2. /\ longer \in Seq(Chunk) /\ IsInjective(longer)
        /\ Len(longer) = Len(deq) + 1
        /\ ToSet(longer) = ToSet(deq) \cup {c}
    BY <1>0, AppendIsExact
  <2>3. more = [copies EXCEPT ![c] = 1] /\ more \in [Chunk -> Nat]
    <3>1. copies[c] = 0
      BY <1>0
    <3>2. more = [copies EXCEPT ![c] = 1]
      BY <3>1
    <3> QED
      BY <1>0, <3>2
  <2>4. exited' = FALSE
    BY <1>0, <2>1 DEF FifoStore
  <2>5. CASE Len(deq) # C
    <3>1. ~(Len(longer) > C)
      BY <1>0, <2>2, <2>5
    <3>2. deq' = longer /\ copies' = more /\ timers' \subseteq timers \cup {c}
      BY <2>1, <3>1 DEF FifoStore
    <3> QED
      BY <1>2, <2>3, <2>4, <2>5, <3>2
  <2>6. CASE Len(deq) = C
    <3>1. Len(longer) > C /\ Len(longer) > 0
      BY <1>0, <2>2, <2>6
    <3>2. deq' = Tail(longer) /\ copies' = less
      BY <2>1, <3>1 DEF FifoStore
    <3>3. /\ Tail(longer) \in Seq(Chunk) /\ IsInjective(Tail(longer))
          /\ Len(Tail(longer)) = Len(longer) - 1
          /\ front \in ToSet(longer)
          /\ ToSet(Tail(longer)) = ToSet(longer) \ {front}
      BY <2>2, <3>1, TailIsExact
    <3>4. front = deq[1] /\ front \in ToSet(deq) /\ front # c /\ front \in Chunk
      <4>1. 1 \in DOMAIN deq
        BY <1>0, <2>6
      <4>2. longer[1] = deq[1] /\ front = longer[1]
        BY <1>0, <4>1
      <4> QED
        BY <1>0, <4>1, <4>2 DEF ToSet
    <3>5. more[front] = 1
      BY <1>0, <2>3, <3>4
    <3> HIDE DEF longer, more, front
    <3>6. less = [more EXCEPT ![front] = 0] /\ less \in [Chunk -> Nat]
      <4>1. more[front] - 1 = 0
        BY <3>5
      <4>2. less = [more EXCEPT ![front] = 0]
        BY <4>1
      <4> QED
        BY <2>3, <3>4, <4>2
    <3>7. Matching(less, Tail(longer))
      BY <1>0, <2>2, <2>3, <3>3, <3>4, <3>6 DEF Matching
    <3>8. less[front] = 0
      BY <2>3, <3>4, <3>6
    <3>9. timers' \subseteq ToSet(Tail(longer))
      <4>1. timers' = IF ~measuring THEN timers ELSE (timers \cup {c}) \ {front}
        <5>1. timers' = IF ~measuring THEN timers
                        ELSE IF less[front] = 0 THEN (timers \cup {c}) \ {front}
                        ELSE timers \cup {c}
          BY <2>1, <3>1 DEF FifoStore, longer, more, front
        <5> QED
          BY <3>8, <5>1
      <4>2. ~measuring => timers = {}
        BY DEF FifoTimers
      <4> QED
        BY <1>0, <2>2, <3>3, <4>1, <4>2
    <3>10. Len(Tail(longer)) <= C
      BY <1>0, <2>2, <2>6, <3>3
    <3>11. ToSet(Tail(longer)) \subseteq ToSet(deq) \cup {c}
      BY <2>2, <3>3
    <3> QED
      BY <1>1, <2>4, <3>2, <3>3, <3>6, <3>7, <3>9, <3>10, <3>11
  <2> QED
    BY <2>5, <2>6
<1> QED
  BY <1>4, <1>5 DEF DataStore

-----------------------------------------------------------------------------
(***************************************************************************)
(* The steps of the node.                                                  *)
(***************************************************************************)

Storing == [StoreNext]_<<vars, contentVars>>

LEMMA Initially == StoreInit => IInv
<1> SUFFICES ASSUME StoreInit PROVE IInv
  OBVIOUS
<1> USE ContentStoreAssumption DEF StoreInit
<1>1. LruInv
  BY LruInitially
<1>2. NodeTyped
  <2>1. C \in Nat /\ measuring \in BOOLEAN
    OBVIOUS
  <2>2. deq \in Seq(Chunk)
    OBVIOUS
  <2>3. copies \in [Chunk -> Nat] /\ asked \in [Chunk -> 0 .. 2]
    OBVIOUS
  <2>4. pending \in [Chunk -> {"none", "yes", "no"}]
    OBVIOUS
  <2> QED
    BY <2>1, <2>2, <2>3, <2>4 DEF NodeTyped
<1>3. ToSet(deq) = {} /\ IsInjective(deq) /\ Len(deq) <= C
  BY DEF ToSet, IsInjective
<1>4. Present = {}
  BY DEF Present
<1>5. StoreIsExact
  BY <1>3, <1>4 DEF StoreIsExact
<1>6. cache = {} /\ \A c \in Chunk : pending[c] # "yes"
  BY DEF Init
<1>7. AskedEnough
  BY <1>4, <1>6 DEF AskedEnough
<1> QED
  BY <1>1, <1>2, <1>5, <1>7 DEF IInv, FifoTimers

\* The name cache is asked, and perhaps told, about the chunk of the Interest only.
LEMMA NameToCacheStep ==
  ASSUME LruInv, NEW c \in Chunk, NameToCache(c), UNCHANGED cache_size
  PROVE  /\ LruInv' /\ [Recency!Next]_Recency!vars
         /\ cache' \subseteq cache \cup {c}
         /\ DS # "two_lru" => UNCHANGED cache
<1>0. exited = FALSE /\ stability \in BOOLEAN
  BY DEF LruInv, Monitored
<1>1. CASE DS # "two_lru"
  <2>1. UNCHANGED <<listVars, monitorVars, stability, answer>>
    BY <1>1 DEF NameToCache
  <2>2. LruInv' /\ UNCHANGED Recency!vars
    BY <1>0, <2>1, IdleStep DEF monitorVars
  <2> QED
    BY <2>1, <2>2 DEF listVars
<1>2. CASE DS = "two_lru" /\ c \in cache
  <2>1. Lookup(c)
    BY <1>2 DEF NameToCache
  <2>2. LruInv' /\ Recency!Lookup(c)
    BY <2>1, LookupStep
  <2>3. UNCHANGED cache
    BY <1>2, <2>1 DEF Lookup, Renew
  <2> QED
    BY <1>2, <2>2, <2>3 DEF Recency!Next
<1>3. CASE DS = "two_lru" /\ c \notin cache
  <2>1. Store(c)
    BY <1>3 DEF NameToCache
  <2>2. LruInv' /\ Recency!Store(c)
    BY <2>1, StoreStep
  <2>3. cache' \subseteq cache \cup {c}
    BY <1>3, <2>1 DEF Store, StoreFirst, StoreInFront, StoreAndEvict
  <2> QED
    BY <1>3, <2>2, <2>3 DEF Recency!Next
<1> QED
  BY <1>1, <1>2, <1>3

LEMMA InterestStep ==
  ASSUME IInv, NEW c \in Chunk, ReceiveInterest(c)
  PROVE  IInv' /\ [Recency!Next]_Recency!vars
<1>0. LruInv /\ NodeTyped /\ FifoTimers /\ StoreIsExact /\ AskedEnough
  BY DEF IInv
<1>1. /\ NameToCache(c)
      /\ asked' = [asked EXCEPT ![c] = IF @ < 2 THEN @ + 1 ELSE @]
      /\ UNCHANGED <<RS, DS, C, copies, deq, timers, measuring, cache_size>>
      /\ Present' = Present
  BY DEF ReceiveInterest, storeVars, Present
<1>2. /\ LruInv' /\ [Recency!Next]_Recency!vars
      /\ cache' \subseteq cache \cup {c}
  BY <1>0, <1>1, NameToCacheStep
<1>3. PICK verdict \in {pending[c], IF Cacheable(c) THEN "yes" ELSE "no"} :
        pending' = IF c \in Present THEN pending ELSE [pending EXCEPT ![c] = verdict]
  BY DEF ReceiveInterest
<1>4. /\ asked \in [Chunk -> 0 .. 2] /\ asked' \in [Chunk -> 0 .. 2]
      /\ asked'[c] >= 1 /\ (asked[c] >= 1 => asked'[c] = 2)
      /\ \A d \in Chunk : asked'[d] >= asked[d]
  <2>1. asked \in [Chunk -> 0 .. 2]
    BY <1>0 DEF NodeTyped
  <2>2. asked[c] \in 0 .. 2
    BY <2>1
  <2> QED
    BY <1>1, <2>1, <2>2
<1>5. NodeTyped'
  <2>1. pending \in [Chunk -> {"none", "yes", "no"}]
    BY <1>0 DEF NodeTyped
  <2>2. pending' \in [Chunk -> {"none", "yes", "no"}]
    BY <1>3, <2>1
  <2> QED
    BY <1>0, <1>1, <1>4, <2>2 DEF NodeTyped
<1>6. FifoTimers'
  BY <1>0, <1>1 DEF FifoTimers
<1>7. StoreIsExact'
  <2>1. \A d \in Present' : pending'[d] = "none"
    BY <1>0, <1>1, <1>3 DEF StoreIsExact, NodeTyped, Present
  <2> QED
    BY <1>0, <1>1, <2>1 DEF StoreIsExact
<1>8. AskedEnough'
  <2>1. CASE DS # "two_lru"
    BY <1>1, <2>1 DEF AskedEnough
  <2>2. CASE DS = "two_lru"
    <3>1. /\ \A d \in cache : asked[d] >= 1
          /\ \A d \in Chunk : pending[d] = "yes" => asked[d] = 2
          /\ \A d \in Present : asked[d] = 2
      BY <1>0, <2>2 DEF AskedEnough
    <3>2. cache \subseteq Chunk
      BY <1>0 DEF LruInv, Pointers
    <3>3. \A d \in cache' : asked'[d] >= 1
      BY <1>2, <1>4, <3>1, <3>2
    <3>4. ASSUME NEW d \in Chunk, pending'[d] = "yes" PROVE asked'[d] = 2
      <4>1. CASE pending'[d] = pending[d]
        BY <1>4, <3>1, <3>4, <4>1
      <4>2. CASE pending'[d] # pending[d]
        <5>1. d = c /\ verdict # pending[c] /\ verdict = "yes"
          BY <1>0, <1>3, <3>4, <4>2 DEF NodeTyped
        <5>2. c \in cache
          BY <1>3, <2>2, <5>1 DEF Cacheable
        <5> QED
          BY <1>4, <3>1, <5>1, <5>2
      <4> QED
        BY <4>1, <4>2
    <3>5. \A d \in Present' : asked'[d] = 2
      BY <1>1, <1>4, <3>1 DEF Present
    <3> QED
      BY <1>0, <1>1, <3>3, <3>4, <3>5 DEF AskedEnough
  <2> QED
    BY <2>1, <2>2
<1> QED
  BY <1>2, <1>5, <1>6, <1>7, <1>8 DEF IInv

LEMMA DataStep ==
  ASSUME IInv, NEW c \in Chunk, ReceiveData(c)
  PROVE  IInv' /\ [Recency!Next]_Recency!vars
<1>0. LruInv /\ NodeTyped /\ FifoTimers /\ StoreIsExact /\ AskedEnough /\ exited = FALSE
  BY DEF IInv, LruInv, Monitored
<1>1. /\ pending[c] # "none" /\ pending' = [pending EXCEPT ![c] = "none"]
      /\ UNCHANGED <<RS, DS, C, measuring, asked, cache_size, listVars,
                     monitored_contents, stability, answer>>
  BY DEF ReceiveData
<1>2. c \notin Present
  BY <1>0, <1>1 DEF StoreIsExact
<1>3. (UNCHANGED <<storeVars, exited>>) \/ (pending[c] = "yes" /\ C # 0 /\ DataStore(c))
  BY DEF ReceiveData, Offer
<1>4. Stored(c) /\ (Present' # Present => pending[c] = "yes") /\ FifoTimers'
  <2>1. CASE UNCHANGED <<storeVars, exited>>
    <3>1. UNCHANGED <<copies, deq, timers, exited>> /\ Present' = Present
      BY <2>1 DEF storeVars, Present
    <3> QED
      BY <1>0, <1>1, <3>1 DEF Stored, StoreIsExact, Matching, NodeTyped, FifoTimers
  <2>2. CASE pending[c] = "yes" /\ C # 0 /\ DataStore(c)
    <3>1. Stored(c)
      BY <1>0, <1>2, <2>2, DataStoreIsExact DEF StoreIsExact, Matching
    <3>2. FifoTimers'
      BY <1>0, <1>1, <2>2
      DEF DataStore, RandomStore, TwoStore, FifoStore, FifoTimers
    <3> QED
      BY <2>2, <3>1, <3>2
  <2> QED
    BY <1>3, <2>1, <2>2
<1>5. LruInv' /\ UNCHANGED Recency!vars
  <2>1. exited' = FALSE /\ stability \in BOOLEAN
    BY <1>0, <1>4 DEF Stored, LruInv, Monitored
  <2> QED
    BY <1>0, <1>1, <2>1, IdleStep
<1>6. /\ pending \in [Chunk -> {"none", "yes", "no"}]
      /\ pending' \in [Chunk -> {"none", "yes", "no"}]
  BY <1>0, <1>1 DEF NodeTyped
<1>7. NodeTyped'
  BY <1>0, <1>1, <1>4, <1>6 DEF NodeTyped, Stored
<1>8. StoreIsExact'
  <2>1. \A d \in Present' : pending'[d] = "none"
    BY <1>0, <1>1, <1>4, <1>6 DEF StoreIsExact, Stored, Present
  <2> QED
    BY <1>1, <1>4, <2>1 DEF StoreIsExact, Stored, Matching
<1>9. AskedEnough'
  <2>1. CASE DS # "two_lru"
    BY <1>1, <2>1 DEF AskedEnough
  <2>2. CASE DS = "two_lru"
    <3>1. \A d \in Present' : asked'[d] = 2
      BY <1>0, <1>1, <1>4, <2>2 DEF AskedEnough, Stored, Present
    <3>2. \A d \in Chunk : pending'[d] = "yes" => asked'[d] = 2
      BY <1>0, <1>1, <1>6, <2>2 DEF AskedEnough
    <3>3. UNCHANGED cache
      BY <1>1 DEF listVars
    <3> QED
      BY <1>0, <1>1, <2>2, <3>1, <3>2, <3>3 DEF AskedEnough
  <2> QED
    BY <2>1, <2>2
<1> QED
  BY <1>4, <1>5, <1>7, <1>8, <1>9 DEF IInv

\* A step of the list alone, with everything else of the node as it was.
LEMMA ContentStays ==
  ASSUME IInv, UNCHANGED contentVars, LruInv', UNCHANGED cache \/ DS # "two_lru"
  PROVE  IInv'
<1>1. UNCHANGED <<RS, DS, C, copies, deq, timers, measuring, pending, asked>> /\ Present' = Present
  BY DEF contentVars, storeVars, Present
<1>2. NodeTyped' /\ FifoTimers' /\ StoreIsExact'
  BY <1>1 DEF IInv, NodeTyped, FifoTimers, StoreIsExact
<1>3. AskedEnough'
  BY <1>1 DEF IInv, AskedEnough
<1> QED
  BY <1>2, <1>3 DEF IInv

LEMMA Consecution ==
  ASSUME IInv, Storing
  PROVE  IInv' /\ [Recency!Next]_Recency!vars
<1>0. LruInv /\ exited = FALSE /\ stability \in BOOLEAN
  BY DEF IInv, LruInv, Monitored
<1>1. CASE AnyCall
  <2>1. /\ DS # "two_lru" /\ Next /\ UNCHANGED contentVars /\ UNCHANGED cache_size
    BY <1>1 DEF AnyCall, Next, IInv, AskedEnough
  <2>2. LruInv' /\ [Recency!Next]_Recency!vars
    <3>1. ASSUME NEW c \in Chunk, Lookup(c) PROVE LruInv' /\ [Recency!Next]_Recency!vars
      BY <1>0, <2>1, <3>1, LookupStep DEF Recency!Next
    <3>2. ASSUME NEW c \in Chunk, Store(c) PROVE LruInv' /\ [Recency!Next]_Recency!vars
      BY <1>0, <2>1, <3>2, StoreStep DEF Recency!Next
    <3>3. CASE Flush
      BY <1>0, <2>1, <3>3, FlushStep DEF Recency!Next
    <3>4. CASE Stabilized
      BY <1>0, <2>1, <3>4, IdleStep DEF Stabilized, monitorVars
    <3> QED
      BY <2>1, <3>1, <3>2, <3>3, <3>4 DEF Next
  <2> QED
    BY <2>1, <2>2, ContentStays
<1>2. ASSUME NEW c \in Chunk, ReceiveInterest(c) PROVE IInv' /\ [Recency!Next]_Recency!vars
  BY <1>2, InterestStep
<1>3. ASSUME NEW c \in Chunk, ReceiveData(c) PROVE IInv' /\ [Recency!Next]_Recency!vars
  BY <1>3, DataStep
<1>4. CASE Measure
  <2>1. /\ measuring' = TRUE
        /\ UNCHANGED <<RS, DS, C, copies, deq, timers, pending, asked, cache_size, listVars,
                       monitorVars, stability, answer>>
        /\ Present' = Present
    BY <1>4 DEF Measure, storeVars, Present
  <2>2. LruInv' /\ UNCHANGED Recency!vars
    BY <1>0, <2>1, IdleStep DEF monitorVars
  <2>3. NodeTyped' /\ StoreIsExact'
    BY <2>1 DEF IInv, NodeTyped, StoreIsExact
  <2>4. FifoTimers'
    BY <1>4, <2>1 DEF IInv, FifoTimers, Measure
  <2>5. AskedEnough'
    BY <2>1 DEF IInv, AskedEnough, listVars
  <2> QED
    BY <2>2, <2>3, <2>4, <2>5 DEF IInv
<1>5. CASE UNCHANGED <<vars, contentVars>>
  <2>1. LruInv' /\ UNCHANGED Recency!vars
    BY <1>0, <1>5, IdleStep DEF vars, monitorVars
  <2> QED
    BY <1>5, <2>1, ContentStays DEF vars, listVars
<1> QED
  BY <1>1, <1>2, <1>3, <1>4, <1>5 DEF Storing, StoreNext, AtTheNode

-----------------------------------------------------------------------------
(***************************************************************************)
(* The theorems.                                                           *)
(***************************************************************************)

\* The list is a chain, the node has its types, and the stores, the PIT and the
\* timers agree, always: in an LRU store alone and in a node with any store.
THEOREM Inductive == StoreSpec => []IInv
<1>1. IInv /\ [StoreNext]_<<vars, contentVars>> => IInv'
  BY Consecution DEF Storing
<1> QED
  BY Initially, <1>1, PTL DEF StoreSpec

\* The doubly linked list of lru_cache.cc can be walked both ways between mru and
\* lru and holds the chunks of the map, after any sequence of calls.
THEOREM ListIsSoundHolds == StoreSpec => []ListIsSound
<1>1. IInv => ListIsSound
  <2> SUFFICES ASSUME IInv PROVE ListIsSound
    OBVIOUS
  <2>1. PICK s : Pointers /\ Chain(s) /\ Monitored
    BY DEF IInv, LruInv
  <2>2. TypeOK
    BY <2>1 DEF Pointers, Monitored, TypeOK
  <2> QED
    BY <2>1, <2>2, ChainIsSound DEF ListIsSound
<1> QED
  BY Inductive, <1>1, PTL

\* No timer of a chunk is started twice, so that no store ends the program.
THEOREM NeverExitsHolds == StoreSpec => []NeverExits
<1>1. IInv => NeverExits
  BY DEF IInv, LruInv, Monitored, NeverExits
<1> QED
  BY Inductive, <1>1, PTL

\* The map and the deque of fifo, random and two-choice stores hold the same
\* chunks, each once and at most C, although data_store looks for no earlier copy.
THEOREM StoreIsExactHolds == StoreSpec => []StoreIsExact
<1>1. IInv => StoreIsExact
  BY DEF IInv
<1> QED
  BY Inductive, <1>1, PTL

\* With two_lru, whatever is stored was asked for at least twice.
THEOREM StoredOnSecondRequestHolds == StoreSpec => []StoredOnSecondRequest
<1>1. IInv => StoredOnSecondRequest
  BY DEF IInv, AskedEnough, StoredOnSecondRequest
<1> QED
  BY Inductive, <1>1, PTL

\* The LRU store is a cache with Least Recently Used replacement, as a content
\* store and as the name cache of two_lru: the list, walked from mru, is the order
\* of use, and each call makes the step that RecencyCache allows.
THEOREM ImplementsRecencyHolds == StoreSpec => ImplementsRecency
<1>1. StoreInit => Recency!Init
  <2> SUFFICES ASSUME StoreInit PROVE Recency!Init
    OBVIOUS
  <2>1. Init
    BY DEF StoreInit
  <2>2. Order = <<>>
    BY <2>1 DEF Init, Order
  <2> QED
    BY <2>1, <2>2 DEF Init, NoLookup, Order, Recency!Init
<1>2. IInv /\ [StoreNext]_<<vars, contentVars>> => [Recency!Next]_Recency!vars
  BY Consecution DEF Storing
<1> QED
  BY Inductive, <1>1, <1>2, PTL DEF StoreSpec, ImplementsRecency, Recency!Spec
=============================================================================

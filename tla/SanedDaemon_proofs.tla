-------------------------- MODULE SanedDaemon_proofs --------------------------
(***************************************************************************)
(* Proofs about SanedDaemon for any number of listening sockets and of     *)
(* connections: the inductive invariant IInv and the safety properties it  *)
(* implies.                                                                *)
(***************************************************************************)
EXTENDS SanedDaemon, QueueLemmas

USE DaemonAssumption

-----------------------------------------------------------------------------
\* Sets of numbers in order, and sublists.

\* What is counted up to n and up to n + 1.
LEMMA CountUpTo ==
  ASSUME NEW m \in Nat, NEW S \in SUBSET (1..m), NEW n \in Nat
  PROVE  /\ IsFiniteSet(S \cap 1..n) /\ Cardinality(S \cap 1..n) \in Nat
         /\ n + 1 \notin S => S \cap 1..(n + 1) = S \cap 1..n
         /\ n + 1 \in S => Cardinality(S \cap 1..(n + 1)) = Cardinality(S \cap 1..n) + 1
<1>1. IsFiniteSet(1..n)
  BY FS_Interval
<1>2. IsFiniteSet(S \cap 1..n) /\ Cardinality(S \cap 1..n) \in Nat
  <2>1. S \cap 1..n \subseteq 1..n
    OBVIOUS
  <2> QED BY <1>1, <2>1, FS_Subset, FS_CardinalityType
<1>3. n + 1 \notin S => S \cap 1..(n + 1) = S \cap 1..n
  OBVIOUS
<1>4. ASSUME n + 1 \in S
      PROVE  Cardinality(S \cap 1..(n + 1)) = Cardinality(S \cap 1..n) + 1
  <2>1. S \cap 1..(n + 1) = (S \cap 1..n) \cup {n + 1} /\ n + 1 \notin S \cap 1..n
    BY <1>4
  <2> QED BY <1>2, <2>1, FS_AddElement
<1> QED BY <1>2, <1>3, <1>4

\* The k-th number of a set is a member of it, with k members up to it.
LEMMA KthMember ==
  ASSUME NEW m \in Nat, NEW S \in SUBSET (1..m), NEW k \in 1..Cardinality(S)
  PROVE  Kth(S, k) \in S /\ Cardinality(S \cap 1..Kth(S, k)) = k
<1> DEFINE T == {n \in Nat : Cardinality(S \cap 1..n) >= k}
<1>1. m \in T
  <2>1. S \cap 1..m = S
    OBVIOUS
  <2>2. Cardinality(S) \in Nat
    BY <2>1, CountUpTo
  <2> QED BY <2>1, <2>2
<1>2. T \in SUBSET Nat
  OBVIOUS
<1> HIDE DEF T
<1>3. PICK n \in T : \A x \in T : n <= x
  BY <1>1, <1>2, LeastNumber
<1>4. n \in Nat /\ Cardinality(S \cap 1..n) >= k /\ Cardinality(S \cap 1..n) \in Nat
  BY <1>3, CountUpTo DEF T
<1>5. n /= 0
  <2>1. S \cap 1..0 = {}
    OBVIOUS
  <2>2. Cardinality(S \cap 1..0) = 0
    BY <2>1, FS_EmptySet
  <2> QED BY <1>4, <2>2
<1>6. PICK p \in Nat : n = p + 1
  BY <1>4, <1>5
<1>7. Cardinality(S \cap 1..p) < k /\ Cardinality(S \cap 1..p) \in Nat
  <2>1. Cardinality(S \cap 1..p) \in Nat
    BY CountUpTo
  <2>2. ~(n <= p)
    BY <1>6
  <2>3. p \notin T
    BY <1>3, <2>2
  <2> QED BY <2>1, <2>3 DEF T
<1>8. n \in S /\ Cardinality(S \cap 1..n) = k
  <2>1. /\ n \notin S => Cardinality(S \cap 1..n) = Cardinality(S \cap 1..p)
        /\ n \in S => Cardinality(S \cap 1..n) = Cardinality(S \cap 1..p) + 1
    BY <1>6, CountUpTo
  <2> QED BY <1>4, <1>7, <2>1
<1> QED BY <1>8 DEF Kth

\* A function on 1..n is a sequence.
LEMMA FunctionSeq ==
  ASSUME NEW V, NEW n \in Nat, NEW f \in [1..n -> V]
  PROVE  f \in Seq(V) /\ Len(f) = n /\ DOMAIN f = 1..n
<1>1. f \in Seq(V)
  BY SeqDef
<1>2. Len(f) \in Nat /\ DOMAIN f = 1..Len(f) /\ DOMAIN f = 1..n
  BY <1>1, LenProperties
<1>3. Len(f) = n
  BY <1>2
<1> QED BY <1>1, <1>2, <1>3

\* The entries at some indices make a list no longer than the first, in which
\* different places come from different places.
LEMMA EntriesFacts ==
  ASSUME NEW V, NEW list \in Seq(V), NEW S \in SUBSET DOMAIN list
  PROVE  /\ Entries(list, S) \in Seq(V)
         /\ Len(Entries(list, S)) <= Len(list)
         /\ \A k \in DOMAIN Entries(list, S) :
              Kth(S, k) \in S /\ Entries(list, S)[k] = list[Kth(S, k)]
         /\ \A j, k \in DOMAIN Entries(list, S) : Kth(S, j) = Kth(S, k) => j = k
<1>1. /\ Len(list) \in Nat /\ DOMAIN list = 1..Len(list)
      /\ \A i \in 1..Len(list) : list[i] \in V
  BY LenProperties, ElementOfSeq
<1>2. IsFiniteSet(1..Len(list)) /\ Cardinality(1..Len(list)) = Len(list)
  <2>1. IsFiniteSet(1..Len(list)) /\ Cardinality(1..Len(list))
          = IF 1 > Len(list) THEN 0 ELSE Len(list) - 1 + 1
    BY <1>1, FS_Interval
  <2> QED BY <1>1, <2>1
<1>3. Cardinality(S) \in Nat /\ Cardinality(S) <= Len(list)
  BY <1>1, <1>2, FS_Subset, FS_CardinalityType
<1>4. \A k \in 1..Cardinality(S) : Kth(S, k) \in S /\ Cardinality(S \cap 1..Kth(S, k)) = k
  BY <1>1, KthMember
<1> DEFINE e == [k \in 1..Cardinality(S) |-> list[Kth(S, k)]]
<1>5. e \in [1..Cardinality(S) -> V]
  BY <1>1, <1>4
<1>6. e \in Seq(V) /\ Len(e) = Cardinality(S) /\ DOMAIN e = 1..Cardinality(S)
  BY <1>3, <1>5, FunctionSeq
<1> QED BY <1>3, <1>4, <1>6 DEF Entries
-----------------------------------------------------------------------------
\* The list of descriptors.

LEMMA ListFacts ==
  ASSUME NEW V, NEW list \in Seq(V)
  PROVE  /\ Len(list) \in Nat /\ DOMAIN list = 1..Len(list)
         /\ \A k \in DOMAIN list : list[k] \in V
         /\ list = <<>> <=> Len(list) = 0
         /\ IsFiniteSet(1..Len(list)) /\ Cardinality(1..Len(list)) = Len(list)
<1>1. /\ Len(list) \in Nat /\ DOMAIN list = 1..Len(list)
      /\ \A k \in DOMAIN list : list[k] \in V
      /\ list = <<>> <=> Len(list) = 0
  BY LenProperties, ElementOfSeq, EmptySeq
<1>2. IsFiniteSet(1..Len(list)) /\ Cardinality(1..Len(list))
          = IF 1 > Len(list) THEN 0 ELSE Len(list) - 1 + 1
  BY <1>1, FS_Interval
<1> QED BY <1>1, <1>2

\* A list has at most as many numbers and sockets or processes as entries, and as
\* many if it is Distinct.
LEMMA ListCounts ==
  ASSUME NEW list \in Seq(Entry)
  PROVE  /\ IsFiniteSet(Numbers(list)) /\ Cardinality(Numbers(list)) <= Len(list)
         /\ Distinct(list) => /\ Cardinality(Numbers(list)) = Len(list)
                              /\ Cardinality(Watches(list)) = Len(list)
<1> DEFINE I == 1..Len(list)
           f == [k \in I |-> list[k].fd]
           g == [k \in I |-> list[k].of]
<1>1. /\ Len(list) \in Nat /\ DOMAIN list = I
      /\ IsFiniteSet(I) /\ Cardinality(I) = Len(list)
  BY ListFacts
<1>2. f \in Surjection(I, Numbers(list)) /\ g \in Surjection(I, Watches(list))
  BY <1>1 DEF Surjection, Numbers, Watches
<1>3. /\ IsFiniteSet(Numbers(list)) /\ Cardinality(Numbers(list)) <= Cardinality(I)
      /\ f \in Injection(I, Numbers(list)) => Cardinality(Numbers(list)) = Cardinality(I)
      /\ g \in Injection(I, Watches(list)) => Cardinality(Watches(list)) = Cardinality(I)
  <2> HIDE DEF f, g, I
  <2> QED BY <1>1, <1>2, FS_Surjection
<1>4. ASSUME Distinct(list)
      PROVE  f \in Injection(I, Numbers(list)) /\ g \in Injection(I, Watches(list))
  <2>1. \A j, k \in I : (f[j] = f[k] => j = k) /\ (g[j] = g[k] => j = k)
    BY <1>1, <1>4 DEF Distinct
  <2>2. f \in [I -> Numbers(list)] /\ g \in [I -> Watches(list)]
    BY <1>2 DEF Surjection
  <2> QED BY <2>1, <2>2 DEF Injection, IsInjective
<1> QED BY <1>1, <1>3, <1>4

\* open() finds a number for every socket there may be.
LEMMA FreeFacts ==
  ASSUME NEW list \in Seq(Entry)
  PROVE  /\ Free(list) \in SUBSET (1..(Len(list) + NumListeners))
         /\ \A x \in Free(list) : x \in Number /\ x \notin Numbers(list)
         /\ Cardinality(Free(list)) \in Nat /\ Cardinality(Free(list)) >= NumListeners
<1> DEFINE m == Len(list) + NumListeners
<1>1. Len(list) \in Nat /\ m \in Nat
  BY ListFacts
<1>2. IsFiniteSet(1..m) /\ Cardinality(1..m) = m
  <2>1. IsFiniteSet(1..m) /\ Cardinality(1..m) = IF 1 > m THEN 0 ELSE m - 1 + 1
    BY <1>1, FS_Interval
  <2> QED BY <1>1, <2>1
<1>3. Free(list) = (1..m) \ Numbers(list)
  BY DEF Free
<1>4. /\ IsFiniteSet(Free(list))
      /\ Cardinality(Free(list)) = Cardinality(1..m) - Cardinality((1..m) \cap Numbers(list))
  BY <1>2, <1>3, FS_Difference
<1>5. /\ Cardinality((1..m) \cap Numbers(list)) <= Len(list)
      /\ Cardinality((1..m) \cap Numbers(list)) \in Nat
  <2>1. IsFiniteSet(Numbers(list)) /\ Cardinality(Numbers(list)) <= Len(list)
    BY ListCounts
  <2>2. (1..m) \cap Numbers(list) \in SUBSET Numbers(list)
    OBVIOUS
  <2>3. /\ IsFiniteSet((1..m) \cap Numbers(list))
        /\ Cardinality((1..m) \cap Numbers(list)) <= Cardinality(Numbers(list))
    BY <2>1, <2>2, FS_Subset
  <2>4. Cardinality((1..m) \cap Numbers(list)) \in Nat /\ Cardinality(Numbers(list)) \in Nat
    BY <2>1, <2>3, FS_CardinalityType
  <2> QED BY <1>1, <2>1, <2>3, <2>4
<1>6. Cardinality(Free(list)) \in Nat
  BY <1>4, FS_CardinalityType
<1>7. Cardinality(Free(list)) >= NumListeners
  BY <1>1, <1>2, <1>4, <1>5, <1>6
<1> QED BY <1>1, <1>3, <1>6, <1>7 DEF Number

LEMMA KthFree ==
  ASSUME NEW list \in Seq(Entry), NEW k \in 1..NumListeners
  PROVE  /\ Kth(Free(list), k) \in Number /\ Kth(Free(list), k) \notin Numbers(list)
         /\ \A j \in 1..NumListeners : Kth(Free(list), j) = Kth(Free(list), k) => j = k
<1> DEFINE F == Free(list)
           m == Len(list) + NumListeners
<1>1. /\ m \in Nat /\ F \in SUBSET (1..m)
      /\ \A j \in 1..NumListeners : j \in 1..Cardinality(F)
      /\ \A x \in F : x \in Number /\ x \notin Numbers(list)
  BY FreeFacts, ListFacts
<1> HIDE DEF F, m
<1>2. \A j \in 1..NumListeners : Kth(F, j) \in F /\ Cardinality(F \cap 1..Kth(F, j)) = j
  BY <1>1, KthMember
<1> QED BY <1>1, <1>2 DEF F

\* add_fd puts a new number at the front.
LEMMA AddFdFacts ==
  ASSUME NEW list \in Seq(Entry), Distinct(list), NEW of \in Pids \cup Listener,
         of \notin Watches(list)
  PROVE  /\ AddFd(list, of) \in Seq(Entry) /\ Distinct(AddFd(list, of))
         /\ Watches(AddFd(list, of)) = Watches(list) \cup {of}
         /\ FreeNumber(list) \in Number
<1> DEFINE n == FreeNumber(list)
           e == [fd |-> n, of |-> of]
           l == AddFd(list, of)
<1>1. n \in Number /\ n \notin Numbers(list)
  BY KthFree DEF FreeNumber
<1>2. e \in Entry
  BY <1>1 DEF Entry
<1>3. /\ Len(list) \in Nat /\ DOMAIN list = 1..Len(list)
  BY ListFacts
<1> HIDE DEF n, e
<1>4. <<e>> \in Seq(Entry) /\ Len(<<e>>) = 1 /\ <<e>>[1] = e
  BY <1>2
<1>5. /\ l \in Seq(Entry) /\ Len(l) = 1 + Len(list)
      /\ \A i \in 1..(1 + Len(list)) :
           l[i] = IF i <= 1 THEN <<e>>[i] ELSE list[i - 1]
  <2>1. l = <<e>> \o list
    BY DEF AddFd, e, n
  <2> HIDE DEF l
  <2> QED BY <1>4, <2>1, ConcatProperties
<1> HIDE DEF l
<1>6. /\ DOMAIN l = 1..(1 + Len(list)) /\ l[1] = e
      /\ \A i \in 2..(1 + Len(list)) : i - 1 \in DOMAIN list /\ l[i] = list[i - 1]
      /\ \A i \in DOMAIN list : l[i + 1] = list[i]
  <2>1. DOMAIN l = 1..(1 + Len(list))
    BY <1>3, <1>5, ListFacts
  <2> QED BY <1>3, <1>4, <1>5, <2>1
<1>7. \A i \in DOMAIN list : list[i].fd /= n /\ list[i].of /= of
  BY <1>1 DEF Numbers, Watches
<1>8. e.fd = n /\ e.of = of
  BY DEF e
<1>9. Distinct(l)
  <2> SUFFICES ASSUME NEW j \in DOMAIN l, NEW k \in DOMAIN l,
                      l[j].fd = l[k].fd \/ l[j].of = l[k].of
               PROVE  j = k
    BY DEF Distinct
  <2>0. ASSUME NEW i \in DOMAIN l, i /= 1 PROVE l[i].fd /= n /\ l[i].of /= of
    <3>1. i - 1 \in DOMAIN list /\ l[i] = list[i - 1]
      BY <2>0, <1>3, <1>6
    <3> QED BY <3>1, <1>7
  <2>1. CASE j = 1 \/ k = 1
    BY <2>0, <2>1, <1>6, <1>8
  <2>2. CASE j /= 1 /\ k /= 1
    <3>1. /\ j - 1 \in DOMAIN list /\ l[j] = list[j - 1]
          /\ k - 1 \in DOMAIN list /\ l[k] = list[k - 1]
      BY <2>2, <1>3, <1>6
    <3>2. j - 1 = k - 1
      BY <3>1 DEF Distinct
    <3> QED BY <3>2, <1>3, <1>6
  <2> QED BY <2>1, <2>2
<1>10. Watches(l) = Watches(list) \cup {of}
  <2>1. ASSUME NEW i \in DOMAIN l PROVE l[i].of \in Watches(list) \cup {of}
    <3>1. CASE i = 1
      BY <3>1, <1>6, <1>8
    <3>2. CASE i /= 1
      <4>1. i - 1 \in DOMAIN list /\ l[i] = list[i - 1]
        BY <3>2, <1>3, <1>6
      <4> QED BY <4>1 DEF Watches
    <3> QED BY <3>1, <3>2
  <2>2. Watches(list) \subseteq Watches(l)
    <3>1. \A i \in DOMAIN list : i + 1 \in DOMAIN l
      BY <1>3, <1>6
    <3> QED BY <3>1, <1>6 DEF Watches
  <2>3. of \in Watches(l)
    BY <1>3, <1>6, <1>8 DEF Watches
  <2> QED BY <2>1, <2>2, <2>3 DEF Watches
<1> QED BY <1>1, <1>5, <1>9, <1>10 DEF l, n
\* close_fds leaves some of the entries.
LEMMA SublistFacts ==
  ASSUME NEW list \in Seq(Entry), Distinct(list), NEW S \in SUBSET DOMAIN list
  PROVE  /\ Entries(list, S) \in Seq(Entry) /\ Distinct(Entries(list, S))
         /\ Len(Entries(list, S)) <= Len(list)
         /\ \A w \in Watches(Entries(list, S)) : \E i \in S : list[i].of = w
<1>1. /\ Entries(list, S) \in Seq(Entry)
      /\ Len(Entries(list, S)) <= Len(list)
      /\ \A k \in DOMAIN Entries(list, S) :
           Kth(S, k) \in S /\ Entries(list, S)[k] = list[Kth(S, k)]
      /\ \A j, k \in DOMAIN Entries(list, S) : Kth(S, j) = Kth(S, k) => j = k
  BY EntriesFacts
<1>2. Distinct(Entries(list, S))
  BY <1>1 DEF Distinct
<1>3. \A w \in Watches(Entries(list, S)) : \E i \in S : list[i].of = w
  BY <1>1 DEF Watches
<1> QED BY <1>1, <1>2, <1>3

LEMMA CloseFdFacts ==
  ASSUME NEW list \in Seq(Entry), Distinct(list), NEW number
  PROVE  /\ CloseFd(list, number) \in Seq(Entry) /\ Distinct(CloseFd(list, number))
         /\ Len(CloseFd(list, number)) <= Len(list)
         /\ Watches(CloseFd(list, number)) \subseteq Watches(list)
<1> DEFINE S == {k \in DOMAIN list : list[k].fd /= number}
<1>1. S \in SUBSET DOMAIN list
  OBVIOUS
<1>2. CloseFd(list, number) = Entries(list, S)
  BY DEF CloseFd
<1> HIDE DEF S
<1>3. /\ Entries(list, S) \in Seq(Entry) /\ Distinct(Entries(list, S))
      /\ Len(Entries(list, S)) <= Len(list)
      /\ \A w \in Watches(Entries(list, S)) : \E i \in S : list[i].of = w
  BY <1>1, SublistFacts
<1>4. Watches(Entries(list, S)) \subseteq Watches(list)
  BY <1>1, <1>3 DEF Watches
<1> QED BY <1>2, <1>3, <1>4

LEMMA CloseListenersFacts ==
  ASSUME NEW list \in Seq(Entry), Distinct(list)
  PROVE  /\ CloseListeners(list) \in Seq(Entry) /\ Distinct(CloseListeners(list))
         /\ Len(CloseListeners(list)) <= Len(list)
         /\ Watches(CloseListeners(list)) \subseteq Watches(list) \ Listener
<1> DEFINE S == {k \in DOMAIN list : list[k].of \notin Listener}
<1>1. S \in SUBSET DOMAIN list /\ \A k \in S : list[k].of \notin Listener
  OBVIOUS
<1>2. CloseListeners(list) = Entries(list, S)
  BY DEF CloseListeners
<1> HIDE DEF S
<1>3. /\ Entries(list, S) \in Seq(Entry) /\ Distinct(Entries(list, S))
      /\ Len(Entries(list, S)) <= Len(list)
      /\ \A w \in Watches(Entries(list, S)) : \E i \in S : list[i].of = w
  BY <1>1, SublistFacts
<1>4. Watches(Entries(list, S)) \subseteq Watches(list) \ Listener
  BY <1>1, <1>3 DEF Watches
<1> QED BY <1>2, <1>3, <1>4

\* do_bindings puts sockets in front, each once and under a number of its own.
LEMMA DoBindingsFacts ==
  ASSUME NEW list \in Seq(Entry), Distinct(list), Watches(list) \cap Listener = {},
         NEW opened \in SUBSET (1..NumListeners)
  PROVE  /\ DoBindings(list, opened) \in Seq(Entry) /\ Distinct(DoBindings(list, opened))
         /\ Watches(DoBindings(list, opened)) \subseteq Watches(list) \cup Listener
<1> DEFINE n == Cardinality(opened)
           num(k) == Kth(Free(list), n + 1 - k)
           sock(k) == -Kth(opened, n + 1 - k)
           new == [k \in 1..n |-> [fd |-> num(k), of |-> sock(k)]]
           l == DoBindings(list, opened)
<1>1. n \in Nat /\ n <= NumListeners
  <2>1. IsFiniteSet(1..NumListeners) /\ Cardinality(1..NumListeners)
          = IF 1 > NumListeners THEN 0 ELSE NumListeners - 1 + 1
    BY FS_Interval
  <2>2. IsFiniteSet(opened) /\ Cardinality(opened) <= Cardinality(1..NumListeners)
    BY <2>1, FS_Subset
  <2>3. Cardinality(opened) \in Nat
    BY <2>2, FS_CardinalityType
  <2> QED BY <2>1, <2>2, <2>3
<1>2. \A k \in 1..n : n + 1 - k \in 1..n /\ n + 1 - k \in 1..NumListeners
  BY <1>1
<1>3. \A k \in 1..n : num(k) \in Number /\ num(k) \notin Numbers(list)
  BY <1>2, KthFree
<1>4. \A j, k \in 1..n : num(j) = num(k) => j = k
  <2> SUFFICES ASSUME NEW j \in 1..n, NEW k \in 1..n, num(j) = num(k) PROVE j = k
    OBVIOUS
  <2>1. n + 1 - j = n + 1 - k
    BY <1>2, KthFree
  <2> QED BY <1>1, <2>1
<1>5. \A k \in 1..n : Kth(opened, k) \in opened /\ Cardinality(opened \cap 1..Kth(opened, k)) = k
  BY KthMember
<1>6. \A k \in 1..n : sock(k) \in Listener
  BY <1>2, <1>5 DEF Listener
<1>7. \A j, k \in 1..n : sock(j) = sock(k) => j = k
  <2> SUFFICES ASSUME NEW j \in 1..n, NEW k \in 1..n, sock(j) = sock(k) PROVE j = k
    OBVIOUS
  <2> DEFINE a == n + 1 - j
             b == n + 1 - k
  <2>1. a \in 1..n /\ b \in 1..n
    BY <1>2
  <2>2. -Kth(opened, a) = -Kth(opened, b)
    OBVIOUS
  <2> HIDE DEF a, b, sock
  <2>6. Kth(opened, a) \in Int /\ Kth(opened, b) \in Int
    <3>1. \A x \in opened : x \in Int
      OBVIOUS
    <3> QED BY <1>5, <2>1, <3>1
  <2>3. Kth(opened, a) = Kth(opened, b)
    BY <2>2, <2>6
  <2>4. a = b
    BY <1>5, <2>1, <2>3
  <2> QED BY <1>1, <2>4 DEF a, b
<1> HIDE DEF num, sock
<1>8. \A k \in 1..n : new[k].fd = num(k) /\ new[k].of = sock(k) /\ new[k] \in Entry
  BY <1>3, <1>6 DEF Entry
<1>9. new \in Seq(Entry) /\ Len(new) = n
  <2>1. new \in [1..n -> Entry]
    BY <1>3, <1>6 DEF Entry
  <2> QED BY <1>1, <2>1, FunctionSeq
<1>10. Len(list) \in Nat /\ DOMAIN list = 1..Len(list)
  BY ListFacts
<1>11. l = new \o list
  BY DEF DoBindings, num, sock
<1> HIDE DEF new, l
<1>12. /\ l \in Seq(Entry) /\ DOMAIN l = 1..(n + Len(list))
       /\ \A k \in DOMAIN l : \/ k \in 1..n /\ l[k] = new[k]
                              \/ k - n \in DOMAIN list /\ l[k] = list[k - n]
  <2>1. /\ l \in Seq(Entry) /\ Len(l) = n + Len(list)
        /\ \A k \in 1..(n + Len(list)) : l[k] = IF k <= n THEN new[k] ELSE list[k - n]
    BY <1>9, <1>11, ConcatProperties
  <2>2. DOMAIN l = 1..(n + Len(list))
    BY <2>1, ListFacts
  <2> QED BY <1>1, <1>10, <2>1, <2>2
<1> HIDE DEF n
<1>13. \A k \in 1..n, i \in DOMAIN list :
         new[k].fd /= list[i].fd /\ new[k].of /= list[i].of
  <2> SUFFICES ASSUME NEW k \in 1..n, NEW i \in DOMAIN list
               PROVE  new[k].fd /= list[i].fd /\ new[k].of /= list[i].of
    OBVIOUS
  <2>1. list[i].fd \in Numbers(list) /\ list[i].of \in Watches(list)
    BY DEF Numbers, Watches
  <2>2. list[i].of \notin Listener
    BY <2>1
  <2> QED BY <1>3, <1>6, <1>8, <2>1, <2>2
<1>14. ASSUME NEW j \in DOMAIN l, NEW k \in DOMAIN l, l[j].fd = l[k].fd \/ l[j].of = l[k].of
       PROVE  j = k
  <2>1. CASE j \in 1..n /\ l[j] = new[j] /\ k \in 1..n /\ l[k] = new[k]
    BY <1>4, <1>7, <1>8, <1>14, <2>1
  <2>2. CASE \/ j \in 1..n /\ l[j] = new[j] /\ k - n \in DOMAIN list /\ l[k] = list[k - n]
             \/ k \in 1..n /\ l[k] = new[k] /\ j - n \in DOMAIN list /\ l[j] = list[j - n]
    BY <1>13, <1>14, <2>2
  <2>3. CASE /\ j - n \in DOMAIN list /\ l[j] = list[j - n]
             /\ k - n \in DOMAIN list /\ l[k] = list[k - n]
    <3>1. j - n = k - n
      BY <1>14, <2>3 DEF Distinct
    <3>2. j \in Int /\ k \in Int
      BY <1>12
    <3> QED BY <1>1, <3>1, <3>2
  <2> QED BY <1>12, <2>1, <2>2, <2>3
<1>15. ASSUME NEW k \in DOMAIN l PROVE l[k].of \in Watches(list) \cup Listener
  <2>1. CASE k \in 1..n /\ l[k] = new[k]
    BY <2>1, <1>6, <1>8
  <2>2. CASE k - n \in DOMAIN list /\ l[k] = list[k - n]
    BY <2>2 DEF Watches
  <2> QED BY <1>12, <2>1, <2>2
<1> QED BY <1>12, <1>14, <1>15 DEF Distinct, Watches, l
-----------------------------------------------------------------------------
\* Processes.

States == {"none", "running", "spinning", "zombie", "gone"}

LEMMA Apart ==
  /\ \A p \in Pids : p \notin Listener /\ p /= None
  /\ Avahi \in Pids /\ \A p \in Session : p \in Pids
BY DEF Pids, Listener, Avahi, Session, None

\* No process starts, and none that has ended lives again.
Withers(state) == /\ state \in [Pids -> States]
                  /\ \A p \in Pids : /\ state[p] = "none" <=> proc[p] = "none"
                                     /\ state[p] \in {"running", "spinning"} => Alive(p)

LEMMA EndsWithers ==
  ASSUME Typed, NEW state, Withers(state), NEW p \in Pids, state[p] \in {"running", "spinning"}
  PROVE  Withers(Ends(state, p)) /\ Ends(state, p)[p] \notin {"running", "spinning"}
<1>1. state \in [Pids -> States] /\ DOMAIN state = Pids
  BY DEF Withers
<1>2. PICK st \in {"gone", "zombie"} : Ends(state, p) = [state EXCEPT ![p] = st]
  BY DEF Ends
<1> DEFINE new == [state EXCEPT ![p] = st]
<1>3. /\ new[p] = st /\ new \in [Pids -> States]
      /\ \A q \in Pids : q /= p => new[q] = state[q]
  BY <1>1 DEF States
<1> HIDE DEF new
<1>4. \A q \in Pids : /\ new[q] = "none" <=> proc[q] = "none"
                      /\ new[q] \in {"running", "spinning"} => Alive(q)
  BY <1>3 DEF Withers
<1> QED BY <1>2, <1>3, <1>4 DEF Withers, new

LEMMA OtherEnds ==
  ASSUME Typed
  PROVE  /\ Withers(proc)
         /\ \A list : Withers(KillChildren(proc, list))
         /\ Withers(Orphaned(proc))
         /\ \A p \in Pids : Alive(p) => Withers(Terminated(proc, p))
         /\ \A p \in Pids : proc[p] = "zombie" => Withers([proc EXCEPT ![p] = "gone"])
<1>1. proc \in [Pids -> States] /\ DOMAIN proc = Pids
  BY DEF Typed, States
<1>2. Withers(proc)
  BY <1>1 DEF Withers, Alive
<1>3. ASSUME NEW list PROVE Withers(KillChildren(proc, list))
  BY <1>2, EndsWithers, Apart DEF KillChildren
<1>4. Withers(Orphaned(proc))
  BY <1>1 DEF Withers, Alive, Orphaned, States
<1>5. ASSUME NEW p \in Pids, Alive(p) PROVE Withers(Terminated(proc, p))
  <2>1. CASE kids[p] = {}
    BY <2>1, <1>2, <1>5, EndsWithers DEF Terminated, Alive
  <2>2. CASE kids[p] /= {}
    <3> DEFINE killed == KillChildren(proc, kids[p])
               new == [killed EXCEPT ![p] = "spinning"]
    <3>1. Withers(killed)
      BY <1>3
    <3> HIDE DEF killed
    <3>2. /\ new \in [Pids -> States] /\ new[p] = "spinning"
          /\ \A q \in Pids : q /= p => new[q] = killed[q]
      BY <3>1 DEF Withers, States
    <3> HIDE DEF new
    <3>3. Withers(new)
      BY <1>5, <3>1, <3>2 DEF Withers, Alive
    <3> QED BY <2>2, <3>3 DEF Terminated, new, killed
  <2> QED BY <2>1, <2>2
<1>6. ASSUME NEW p \in Pids, proc[p] = "zombie" PROVE Withers([proc EXCEPT ![p] = "gone"])
  <2> DEFINE new == [proc EXCEPT ![p] = "gone"]
  <2>1. /\ new \in [Pids -> States] /\ new[p] = "gone"
        /\ \A q \in Pids : q /= p => new[q] = proc[q]
    BY <1>1 DEF States
  <2> HIDE DEF new
  <2>2. Withers(new)
    BY <1>6, <2>1 DEF Withers, Alive
  <2> QED BY <2>2 DEF new
<1> QED BY <1>2, <1>3, <1>4, <1>5, <1>6

-----------------------------------------------------------------------------
\* The initial states.

LEMMA InitIInv == Init => IInv
<1> SUFFICES ASSUME Init PROVE IInv
  OBVIOUS
<1>1. /\ <<>> \in Seq(Entry) /\ Distinct(<<>>) /\ Watches(<<>>) = {}
      /\ <<>> \in Seq(Number) /\ <<>> \in Seq(Pollfd)
  BY EmptySeq DEF Distinct, Watches
<1>2. /\ saned_fds \in Seq(Entry) /\ Distinct(saned_fds) /\ Watches(saned_fds) \subseteq Listener
  BY <1>1, DoBindingsFacts DEF Init
<1>s. /\ pc = "start" /\ once \in BOOLEAN /\ running = TRUE /\ children = {}
      /\ poll_set = <<>> /\ walk = <<>> /\ do_reap = FALSE /\ do_rebind = FALSE
      /\ child = None /\ proc = [p \in Pids |-> "none"] /\ kids = [p \in Pids |-> {}]
      /\ pending = {} /\ broken = {} /\ unlisted = {} /\ slow = FALSE
  BY DEF Init
<1>3. Typed
  BY <1>1, <1>2, <1>s DEF Typed
<1>4. Listed = {} /\ ~Forked /\ \A p \in Pids : ~Alive(p)
  BY <1>s DEF Listed, Forked, Alive
<1>5. Tables
  BY <1>2, <1>4, <1>s, Apart DEF Tables
<1>6. PollSets
  BY <1>4, <1>s, EmptySeq DEF PollSets
<1>7. Tracked /\ PollSetAgrees /\ NoOrphans
  BY <1>4, <1>s DEF Tracked, PollSetAgrees, NoOrphans
<1> QED BY <1>3, <1>5, <1>6, <1>7 DEF IInv
-----------------------------------------------------------------------------
\* Steps that fork no process and take none from the list of children.

\* What fork() returned is still on its way into the list, or can never be in it.
Calm ==
  /\ Withers(proc') /\ kids' = kids /\ children' = children
  /\ saned_fds' \in Seq(Entry) /\ Distinct(saned_fds')
  /\ Watches(saned_fds') \subseteq Watches(saned_fds) \cup Listener
  /\ unlisted \subseteq unlisted' /\ unlisted' \subseteq Pids
  /\ pc' /= "start"
  /\ \/ child' = child /\ Forked' = Forked
     \/ child' = None /\ (Forked => child \in unlisted')

LEMMA CalmTables ==
  ASSUME IInv, Calm
  PROVE  Tables'
<1>i. Typed /\ Tables
  BY DEF IInv
<1>c. /\ \A p \in Pids : proc'[p] = "none" <=> proc[p] = "none"
      /\ children' = children /\ Distinct(saned_fds')
      /\ Watches(saned_fds') \subseteq Watches(saned_fds) \cup Listener
      /\ child' = None \/ (child' = child /\ Forked' = Forked)
      /\ pc' /= "start"
  BY DEF Calm, Withers
<1>1. Listed' = Listed /\ (child' = None => ~Forked')
  BY <1>c DEF Listed, Forked
<1>2. \A p \in Pids : p \in Watches(saned_fds') => p \in Watches(saned_fds)
  BY <1>c, Apart
<1>3. \A p \in Pids : proc'[p] = "none" => p \notin Listed' \cup Watches(saned_fds') \cup {child'}
  BY <1>i, <1>c, <1>1, <1>2, Apart DEF Tables
<1>4. Forked' => child' \notin Listed' \cup Watches(saned_fds')
  <2> SUFFICES ASSUME Forked' PROVE child' \notin Listed' \cup Watches(saned_fds')
    OBVIOUS
  <2>1. Forked /\ child' = child /\ child \in Pids
    BY <1>i, <1>c, <1>1 DEF Typed, Forked
  <2> QED BY <1>i, <1>1, <1>2, <2>1 DEF Tables
<1> QED BY <1>i, <1>c, <1>3, <1>4 DEF Tables

LEMMA CalmTracked ==
  ASSUME IInv, Calm, ~Dead' => ~Dead,
         pc' \in {"reap", "last", "bail"} /\ child' /= None => pc \in {"reap", "last", "bail"}
  PROVE  Tracked'
<1>i. Typed /\ Tracked
  BY DEF IInv
<1>c. /\ \A p \in Pids : Alive(p)' => Alive(p)
      /\ children' = children /\ unlisted \subseteq unlisted'
      /\ child' = child \/ child' = None
      /\ Forked => (child' = child /\ Forked') \/ child \in unlisted'
  BY DEF Calm, Withers, Alive
<1>1. Listed' = Listed
  BY <1>c DEF Listed
<1>2. ~Dead' => \A p \in Pids \ unlisted' : Alive(p)' => p \in Listed' \/ (Forked' /\ child' = p)
  BY <1>i, <1>c, <1>1 DEF Tracked
<1>3. pc' \in {"reap", "last", "bail"} /\ child' /= None => ~Alive(child)'
  <2>1. child \in Pids \/ child = None
    BY <1>i DEF Typed
  <2> QED BY <1>i, <1>c, <2>1 DEF Tracked
<1> QED BY <1>c, <1>2, <1>3 DEF Tracked, Alive

LEMMA CalmTyped ==
  ASSUME IInv, Calm, pc' \in {"start", "top", "walk", "reap", "last", "bail", "exited", "aborted"},
         once' = once, running' = running, slow' = slow,
         do_reap' \in BOOLEAN, do_rebind' \in BOOLEAN,
         poll_set' \in Seq(Number), walk' \in Seq(Pollfd),
         pending' \subseteq Listener, broken' \subseteq Listener
  PROVE  Typed'
<1>i. Typed
  BY DEF IInv
<1>c. /\ proc' \in [Pids -> States] /\ kids' = kids /\ children' = children
      /\ saned_fds' \in Seq(Entry) /\ unlisted' \subseteq Pids /\ child' \in {child, None}
  BY DEF Calm, Withers
<1> QED BY <1>i, <1>c DEF Typed, States

\* bail_out, for a signal or a fatal error.
LEMMA BailOutStep ==
  ASSUME IInv, ~Dead, BailOut, children' = children,
         saned_fds' \in {saned_fds, <<>>, CloseListeners(saned_fds)},
         unlisted' = IF Forked THEN unlisted \cup {child} ELSE unlisted
  PROVE  IInv'
<1>i. Typed /\ Tables /\ PollSets
  BY DEF IInv
<1>s. /\ pc' = "bail" /\ child' = None /\ proc' = KillChildren(proc, Listed)
      /\ poll_set' = <<>> /\ walk' = <<>> /\ do_reap' = FALSE /\ do_rebind' = FALSE
      /\ pending' = {} /\ broken' = {} /\ UNCHANGED <<once, running, kids, slow>>
  BY DEF BailOut
<1>e. <<>> \in Seq(Number) /\ <<>> \in Seq(Pollfd) /\ <<>> \in Seq(Entry) /\ DOMAIN <<>> = {}
  BY EmptySeq
<1>f. /\ saned_fds' \in Seq(Entry) /\ Distinct(saned_fds')
      /\ Watches(saned_fds') \subseteq Watches(saned_fds) \cup Listener
  <2>1. saned_fds \in Seq(Entry) /\ Distinct(saned_fds)
    BY <1>i DEF Typed, Tables
  <2>2. CASE saned_fds' = saned_fds
    BY <2>1, <2>2
  <2>3. CASE saned_fds' = <<>>
    BY <1>e, <2>3 DEF Distinct, Watches
  <2>4. CASE saned_fds' = CloseListeners(saned_fds)
    <3> DEFINE l == CloseListeners(saned_fds)
    <3>1. l \in Seq(Entry) /\ Distinct(l) /\ Watches(l) \subseteq Watches(saned_fds) \ Listener
      BY <2>1, CloseListenersFacts
    <3> HIDE DEF l
    <3>2. saned_fds' = l
      BY <2>4 DEF l
    <3> QED BY <3>1, <3>2
  <2> QED BY <2>2, <2>3, <2>4
<1>1. Calm
  <2>1. Withers(proc')
    BY <1>i, <1>s, OtherEnds
  <2>2. unlisted \subseteq unlisted' /\ unlisted' \subseteq Pids /\ (Forked => child \in unlisted')
    BY <1>i DEF Typed, Forked
  <2> QED BY <1>s, <1>f, <2>1, <2>2 DEF Calm
<1>2. Typed'
  BY <1>1, <1>s, <1>e, CalmTyped
<1>3. Tables' /\ Tracked'
  BY <1>1, <1>s, CalmTables, CalmTracked
<1>4. PollSets'
  BY <1>i, <1>s, <1>e DEF PollSets, Forked, Looping
<1>5. PollSetAgrees' /\ NoOrphans'
  BY <1>s DEF PollSetAgrees, NoOrphans
<1> QED BY <1>2, <1>3, <1>4, <1>5 DEF IInv

LEMMA BailOutSteps ==
  ASSUME IInv, PollFails \/ RebindFails \/ Signal
  PROVE  IInv'
<1>1. CASE PollFails
  BY <1>1, BailOutStep DEF PollFails, At, Dead, Forked
<1>2. CASE RebindFails
  BY <1>2, BailOutStep DEF RebindFails, At, Dead, Forked
<1>3. CASE Signal
  BY <1>3, BailOutStep DEF Signal, tables
<1> QED BY <1>1, <1>2, <1>3
\* Poll events.
LEMMA EventFacts ==
  ASSUME IInv, walk /= <<>>
  PROVE  /\ Event \in Pollfd /\ Tail(walk) \in Seq(Pollfd)
         /\ ~slow => /\ Event.sfd.fd = Event.fd
                     /\ \A k \in DOMAIN Tail(walk) : Tail(walk)[k].sfd.fd = Tail(walk)[k].fd
<1>1. /\ walk \in Seq(Pollfd)
      /\ ~slow => \A k \in DOMAIN walk : walk[k].sfd.fd = walk[k].fd
  BY DEF IInv, Typed, PollSets
<1>2. /\ Event \in Pollfd /\ Tail(walk) \in Seq(Pollfd) /\ Event = walk[1]
      /\ Len(Tail(walk)) = Len(walk) - 1
      /\ \A k \in 1..Len(Tail(walk)) : Tail(walk)[k] = walk[k + 1]
  BY <1>1, HeadTailProperties DEF Event
<1>3. /\ Len(walk) \in Nat \ {0} /\ DOMAIN walk = 1..Len(walk)
      /\ DOMAIN Tail(walk) = 1..(Len(walk) - 1)
  BY <1>1, <1>2, ListFacts
<1>4. \A k \in DOMAIN Tail(walk) : k + 1 \in DOMAIN walk /\ Tail(walk)[k] = walk[k + 1]
  BY <1>2, <1>3
<1>5. 1 \in DOMAIN walk
  BY <1>3
<1> QED BY <1>1, <1>2, <1>4, <1>5

\* The poll set that is polled has an element for each entry, the same number if
\* no child was waited for by the clock, and so have the events.
LEMMA PolledFacts ==
  ASSUME IInv, pc = "top", child = None
  PROVE  /\ PollSet \in Seq(Number) /\ Len(PollSet) >= Len(saned_fds)
         /\ Polled \in Seq(Pollfd)
         /\ ~slow => /\ \A k \in DOMAIN saned_fds : PollSet[k] = saned_fds[k].fd
                     /\ \A k \in DOMAIN Polled : Polled[k].sfd.fd = Polled[k].fd
<1>i. Typed /\ PollSets
  BY DEF IInv
<1>1. /\ saned_fds \in Seq(Entry) /\ Len(saned_fds) \in Nat /\ DOMAIN saned_fds = 1..Len(saned_fds)
      /\ \A k \in DOMAIN saned_fds : saned_fds[k] \in Entry
  BY <1>i, ListFacts DEF Typed
<1>2. /\ poll_set \in Seq(Number)
      /\ poll_set /= <<>> => Len(poll_set) >= Len(saned_fds)
      /\ ~slow /\ poll_set /= <<>> => \A k \in DOMAIN saned_fds : poll_set[k] = saned_fds[k].fd
  BY <1>i DEF Typed, PollSets, Looping
<1>3. /\ PollSet \in Seq(Number) /\ Len(PollSet) >= Len(saned_fds)
      /\ ~slow => \A k \in DOMAIN saned_fds : PollSet[k] = saned_fds[k].fd
  <2>1. CASE poll_set /= <<>>
    BY <1>2, <2>1 DEF PollSet
  <2>2. CASE poll_set = <<>>
    <3> DEFINE l == [k \in DOMAIN saned_fds |-> saned_fds[k].fd]
    <3>1. l \in [1..Len(saned_fds) -> Number] /\ \A k \in DOMAIN saned_fds : l[k] = saned_fds[k].fd
      BY <1>1 DEF Entry
    <3>2. PollSet = l
      BY <2>2 DEF PollSet
    <3> HIDE DEF l
    <3>3. l \in Seq(Number) /\ Len(l) = Len(saned_fds)
      BY <1>1, <3>1, FunctionSeq
    <3> QED BY <1>1, <3>1, <3>2, <3>3
  <2> QED BY <2>1, <2>2
<1>4. \A k \in DOMAIN saned_fds : PollSet[k] \in Number
  <2>1. DOMAIN PollSet = 1..Len(PollSet) /\ Len(PollSet) \in Nat
        /\ \A k \in DOMAIN PollSet : PollSet[k] \in Number
    BY <1>3, ListFacts
  <2> QED BY <1>1, <1>3, <2>1
<1> DEFINE both == [k \in DOMAIN saned_fds |->
                      [sfd |-> saned_fds[k], fd |-> PollSet[k], revents |-> Revents(PollSet[k])]]
           due == {k \in DOMAIN saned_fds : Revents(PollSet[k]) /= "none"}
<1>5. Polled = Entries(both, due)
  BY DEF Polled
<1>6. both \in Seq(Pollfd) /\ due \in SUBSET DOMAIN both
  <2>1. \A n : Revents(n) \in {"none", "bad", "in"}
    BY DEF Revents
  <2>2. both \in [1..Len(saned_fds) -> Pollfd]
    BY <1>1, <1>4, <2>1 DEF Pollfd
  <2> QED BY <1>1, <2>2, SeqDef
<1>7. \A k \in DOMAIN both : both[k].sfd = saned_fds[k] /\ both[k].fd = PollSet[k]
  OBVIOUS
<1>8. DOMAIN both = DOMAIN saned_fds
  OBVIOUS
<1> HIDE DEF both, due
<1>9. /\ Polled \in Seq(Pollfd)
      /\ \A k \in DOMAIN Polled : Kth(due, k) \in due /\ Polled[k] = both[Kth(due, k)]
  BY <1>5, <1>6, EntriesFacts
<1>10. ~slow => \A k \in DOMAIN Polled : Polled[k].sfd.fd = Polled[k].fd
  BY <1>3, <1>6, <1>7, <1>8, <1>9
<1> QED BY <1>3, <1>9, <1>10

LEMMA PollStep == IInv /\ Poll => IInv'
<1> SUFFICES ASSUME IInv, Poll PROVE IInv'
  OBVIOUS
<1>i. Typed /\ Tables /\ PollSets /\ pc = "top" /\ child = None
  BY DEF IInv, Poll, At
<1>s. /\ pc' = "walk" /\ walk' = Polled /\ poll_set' = PollSet
      /\ do_reap' = TimeoutNeeded /\ do_rebind' = FALSE
      /\ UNCHANGED <<once, running, children, saned_fds, child, proc, kids, pending, broken,
                     unlisted, slow>>
  BY DEF Poll, tables, network, history
<1>p. /\ PollSet \in Seq(Number) /\ Len(PollSet) >= Len(saned_fds)
      /\ Polled \in Seq(Pollfd)
      /\ ~slow => /\ \A k \in DOMAIN saned_fds : PollSet[k] = saned_fds[k].fd
                  /\ \A k \in DOMAIN Polled : Polled[k].sfd.fd = Polled[k].fd
  BY <1>i, PolledFacts
<1>1. Calm
  BY <1>i, <1>s, OtherEnds DEF Calm, Typed, Tables, Forked
<1>2. Typed'
  <2>1. do_reap' \in BOOLEAN
    BY <1>s DEF TimeoutNeeded
  <2> QED BY <1>i, <1>1, <1>s, <1>p, <2>1, CalmTyped DEF Typed
<1>3. Tables' /\ Tracked'
  BY <1>1, <1>i, <1>s, CalmTables, CalmTracked DEF Dead
<1>4. PollSets'
  <2>1. ~slow => do_reap' = FALSE
    BY <1>i, <1>s DEF PollSets, TimeoutNeeded
  <2>2. ~Forked'
    BY <1>i, <1>s DEF Forked
  <2> QED BY <1>i, <1>s, <1>p, <2>1, <2>2 DEF PollSets
<1>5. PollSetAgrees' /\ NoOrphans'
  BY <1>s DEF PollSetAgrees, NoOrphans
<1> QED BY <1>2, <1>3, <1>4, <1>5 DEF IInv
\* An event that changes no table; one of a process makes the poll set invalid.
EventTaken ==
  /\ At("walk") /\ walk /= <<>> /\ walk' = Tail(walk)
  /\ pending' \subseteq pending
  /\ \/ poll_set' = <<>> /\ do_reap' = TRUE
     \/ UNCHANGED <<poll_set, do_reap>>
  /\ do_rebind' \in {do_rebind, TRUE}
  /\ UNCHANGED <<pc, once, running, tables, child, proc, kids, broken, history>>

LEMMA EventTakenStep ==
  ASSUME IInv, EventTaken
  PROVE  IInv'
<1>i. Typed /\ Tables /\ PollSets /\ pc = "walk" /\ child = None /\ walk /= <<>>
  BY DEF IInv, EventTaken, At
<1>s. /\ walk' = Tail(walk) /\ pending' \subseteq pending
      /\ (poll_set' = <<>> /\ do_reap' = TRUE) \/ (poll_set' = poll_set /\ do_reap' = do_reap)
      /\ do_rebind' \in {do_rebind, TRUE}
      /\ UNCHANGED <<pc, once, running, children, saned_fds, child, proc, kids, broken,
                     unlisted, slow>>
  BY DEF EventTaken, tables, history
<1>1. Calm
  BY <1>i, <1>s, OtherEnds DEF Calm, Typed, Tables, Forked
<1>2. Typed'
  <2>1. poll_set' \in Seq(Number)
    BY <1>i, <1>s, EmptySeq DEF Typed
  <2>2. Tail(walk) \in Seq(Pollfd)
    BY <1>i, EventFacts
  <2> QED BY <1>i, <1>1, <1>s, <2>1, <2>2, CalmTyped DEF Typed
<1>3. Tables' /\ Tracked'
  BY <1>1, <1>i, <1>s, CalmTables, CalmTracked DEF Dead
<1>4. PollSets'
  <2>1. ~slow => \A k \in DOMAIN walk' : walk'[k].sfd.fd = walk'[k].fd
    BY <1>i, <1>s, EventFacts
  <2>2. ~Forked'
    BY <1>i, <1>s DEF Forked
  <2> QED BY <1>i, <1>s, <2>1, <2>2 DEF PollSets, Looping
<1>5. PollSetAgrees' /\ NoOrphans'
  BY <1>i, <1>s DEF PollSetAgrees, NoOrphans
<1> QED BY <1>2, <1>3, <1>4, <1>5 DEF IInv

LEMMA EventSteps ==
  ASSUME IInv, ListenerError \/ AcceptFails \/ ProcessEvent
  PROVE  IInv'
<1>1. CASE ListenerError
  BY <1>1, EventTakenStep DEF ListenerError, NextIs, At, EventTaken, network
<1>2. CASE AcceptFails
  BY <1>2, EventTakenStep DEF AcceptFails, NextIs, At, EventTaken
<1>3. CASE ProcessEvent
  BY <1>3, EventTakenStep DEF ProcessEvent, NextIs, At, EventTaken, network
<1> QED BY <1>1, <1>2, <1>3

\* The assertion fails only if a child was waited for by the clock.
LEMMA AbortStep == IInv /\ Abort => IInv'
<1> SUFFICES ASSUME IInv, Abort PROVE IInv'
  OBVIOUS
<1>i. Typed /\ Tables /\ PollSets /\ pc = "walk" /\ child = None /\ slow
  <2>1. walk /= <<>> /\ Event.sfd.fd /= Event.fd /\ pc = "walk" /\ child = None
    BY DEF Abort, At
  <2> QED BY <2>1, EventFacts DEF IInv
<1>s. /\ pc' = "aborted" /\ proc' = Orphaned(proc) /\ pending' = {} /\ broken' = {}
      /\ UNCHANGED <<once, running, children, saned_fds, poll_set, walk, do_reap, do_rebind,
                     child, kids, unlisted, slow>>
  BY DEF Abort, tables, loop, history
<1>1. Calm
  BY <1>i, <1>s, OtherEnds DEF Calm, Typed, Tables, Forked
<1>2. Typed'
  BY <1>i, <1>1, <1>s, CalmTyped DEF Typed
<1>3. Tables' /\ Tracked'
  BY <1>1, <1>s, CalmTables, CalmTracked DEF Dead
<1>4. PollSets'
  BY <1>i, <1>s DEF PollSets, Forked
<1>5. PollSetAgrees' /\ NoOrphans'
  BY <1>i, <1>s DEF PollSetAgrees, NoOrphans
<1> QED BY <1>2, <1>3, <1>4, <1>5 DEF IInv

LEMMA RebindStep == IInv /\ Rebind => IInv'
<1> SUFFICES ASSUME IInv, Rebind PROVE IInv'
  OBVIOUS
<1>i. Typed /\ Tables /\ PollSets /\ pc = "walk" /\ child = None /\ walk = <<>>
  BY DEF IInv, Rebind, At
<1>s. /\ pending' = {} /\ broken' = {} /\ do_rebind' = FALSE /\ poll_set' = <<>>
      /\ UNCHANGED <<pc, once, running, children, walk, do_reap, child, proc, kids,
                     unlisted, slow>>
  BY DEF Rebind, history
<1>f. /\ saned_fds' \in Seq(Entry) /\ Distinct(saned_fds')
      /\ Watches(saned_fds') \subseteq Watches(saned_fds) \cup Listener
  <2> DEFINE closed == CloseListeners(saned_fds)
  <2>1. PICK opened \in SUBSET (1..NumListeners) : saned_fds' = DoBindings(closed, opened)
    BY DEF Rebind
  <2>2. /\ closed \in Seq(Entry) /\ Distinct(closed)
        /\ Watches(closed) \subseteq Watches(saned_fds) \ Listener
    BY <1>i, CloseListenersFacts DEF Typed, Tables
  <2> HIDE DEF closed
  <2>3. Watches(closed) \cap Listener = {}
    BY <2>2
  <2> DEFINE l == DoBindings(closed, opened)
  <2>4. l \in Seq(Entry) /\ Distinct(l) /\ Watches(l) \subseteq Watches(closed) \cup Listener
    BY <2>2, <2>3, DoBindingsFacts
  <2>5. saned_fds' = l
    BY <2>1
  <2> HIDE DEF l
  <2> QED BY <2>2, <2>4, <2>5
<1>1. Calm
  BY <1>i, <1>s, <1>f, OtherEnds DEF Calm, Typed, Forked
<1>2. Typed'
  BY <1>i, <1>1, <1>s, EmptySeq, CalmTyped DEF Typed
<1>3. Tables' /\ Tracked'
  BY <1>1, <1>i, <1>s, CalmTables, CalmTracked DEF Dead
<1>4. PollSets'
  BY <1>i, <1>s DEF PollSets, Looping
<1>5. PollSetAgrees' /\ NoOrphans'
  BY <1>i, <1>s DEF PollSetAgrees, NoOrphans
<1> QED BY <1>2, <1>3, <1>4, <1>5 DEF IInv

LEMMA EndOfWalkStep == IInv /\ EndOfWalk => IInv'
<1> SUFFICES ASSUME IInv, EndOfWalk PROVE IInv'
  OBVIOUS
<1>i. Typed /\ Tables /\ PollSets /\ pc = "walk" /\ child = None
  BY DEF IInv, EndOfWalk, At
<1>s. /\ pc' \in {"reap", "top"} /\ (pc' = "reap" => do_reap) /\ do_reap' = FALSE
      /\ UNCHANGED <<once, running, children, saned_fds, poll_set, walk, do_rebind, child, proc,
                     kids, pending, broken, unlisted, slow>>
  BY DEF EndOfWalk, tables, network, history
<1>1. Calm
  BY <1>i, <1>s, OtherEnds DEF Calm, Typed, Tables, Forked
<1>2. Typed'
  BY <1>i, <1>1, <1>s, CalmTyped DEF Typed
<1>3. Tables' /\ Tracked'
  BY <1>1, <1>i, <1>s, CalmTables, CalmTracked DEF Dead
<1>4. PollSets'
  BY <1>i, <1>s DEF PollSets, Looping, Forked
<1>5. PollSetAgrees' /\ NoOrphans'
  BY <1>s DEF PollSetAgrees, NoOrphans
<1> QED BY <1>2, <1>3, <1>4, <1>5 DEF IInv

LEMMA LeaveStep == IInv /\ Leave => IInv'
<1> SUFFICES ASSUME IInv, Leave PROVE IInv'
  OBVIOUS
<1>i. Typed /\ Tables /\ PollSets /\ pc = "top" /\ child = None
  BY DEF IInv, Leave, At
<1>s. /\ pc' = "last" /\ saned_fds' = <<>> /\ proc' = KillChildren(proc, Listed)
      /\ pending' = {} /\ broken' = {} /\ poll_set' = <<>>
      /\ UNCHANGED <<once, running, children, walk, do_reap, do_rebind, child, kids,
                     unlisted, slow>>
  BY DEF Leave, history
<1>e. /\ <<>> \in Seq(Number) /\ <<>> \in Seq(Entry) /\ Distinct(<<>>)
      /\ Watches(<<>>) = {}
  BY EmptySeq DEF Distinct, Watches
<1>1. Calm
  <2>1. Withers(proc')
    BY <1>i, <1>s, OtherEnds
  <2> QED BY <1>i, <1>s, <1>e, <2>1 DEF Calm, Typed, Forked
<1>2. Typed'
  BY <1>i, <1>1, <1>s, <1>e, CalmTyped DEF Typed
<1>3. Tables' /\ Tracked'
  BY <1>1, <1>i, <1>s, CalmTables, CalmTracked DEF Dead
<1>4. PollSets'
  BY <1>i, <1>s DEF PollSets, Looping
<1>5. PollSetAgrees' /\ NoOrphans'
  BY <1>s DEF PollSetAgrees, NoOrphans
<1> QED BY <1>2, <1>3, <1>4, <1>5 DEF IInv
\* There is no memory to list the child.
LEMMA AddChildFailsStep == IInv /\ AddChildFails => IInv'
<1> SUFFICES ASSUME IInv, AddChildFails PROVE IInv'
  OBVIOUS
<1>i. /\ Typed /\ Tables /\ PollSets /\ pc \in {"top", "walk"} /\ child \in Pids
      /\ poll_set = <<>>
  BY DEF IInv, AddChildFails, Typed, PollSets, Forked
<1>s. /\ child' = None /\ unlisted' = unlisted \cup {child}
      /\ proc' = IF Alive(child) THEN Terminated(proc, child) ELSE proc
      /\ UNCHANGED <<pc, once, running, children, saned_fds, poll_set, walk, do_reap, do_rebind,
                     kids, pending, broken, slow>>
  BY DEF AddChildFails, tables, loop, network
<1>1. Calm
  <2>1. Withers(proc')
    BY <1>i, <1>s, OtherEnds
  <2> QED BY <1>i, <1>s, <2>1 DEF Calm, Typed, Tables
<1>2. Typed'
  BY <1>i, <1>1, <1>s, CalmTyped DEF Typed
<1>3. Tables' /\ Tracked'
  BY <1>1, <1>i, <1>s, CalmTables, CalmTracked DEF Dead
<1>4. PollSets'
  BY <1>i, <1>s DEF PollSets, Looping, Forked
<1>5. PollSetAgrees' /\ NoOrphans'
  BY <1>i, <1>s DEF PollSetAgrees, NoOrphans
<1> QED BY <1>2, <1>3, <1>4, <1>5 DEF IInv

LEMMA ReapNoneStep == IInv /\ ReapNone => IInv'
<1> SUFFICES ASSUME IInv, ReapNone PROVE IInv'
  OBVIOUS
<1>i. Typed /\ Tables /\ PollSets /\ pc = "reap" /\ child = None
  BY DEF IInv, ReapNone, At
<1>s. /\ pc' = "top"
      /\ UNCHANGED <<once, running, children, saned_fds, poll_set, walk, do_reap, do_rebind, child,
                     proc, kids, pending, broken, unlisted, slow>>
  BY DEF ReapNone, tables, loop, network, history
<1>1. Calm
  BY <1>i, <1>s, OtherEnds DEF Calm, Typed, Tables, Forked
<1>2. Typed'
  BY <1>i, <1>1, <1>s, CalmTyped DEF Typed
<1>3. Tables' /\ Tracked'
  BY <1>1, <1>i, <1>s, CalmTables, CalmTracked DEF Dead
<1>4. PollSets'
  BY <1>i, <1>s DEF PollSets, Looping, Forked
<1>5. PollSetAgrees' /\ NoOrphans'
  BY <1>s DEF PollSetAgrees, NoOrphans
<1> QED BY <1>2, <1>3, <1>4, <1>5 DEF IInv

\* The list of children is empty, so no listed process is alive.
LEMMA ExitStep == IInv /\ Exit => IInv'
<1> SUFFICES ASSUME IInv, Exit PROVE IInv'
  OBVIOUS
<1>i. /\ Typed /\ Tables /\ PollSets /\ Tracked /\ pc \in {"last", "bail"} /\ child = None
      /\ children = {}
  BY DEF IInv, Exit, At
<1>s. /\ pc' = "exited" /\ saned_fds' = <<>> /\ proc' = Orphaned(proc)
      /\ UNCHANGED <<once, running, children, poll_set, walk, do_reap, do_rebind, child, kids,
                     pending, broken, unlisted, slow>>
  BY DEF Exit, loop, network, history
<1>e. <<>> \in Seq(Entry) /\ Distinct(<<>>) /\ Watches(<<>>) = {} /\ Len(<<>>) = 0
  BY EmptySeq DEF Distinct, Watches
<1>w. Withers(proc')
  BY <1>i, <1>s, OtherEnds
<1>1. Calm
  BY <1>i, <1>s, <1>e, <1>w DEF Calm, Typed, Forked
<1>2. Typed'
  BY <1>i, <1>1, <1>s, CalmTyped DEF Typed
<1>3. Tables' /\ Tracked'
  BY <1>1, <1>s, CalmTables, CalmTracked DEF Dead
<1>4. PollSets'
  <2>1. poll_set \in Seq(Number) /\ Len(poll_set) \in Nat
    BY <1>i, ListFacts DEF Typed
  <2> QED BY <1>i, <1>s, <1>e, <2>1 DEF PollSets, Looping, Forked
<1>5. NoOrphans'
  <2>1. \A p \in Pids \ unlisted : ~Alive(p)
    BY <1>i DEF Tracked, Dead, Forked, Listed
  <2> QED BY <1>s, <1>w, <2>1 DEF NoOrphans, Withers, Alive
<1>6. PollSetAgrees'
  BY <1>s DEF PollSetAgrees
<1> QED BY <1>2, <1>3, <1>4, <1>5, <1>6 DEF IInv

\* Connections come, sockets fail, processes end: the daemon's variables stay.
Outside ==
  /\ Withers(proc')
  /\ pending' \subseteq Listener /\ broken' \subseteq Listener
  /\ UNCHANGED <<pc, once, running, tables, loop, child, kids, history>>

LEMMA OutsideStep ==
  ASSUME IInv, Outside
  PROVE  IInv'
<1>i. Typed /\ Tables /\ PollSets /\ Tracked /\ PollSetAgrees /\ NoOrphans
  BY DEF IInv
<1>s. /\ pending' \subseteq Listener /\ broken' \subseteq Listener
      /\ proc' \in [Pids -> States]
      /\ \A p \in Pids : (proc'[p] = "none" <=> proc[p] = "none") /\ (Alive(p)' => Alive(p))
      /\ UNCHANGED <<pc, once, running, children, saned_fds, poll_set, walk, do_reap, do_rebind,
                     child, kids, unlisted, slow>>
  BY DEF Outside, tables, loop, history, Withers, Alive
<1>u. Listed' = Listed /\ Forked' = Forked /\ Looping' = Looping /\ Dead' = Dead
  BY <1>s DEF Listed, Forked, Looping, Dead
<1>1. Typed'
  BY <1>i, <1>s DEF Typed, States
<1>2. Tables'
  BY <1>i, <1>s, <1>u DEF Tables, Pids, Avahi
<1>3. PollSets'
  BY <1>i, <1>s, <1>u DEF PollSets
<1>4. Tracked'
  <2>1. child = None \/ child \in Pids
    BY <1>i DEF Typed
  <2>2. ~Dead' => \A p \in Pids \ unlisted' : Alive(p)' => p \in Listed' \/ (Forked' /\ child' = p)
    BY <1>i, <1>s, <1>u DEF Tracked
  <2>3. pc' \in {"reap", "last", "bail"} /\ child' /= None => ~Alive(child)'
    BY <1>i, <1>s, <2>1 DEF Tracked
  <2> QED BY <2>2, <2>3 DEF Tracked, Alive
<1>5. PollSetAgrees' /\ NoOrphans'
  BY <1>i, <1>s DEF PollSetAgrees, NoOrphans, Alive
<1> QED BY <1>1, <1>2, <1>3, <1>4, <1>5 DEF IInv

LEMMA OutsideSteps ==
  ASSUME IInv, Connect \/ Break \/ Process \/ UNCHANGED vars
  PROVE  IInv'
<1>i. Typed /\ pending \subseteq Listener /\ broken \subseteq Listener /\ Withers(proc)
  BY OtherEnds DEF IInv, Typed
<1>1. CASE Connect
  BY <1>i, <1>1, OutsideStep DEF Connect, Outside
<1>2. CASE Break
  BY <1>i, <1>2, OutsideStep DEF Break, Outside
<1>3. CASE Process
  <2>1. PICK p \in Pids : \/ proc[p] \in {"running", "spinning"} /\ proc' = Ends(proc, p)
                          \/ proc[p] = "running" /\ proc' = Terminated(proc, p)
    BY <1>3, Apart DEF Process, ProcessEnds, ProcessSignalled
  <2>2. Withers(proc')
    BY <1>i, <2>1, EndsWithers, OtherEnds DEF Alive
  <2> QED BY <1>i, <1>3, <2>2, OutsideStep DEF Process, Outside, network
<1>4. CASE UNCHANGED vars
  BY <1>i, <1>4, OutsideStep DEF vars, Outside, network
<1> QED BY <1>1, <1>2, <1>3, <1>4
-----------------------------------------------------------------------------
\* Steps that fork a process.

\* It is a process that was not there before, and on its way into the list.
LEMMA ForkStep ==
  ASSUME IInv, NEW p \in Pids, Fork(p), proc[p] = "none", child = None, ~Dead,
         pc' \in {"top", "walk"}, children' = children, saned_fds' = saned_fds,
         unlisted' = unlisted
  PROVE  /\ Tables' /\ Tracked' /\ child' \in Pids
         /\ proc' \in [Pids -> States] /\ kids' \in [Pids -> SUBSET Pids]
<1>i. Typed /\ Tables /\ Tracked
  BY DEF IInv
<1>1. /\ proc' = [proc EXCEPT ![p] = "running"] /\ kids' = [kids EXCEPT ![p] = Listed]
      /\ child' = p
  BY DEF Fork
<1>2. proc \in [Pids -> States] /\ kids \in [Pids -> SUBSET Pids]
  BY <1>i DEF Typed, States
<1>3. Listed \subseteq Pids /\ Listed' = Listed
  BY <1>i DEF Typed, Listed
<1>4. /\ proc' \in [Pids -> States] /\ proc'[p] = "running"
      /\ \A q \in Pids : q /= p => proc'[q] = proc[q]
  BY <1>1, <1>2 DEF States
<1>5. kids' \in [Pids -> SUBSET Pids]
  BY <1>1, <1>2, <1>3
<1>6. p /= None /\ Forked'
  BY <1>1, Apart DEF Forked
<1>7. p \notin Listed \cup Watches(saned_fds)
  BY <1>i DEF Tables
<1>8. Tables'
  <2>1. \A q \in Pids : proc'[q] = "none" => proc[q] = "none" /\ q /= p
    BY <1>4
  <2>2. \A q \in Pids : proc'[q] = "none" => q \notin Listed' \cup Watches(saned_fds') \cup {child'}
    BY <1>i, <1>1, <1>3, <2>1 DEF Tables
  <2>3. Forked' => child' \notin Listed' \cup Watches(saned_fds')
    BY <1>1, <1>3, <1>7
  <2> QED BY <1>i, <2>2, <2>3 DEF Tables
<1>9. Tracked'
  <2>1. \A q \in Pids \ unlisted' : Alive(q)' => q \in Listed' \/ (Forked' /\ child' = q)
    <3> SUFFICES ASSUME NEW q \in Pids \ unlisted, Alive(q)', q /= p
                 PROVE  q \in Listed
      BY <1>1, <1>3, <1>6
    <3>1. Alive(q)
      BY <1>4 DEF Alive
    <3> QED BY <1>i, <3>1 DEF Tracked, Forked
  <2> QED BY <2>1 DEF Tracked, Alive
<1> QED BY <1>1, <1>4, <1>5, <1>8, <1>9

LEMMA StartAvahiStep == IInv /\ StartAvahi => IInv'
<1> SUFFICES ASSUME IInv, StartAvahi PROVE IInv'
  OBVIOUS
<1>i. /\ Typed /\ Tables /\ PollSets /\ pc = "start" /\ child = None
      /\ poll_set = <<>> /\ proc[Avahi] = "none"
  BY DEF IInv, StartAvahi, At, PollSets, Tables
<1>s. /\ pc' = "top"
      /\ UNCHANGED <<once, running, children, saned_fds, poll_set, walk, do_reap, do_rebind,
                     pending, broken, unlisted, slow>>
  BY DEF StartAvahi, tables, loop, network, history
<1>1. /\ Tables' /\ Tracked' /\ child' \in Pids \cup {None}
      /\ proc' \in [Pids -> States] /\ kids' \in [Pids -> SUBSET Pids]
  <2>1. CASE Fork(Avahi)
    BY <1>i, <1>s, <2>1, ForkStep, Apart DEF Dead
  <2>2. CASE UNCHANGED <<proc, kids, child>>
    <3>1. Calm
      BY <1>i, <1>s, <2>2, OtherEnds DEF Calm, Typed, Tables, Forked
    <3> QED BY <1>i, <1>s, <2>2, <3>1, CalmTables, CalmTracked DEF Dead, Typed, States
  <2> QED BY <2>1, <2>2 DEF StartAvahi
<1>2. Typed'
  BY <1>i, <1>s, <1>1 DEF Typed, States
<1>3. PollSets'
  BY <1>i, <1>s DEF PollSets, Looping
<1>4. PollSetAgrees' /\ NoOrphans'
  BY <1>s DEF PollSetAgrees, NoOrphans
<1> QED BY <1>1, <1>2, <1>3, <1>4 DEF IInv

LEMMA AcceptStep ==
  ASSUME IInv, NEW l \in Listener, Accept(l)
  PROVE  IInv'
<1>i. Typed /\ Tables /\ PollSets /\ pc = "walk" /\ child = None /\ walk /= <<>>
  BY DEF IInv, Accept, NextIs, At
<1>s. /\ walk' = Tail(walk) /\ pending' \subseteq pending
      /\ poll_set' = <<>> /\ running' \in BOOLEAN
      /\ UNCHANGED <<pc, once, children, saned_fds, do_reap, do_rebind, broken, unlisted, slow>>
  BY DEF Accept, tables, history
<1>1. /\ Tables' /\ Tracked' /\ child' \in Pids \cup {None}
      /\ proc' \in [Pids -> States] /\ kids' \in [Pids -> SUBSET Pids]
  <2>1. CASE \E p \in Session : proc[p] = "none" /\ Fork(p)
    BY <1>i, <1>s, <2>1, ForkStep, Apart DEF Dead
  <2>2. CASE UNCHANGED <<child, proc, kids>>
    <3>1. Calm
      BY <1>i, <1>s, <2>2, OtherEnds DEF Calm, Typed, Tables, Forked
    <3> QED BY <1>i, <1>s, <2>2, <3>1, CalmTables, CalmTracked DEF Dead, Typed, States
  <2> QED BY <2>1, <2>2 DEF Accept
<1>2. Typed'
  <2>1. Tail(walk) \in Seq(Pollfd) /\ <<>> \in Seq(Number)
    BY <1>i, EventFacts, EmptySeq
  <2> QED BY <1>i, <1>s, <1>1, <2>1 DEF Typed, States
<1>3. PollSets'
  <2>1. ~slow => \A k \in DOMAIN walk' : walk'[k].sfd.fd = walk'[k].fd
    BY <1>i, <1>s, EventFacts
  <2> QED BY <1>i, <1>s, <2>1 DEF PollSets, Looping
<1>4. PollSetAgrees' /\ NoOrphans'
  BY <1>i, <1>s DEF PollSetAgrees, NoOrphans
<1> QED BY <1>1, <1>2, <1>3, <1>4 DEF IInv

-----------------------------------------------------------------------------
\* Steps that change the list of children.

LEMMA AddChildStep == IInv /\ AddChild => IInv'
<1> SUFFICES ASSUME IInv, AddChild PROVE IInv'
  OBVIOUS
<1>i. /\ Typed /\ Tables /\ PollSets /\ Tracked /\ PollSetAgrees
      /\ pc \in {"top", "walk"} /\ child \in Pids /\ Forked
      /\ child \notin Listed \cup Watches(saned_fds) /\ proc[child] /= "none"
      /\ poll_set = <<>>
  BY DEF IInv, AddChild, Typed, PollSets, Tables, Forked
<1> DEFINE number == FreeNumber(saned_fds)
           longer == AddFd(saned_fds, child)
<1>a. /\ longer \in Seq(Entry) /\ Distinct(longer)
      /\ Watches(longer) = Watches(saned_fds) \cup {child} /\ number \in Number
  BY <1>i, AddFdFacts DEF Typed, Tables
<1>b. PICK pidfd \in {-1, number} :
        /\ children' = children \cup {[pid |-> child, pidfd |-> pidfd]}
        /\ saned_fds' \in {saned_fds, longer}
        /\ slow' = (slow \/ pidfd = -1)
  BY DEF AddChild
<1>s. /\ child' = None
      /\ UNCHANGED <<pc, once, running, poll_set, walk, do_reap, do_rebind, proc, kids,
                     pending, broken, unlisted>>
  BY DEF AddChild, loop, network
<1> HIDE DEF longer, number
<1>c. /\ pidfd \in Number \cup {-1} /\ slow' \in BOOLEAN /\ (slow => slow')
      /\ ~slow' => ~slow /\ pidfd /= -1
  BY <1>a, <1>b, <1>i DEF Typed
<1>1. /\ saned_fds' \in Seq(Entry) /\ Distinct(saned_fds')
      /\ Watches(saned_fds') \subseteq Watches(saned_fds) \cup {child}
  BY <1>a, <1>b, <1>i DEF Typed, Tables
<1>2. Listed' = Listed \cup {child} /\ ~Forked'
  <2> DEFINE c == [pid |-> child, pidfd |-> pidfd]
  <2>1. c.pid = child /\ children' = children \cup {c}
    BY <1>b
  <2> HIDE DEF c
  <2>2. Listed' = Listed \cup {child}
    BY <2>1 DEF Listed
  <2> QED BY <1>s, <2>2 DEF Forked
<1>3. Typed'
  <2> DEFINE c == [pid |-> child, pidfd |-> pidfd]
  <2>1. c \in [pid : Pids, pidfd : Number \cup {-1}]
    BY <1>c, <1>i
  <2>2. children' \subseteq [pid : Pids, pidfd : Number \cup {-1}]
    BY <2>1, <1>b, <1>i DEF Typed
  <2> HIDE DEF c
  <2> QED BY <1>i, <1>s, <1>c, <1>1, <2>2 DEF Typed
<1>4. Tables'
  <2>1. \A c, d \in children' : c.pid = d.pid => c = d
    BY <1>i, <1>b DEF Tables, Listed
  <2>2. \A p \in Pids : proc'[p] = "none" => p \notin Listed' \cup Watches(saned_fds') \cup {child'}
    BY <1>i, <1>s, <1>1, <1>2, Apart DEF Tables
  <2> QED BY <1>i, <1>s, <1>1, <1>2, <2>1, <2>2 DEF Tables
<1>5. PollSets'
  <2>1. ~slow' => \A c \in children' : c.pidfd /= -1
    BY <1>i, <1>b, <1>c DEF PollSets
  <2> QED BY <1>i, <1>s, <1>c, <1>2, <2>1 DEF PollSets
<1>6. Tracked'
  BY <1>i, <1>s, <1>2 DEF Tracked, Dead, Alive
<1>7. PollSetAgrees' /\ NoOrphans'
  BY <1>i, <1>s DEF PollSetAgrees, NoOrphans
<1> QED BY <1>3, <1>4, <1>5, <1>6, <1>7 DEF IInv

LEMMA ReapStep == IInv /\ Reap => IInv'
<1> SUFFICES ASSUME IInv, Reap PROVE IInv'
  OBVIOUS
<1>i. /\ Typed /\ Tables /\ PollSets /\ Tracked
      /\ pc \in {"reap", "last", "bail"} /\ child = None
  BY DEF IInv, Reap, At
<1>s. UNCHANGED <<pc, once, running, children, saned_fds, poll_set, walk, do_reap, do_rebind, kids,
                  pending, broken, unlisted, slow>>
  BY DEF Reap, tables, loop, network, history
<1>p. PICK p \in Pids : /\ proc[p] = "zombie" /\ child' = p
                        /\ proc' = [proc EXCEPT ![p] = "gone"]
  BY DEF Reap
<1>w. /\ proc' \in [Pids -> States] /\ proc'[p] = "gone"
      /\ \A q \in Pids : /\ proc'[q] = "none" <=> proc[q] = "none"
                         /\ Alive(q)' => Alive(q)
  <2>1. Withers(proc')
    BY <1>i, <1>p, OtherEnds
  <2>2. proc'[p] = "gone"
    BY <1>i, <1>p DEF Typed
  <2> QED BY <2>1, <2>2 DEF Withers, Alive
<1>u. Listed' = Listed /\ ~Forked' /\ ~Forked /\ Dead' = Dead /\ Looping' = Looping
  BY <1>i, <1>s DEF Listed, Forked, Dead, Looping
<1>1. Typed'
  BY <1>i, <1>s, <1>p, <1>w DEF Typed, States
<1>2. Tables'
  <2>1. \A q \in Pids : proc'[q] = "none" => q \notin Listed' \cup Watches(saned_fds') \cup {child'}
    BY <1>i, <1>s, <1>p, <1>w, <1>u DEF Tables
  <2> QED BY <1>i, <1>s, <1>u, <2>1 DEF Tables
<1>3. PollSets'
  BY <1>i, <1>s, <1>u DEF PollSets
<1>4. Tracked'
  <2>1. \A q \in Pids \ unlisted' : Alive(q)' => q \in Listed'
    BY <1>i, <1>s, <1>w, <1>u DEF Tracked, Dead
  <2>2. ~(proc'[child'] \in {"running", "spinning"})
    BY <1>p, <1>w
  <2> QED BY <2>1, <2>2 DEF Tracked, Alive
<1>5. PollSetAgrees' /\ NoOrphans'
  BY <1>i, <1>s DEF PollSetAgrees, NoOrphans
<1> QED BY <1>1, <1>2, <1>3, <1>4, <1>5 DEF IInv

\* Only a process that has been waited for is taken from the list, and a poll set
\* is there then only if some child is waited for by the clock.
LEMMA RemoveChildStep == IInv /\ RemoveChild => IInv'
<1> SUFFICES ASSUME IInv, RemoveChild PROVE IInv'
  OBVIOUS
<1>i. /\ Typed /\ Tables /\ PollSets /\ Tracked
      /\ pc \in {"reap", "last", "bail"} /\ child \in Pids /\ ~Alive(child)
  BY DEF IInv, RemoveChild, Typed, Tracked
<1>s. /\ child' = None
      /\ UNCHANGED <<pc, once, running, poll_set, walk, do_reap, do_rebind, proc, kids,
                     pending, broken, unlisted, slow>>
  BY DEF RemoveChild, loop, network, history
<1>l. /\ saned_fds \in Seq(Entry) /\ Distinct(saned_fds) /\ Len(saned_fds) \in Nat
  BY <1>i, ListFacts DEF Typed, Tables
<1>t. /\ children' \subseteq children /\ Listed \ {child} \subseteq Listed'
      /\ saned_fds' \in Seq(Entry) /\ Distinct(saned_fds')
      /\ Len(saned_fds') <= Len(saned_fds)
      /\ Watches(saned_fds') \subseteq Watches(saned_fds)
  <2>1. CASE child \in Listed
    <3> DEFINE c == CHOOSE c \in children : c.pid = child
               l == CloseFd(saned_fds, c.pidfd)
    <3>1. c \in children /\ c.pid = child
      BY <2>1 DEF Listed
    <3>2. children' = children \ {c} /\ saned_fds' = l
      BY <2>1 DEF RemoveChild
    <3>3. /\ l \in Seq(Entry) /\ Distinct(l) /\ Len(l) <= Len(saned_fds)
          /\ Watches(l) \subseteq Watches(saned_fds)
      BY <1>l, CloseFdFacts
    <3> HIDE DEF c, l
    <3> QED BY <3>1, <3>2, <3>3 DEF Listed
  <2>2. CASE child \notin Listed
    <3>1. children' = children /\ saned_fds' = saned_fds
      BY <2>2 DEF RemoveChild, tables
    <3> QED BY <1>l, <3>1 DEF Listed
  <2> QED BY <2>1, <2>2
<1>u. /\ Listed' \subseteq Listed /\ ~Forked' /\ ~Forked /\ Dead' = Dead
      /\ Len(saned_fds') \in Nat /\ Len(poll_set) \in Nat
  <2>1. Len(saned_fds') \in Nat /\ Len(poll_set) \in Nat
    BY <1>i, <1>t, ListFacts DEF Typed
  <2> QED BY <1>i, <1>s, <1>t, <2>1 DEF Listed, Forked, Dead
<1>1. Typed'
  BY <1>i, <1>s, <1>t DEF Typed
<1>2. Tables'
  <2>1. \A q \in Pids : proc'[q] = "none" => q \notin Listed' \cup Watches(saned_fds') \cup {child'}
    BY <1>i, <1>s, <1>t, <1>u, Apart DEF Tables
  <2> QED BY <1>i, <1>s, <1>t, <1>u, <2>1 DEF Tables
<1>3. PollSets'
  <2>1. poll_set /= <<>> => Len(poll_set) >= Len(saned_fds')
    BY <1>i, <1>l, <1>t, <1>u DEF PollSets
  <2>2. ~slow => ~(Looping' /\ poll_set /= <<>>)
    BY <1>i, <1>s DEF PollSets, Looping
  <2> QED BY <1>i, <1>s, <1>t, <1>u, <2>1, <2>2 DEF PollSets
<1>4. Tracked'
  <2>1. \A q \in Pids \ unlisted' : Alive(q)' => q \in Listed'
    BY <1>i, <1>s, <1>t, <1>u DEF Tracked, Dead, Alive
  <2> QED BY <1>s, <2>1 DEF Tracked, Alive
<1>5. PollSetAgrees' /\ NoOrphans'
  BY <1>i, <1>s DEF PollSetAgrees, NoOrphans
<1> QED BY <1>1, <1>2, <1>3, <1>4, <1>5 DEF IInv

-----------------------------------------------------------------------------
\* The theorems.

LEMMA NextKeepsIInv == IInv /\ [Next]_vars => IInv'
<1> SUFFICES ASSUME IInv, [Next]_vars PROVE IInv'
  OBVIOUS
<1>1. CASE StartAvahi
  BY <1>1, StartAvahiStep
<1>2. CASE AddChild
  BY <1>2, AddChildStep
<1>3. CASE AddChildFails
  BY <1>3, AddChildFailsStep
<1>4. CASE Poll
  BY <1>4, PollStep
<1>5. CASE PollFails \/ RebindFails \/ Signal
  BY <1>5, BailOutSteps
<1>6. CASE Abort
  BY <1>6, AbortStep
<1>7. CASE ListenerError \/ AcceptFails \/ ProcessEvent
  BY <1>7, EventSteps
<1>8. CASE \E l \in Listener : Accept(l)
  BY <1>8, AcceptStep
<1>9. CASE Rebind
  BY <1>9, RebindStep
<1>10. CASE EndOfWalk
  BY <1>10, EndOfWalkStep
<1>11. CASE Leave
  BY <1>11, LeaveStep
<1>12. CASE Reap
  BY <1>12, ReapStep
<1>13. CASE ReapNone
  BY <1>13, ReapNoneStep
<1>14. CASE RemoveChild
  BY <1>14, RemoveChildStep
<1>15. CASE Exit
  BY <1>15, ExitStep
<1>16. CASE Connect \/ Break \/ Process \/ UNCHANGED vars
  BY <1>16, OutsideSteps
<1> QED BY <1>1, <1>2, <1>3, <1>4, <1>5, <1>6, <1>7, <1>8, <1>9, <1>10, <1>11, <1>12, <1>13,
           <1>14, <1>15, <1>16 DEF Next, Daemon

\* The invariant of the daemon's tables, whatever the processes and the network
\* do, for every number of listening sockets and of connections.
THEOREM Invariance == Spec => []IInv
<1>1. Init => IInv
  BY InitIInv
<1>2. IInv /\ [Next]_vars => IInv'
  BY NextKeepsIInv
<1> QED BY <1>1, <1>2, PTL DEF Spec

\* Each process of the list has a pid of its own.
LEMMA PidsApart ==
  ASSUME IInv
  PROVE  Cardinality(Listed) = Cardinality(children)
<1>i. /\ children \subseteq [pid : Pids, pidfd : Number \cup {-1}]
      /\ \A c, d \in children : c.pid = d.pid => c = d
  BY DEF IInv, Typed, Tables
<1> DEFINE f == [c \in children |-> c.pid]
<1>1. f \in Bijection(children, Listed)
  BY <1>i DEF Bijection, Injection, Surjection, IsInjective, Listed
<1>2. IsFiniteSet(Pids) /\ Listed \subseteq Pids
  <2>1. IsFiniteSet(Session)
    BY FS_Interval DEF Session
  <2>2. IsFiniteSet({Avahi})
    BY FS_Singleton
  <2> QED BY <1>i, <2>1, <2>2, FS_Union DEF Pids, Listed
<1>3. IsFiniteSet(Listed)
  BY <1>2, FS_Subset
<1> HIDE DEF f
<1>4. f \in Surjection(children, Listed) /\ f \in Injection(children, Listed)
  BY <1>1 DEF Bijection
<1>5. IsFiniteSet(children)
  BY <1>3, <1>4, FS_Injection
<1> QED BY <1>4, <1>5, FS_Surjection

\* Every value stays in its type; each process and socket is watched once, under a
\* number of its own, however descriptors are closed and their numbers used again.
THEOREM TypeCorrect == Spec => []TypeOK
<1>1. IInv => TypeOK
  <2> SUFFICES ASSUME IInv PROVE TypeOK
    OBVIOUS
  <2>i. Typed /\ Tables /\ PollSets
    BY DEF IInv
  <2>1. Looping \/ Dead \/ pc \in {"last", "bail"}
    BY <2>i DEF Typed, Looping, Dead
  <2>2. /\ {once, running, do_reap, do_rebind, slow} \subseteq BOOLEAN
        /\ pending \cup broken \subseteq Listener /\ unlisted \subseteq Pids
        /\ child \in Pids \cup {None}
        /\ proc \in [Pids -> {"none", "running", "spinning", "zombie", "gone"}]
        /\ kids \in [Pids -> SUBSET Pids]
    BY <2>i DEF Typed
  <2>3. \A c \in children : c.pid \in Pids /\ (c.pidfd = -1 \/ c.pidfd \in Nat \ {0})
    BY <2>i DEF Typed, Number
  <2>4. Cardinality(Listed) = Cardinality(children)
    BY PidsApart
  <2>5. /\ Cardinality(Watches(saned_fds)) = Len(saned_fds)
        /\ Cardinality(Numbers(saned_fds)) = Len(saned_fds)
    BY <2>i, ListCounts DEF Typed, Tables
  <2>6. Watches(saned_fds) \subseteq Pids \cup Listener
    <3>1. saned_fds \in Seq(Entry)
      BY <2>i DEF Typed
    <3>2. \A k \in DOMAIN saned_fds : saned_fds[k] \in Entry
      BY <3>1, ListFacts
    <3> QED BY <3>2 DEF Watches, Entry
  <2> QED BY <2>i, <2>1, <2>2, <2>3, <2>4, <2>5, <2>6 DEF TypeOK, PollSets
<1> QED BY <1>1, Invariance, PTL

\* While every child had a pidfd, the assertion in the loop of run_standalone
\* holds of each poll event, however children are added and reaped and sockets
\* bound again between two of them.
THEOREM AssertionHolds == Spec => []PollSetAgrees
<1>1. IInv => PollSetAgrees
  BY DEF IInv
<1> QED BY <1>1, Invariance, PTL

\* When the daemon has exited no process it listed is alive, wherever the signal
\* or the error came that stopped it.
THEOREM NoneLeftBehind == Spec => []NoOrphans
<1>1. IInv => NoOrphans
  BY DEF IInv
<1> QED BY <1>1, Invariance, PTL
=============================================================================

-------------------------- MODULE LinkedListProofs --------------------------
(***************************************************************************)
(* Proofs about LinkedList as the kernel uses it with interrupts off, for  *)
(* every number of nodes, all items and all functions and filters.         *)
(***************************************************************************)
EXTENDS LinkedList, FiniteSetTheorems, FunctionTheorems, WellFoundedInduction, TLAPS

(* A set of numbers has a least one: what induction rests on. *)
LEMMA LeastNat ==
    ASSUME NEW T, T \subseteq Nat, T # {}
    PROVE  \E x \in T : \A y \in T : x <= y
<1>1. PICK x \in T : \A y \in T : <<y, x>> \notin OpToRel(<, Nat)
  BY NatLessThanWellFounded, WFMin
<1>2. \A y \in T : ~(y < x)
  BY <1>1 DEF OpToRel
<1>3. \A y \in T : x <= y
  BY <1>2
<1> QED
  BY <1>3

(* Nth walks the chain: there is one function that its definition          *)
(* describes, and it is the chain, then nullptr.                           *)
NthStep(f, k) == IF k = 0 THEN head
                 ELSE IF f[k - 1] = nullptr THEN nullptr ELSE next[f[k - 1]]
Places == 0 .. Cardinality(Nodes) + 1

(* The value at each place. *)
LEMMA NthIsChain ==
    ASSUME NEW L \in 0 .. Cardinality(Nodes), NEW s, Chain(L, s)
    PROVE  \A k \in Places : Nth[k] = IF k <= L THEN s[k] ELSE nullptr
<1> DEFINE g == [k \in Places |-> IF k <= L THEN s[k] ELSE nullptr]
<1>0. Cardinality(Nodes) \in Nat
  BY ListConstants, FS_CardinalityType
<1>1. \A k \in Places : g[k] = NthStep(g, k)
  <2> TAKE k \in Places
  <2>1. CASE k = 0
    BY <1>0, <2>1 DEF Chain, NthStep, Places
  <2>2. CASE k \in 1 .. L
    <3>1. k - 1 \in Places /\ k - 1 <= L /\ g[k - 1] = s[k - 1] /\ g[k] = s[k]
      BY <1>0, <2>2 DEF Places
    <3>2. s[k - 1] # nullptr
      BY <2>2, ListConstants DEF Chain
    <3>3. next[s[k - 1]] = s[k]
      BY <2>2 DEF Chain
    <3> HIDE DEF g
    <3> QED
      BY <2>2, <3>1, <3>2, <3>3 DEF NthStep
  <2>3. CASE k = L + 1
    <3>1. k - 1 \in Places /\ k - 1 = L /\ g[k - 1] = s[L] /\ g[k] = nullptr
      BY <1>0, <2>3 DEF Places
    <3>2. next[s[L]] = nullptr
      BY DEF Chain
    <3> HIDE DEF g
    <3> QED
      BY <2>3, <3>1, <3>2 DEF NthStep
  <2>4. CASE k > L + 1
    <3>1. k - 1 \in Places /\ k # 0 /\ g[k - 1] = nullptr /\ g[k] = nullptr
      BY <1>0, <2>4 DEF Places
    <3> HIDE DEF g
    <3> QED
      BY <3>1 DEF NthStep
  <2>5. k = 0 \/ k \in 1 .. L \/ k = L + 1 \/ k > L + 1
    BY DEF Places
  <2> QED
    BY <2>1, <2>2, <2>3, <2>4, <2>5
<1>2. g = [k \in Places |-> NthStep(g, k)]
  BY <1>1
<1> HIDE DEF g
<1>3. Nth = [k \in Places |-> NthStep(Nth, k)]
  BY <1>2 DEF Nth, NthStep, Places
<1>4. \A k \in Places : Nth[k] = g[k]
  <2> DEFINE T == {k \in Places : Nth[k] # g[k]}
  <2> SUFFICES ASSUME T # {} PROVE FALSE
    OBVIOUS
  <2>1. T \subseteq Nat
    BY <1>0 DEF Places
  <2>2. PICK x \in T : \A y \in T : x <= y
    BY <2>1, LeastNat
  <2>3. x \in Places /\ Nth[x] # g[x]
    OBVIOUS
  <2>4. Nth[x] = NthStep(Nth, x) /\ g[x] = NthStep(g, x)
    BY <1>1, <1>3, <2>3
  <2>5. x # 0
    BY <2>3, <2>4 DEF NthStep
  <2>6. x - 1 \in Places /\ ~(x <= x - 1)
    BY <1>0, <2>3, <2>5 DEF Places
  <2>7. Nth[x - 1] = g[x - 1]
    BY <2>2, <2>6
  <2> QED
    BY <2>3, <2>4, <2>5, <2>7 DEF NthStep
<1> QED
  BY <1>4 DEF g

(* So the values that the properties speak of are those of the chain. *)
LEMMA ChainIsLinked ==
    ASSUME NEW L \in 0 .. Cardinality(Nodes), NEW s, Chain(L, s)
    PROVE  /\ Positions = 1 .. L
           /\ Linked = Members(L, s)
           /\ Contents = [k \in 1 .. L |-> data[s[k]]]
<1>0. Cardinality(Nodes) \in Nat
  BY ListConstants, FS_CardinalityType
<1>1. \A k \in 1 .. L : Nth[k] = s[k] /\ s[k] # nullptr
  <2> TAKE k \in 1 .. L
  <2>1. k \in Places /\ k <= L
    BY <1>0 DEF Places
  <2>2. s[k] \in Nodes
    BY DEF Chain
  <2> QED
    BY <2>1, <2>2, NthIsChain, ListConstants
<1>2. \A k \in 1 .. Cardinality(Nodes) : k > L => Nth[k] = nullptr
  <2> TAKE k \in 1 .. Cardinality(Nodes)
  <2> SUFFICES ASSUME k > L PROVE Nth[k] = nullptr
    OBVIOUS
  <2>1. k \in Places /\ ~(k <= L)
    BY <1>0 DEF Places
  <2> QED
    BY <2>1, NthIsChain
<1>3. Positions = 1 .. L
  <2>1. \A k \in Positions : k \in 1 .. L
    <3> TAKE k \in Positions
    <3>1. k \in 1 .. Cardinality(Nodes) /\ Nth[k] # nullptr
      BY DEF Positions
    <3>2. ~(k > L)
      BY <1>2, <3>1
    <3> QED
      BY <1>0, <3>1, <3>2
  <2>2. \A k \in 1 .. L : k \in Positions
    <3> TAKE k \in 1 .. L
    <3>1. k \in 1 .. Cardinality(Nodes)
      BY <1>0
    <3> QED
      BY <1>1, <3>1 DEF Positions
  <2> QED
    BY <2>1, <2>2
<1>4. Linked = Members(L, s)
  BY <1>1, <1>3 DEF Linked, Members
<1>5. Contents = [k \in 1 .. L |-> data[s[k]]]
  BY <1>1, <1>3 DEF Contents
<1> QED
  BY <1>3, <1>4, <1>5

(* The parts of the list, by name. *)
List(L, s) == /\ L \in 0 .. Cardinality(Nodes) /\ s \in [0 .. L -> Nodes \cup {head}]
              /\ Chain(L, s) /\ Ends(L, s) /\ Holds(L, s) /\ Progress(L, s)

(* The invariant gives such a list. *)
LEMMA HasList == ListInv => \E L, s : List(L, s)
  BY DEF ListInv, List

(* The properties follow from the invariant. *)
LEMMA InvStranded == ListInv => NothingStranded
<1> SUFFICES ASSUME ListInv PROVE NothingStranded
  OBVIOUS
<1>1. PICK L, s : List(L, s)
  BY HasList
<1>2. Linked = Members(L, s)
  BY <1>1, ChainIsLinked DEF List
<1> QED
  BY <1>1, <1>2 DEF List, Holds, NothingStranded

(* tail is the last node. *)
LEMMA InvTail == ListInv => TailIsLast
<1> SUFFICES ASSUME ListInv, pc = "idle"
             PROVE  next[tail] = nullptr /\ tail \in Linked \cup {head}
  BY DEF TailIsLast
<1>1. PICK L, s : List(L, s)
  BY HasList
<1>2. L \in 0 .. Cardinality(Nodes) /\ Chain(L, s) /\ Ends(L, s)
  BY <1>1 DEF List
<1>3. Linked = Members(L, s)
  BY <1>2, ChainIsLinked
<1>4. tail = s[L]
  BY <1>2 DEF Ends
<1>5. next[tail] = nullptr
  BY <1>2, <1>4 DEF Chain
<1>6. tail \in Members(L, s) \cup {head}
  <2>1. Cardinality(Nodes) \in Nat
    BY ListConstants, FS_CardinalityType
  <2>2. CASE L = 0
    BY <1>2, <1>4, <2>2 DEF Chain
  <2>3. CASE L # 0
    BY <1>2, <1>4, <2>1, <2>3 DEF Members
  <2> QED
    BY <2>2, <2>3
<1> QED
  BY <1>3, <1>5, <1>6

-----------------------------------------------------------------------------
(* What the changes to the pointers do to a chain.                         *)

(* A chain is never longer than there are nodes. *)
LEMMA ChainFits ==
    ASSUME NEW L \in Nat, NEW s, \A i \in 1 .. L : s[i] \in Nodes,
           \A i, j \in 1 .. L : s[i] = s[j] => i = j
    PROVE  L \in 0 .. Cardinality(Nodes)
<1> DEFINE f == [i \in 1 .. L |-> s[i]]
<1>1. f \in Injection(1 .. L, Nodes)
  BY DEF Injection, IsInjective
<1> HIDE DEF f
<1>2. IsFiniteSet(Nodes) /\ Cardinality(Nodes) \in Nat
  BY ListConstants, FS_CardinalityType
<1>3. Cardinality(1 .. L) <= Cardinality(Nodes)
  BY <1>1, <1>2, FS_Injection
<1>4. Cardinality(1 .. L) = L
  <2>1. Cardinality(1 .. L) = IF 1 > L THEN 0 ELSE L - 1 + 1
    BY FS_Interval
  <2> QED
    BY <2>1
<1> QED
  BY <1>2, <1>3, <1>4

(* The chain without its node j + 1. *)
Without(j, L, s) == [i \in 0 .. L - 1 |-> IF i <= j THEN s[i] ELSE s[i + 1]]

(* The link of node j passes over node j + 1, and what becomes of the list. *)
Bypass(j, s) == next' = [next EXCEPT ![s[j]] = next[s[j + 1]]]
Bypassed(j, L, s, t) ==
    /\ t \in [0 .. L - 1 -> Nodes \cup {head}] /\ Chain(L - 1, t)'
    /\ Members(L - 1, t) = Members(L, s) \ {s[j + 1]}
    /\ s[j + 1] \in Nodes /\ t[j] = s[j] /\ next[s[j]] = s[j + 1]
    /\ t[L - 1] = IF j + 1 = L THEN s[j] ELSE s[L]

(* Passing over a node leaves a chain of the others. *)
LEMMA UnlinkChain ==
    ASSUME TypeOK, NEW L \in Nat, NEW s \in [0 .. L -> Nodes \cup {head}], Chain(L, s),
           NEW j \in 0 .. L - 1, NEW t, t = Without(j, L, s), Bypass(j, s)
    PROVE  Bypassed(j, L, s, t)
<1>1. /\ DOMAIN s = 0 .. L /\ s[0] = head
      /\ \A i \in 1 .. L : s[i] \in Nodes
      /\ \A a, b \in 1 .. L : s[a] = s[b] => a = b
      /\ \A i \in 0 .. L - 1 : next[s[i]] = s[i + 1]
      /\ next[s[L]] = nullptr
  BY DEF Chain
<1>2. head \notin Nodes
  BY ListConstants
<1>3. \A i \in 0 .. L : s[i] \in Nodes \cup {head}
  OBVIOUS
<1>4. \A a, b \in 0 .. L : s[a] = s[b] => a = b
  BY <1>1, <1>2
<1>5. DOMAIN next = Nodes \cup {head}
  BY DEF TypeOK
<1>6. \A i \in 0 .. L : next'[s[i]] = IF i = j THEN next[s[j + 1]] ELSE next[s[i]]
  BY <1>3, <1>4, <1>5 DEF Bypass
<1>7. t = [i \in 0 .. L - 1 |-> IF i <= j THEN s[i] ELSE s[i + 1]]
  BY DEF Without
<1>8. \A i \in 0 .. L - 1 : t[i] = IF i <= j THEN s[i] ELSE s[i + 1]
  BY <1>7
<1>9. t \in [0 .. L - 1 -> Nodes \cup {head}]
  BY <1>3, <1>7
<1>10. DOMAIN t = 0 .. L - 1 /\ t[0] = head
  BY <1>1, <1>7, <1>8
<1>11. \A i \in 1 .. L - 1 : t[i] \in Nodes
  BY <1>1, <1>8
<1>12. \A a, b \in 1 .. L - 1 : t[a] = t[b] => a = b
  <2>1. \A i \in 1 .. L - 1 : \E k \in 1 .. L :
           t[i] = s[k] /\ k = IF i <= j THEN i ELSE i + 1
    BY <1>8
  <2> TAKE a, b \in 1 .. L - 1
  <2> SUFFICES ASSUME t[a] = t[b] PROVE a = b
    OBVIOUS
  <2>2. PICK k \in 1 .. L : t[a] = s[k] /\ k = IF a <= j THEN a ELSE a + 1
    BY <2>1
  <2>3. PICK l \in 1 .. L : t[b] = s[l] /\ l = IF b <= j THEN b ELSE b + 1
    BY <2>1
  <2>4. k = l
    BY <1>1, <2>2, <2>3
  <2> QED
    BY <2>2, <2>3, <2>4
<1>13. \A i \in 0 .. (L - 1) - 1 : next'[t[i]] = t[i + 1]
  <2> TAKE i \in 0 .. (L - 1) - 1
  <2>1. i + 1 \in 0 .. L - 1 /\ i + 2 \in 0 .. L
    OBVIOUS
  <2>2. CASE i < j
    <3>1. t[i] = s[i] /\ t[i + 1] = s[i + 1]
      BY <1>8, <2>1, <2>2
    <3> QED
      BY <1>1, <1>6, <2>2, <3>1
  <2>3. CASE i = j
    <3>1. t[i] = s[i] /\ t[i + 1] = s[i + 2]
      BY <1>8, <2>1, <2>3
    <3>2. next'[s[i]] = next[s[i + 1]]
      BY <1>6, <2>3
    <3>3. next[s[i + 1]] = s[(i + 1) + 1] /\ (i + 1) + 1 = i + 2
      BY <1>1, <2>1
    <3> QED
      BY <3>1, <3>2, <3>3
  <2>4. CASE i > j
    <3>1. t[i] = s[i + 1] /\ t[i + 1] = s[i + 2]
      BY <1>8, <2>1, <2>4
    <3>2. next'[s[i + 1]] = next[s[i + 1]]
      BY <1>6, <2>1, <2>4
    <3>3. next[s[i + 1]] = s[(i + 1) + 1] /\ (i + 1) + 1 = i + 2
      BY <1>1, <2>1
    <3> QED
      BY <3>1, <3>2, <3>3
  <2> QED
    BY <2>2, <2>3, <2>4
<1>14. t[L - 1] = IF j + 1 = L THEN s[j] ELSE s[L]
  BY <1>8
<1>15. next'[t[L - 1]] = nullptr
  <2>1. CASE j + 1 = L
    <3>1. next'[s[j]] = next[s[L]]
      BY <1>6, <2>1
    <3> QED
      BY <1>1, <1>14, <2>1, <3>1
  <2>2. CASE j + 1 # L
    <3>1. next'[s[L]] = next[s[L]]
      BY <1>6, <2>2
    <3> QED
      BY <1>1, <1>14, <2>2, <3>1
  <2> QED
    BY <2>1, <2>2
<1>16. Chain(L - 1, t)'
  BY <1>10, <1>11, <1>12, <1>13, <1>15 DEF Chain
<1>17. Members(L - 1, t) = Members(L, s) \ {s[j + 1]}
  <2>1. ASSUME NEW x \in Members(L - 1, t) PROVE x \in Members(L, s) \ {s[j + 1]}
    <3>1. PICK i \in 1 .. L - 1 : x = t[i]
      BY DEF Members
    <3>2. PICK k \in 1 .. L : k # j + 1 /\ x = s[k]
      BY <1>8, <3>1
    <3> QED
      BY <1>1, <3>2 DEF Members
  <2>2. ASSUME NEW x \in Members(L, s) \ {s[j + 1]} PROVE x \in Members(L - 1, t)
    <3>1. PICK k \in 1 .. L : x = s[k] /\ k # j + 1
      BY DEF Members
    <3>2. PICK i \in 1 .. L - 1 : x = t[i]
      <4>1. CASE k <= j
        <5>1. k \in 1 .. L - 1 /\ t[k] = s[k]
          BY <1>8, <4>1
        <5> QED
          BY <3>1, <5>1
      <4>2. CASE k > j + 1
        <5>1. k - 1 \in 1 .. L - 1 /\ t[k - 1] = s[(k - 1) + 1] /\ (k - 1) + 1 = k
          BY <1>8, <4>2
        <5> QED
          BY <3>1, <5>1
      <4> QED
        BY <3>1, <4>1, <4>2
    <3> QED
      BY <3>2 DEF Members
  <2> QED
    BY <2>1, <2>2
<1>18. s[j + 1] \in Nodes /\ t[j] = s[j] /\ next[s[j]] = s[j + 1]
  BY <1>1, <1>8
<1> QED
  BY <1>9, <1>14, <1>16, <1>17, <1>18 DEF Bypassed

(* The chain with one more node behind its last one. *)
Longer(L, s, n) == [i \in 0 .. L + 1 |-> IF i <= L THEN s[i] ELSE n]

(* Linking a node behind the last one leaves a longer chain. *)
LEMMA LinkChain ==
    ASSUME TypeOK, NEW L \in Nat, NEW s \in [0 .. L -> Nodes \cup {head}], Chain(L, s),
           NEW n \in Nodes, n \notin Members(L, s),
           next' = [next EXCEPT ![n] = nullptr, ![s[L]] = n]
    PROVE  LET t == Longer(L, s, n)
           IN  /\ t \in [0 .. L + 1 -> Nodes \cup {head}] /\ Chain(L + 1, t)'
               /\ Members(L + 1, t) = Members(L, s) \cup {n}
               /\ t[L + 1] = n /\ L + 1 \in 0 .. Cardinality(Nodes)
<1> DEFINE t == Longer(L, s, n)
<1>1. /\ DOMAIN s = 0 .. L /\ s[0] = head
      /\ \A i \in 1 .. L : s[i] \in Nodes
      /\ \A a, b \in 1 .. L : s[a] = s[b] => a = b
      /\ \A i \in 0 .. L - 1 : next[s[i]] = s[i + 1]
  BY DEF Chain
<1>2. head \notin Nodes
  BY ListConstants
<1>3. \A i \in 0 .. L : s[i] \in Nodes \cup {head} /\ s[i] # n
  BY <1>1, <1>2 DEF Members
<1>4. \A a, b \in 0 .. L : s[a] = s[b] => a = b
  BY <1>1, <1>2
<1>5. DOMAIN next = Nodes \cup {head}
  BY DEF TypeOK
<1>6. \A i \in 0 .. L - 1 : next'[s[i]] = next[s[i]]
  <2> TAKE i \in 0 .. L - 1
  <2>1. s[i] # s[L] /\ s[i] # n /\ s[i] \in DOMAIN next
    BY <1>3, <1>4, <1>5
  <2> QED
    BY <2>1
<1>7. next'[s[L]] = n /\ next'[n] = nullptr
  BY <1>3, <1>5
<1>8. t = [i \in 0 .. L + 1 |-> IF i <= L THEN s[i] ELSE n]
  BY DEF Longer
<1>9. (\A i \in 0 .. L : t[i] = s[i]) /\ t[L + 1] = n
  BY <1>8
<1>10. t \in [0 .. L + 1 -> Nodes \cup {head}]
  BY <1>3, <1>8
<1> HIDE DEF t
<1>11. DOMAIN t = 0 .. L + 1 /\ t[0] = head
  BY <1>1, <1>8, <1>9
<1>12. \A i \in 1 .. L + 1 : t[i] \in Nodes
  <2> TAKE i \in 1 .. L + 1
  <2>1. i \in 1 .. L \/ i = L + 1
    OBVIOUS
  <2> QED
    BY <1>1, <1>9, <2>1
<1>13. \A a, b \in 1 .. L + 1 : t[a] = t[b] => a = b
  <2> TAKE a, b \in 1 .. L + 1
  <2>1. a \in 1 .. L \/ a = L + 1
    OBVIOUS
  <2>2. b \in 1 .. L \/ b = L + 1
    OBVIOUS
  <2>3. \A i \in 1 .. L : t[i] = s[i] /\ t[i] # n
    BY <1>3, <1>9
  <2> QED
    BY <1>1, <1>9, <2>1, <2>2, <2>3
<1>14. \A i \in 0 .. (L + 1) - 1 : next'[t[i]] = t[i + 1]
  <2> TAKE i \in 0 .. (L + 1) - 1
  <2>1. CASE i = L
    BY <1>7, <1>9, <2>1
  <2>2. CASE i # L
    <3>1. i \in 0 .. L - 1 /\ i + 1 \in 0 .. L /\ i \in 0 .. L
      BY <2>2
    <3> QED
      BY <1>1, <1>6, <1>9, <3>1
  <2> QED
    BY <2>1, <2>2
<1>15. Chain(L + 1, t)'
  BY <1>7, <1>9, <1>11, <1>12, <1>13, <1>14 DEF Chain
<1>16. Members(L + 1, t) = Members(L, s) \cup {n}
  <2>1. ASSUME NEW x \in Members(L + 1, t) PROVE x \in Members(L, s) \cup {n}
    <3>1. PICK i \in 1 .. L + 1 : x = t[i]
      BY DEF Members
    <3>2. i \in 1 .. L \/ i = L + 1
      OBVIOUS
    <3> QED
      BY <1>9, <3>1, <3>2 DEF Members
  <2>2. ASSUME NEW x \in Members(L, s) PROVE x \in Members(L + 1, t)
    <3>1. PICK i \in 1 .. L : x = s[i]
      BY DEF Members
    <3>2. i \in 1 .. L + 1 /\ t[i] = x
      BY <1>9, <3>1
    <3> QED
      BY <3>2 DEF Members
  <2>3. n \in Members(L + 1, t)
    BY <1>9 DEF Members
  <2> QED
    BY <2>1, <2>2, <2>3
<1>17. L + 1 \in 0 .. Cardinality(Nodes)
  BY <1>12, <1>13, ChainFits
<1> QED
  BY <1>9, <1>10, <1>15, <1>16, <1>17 DEF t

(* A chain does not change with the data, nor with anything but next. *)
LEMMA SameChain ==
    ASSUME NEW L, NEW s, Chain(L, s), UNCHANGED next
    PROVE  Chain(L, s)'
  BY DEF Chain

-----------------------------------------------------------------------------
(* The steps of the operations.                                            *)
LEMMA NewList ==
    ASSUME NEW L, NEW s, List(L, s)', TypeOK', FatalMeansMissing'
    PROVE  ListInv'
  BY DEF List, ListInv

(* What a list gives, as the provers need it. *)
LEMMA ListFacts ==
    ASSUME NEW L, NEW s, List(L, s)
    PROVE  /\ L \in Nat /\ s \in [0 .. L -> Nodes \cup {head}] /\ Chain(L, s)
           /\ s[0] = head /\ \A i \in 1 .. L : s[i] \in Nodes
           /\ \A i \in 0 .. L - 1 : next[s[i]] = s[i + 1]
           /\ next[s[L]] = nullptr /\ nullptr \notin Nodes /\ head # nullptr
<1>1. Cardinality(Nodes) \in Nat
  BY ListConstants, FS_CardinalityType
<1> QED
  BY <1>1, ListConstants DEF List, Chain

(* push_back appends a node to the chain. *)
LEMMA PushKeeps ==
    ASSUME ListInv, INTERRUPTS = FALSE, NEW n \in Nodes, NEW e \in Items, push_back(n, e)
    PROVE  ListInv'
<1>1. PICK L, s : List(L, s)
  BY HasList
<1>2. /\ L \in Nat /\ s \in [0 .. L -> Nodes \cup {head}] /\ Chain(L, s)
  BY <1>1, ListFacts
<1>3. /\ pc = "idle" /\ ~fatal /\ n \notin allocated
      /\ data' = [data EXCEPT ![n] = e]
      /\ next' = [next EXCEPT ![n] = nullptr, ![tail] = n]
      /\ tail' = n /\ allocated' = allocated \cup {n}
      /\ UNCHANGED <<pc, args, prev, cur, loaded, tmp, result, fatal, before>>
  BY DEF push_back, Idle, Link
<1>4. tail = s[L] /\ allocated = Members(L, s)
  BY <1>1, <1>3 DEF List, Ends, Holds, InHand
<1>5. TypeOK
  BY DEF ListInv
<1> DEFINE t == Longer(L, s, n)
<1>6. /\ t \in [0 .. L + 1 -> Nodes \cup {head}] /\ Chain(L + 1, t)'
      /\ Members(L + 1, t) = Members(L, s) \cup {n}
      /\ t[L + 1] = n /\ L + 1 \in 0 .. Cardinality(Nodes)
  BY <1>2, <1>3, <1>4, <1>5, LinkChain
<1> HIDE DEF t
<1>7. Ends(L + 1, t)'
  BY <1>3, <1>6 DEF Ends
<1>8. Holds(L + 1, t)'
  BY <1>3, <1>4, <1>6 DEF Holds, InHand, Members
<1>9. Progress(L + 1, t)'
  BY <1>3 DEF Progress, Walks
<1>10. TypeOK'
  BY <1>3, <1>4, <1>5 DEF TypeOK, args
<1>11. FatalMeansMissing'
  BY <1>3 DEF FatalMeansMissing
<1> QED
  BY <1>6, <1>7, <1>8, <1>9, <1>10, <1>11, NewList DEF List

(* Whether the list is empty, as pop_front tests it. *)
LEMMA EmptyTest ==
    ASSUME NEW L, NEW s, List(L, s)
    PROVE  /\ next[head] = nullptr => L = 0
           /\ next[head] # nullptr => L >= 1 /\ next[head] = s[1]
<1>1. /\ L \in Nat /\ s[0] = head /\ \A i \in 1 .. L : s[i] \in Nodes
      /\ \A i \in 0 .. L - 1 : next[s[i]] = s[i + 1]
      /\ next[s[L]] = nullptr /\ nullptr \notin Nodes
  BY ListFacts
<1>2. CASE L = 0
  BY <1>1, <1>2
<1>3. CASE L # 0
  <2>1. 0 \in 0 .. L - 1 /\ 1 \in 1 .. L /\ 0 + 1 = 1
    BY <1>1, <1>3
  <2>2. next[s[0]] = s[1] /\ s[1] \in Nodes
    BY <1>1, <2>1
  <2> QED
    BY <1>1, <1>3, <2>2
<1> QED
  BY <1>2, <1>3

(* pop_front finds the list empty, or its first node. *)
LEMMA PopStartKeeps ==
    ASSUME ListInv, PopStart
    PROVE  ListInv'
<1>1. PICK L, s : List(L, s)
  BY HasList
<1>2. /\ pc = "idle" /\ ~fatal /\ before' = Contents
      /\ UNCHANGED <<next, data, tail, allocated, func, prev, loaded, result>>
  BY DEF PopStart, Idle
<1>3. Chain(L, s)'
  BY <1>1, <1>2, SameChain DEF List
<1>4. /\ tail = s[L] /\ allocated = Members(L, s) /\ L \in 0 .. Cardinality(Nodes)
      /\ s \in [0 .. L -> Nodes \cup {head}]
  BY <1>1, <1>2 DEF List, Ends, Holds, InHand
<1>5. CASE next[head] = nullptr
  <2>1. fatal' = TRUE /\ pc' = pc
    BY <1>5 DEF PopStart
  <2>2. L = 0
    BY <1>1, <1>5, EmptyTest
  <2>3. Contents = [k \in 1 .. L |-> data[s[k]]]
    BY <1>1, ChainIsLinked DEF List
  <2>4. DOMAIN before' = {}
    BY <1>2, <2>2, <2>3
  <2>5. FatalMeansMissing'
    BY <2>4 DEF FatalMeansMissing
  <2>6. TypeOK'
    BY <1>2, <2>1 DEF ListInv, TypeOK
  <2>7. Ends(L, s)' /\ Holds(L, s)' /\ Progress(L, s)'
    BY <1>2, <1>4, <2>1 DEF Ends, Holds, Progress, InHand, Members, Walks
  <2> QED
    BY <1>3, <1>4, <2>5, <2>6, <2>7, NewList DEF List
<1>6. CASE next[head] # nullptr
  <2>1. pc' = "pop_load" /\ cur' = next[head] /\ fatal' = fatal
    BY <1>6 DEF PopStart
  <2>2. L >= 1 /\ next[head] = s[1]
    BY <1>1, <1>6, EmptyTest
  <2>3. FatalMeansMissing'
    BY <1>2, <2>1 DEF FatalMeansMissing
  <2>4. TypeOK'
    BY <1>2, <2>1 DEF ListInv, TypeOK, PopSteps
  <2>5. Ends(L, s)' /\ Holds(L, s)'
    BY <1>2, <1>4, <2>1 DEF Ends, Holds, InHand, Members
  <2>6. Progress(L, s)'
    BY <2>1, <2>2 DEF Progress, Walks
  <2> QED
    BY <1>3, <1>4, <2>3, <2>4, <2>5, <2>6, NewList DEF List
<1> QED
  BY <1>5, <1>6

(* It reads the next pointer of that node. *)
LEMMA PopLoadKeeps ==
    ASSUME ListInv, PopLoad
    PROVE  ListInv'
<1>1. PICK L, s : List(L, s)
  BY HasList
<1>2. /\ pc = "pop_load" /\ ~fatal /\ loaded' = next[cur] /\ pc' = "pop_store"
      /\ UNCHANGED <<next, data, tail, allocated, want, func, prev, cur, fatal, before>>
  BY DEF PopLoad, In, args
<1>3. Chain(L, s)'
  BY <1>1, <1>2, SameChain DEF List
<1>4. /\ tail = s[L] /\ allocated = Members(L, s) /\ L \in 0 .. Cardinality(Nodes)
      /\ s \in [0 .. L -> Nodes \cup {head}] /\ L >= 1 /\ cur = s[1]
  BY <1>1, <1>2 DEF List, Ends, Holds, InHand, Progress
<1>5. Ends(L, s)' /\ Holds(L, s)' /\ Progress(L, s)'
  BY <1>2, <1>4 DEF Ends, Holds, InHand, Members, Progress, Walks
<1>6. TypeOK' /\ FatalMeansMissing'
  BY <1>2 DEF ListInv, TypeOK, PopSteps, FatalMeansMissing
<1> QED
  BY <1>3, <1>4, <1>5, <1>6, NewList DEF List

(* It takes the node out; tail may still point to it. *)
LEMMA PopStoreKeeps ==
    ASSUME ListInv, PopStore
    PROVE  ListInv'
<1>1. PICK L, s : List(L, s)
  BY HasList
<1>2. /\ pc = "pop_store" /\ ~fatal /\ next' = [next EXCEPT ![head] = loaded]
      /\ pc' = "pop_tail"
      /\ UNCHANGED <<data, tail, allocated, want, func, prev, cur, fatal, before>>
  BY DEF PopStore, In, args
<1>3. /\ tail = s[L] /\ allocated = Members(L, s) /\ L >= 1 /\ cur = s[1]
      /\ loaded = next[cur]
  BY <1>1, <1>2 DEF List, Ends, Holds, InHand, Progress
<1>4. /\ L \in Nat /\ s \in [0 .. L -> Nodes \cup {head}] /\ Chain(L, s) /\ s[0] = head
      /\ L \in 0 .. Cardinality(Nodes)
  BY <1>1, ListFacts DEF List
<1>5. TypeOK
  BY DEF ListInv
<1>6. 0 \in 0 .. L - 1 /\ 0 + 1 = 1 /\ L - 1 \in 0 .. Cardinality(Nodes)
  <2>1. Cardinality(Nodes) \in Nat
    BY ListConstants, FS_CardinalityType
  <2> QED
    BY <1>3, <1>4, <2>1
<1>7. next' = [next EXCEPT ![s[0]] = next[s[0 + 1]]]
  <2>1. s[0 + 1] = cur /\ s[0] = head
    BY <1>3, <1>4, <1>6
  <2>2. next[s[0 + 1]] = loaded
    BY <1>3, <2>1
  <2> QED
    BY <1>2, <2>1, <2>2, Zenon
<1>0. PICK t : t = Without(0, L, s)
  OBVIOUS
<1>8. /\ t \in [0 .. L - 1 -> Nodes \cup {head}] /\ Chain(L - 1, t)'
      /\ Members(L - 1, t) = Members(L, s) \ {s[0 + 1]}
      /\ s[0 + 1] \in Nodes /\ next[s[0]] = s[0 + 1]
      /\ t[L - 1] = IF 0 + 1 = L THEN s[0] ELSE s[L]
  <2>1. Bypass(0, s)
    BY <1>7 DEF Bypass
  <2>2. Bypassed(0, L, s, t)
    BY <1>0, <1>4, <1>5, <1>6, <2>1, UnlinkChain
  <2> QED
    BY <2>2 DEF Bypassed
<1>9. Ends(L - 1, t)'
  <2>1. CASE L = 1
    <3>1. tail' = cur'
      BY <1>2, <1>3, <2>1
    <3> QED
      BY <1>2, <2>1, <3>1 DEF Ends
  <2>2. CASE L # 1
    <3>1. s[L] # s[1]
      BY <1>3, <1>4, <2>2 DEF Chain
    <3>2. tail' # cur' /\ tail' = t[L - 1]
      BY <1>2, <1>3, <1>6, <1>8, <2>2, <3>1
    <3> QED
      BY <3>2 DEF Ends
  <2> QED
    BY <2>1, <2>2
<1>10. Holds(L - 1, t)'
  <2>1. Members(L, s) = (Members(L, s) \ {cur}) \cup {cur}
    BY <1>3, <1>4 DEF Members
  <2>2. Members(L - 1, t) = Members(L, s) \ {cur} /\ cur \in Nodes
    BY <1>3, <1>6, <1>8
  <2> QED
    BY <1>2, <1>3, <2>1, <2>2 DEF Holds, InHand, Members
<1>11. Progress(L - 1, t)'
  BY <1>2 DEF Progress, Walks
<1>12. TypeOK'
  <2>1. next[cur] \in Nodes \cup {nullptr}
    BY <1>3, <1>5, <1>6, <1>8 DEF TypeOK
  <2> QED
    BY <1>2, <1>3, <1>5, <2>1 DEF TypeOK, PopSteps
<1>13. FatalMeansMissing'
  BY <1>2 DEF FatalMeansMissing
<1> QED
  BY <1>6, <1>8, <1>9, <1>10, <1>11, <1>12, <1>13, NewList DEF List

(* It sets tail back to head if the node was the last. *)
LEMMA PopTailKeeps ==
    ASSUME ListInv, PopTail
    PROVE  ListInv'
<1>1. PICK L, s : List(L, s)
  BY HasList
<1>2. /\ pc = "pop_tail" /\ ~fatal /\ pc' = "pop_free"
      /\ tail' = IF tail = cur THEN head ELSE tail
      /\ UNCHANGED <<next, data, allocated, want, func, prev, cur, fatal, before>>
  BY DEF PopTail, In, args, TailAfter
<1>3. Chain(L, s)'
  BY <1>1, <1>2, SameChain DEF List
<1>4. s[0] = head
  BY <1>1, ListFacts
<1>5. /\ IF tail = cur THEN L = 0 ELSE tail = s[L]
      /\ allocated = Members(L, s) \cup {cur} /\ cur \in Nodes \ Members(L, s)
      /\ L \in 0 .. Cardinality(Nodes) /\ s \in [0 .. L -> Nodes \cup {head}]
  BY <1>1, <1>2 DEF List, Ends, Holds, InHand
<1>6. Ends(L, s)'
  BY <1>2, <1>4, <1>5 DEF Ends
<1>7. Holds(L, s)' /\ Progress(L, s)'
  BY <1>2, <1>5 DEF Holds, InHand, Members, Progress, Walks
<1>8. TypeOK' /\ FatalMeansMissing'
  BY <1>2 DEF ListInv, TypeOK, PopSteps, FatalMeansMissing
<1> QED
  BY <1>3, <1>5, <1>6, <1>7, <1>8, NewList DEF List

(* It frees the node. *)
LEMMA PopFreeKeeps ==
    ASSUME ListInv, PopFree
    PROVE  ListInv'
<1>1. PICK L, s : List(L, s)
  BY HasList
<1>2. /\ pc = "pop_free" /\ ~fatal /\ pc' = "idle" /\ allocated' = allocated \ {cur}
      /\ UNCHANGED <<next, data, tail, want, func, prev, cur, fatal, before>>
  BY DEF PopFree, In, args
<1>3. Chain(L, s)'
  BY <1>1, <1>2, SameChain DEF List
<1>4. /\ tail = s[L]
      /\ allocated = Members(L, s) \cup {cur} /\ cur \in Nodes \ Members(L, s)
      /\ L \in 0 .. Cardinality(Nodes) /\ s \in [0 .. L -> Nodes \cup {head}]
  BY <1>1, <1>2 DEF List, Ends, Holds, InHand
<1>5. Ends(L, s)' /\ Holds(L, s)' /\ Progress(L, s)'
  BY <1>2, <1>4 DEF Ends, Holds, InHand, Members, Progress, Walks
<1>6. TypeOK' /\ FatalMeansMissing'
  BY <1>2 DEF ListInv, TypeOK, FatalMeansMissing
<1> QED
  BY <1>3, <1>4, <1>5, <1>6, NewList DEF List

(* The walks. *)
LEMMA WalkAt ==
    ASSUME NEW L, NEW s, List(L, s), NEW j \in 0 .. L, Reached(j, L, s)
    PROVE  /\ cur = nullptr => j = L
           /\ cur # nullptr => /\ j \in 0 .. L - 1 /\ j + 1 \in 0 .. L
                              /\ cur = s[j + 1] /\ cur \in Nodes
<1>1. /\ L \in Nat /\ \A i \in 1 .. L : s[i] \in Nodes
      /\ \A i \in 0 .. L - 1 : next[s[i]] = s[i + 1]
      /\ next[s[L]] = nullptr /\ nullptr \notin Nodes
  BY ListFacts
<1>2. cur = next[s[j]]
  BY DEF Reached
<1>3. CASE j = L
  BY <1>1, <1>2, <1>3
<1>4. CASE j # L
  <2>1. j \in 0 .. L - 1 /\ j + 1 \in 1 .. L /\ j + 1 \in 0 .. L
    BY <1>1, <1>4
  <2>2. cur = s[j + 1] /\ s[j + 1] \in Nodes
    BY <1>1, <1>2, <2>1
  <2> QED
    BY <1>1, <2>1, <2>2
<1> QED
  BY <1>3, <1>4

(* A walk starts at head and has seen nothing. *)
LEMMA StartWalkKeeps ==
    ASSUME ListInv, NEW op \in Walks, NEW K, NEW f \in Funcs, StartWalk(op, K, f)
    PROVE  ListInv'
<1>1. PICK L, s : List(L, s)
  BY HasList
<1>2. /\ pc = "idle" /\ ~fatal /\ before' = Contents /\ pc' = op /\ func' = f
      /\ prev' = head /\ cur' = next[head]
      /\ UNCHANGED <<next, data, tail, allocated, fatal>>
  BY DEF StartWalk, Idle
<1>3. Chain(L, s)'
  BY <1>1, <1>2, SameChain DEF List
<1>4. /\ tail = s[L] /\ allocated = Members(L, s) /\ L \in 0 .. Cardinality(Nodes)
      /\ s \in [0 .. L -> Nodes \cup {head}]
  BY <1>1, <1>2 DEF List, Ends, Holds, InHand
<1>5. op # "pop_tail" /\ op # "pop_free" /\ op # "pop_load" /\ op # "pop_store"
  BY DEF Walks
<1>6. Ends(L, s)' /\ Holds(L, s)'
  BY <1>2, <1>4, <1>5 DEF Ends, Holds, InHand, Members
<1>7. Progress(L, s)'
  <2>1. L \in Nat /\ s[0] = head
    BY <1>1, ListFacts
  <2>2. 0 \in 0 .. L /\ 1 .. 0 = {}
    BY <2>1
  <2>3. Reached(0, L, s)'
    BY <1>2, <2>1, <2>2 DEF Reached
  <2>4. before' = [k \in 1 .. L |-> data'[s[k]]]
    BY <1>1, <1>2, ChainIsLinked DEF List
  <2> QED
    BY <1>2, <1>5, <2>2, <2>3, <2>4 DEF Progress
<1>8. TypeOK' /\ FatalMeansMissing'
  BY <1>2 DEF ListInv, TypeOK, FatalMeansMissing
<1> QED
  BY <1>3, <1>4, <1>6, <1>7, <1>8, NewList DEF List

(* Going on to the next node. *)
LEMMA AdvanceReaches ==
    ASSUME NEW L, NEW s, List(L, s), NEW j \in 0 .. L, Reached(j, L, s), cur # nullptr,
           Advance, UNCHANGED <<next, pc, want>>, data' = data \/ pc \notin {"remove", "locate"},
           pc \in {"remove", "locate"} => data[cur] \notin want
    PROVE  j + 1 \in 0 .. L /\ Reached(j + 1, L, s)'
<1>1. j \in 0 .. L - 1 /\ j + 1 \in 0 .. L /\ cur = s[j + 1]
  BY WalkAt
<1>2. prev' = s[j + 1] /\ cur' = next'[s[j + 1]]
  BY <1>1 DEF Advance
<1>3. ASSUME pc' \in {"remove", "locate"} PROVE \A i \in 1 .. j + 1 : data'[s[i]] \notin want'
  <2>1. pc \in {"remove", "locate"} /\ data' = data /\ want' = want
    BY <1>3
  <2>2. \A i \in 1 .. j : data[s[i]] \notin want
    BY <2>1 DEF Reached
  <2> TAKE i \in 1 .. j + 1
  <2>3. i \in 1 .. j \/ i = j + 1
    OBVIOUS
  <2> QED
    BY <1>1, <2>1, <2>2, <2>3
<1> QED
  BY <1>1, <1>2, <1>3 DEF Reached

(* Taking the node cur out, which remove and filter do. *)
Shortened(j, L, t) ==
    /\ L - 1 \in 0 .. Cardinality(Nodes) /\ j \in 0 .. L - 1
    /\ t \in [0 .. L - 1 -> Nodes \cup {head}]
    /\ Chain(L - 1, t)' /\ Ends(L - 1, t)' /\ Holds(L - 1, t)'
    /\ next' \in [Nodes \cup {head} -> Nodes \cup {nullptr}]
    /\ allocated' \subseteq Nodes
    /\ t[j] = prev /\ next'[prev] = next[cur]

(* The rest of the list is a list. *)
LEMMA UnlinkKeeps ==
    ASSUME TypeOK, NEW L, NEW s, List(L, s), NEW j \in 0 .. L, Reached(j, L, s),
           cur # nullptr, pc \in Walks, Unlink, pc' \in Walks \cup {"idle"}
    PROVE  \E t : Shortened(j, L, t)
<1>0. PICK t : t = Without(j, L, s)
  OBVIOUS
<1>1. /\ L \in Nat /\ s \in [0 .. L -> Nodes \cup {head}] /\ Chain(L, s)
      /\ L \in 0 .. Cardinality(Nodes)
  BY ListFacts DEF List
<1>2. j \in 0 .. L - 1 /\ cur = s[j + 1] /\ cur \in Nodes /\ prev = s[j]
  BY WalkAt DEF Reached
<1>3. /\ next' = [next EXCEPT ![s[j]] = next[s[j + 1]]]
      /\ allocated' = allocated \ {cur}
      /\ tail' = IF tail = cur THEN prev ELSE tail
  BY <1>2 DEF Unlink, TailAfter
<1>4. /\ t \in [0 .. L - 1 -> Nodes \cup {head}] /\ Chain(L - 1, t)'
      /\ Members(L - 1, t) = Members(L, s) \ {s[j + 1]}
      /\ t[j] = s[j] /\ t[L - 1] = IF j + 1 = L THEN s[j] ELSE s[L]
  <2>1. Bypass(j, s)
    BY <1>3 DEF Bypass
  <2>2. Bypassed(j, L, s, t)
    BY <1>0, <1>1, <1>2, <2>1, UnlinkChain
  <2> QED
    BY <2>2 DEF Bypassed
<1>5. tail = s[L] /\ allocated = Members(L, s)
  BY DEF List, Ends, Holds, InHand, Walks
<1>6. pc' \notin {"pop_tail", "pop_free"}
  BY DEF Walks
<1>7. Ends(L - 1, t)'
  <2>1. CASE j + 1 = L
    BY <1>2, <1>3, <1>4, <1>5, <1>6, <2>1 DEF Ends
  <2>2. CASE j + 1 # L
    <3>1. s[j + 1] # s[L]
      BY <1>1, <1>2, <2>2 DEF Chain
    <3> QED
      BY <1>2, <1>3, <1>4, <1>5, <1>6, <2>2, <3>1 DEF Ends
  <2> QED
    BY <2>1, <2>2
<1>8. Holds(L - 1, t)'
  BY <1>2, <1>3, <1>4, <1>5, <1>6 DEF Holds, InHand, Members
<1>9. L - 1 \in 0 .. Cardinality(Nodes)
  <2>1. Cardinality(Nodes) \in Nat
    BY ListConstants, FS_CardinalityType
  <2> QED
    BY <1>1, <1>2, <2>1
<1>10. /\ next' \in [Nodes \cup {head} -> Nodes \cup {nullptr}]
       /\ next'[prev] = next[cur] /\ allocated' \subseteq Nodes
  <2>1. next[s[j + 1]] \in Nodes \cup {nullptr} /\ s[j] \in Nodes \cup {head}
    BY <1>1, <1>2 DEF TypeOK
  <2> QED
    BY <1>2, <1>3, <2>1 DEF TypeOK
<1>11. Shortened(j, L, t)
  BY <1>2, <1>4, <1>7, <1>8, <1>9, <1>10 DEF Shortened
<1> QED
  BY <1>11

(* A walk that is at the end of the list has seen every item. *)
LEMMA SeenAll ==
    ASSUME NEW L, NEW s, List(L, s), NEW j \in 0 .. L, Reached(j, L, s), cur = nullptr,
           pc \in {"remove", "locate"}
    PROVE  \A k \in DOMAIN before : before[k] \notin want
<1>1. j = L
  BY WalkAt
<1>2. \A i \in 1 .. L : data[s[i]] \notin want
  BY <1>1 DEF Reached
<1>3. before = [k \in 1 .. L |-> data[s[k]]]
  BY DEF List, Progress
<1> QED
  BY <1>2, <1>3

(* A walk that goes on. *)
LEMMA WalkOn ==
    ASSUME ListInv, ~fatal, NEW L, NEW s, List(L, s), NEW j \in 0 .. L, Reached(j, L, s),
           cur # nullptr, pc \in Walks, Advance,
           UNCHANGED <<next, tail, allocated, pc, want, func, fatal, before>>,
           data' = data \/ pc \notin {"remove", "locate"}, data' \in [Nodes -> Items],
           pc \in {"remove", "locate"} => data[cur] \notin want
    PROVE  ListInv'
<1>1. j + 1 \in 0 .. L /\ Reached(j + 1, L, s)'
  BY AdvanceReaches
<1>2. Chain(L, s)'
  BY SameChain DEF List
<1>3. /\ tail = s[L] /\ allocated = Members(L, s) /\ L \in 0 .. Cardinality(Nodes)
      /\ s \in [0 .. L -> Nodes \cup {head}]
      /\ pc \in {"remove", "locate"} => before = [k \in 1 .. L |-> data[s[k]]]
  BY DEF List, Ends, Holds, InHand, Walks, Progress
<1>4. pc' \notin {"pop_tail", "pop_free", "pop_load", "pop_store"} /\ pc' = pc
  BY DEF Walks
<1>5. Ends(L, s)' /\ Holds(L, s)'
  BY <1>3, <1>4 DEF Ends, Holds, InHand, Members
<1>6. Progress(L, s)'
  <2>1. pc' \in {"remove", "locate"} => before' = [k \in 1 .. L |-> data'[s[k]]]
    BY <1>3, <1>4
  <2> QED
    BY <1>1, <1>4, <2>1 DEF Progress
<1>7. TypeOK' /\ FatalMeansMissing'
  BY DEF ListInv, TypeOK, FatalMeansMissing
<1> QED
  BY <1>2, <1>3, <1>5, <1>6, <1>7, NewList DEF List

(* A walk that returns without a change. *)
LEMMA WalkEnds ==
    ASSUME ListInv, ~fatal, pc \in Walks, pc' = "idle",
           UNCHANGED <<next, data, tail, allocated, func, fatal>>
    PROVE  ListInv'
<1>1. PICK L, s : List(L, s)
  BY HasList
<1>2. Chain(L, s)'
  BY <1>1, SameChain DEF List
<1>3. /\ tail = s[L] /\ allocated = Members(L, s) /\ L \in 0 .. Cardinality(Nodes)
      /\ s \in [0 .. L -> Nodes \cup {head}]
  BY <1>1 DEF List, Ends, Holds, InHand, Walks
<1>4. Ends(L, s)' /\ Holds(L, s)' /\ Progress(L, s)'
  BY <1>3 DEF Ends, Holds, InHand, Members, Progress, Walks
<1>5. TypeOK' /\ FatalMeansMissing'
  BY DEF ListInv, TypeOK, FatalMeansMissing
<1> QED
  BY <1>2, <1>3, <1>4, <1>5, NewList DEF List

(* A walk that gives up: fatal, at the end of the list. *)
LEMMA WalkFails ==
    ASSUME ListInv, pc \in {"remove", "locate"}, cur = nullptr, fatal' = TRUE,
           UNCHANGED <<next, data, tail, allocated, pc, want, func, prev, cur, before>>
    PROVE  ListInv'
<1>1. PICK L, s : List(L, s)
  BY HasList
<1>2. PICK j \in 0 .. L : Reached(j, L, s)
  BY <1>1 DEF List, Progress, Walks
<1>3. FatalMeansMissing'
  BY <1>1, <1>2, SeenAll DEF FatalMeansMissing
<1>4. Chain(L, s)'
  BY <1>1, SameChain DEF List
<1>5. /\ tail = s[L] /\ allocated = Members(L, s) /\ L \in 0 .. Cardinality(Nodes)
      /\ s \in [0 .. L -> Nodes \cup {head}]
      /\ before = [k \in 1 .. L |-> data[s[k]]]
  BY <1>1 DEF List, Ends, Holds, InHand, Progress
<1>6. Reached(j, L, s)'
  BY <1>2 DEF Reached
<1>7. Ends(L, s)' /\ Holds(L, s)'
  BY <1>5 DEF Ends, Holds, InHand, Members
<1>8. Progress(L, s)'
  BY <1>5, <1>6 DEF Progress
<1>9. TypeOK'
  BY DEF ListInv, TypeOK
<1> QED
  BY <1>3, <1>4, <1>5, <1>7, <1>8, <1>9, NewList DEF List

(* remove goes on, takes a node out, or gives up at the end. *)
LEMMA RemoveStepKeeps ==
    ASSUME ListInv, RemoveStep
    PROVE  ListInv'
<1>1. PICK L, s : List(L, s)
  BY HasList
<1>2. pc = "remove" /\ ~fatal /\ UNCHANGED <<data, want, func, before>>
  BY DEF RemoveStep, In, args
<1>3. PICK j \in 0 .. L : Reached(j, L, s)
  BY <1>1, <1>2 DEF List, Progress, Walks
<1>4. pc \in Walks /\ TypeOK /\ data' \in [Nodes -> Items]
  BY <1>2 DEF Walks, ListInv, TypeOK
<1>5. CASE cur = nullptr
  <2>1. fatal' = TRUE /\ UNCHANGED <<next, tail, allocated, prev, cur, pc>>
    BY <1>5 DEF RemoveStep
  <2> QED
    BY <1>2, <1>5, <2>1, WalkFails
<1>6. CASE cur # nullptr /\ data[cur] \in want
  <2>1. Unlink /\ pc' = "idle" /\ UNCHANGED fatal
    BY <1>6 DEF RemoveStep
  <2>2. PICK t : Shortened(j, L, t)
    BY <1>1, <1>3, <1>4, <1>6, <2>1, UnlinkKeeps
  <2>3. Progress(L - 1, t)'
    BY <2>1 DEF Progress, Walks
  <2>4. TypeOK' /\ FatalMeansMissing'
    BY <1>2, <1>4, <2>1, <2>2 DEF Shortened, TypeOK, FatalMeansMissing
  <2> QED
    BY <2>2, <2>3, <2>4, NewList DEF List, Shortened
<1>7. CASE cur # nullptr /\ data[cur] \notin want
  <2>1. Advance /\ UNCHANGED <<next, tail, allocated, pc, fatal>>
    BY <1>7 DEF RemoveStep
  <2> QED
    BY <1>1, <1>2, <1>3, <1>4, <1>7, <2>1, WalkOn
<1> QED
  BY <1>5, <1>6, <1>7

(* locate goes on, returns an item, or gives up at the end. *)
LEMMA LocateStepKeeps ==
    ASSUME ListInv, LocateStep
    PROVE  ListInv'
<1>1. PICK L, s : List(L, s)
  BY HasList
<1>2. /\ pc = "locate" /\ ~fatal
      /\ UNCHANGED <<next, data, tail, allocated, want, func, before>>
  BY DEF LocateStep, In, args
<1>3. PICK j \in 0 .. L : Reached(j, L, s)
  BY <1>1, <1>2 DEF List, Progress, Walks
<1>4. pc \in Walks /\ data' \in [Nodes -> Items]
  BY <1>2 DEF Walks, ListInv, TypeOK
<1>5. CASE cur = nullptr
  <2>1. fatal' = TRUE /\ UNCHANGED <<prev, cur, pc>>
    BY <1>5 DEF LocateStep
  <2> QED
    BY <1>2, <1>5, <2>1, WalkFails
<1>6. CASE cur # nullptr /\ data[cur] \in want
  <2>1. pc' = "idle" /\ UNCHANGED fatal
    BY <1>6 DEF LocateStep
  <2> QED
    BY <1>2, <1>4, <2>1, WalkEnds
<1>7. CASE cur # nullptr /\ data[cur] \notin want
  <2>1. Advance /\ UNCHANGED <<pc, fatal>>
    BY <1>7 DEF LocateStep
  <2> QED
    BY <1>1, <1>2, <1>3, <1>4, <1>7, <2>1, WalkOn
<1> QED
  BY <1>5, <1>6, <1>7

(* for_each changes the item it is at. *)
LEMMA ForEachStepKeeps ==
    ASSUME ListInv, ForEachStep
    PROVE  ListInv'
<1>1. PICK L, s : List(L, s)
  BY HasList
<1>2. /\ pc = "for_each" /\ ~fatal
      /\ UNCHANGED <<next, tail, allocated, want, func, fatal, before>>
  BY DEF ForEachStep, In, args
<1>3. PICK j \in 0 .. L : Reached(j, L, s)
  BY <1>1, <1>2 DEF List, Progress, Walks
<1>4. pc \in Walks /\ pc \notin {"remove", "locate"}
  BY <1>2 DEF Walks
<1>5. CASE cur = nullptr
  <2>1. pc' = "idle" /\ UNCHANGED data
    BY <1>5 DEF ForEachStep
  <2> QED
    BY <1>2, <1>4, <2>1, WalkEnds
<1>6. CASE cur # nullptr
  <2>1. data' = [data EXCEPT ![cur] = func[data[cur]]] /\ Advance /\ UNCHANGED pc
    BY <1>6 DEF ForEachStep
  <2>2. data' \in [Nodes -> Items]
    <3>1. cur \in Nodes
      BY <1>1, <1>3, <1>6, WalkAt
    <3>2. data \in [Nodes -> Items] /\ func \in [Items -> Items]
      BY ListConstants DEF ListInv, TypeOK
    <3> QED
      BY <2>1, <3>1, <3>2
  <2> QED
    BY <1>1, <1>2, <1>3, <1>4, <1>6, <2>1, <2>2, WalkOn
<1> QED
  BY <1>5, <1>6

(* filter goes on, or takes a node out and stays where it is. *)
LEMMA FilterStepKeeps ==
    ASSUME ListInv, FilterStep
    PROVE  ListInv'
<1>1. PICK L, s : List(L, s)
  BY HasList
<1>2. pc = "filter" /\ ~fatal /\ UNCHANGED <<data, want, func, fatal, before>>
  BY DEF FilterStep, In, args
<1>3. PICK j \in 0 .. L : Reached(j, L, s)
  BY <1>1, <1>2 DEF List, Progress, Walks
<1>4. /\ pc \in Walks /\ pc \notin {"remove", "locate"} /\ TypeOK
      /\ data' \in [Nodes -> Items]
  BY <1>2 DEF Walks, ListInv, TypeOK
<1>5. CASE cur = nullptr
  <2>1. pc' = "idle" /\ UNCHANGED <<next, tail, allocated>>
    BY <1>5 DEF FilterStep
  <2> QED
    BY <1>2, <1>4, <2>1, WalkEnds
<1>6. CASE cur # nullptr /\ data[cur] \in want
  <2>1. Advance /\ UNCHANGED <<next, tail, allocated, pc>>
    BY <1>6 DEF FilterStep
  <2> QED
    BY <1>1, <1>2, <1>3, <1>4, <1>6, <2>1, WalkOn
<1>7. CASE cur # nullptr /\ data[cur] \notin want
  <2>1. Unlink /\ prev' = prev /\ cur' = next[cur] /\ pc' = pc
    BY <1>7 DEF FilterStep, StayAt
  <2>0. pc' \in Walks \cup {"idle"}
    BY <1>4, <2>1
  <2>2. PICK t : Shortened(j, L, t)
    BY <1>1, <1>3, <1>4, <1>7, <2>0, <2>1, UnlinkKeeps
  <2>3. Reached(j, L - 1, t)'
    BY <1>2, <2>1, <2>2 DEF Reached, Shortened
  <2>4. Progress(L - 1, t)'
    BY <1>2, <2>1, <2>2, <2>3 DEF Progress, Shortened
  <2>5. TypeOK' /\ FatalMeansMissing'
    BY <1>2, <1>4, <2>1, <2>2 DEF Shortened, TypeOK, FatalMeansMissing
  <2> QED
    BY <2>2, <2>4, <2>5, NewList DEF List, Shortened
<1> QED
  BY <1>5, <1>6, <1>7

-----------------------------------------------------------------------------
(* The empty list, where everything starts. *)
LEMMA InitList == Init => ListInv
<1> SUFFICES ASSUME Init PROVE ListInv
  OBVIOUS
<1>1. PICK s : s = [i \in 0 .. 0 |-> head]
  OBVIOUS
<1>2. s \in [0 .. 0 -> Nodes \cup {head}] /\ s[0] = head /\ DOMAIN s = 0 .. 0
  BY <1>1
<1>3. 1 .. 0 = {} /\ 0 .. 0 - 1 = {} /\ 0 \in 0 .. Cardinality(Nodes)
  <2>1. Cardinality(Nodes) \in Nat
    BY ListConstants, FS_CardinalityType
  <2> QED
    BY <2>1
<1>4. Chain(0, s)
  BY <1>2, <1>3 DEF Init, Chain
<1>5. Ends(0, s) /\ Holds(0, s) /\ Progress(0, s)
  BY <1>2, <1>3 DEF Init, Ends, Holds, InHand, Members, Progress, Walks
<1>6. TypeOK /\ FatalMeansMissing
  BY DEF Init, TypeOK, FatalMeansMissing
<1> QED
  BY <1>2, <1>3, <1>4, <1>5, <1>6 DEF ListInv

(* A step that changes nothing. *)
LEMMA StutterKeepsList ==
    ASSUME ListInv, UNCHANGED vars
    PROVE  ListInv'
<1>1. PICK L, s : List(L, s)
  BY HasList
<1>2. /\ UNCHANGED <<next, data, tail, allocated, pc, want, func, prev, cur>>
      /\ UNCHANGED <<loaded, fatal, before>>
  BY DEF vars, args
<1>3. Chain(L, s)' /\ Ends(L, s)' /\ Holds(L, s)'
  BY <1>1, <1>2 DEF List, Chain, Ends, Holds, InHand, Members
<1>4. Progress(L, s)'
  BY <1>1, <1>2 DEF List, Progress, Reached
<1>5. TypeOK' /\ FatalMeansMissing'
  BY <1>2 DEF ListInv, TypeOK, FatalMeansMissing
<1> QED
  BY <1>1, <1>3, <1>4, <1>5, NewList DEF List

(* Every step keeps the invariant. *)
LEMMA StepKeepsList ==
    ASSUME INTERRUPTS = FALSE, ListInv, [Next]_vars
    PROVE  ListInv'
<1>1. func \in Funcs
  BY DEF ListInv, TypeOK
<1>2. "remove" \in Walks /\ "locate" \in Walks /\ "filter" \in Walks /\ "for_each" \in Walks
  BY DEF Walks
<1>3. CASE \E n \in Nodes, e \in Items : push_back(n, e)
  BY <1>3, PushKeeps
<1>4. CASE Pop
  BY <1>4, PopStartKeeps, PopLoadKeeps, PopStoreKeeps, PopTailKeeps, PopFreeKeeps DEF Pop
<1>5. CASE \E e \in Items : StartWalk("remove", {e}, func)
  BY <1>1, <1>2, <1>5, StartWalkKeeps
<1>6. CASE \E K \in Filters : StartWalk("locate", K, func) \/ StartWalk("filter", K, func)
  BY <1>1, <1>2, <1>6, StartWalkKeeps
<1>7. CASE \E f \in Funcs : StartWalk("for_each", {}, f)
  BY <1>2, <1>7, StartWalkKeeps
<1>8. CASE RemoveStep \/ LocateStep \/ ForEachStep \/ FilterStep
  BY <1>8, RemoveStepKeeps, LocateStepKeeps, ForEachStepKeeps, FilterStepKeeps
<1>9. CASE Spin \/ UNCHANGED vars
  BY <1>9, StutterKeepsList DEF Spin
<1> QED
  BY <1>3, <1>4, <1>5, <1>6, <1>7, <1>8, <1>9 DEF Next

(* The list is a chain from head to tail in every state. *)
LEMMA ListHolds == INTERRUPTS = FALSE => (Spec => []ListInv)
<1> SUFFICES ASSUME INTERRUPTS = FALSE PROVE Spec => []ListInv
  OBVIOUS
<1>1. ListInv /\ [Next]_vars => ListInv'
  BY StepKeepsList
<1> QED
  BY InitList, <1>1, PTL DEF Spec

-----------------------------------------------------------------------------
(* With interrupts off, the nodes that insert allocated and nobody freed   *)
(* are the ones a walk finds (linked_list.h:20-111): none is lost, none is *)
(* used after its free, for a list of any length.                          *)
THEOREM NoNodeIsLost == INTERRUPTS = FALSE => (Spec => []NothingStranded)
<1> SUFFICES ASSUME INTERRUPTS = FALSE PROVE Spec => []NothingStranded
  OBVIOUS
<1>1. Spec => []ListInv
  BY ListHolds
<1> QED
  BY <1>1, InvStranded, PTL

(* With interrupts off, tail is the last node whenever no operation runs,  *)
(* so that push_back appends (linked_list.h:20-27, 91-94).                 *)
THEOREM PushBackAppends == INTERRUPTS = FALSE => (Spec => []TailIsLast)
<1> SUFFICES ASSUME INTERRUPTS = FALSE PROVE Spec => []TailIsLast
  OBVIOUS
<1>1. Spec => []ListInv
  BY ListHolds
<1> QED
  BY <1>1, InvTail, PTL

(* With interrupts off, remove, locate and pop_front reach fatal only when *)
(* no item of the list they were called on is one they were asked for.     *)
THEOREM GivesUpRightly == INTERRUPTS = FALSE => (Spec => []FatalMeansMissing)
<1> SUFFICES ASSUME INTERRUPTS = FALSE PROVE Spec => []FatalMeansMissing
  OBVIOUS
<1>1. Spec => []ListInv
  BY ListHolds
<1>2. ListInv => FatalMeansMissing
  BY DEF ListInv
<1> QED
  BY <1>1, <1>2, PTL
=============================================================================

-------------------------- MODULE FileSystemProofs --------------------------
(***************************************************************************)
(* Proofs about FileSystem, for all volumes and paths and every size of    *)
(* sectors, entries and names.                                             *)
(***************************************************************************)
EXTENDS FileSystem, SequenceTheorems, WellFoundedInduction, TLAPS

(* A set of numbers has a least one: what induction rests on. *)
LEMMA LeastNumber ==
    ASSUME NEW T, T \subseteq Nat, T # {}
    PROVE  \E x \in T : \A y \in T : x <= y
<1>1. PICK x \in T : \A y \in T : <<y, x>> \notin OpToRel(<, Nat)
  BY NatLessThanWellFounded, WFMin
<1>2. \A y \in T : ~(y < x)
  BY <1>1 DEF OpToRel
<1> QED
  BY <1>2

(* A function that goes from value to value, n times. *)
Iterates(V, a, F, n, f) ==
    f \in [0 .. n -> V] /\ f[0] = a /\ \A i \in 1 .. n : f[i] = F[i][f[i - 1]]

(* There is one. *)
LEMMA IterateExists ==
    ASSUME NEW V, NEW a \in V, NEW n \in Nat, NEW F \in [1 .. n -> [V -> V]]
    PROVE  \E f : Iterates(V, a, F, n, f)
<1>1. PICK T : T = {x \in 0 .. n : ~\E f : Iterates(V, a, F, x, f)}
  OBVIOUS
<1>2. T = {}
  <2> SUFFICES ASSUME T # {} PROVE FALSE
    OBVIOUS
  <2>1. T \subseteq Nat
    BY <1>1
  <2>2. PICK x \in T : \A y \in T : x <= y
    BY <2>1, LeastNumber
  <2>3. x \in 0 .. n /\ ~\E f : Iterates(V, a, F, x, f)
    BY <1>1
  <2>4. CASE x = 0
    <3>1. PICK f : f = [i \in 0 .. x |-> a]
      OBVIOUS
    <3>2. Iterates(V, a, F, x, f)
      BY <2>4, <3>1 DEF Iterates
    <3> QED
      BY <2>3, <3>2
  <2>5. CASE x # 0
    <3>1. x - 1 \in 0 .. n /\ x \in 1 .. n /\ ~(x <= x - 1)
      BY <2>3, <2>5
    <3>2. PICK f : Iterates(V, a, F, x - 1, f)
      BY <1>1, <2>2, <3>1
    <3>3. f \in [0 .. x - 1 -> V] /\ f[0] = a /\ \A i \in 1 .. x - 1 : f[i] = F[i][f[i - 1]]
      BY <3>2 DEF Iterates
    <3>4. PICK g : g = [i \in 0 .. x |-> IF i = x THEN F[x][f[x - 1]] ELSE f[i]]
      OBVIOUS
    <3>5. F[x] \in [V -> V] /\ f[x - 1] \in V
      BY <3>1, <3>3
    <3>6. \A i \in 0 .. x : g[i] \in V
      <4> TAKE i \in 0 .. x
      <4>1. CASE i = x
        BY <3>4, <3>5, <4>1
      <4>2. CASE i # x
        <5>1. i \in 0 .. x - 1 /\ g[i] = f[i]
          BY <3>1, <3>4, <4>2
        <5> QED
          BY <3>3, <5>1
      <4> QED
        BY <4>1, <4>2
    <3>7. g \in [0 .. x -> V]
      BY <3>4, <3>6
    <3>8. \A i \in 1 .. x : g[i] = F[i][g[i - 1]]
      <4> TAKE i \in 1 .. x
      <4>1. i - 1 \in 0 .. x /\ i - 1 # x /\ g[i - 1] = f[i - 1]
        BY <3>1, <3>4
      <4>2. CASE i = x
        BY <3>4, <4>1, <4>2
      <4>3. CASE i # x
        <5>1. i \in 1 .. x - 1 /\ g[i] = f[i]
          BY <3>1, <3>4, <4>3
        <5> QED
          BY <3>3, <4>1, <5>1
      <4> QED
        BY <4>2, <4>3
    <3>9. g[0] = a
      BY <3>1, <3>3, <3>4
    <3> QED
      BY <2>3, <3>7, <3>8, <3>9 DEF Iterates
  <2> QED
    BY <2>4, <2>5
<1>3. n \in 0 .. n
  OBVIOUS
<1> QED
  BY <1>1, <1>2, <1>3

-----------------------------------------------------------------------------
(* The name that locate_file_dirent puts together.                         *)

Places == 0 .. NAME_SIZE - 1
Buffers == [Places -> Characters \cup {NUL, Junk}]
DirEntry == LongEntry \cup OwnEntry

(* The numbers among the constants. *)
LEMMA Numbers ==
    /\ LFN_CHARS \in Int /\ LFN_CHARS > 0 /\ NAME_SIZE \in Int /\ NAME_SIZE > 1
    /\ SECTOR \in Int /\ SECTOR > 0 /\ NUL # Junk /\ NUL \notin Characters /\ Junk \notin Characters
    /\ DIR_SLOTS \in Int /\ DIR_SLOTS > 0 /\ ORDERS \in Int /\ DIR_SLOTS <= ORDERS
  BY FileSystemConstants

(* The stack is a buffer. *)
LEMMA GarbageIsBuffer == Garbage \subseteq Buffers
  BY StaleConstants DEF Buffers, Places

(* An entry is one or the other. *)
LEMMA EntryKinds ==
    ASSUME NEW e \in DirEntry
    PROVE  IF e.lfn THEN e \in LongEntry
           ELSE e \in OwnEntry /\ e.dir \in BOOLEAN /\ e.size \in Nat /\ e.cluster \in Nat
<1>1. CASE e \in LongEntry
  <2>1. e.lfn = TRUE
    BY <1>1 DEF LongEntry
  <2> QED
    BY <1>1, <2>1
<1>2. CASE e \in OwnEntry
  <2>1. e.lfn = FALSE /\ e.dir \in BOOLEAN /\ e.size \in Nat /\ e.cluster \in Nat
    BY <1>2 DEF OwnEntry
  <2> QED
    BY <1>2, <2>1
<1> QED
  BY <1>1, <1>2 DEF DirEntry

(* A long name entry leaves the buffer a buffer. *)
LEMMA OverlayBuffer ==
    ASSUME NEW N \in Buffers, NEW e \in LongEntry
    PROVE  Overlay(N, e) \in Buffers
<1>1. PICK c \in Seq(Characters \cup {NUL}) : c = e.chars
  BY DEF LongEntry
<1>2. \A j \in DOMAIN c : c[j] \in Characters \cup {NUL, Junk}
  OBVIOUS
<1>3. \A k \in Places : N[k] \in Characters \cup {NUL, Junk}
  BY DEF Buffers
<1>4. PICK b : b = (Order(e) - 1) * LFN_CHARS
  OBVIOUS
<1>5. Overlay(N, e) = [k \in Places |-> IF (k - b) + 1 \in DOMAIN c THEN c[(k - b) + 1] ELSE N[k]]
  BY <1>1, <1>4 DEF Overlay, Places
<1> QED
  BY <1>2, <1>3, <1>5 DEF Buffers

NameStep(f, es, g, i) == IF i = 0 THEN g
                         ELSE IF es[i].lfn THEN Overlay(f[i - 1], es[i]) ELSE f[i - 1]

(* Names is what its definition says: the recursion has a solution. *)
LEMMA NamesSteps ==
    ASSUME NEW es \in Seq(DirEntry), NEW g \in Buffers
    PROVE  \A i \in 0 .. Len(es) : /\ Names(es, g)[i] \in Buffers
                                   /\ Names(es, g)[i] = NameStep(Names(es, g), es, g, i)
<1>1. PICK n \in Nat : n = Len(es)
  OBVIOUS
<1>2. PICK a : a = g
  OBVIOUS
<1>3. a \in Buffers
  BY <1>2
<1>4. PICK F : F = [i \in 1 .. n |-> [x \in Buffers |-> IF es[i].lfn THEN Overlay(x, es[i]) ELSE x]]
  OBVIOUS
<1>5. F \in [1 .. n -> [Buffers -> Buffers]]
  <2>1. \A i \in 1 .. n : es[i] \in DirEntry /\ (es[i].lfn => es[i] \in LongEntry)
    <3>1. \A i \in 1 .. n : es[i] \in DirEntry
      BY <1>1
    <3> QED
      BY <3>1, EntryKinds
  <2>2. \A i \in 1 .. n, x \in Buffers : es[i].lfn => Overlay(x, es[i]) \in Buffers
    BY <2>1, OverlayBuffer
  <2> QED
    BY <1>4, <2>2
<1>6. PICK f : Iterates(Buffers, a, F, n, f)
  BY <1>3, <1>5, IterateExists
<1>7. f \in [0 .. n -> Buffers] /\ f[0] = a /\ \A i \in 1 .. n : f[i] = F[i][f[i - 1]]
  BY <1>6 DEF Iterates
<1>8. \A i \in 0 .. n : f[i] = NameStep(f, es, g, i)
  <2> TAKE i \in 0 .. n
  <2>1. CASE i = 0
    BY <1>2, <1>7, <2>1 DEF NameStep, Places
  <2>2. CASE i # 0
    <3>1. i \in 1 .. n /\ i - 1 \in 0 .. n
      BY <2>2
    <3>2. f[i] = F[i][f[i - 1]] /\ f[i - 1] \in Buffers
      BY <1>7, <3>1
    <3>3. F[i][f[i - 1]] = IF es[i].lfn THEN Overlay(f[i - 1], es[i]) ELSE f[i - 1]
      BY <1>4, <3>1, <3>2
    <3> QED
      BY <2>2, <3>2, <3>3 DEF NameStep
  <2> QED
    BY <2>1, <2>2
<1>9. f = [i \in 0 .. n |-> NameStep(f, es, g, i)]
  BY <1>7, <1>8
<1>10. PICK h : h = (CHOOSE s : s = [i \in 0 .. n |-> NameStep(s, es, g, i)])
  OBVIOUS
<1>11. h = [i \in 0 .. n |-> NameStep(h, es, g, i)]
  BY <1>9, <1>10
<1>12. Names(es, g) = h
  BY <1>1, <1>10 DEF Names, NameStep
<1>13. PICK T : T = {i \in 0 .. n : h[i] \notin Buffers}
  OBVIOUS
<1>14. T = {}
  <2> SUFFICES ASSUME T # {} PROVE FALSE
    OBVIOUS
  <2>0. T \subseteq Nat
    BY <1>13
  <2>1. PICK x \in T : \A y \in T : x <= y
    BY <2>0, LeastNumber
  <2>2. x \in 0 .. n /\ h[x] \notin Buffers /\ h[x] = NameStep(h, es, g, x)
    BY <1>11, <1>13
  <2>3. x # 0
    BY <1>2, <1>3, <2>2 DEF NameStep, Places
  <2>4. x \in 1 .. n /\ x - 1 \in 0 .. n /\ ~(x <= x - 1)
    BY <2>2, <2>3
  <2>5. h[x - 1] \in Buffers
    BY <1>13, <2>1, <2>4
  <2>6. es[x].lfn => es[x] \in LongEntry
    <3>1. es[x] \in DirEntry
      BY <1>1, <2>4
    <3> QED
      BY <3>1, EntryKinds
  <2>7. h[x] = IF es[x].lfn THEN Overlay(h[x - 1], es[x]) ELSE h[x - 1]
    BY <2>2, <2>3 DEF NameStep
  <2> QED
    BY <2>2, <2>5, <2>6, <2>7, OverlayBuffer
<1> QED
  BY <1>1, <1>11, <1>12, <1>13, <1>14

-----------------------------------------------------------------------------
(* The entries of a directory.                                             *)

(* Quotient and remainder, as the solver needs them. *)
LEMMA Quotients ==
    ASSUME NEW N \in Int, N > 0, NEW x \in Int
    PROVE  /\ x \div N \in Int /\ x % N \in Int /\ 0 <= x % N /\ x % N < N
           /\ x = (x \div N) * N + (x % N)
<1>1. x \div N \in Int /\ x % N \in Int
  OBVIOUS
<1>2. 0 <= x % N /\ x % N < N
  OBVIOUS
<1>3. x = (x \div N) * N + (x % N)
  OBVIOUS
<1> QED
  BY <1>1, <1>2, <1>3

(* A number below the divisor is its own remainder. *)
LEMMA SmallRemainder ==
    ASSUME NEW N \in Int, NEW x \in Int, 0 <= x, x < N
    PROVE  x % N = x /\ x \div N = 0
<1>1. PICK q \in Int, r \in Int : /\ q = x \div N /\ r = x % N /\ 0 <= r /\ r < N
                                  /\ x = q * N + r
  BY Quotients
<1>2. ASSUME NEW d \in Int, d >= 1 PROVE d * N >= N
  BY <1>2
<1>3. ASSUME NEW d \in Int, d <= -1 PROVE d * N <= 0 - N
  BY <1>3
<1>4. q = 0
  BY <1>1, <1>2, <1>3
<1>5. q * N = 0
  BY <1>4
<1> QED
  BY <1>1, <1>4, <1>5

(* The parts of a name begin before its end. *)
LEMMA PartsBegin ==
    ASSUME NEW L \in Nat
    PROVE  /\ CeilDiv(L, LFN_CHARS) \in Nat
           /\ \A k \in 1 .. CeilDiv(L, LFN_CHARS) :
                LET b == (CeilDiv(L, LFN_CHARS) - k) * LFN_CHARS
                IN  b \in Nat /\ b + 1 <= L
                    /\ (CeilDiv(L, LFN_CHARS) - k + 1) * LFN_CHARS = b + LFN_CHARS
<1>1. PICK n \in Int, r \in Int : /\ n = CeilDiv(L, LFN_CHARS) /\ 0 <= r /\ r < LFN_CHARS
                                  /\ L + LFN_CHARS - 1 = n * LFN_CHARS + r
  <2>1. L + LFN_CHARS - 1 \in Int
    BY Numbers
  <2> QED
    BY <2>1, Numbers, Quotients DEF CeilDiv
<1>2. ASSUME NEW d \in Int, d <= -1 PROVE d * LFN_CHARS <= 0 - LFN_CHARS
  BY <1>2, Numbers
<1>3. n \in Nat
  BY <1>1, <1>2, Numbers
<1>4. ASSUME NEW k \in 1 .. n
      PROVE  /\ (n - k) * LFN_CHARS \in Nat
             /\ (n - k) * LFN_CHARS + 1 <= L
             /\ (n - k + 1) * LFN_CHARS = (n - k) * LFN_CHARS + LFN_CHARS
  <2>1. PICK o \in Nat : o = n - k
    BY <1>3
  <2>2. o * LFN_CHARS \in Nat
    BY Numbers
  <2>3. (n - 1 - o) * LFN_CHARS = n * LFN_CHARS - LFN_CHARS - o * LFN_CHARS
    BY Numbers
  <2>4. (n - 1 - o) * LFN_CHARS >= 0
    <3>1. n - 1 - o \in Nat
      BY <1>3, <2>1
    <3>2. \A x \in Nat : x * LFN_CHARS >= 0
      BY Numbers
    <3> QED
      BY <3>1, <3>2
  <2>5. o * LFN_CHARS + 1 <= L
    BY <1>1, <2>2, <2>3, <2>4, Numbers
  <2>6. (o + 1) * LFN_CHARS = o * LFN_CHARS + LFN_CHARS
    BY Numbers
  <2> QED
    BY <2>1, <2>2, <2>5, <2>6
<1> QED
  BY <1>1, <1>3, <1>4

(* The long name entries of a name. *)
LEMMA LongEntriesAreParts ==
    ASSUME NEW name \in Seq(Characters)
    PROVE  LongEntries(name) \in Seq(LongEntry)
<1>1. PICK L \in Nat : L = Len(name)
  OBVIOUS
<1>2. PICK n \in Nat : n = CeilDiv(L, LFN_CHARS)
  BY PartsBegin
<1>3. PICK whole : whole = IF L % LFN_CHARS = 0 THEN name ELSE Append(name, NUL)
  OBVIOUS
<1>4. PICK W \in Nat : /\ W = Len(whole) /\ whole \in Seq(Characters \cup {NUL})
                       /\ DOMAIN whole = 1 .. W
  <2>1. name \in Seq(Characters \cup {NUL})
    OBVIOUS
  <2> QED
    BY <1>3, <2>1
<1>5. LongEntries(name) = [k \in 1 .. n |->
         [lfn |-> TRUE, order |-> n - k + 1,
          chars |-> SubSeq(whole, (n - k) * LFN_CHARS + 1, Min2(W, (n - k + 1) * LFN_CHARS))]]
  BY <1>1, <1>2, <1>3, <1>4 DEF LongEntries
<1>6. ASSUME NEW k \in 1 .. n
      PROVE  [lfn |-> TRUE, order |-> n - k + 1,
              chars |-> SubSeq(whole, (n - k) * LFN_CHARS + 1, Min2(W, (n - k + 1) * LFN_CHARS))]
                \in LongEntry
  <2>1. PICK b \in Nat : /\ b = (n - k) * LFN_CHARS
                         /\ (n - k + 1) * LFN_CHARS = b + LFN_CHARS
    BY <1>2, PartsBegin
  <2>2. PICK e \in Nat : e = Min2(W, b + LFN_CHARS) /\ e <= W
    BY Numbers DEF Min2
  <2>3. \A i \in b + 1 .. e : whole[i] \in Characters \cup {NUL}
    BY <1>4, <2>2
  <2>4. SubSeq(whole, b + 1, e) \in Seq(Characters \cup {NUL})
    BY <2>1, <2>2, <2>3, SubSeqProperties
  <2>5. n - k + 1 \in Nat
    OBVIOUS
  <2> QED
    BY <2>1, <2>2, <2>4, <2>5 DEF LongEntry
<1>7. LongEntries(name) \in [1 .. n -> LongEntry]
  BY <1>5, <1>6
<1> QED
  BY <1>7

(* The entries of an item: those of its long name and its own. *)
LEMMA ItemHasEntries ==
    ASSUME NEW item \in Item
    PROVE  ItemEntries(item) \in Seq(DirEntry)
<1>1. /\ item.name \in Seq(Characters) /\ item.dir \in BOOLEAN /\ item.long \in BOOLEAN
      /\ item.clusters \in Seq(Nat) /\ item.size \in Nat
  BY DEF Item
<1>2. PICK c : c = IF item.clusters = <<>> THEN 0 ELSE item.clusters[1]
  OBVIOUS
<1>3. c \in Nat
  <2>1. CASE item.clusters = <<>>
    BY <1>2, <2>1
  <2>2. CASE item.clusters # <<>>
    <3>1. 1 \in 1 .. Len(item.clusters)
      BY <1>1, <2>2
    <3> QED
      BY <1>1, <1>2, <2>2, <3>1
  <2> QED
    BY <2>1, <2>2
<1>4. PICK own : own = [lfn |-> FALSE, dir |-> item.dir, size |-> item.size, cluster |-> c]
  OBVIOUS
<1>5. own \in OwnEntry
  BY <1>1, <1>3, <1>4 DEF OwnEntry
<1>6. own \in DirEntry
  BY <1>5 DEF DirEntry
<1>7. PICK long : long = IF item.long THEN LongEntries(item.name) ELSE <<>>
  OBVIOUS
<1>8. long \in Seq(DirEntry)
  <2>1. LongEntries(item.name) \in Seq(LongEntry)
    BY <1>1, LongEntriesAreParts
  <2>2. LongEntry \subseteq DirEntry
    BY DEF DirEntry
  <2>3. LongEntries(item.name) \in Seq(DirEntry)
    BY <2>1, <2>2
  <2> QED
    BY <1>7, <2>3
<1>9. ItemEntries(item) = long \o <<own>>
  BY <1>2, <1>4, <1>7 DEF ItemEntries
<1> QED
  BY <1>6, <1>8, <1>9

EntriesStep(f, items, n) == IF n = 0 THEN <<>> ELSE f[n - 1] \o ItemEntries(items[n])

(* The entries of the first items. *)
LEMMA EntriesSteps ==
    ASSUME NEW items \in Seq(Item)
    PROVE  \A i \in 0 .. Len(items) :
             /\ EntriesUpTo(items)[i] \in Seq(DirEntry)
             /\ EntriesUpTo(items)[i] = EntriesStep(EntriesUpTo(items), items, i)
<1>1. PICK n \in Nat : n = Len(items)
  OBVIOUS
<1>2. PICK V : V = Seq(DirEntry)
  OBVIOUS
<1>3. \A i \in 1 .. n : ItemEntries(items[i]) \in V
  BY <1>1, <1>2, ItemHasEntries
<1>4. <<>> \in V /\ \A x \in V, y \in V : x \o y \in V
  BY <1>2
<1>5. PICK F : F = [i \in 1 .. n |-> [x \in V |-> x \o ItemEntries(items[i])]]
  OBVIOUS
<1>6. F \in [1 .. n -> [V -> V]]
  BY <1>3, <1>4, <1>5
<1>7. PICK f : Iterates(V, <<>>, F, n, f)
  BY <1>4, <1>6, IterateExists
<1>8. f \in [0 .. n -> V] /\ f[0] = <<>> /\ \A i \in 1 .. n : f[i] = F[i][f[i - 1]]
  BY <1>7 DEF Iterates
<1>9. \A i \in 0 .. n : f[i] = EntriesStep(f, items, i)
  <2> TAKE i \in 0 .. n
  <2>1. CASE i = 0
    BY <1>8, <2>1 DEF EntriesStep
  <2>2. CASE i # 0
    <3>1. i \in 1 .. n /\ i - 1 \in 0 .. n
      BY <2>2
    <3>2. f[i] = F[i][f[i - 1]] /\ f[i - 1] \in V
      BY <1>8, <3>1
    <3>3. F[i][f[i - 1]] = f[i - 1] \o ItemEntries(items[i])
      BY <1>5, <3>1, <3>2
    <3> QED
      BY <2>2, <3>2, <3>3 DEF EntriesStep
  <2> QED
    BY <2>1, <2>2
<1>10. f = [i \in 0 .. n |-> EntriesStep(f, items, i)]
  BY <1>8, <1>9
<1>11. PICK h : h = (CHOOSE s : s = [i \in 0 .. n |-> EntriesStep(s, items, i)])
  OBVIOUS
<1>12. h = [i \in 0 .. n |-> EntriesStep(h, items, i)]
  BY <1>10, <1>11
<1>13. EntriesUpTo(items) = h
  BY <1>1, <1>11 DEF EntriesUpTo, EntriesStep
<1>14. PICK T : T = {i \in 0 .. n : h[i] \notin V}
  OBVIOUS
<1>15. T = {}
  <2> SUFFICES ASSUME T # {} PROVE FALSE
    OBVIOUS
  <2>0. T \subseteq Nat
    BY <1>14
  <2>1. PICK x \in T : \A y \in T : x <= y
    BY <2>0, LeastNumber
  <2>2. x \in 0 .. n /\ h[x] \notin V /\ h[x] = EntriesStep(h, items, x)
    BY <1>12, <1>14
  <2>3. x # 0
    BY <1>4, <2>2 DEF EntriesStep
  <2>4. x \in 1 .. n /\ x - 1 \in 0 .. n /\ ~(x <= x - 1)
    BY <2>2, <2>3
  <2>5. h[x - 1] \in V
    BY <1>14, <2>1, <2>4
  <2>6. h[x] = h[x - 1] \o ItemEntries(items[x])
    BY <2>2, <2>3 DEF EntriesStep
  <2> QED
    BY <1>3, <1>4, <2>2, <2>4, <2>5, <2>6
<1>16. \A i \in 0 .. n : h[i] \in Seq(DirEntry) /\ h[i] = EntriesStep(h, items, i)
  BY <1>2, <1>12, <1>14, <1>15
<1> QED
  BY <1>1, <1>13, <1>16

(* The entries of all items. *)
LEMMA DirectoryHasEntries ==
    ASSUME NEW items \in Seq(Item)
    PROVE  Entries(items) \in Seq(DirEntry)
<1>1. Len(items) \in 0 .. Len(items)
  OBVIOUS
<1> QED
  BY <1>1, EntriesSteps DEF Entries

(* What is known of a volume. *)
LEMMA VolumeFacts ==
    ASSUME NEW v \in Volumes
    PROVE  /\ v.hidden \in Nat /\ v.hidden >= 1 /\ v.hidden < LBA_LOW
           /\ v.reserved \in Nat /\ v.reserved >= 1 /\ v.fats \in Nat /\ v.fats >= 1
           /\ v.per_cluster \in Nat /\ v.per_cluster >= 1
           /\ \A d \in DOMAIN v.dirs : d \in Nat /\ d >= 2 /\ v.dirs[d] \in Seq(Item)
           /\ v.root \in DOMAIN v.dirs
           /\ LBA_LOW \in Nat /\ LBA_LOW >= 1
<1>1. LBA_LOW \in Nat /\ LBA_LOW >= 1
  BY DiskConstants
<1>2. v.hidden \in 1 .. LBA_LOW - 1
  BY FileSystemConstants
<1>3. /\ v.reserved \in Nat /\ v.reserved >= 1 /\ v.fats \in Nat /\ v.fats >= 1
      /\ v.per_cluster \in Nat /\ v.per_cluster >= 1
  BY FileSystemConstants
<1>4. /\ \A d \in DOMAIN v.dirs : d \in Nat /\ d >= 2 /\ v.dirs[d] \in Seq(Item)
      /\ v.root \in DOMAIN v.dirs
  BY FileSystemConstants
<1> QED
  BY <1>1, <1>2, <1>3, <1>4

(* Directories lie behind the FAT. *)
LEMMA DirectoriesBehind ==
    ASSUME NEW v \in Volumes, NEW d \in DOMAIN v.dirs
    PROVE  SectorOfCluster(v, d) \in Nat
             /\ SectorOfCluster(v, d) >= v.hidden + v.reserved + v.fats
<1>1. /\ v.hidden \in Nat /\ v.reserved \in Nat /\ v.fats \in Nat /\ v.per_cluster \in Nat
      /\ d - 2 \in Nat
  BY VolumeFacts
<1>2. (d - 2) * v.per_cluster \in Nat
  BY <1>1
<1> QED
  BY <1>1, <1>2 DEF SectorOfCluster

(* The first sector, and that of the partition. *)
LEMMA BootSectors ==
    ASSUME NEW v \in Volumes
    PROVE  /\ DiskSector(v, 0) = [kind |-> "mbr", lba |-> v.hidden]
           /\ DiskSector(v, v.hidden) = [kind |-> "pbr", pbr |-> Geometry(v)]
<1>1. /\ v.hidden \in Nat /\ v.hidden >= 1 /\ v.reserved \in Nat /\ v.reserved >= 1
      /\ v.fats \in Nat /\ v.fats >= 1
  BY VolumeFacts
<1>2. \A s \in {0, v.hidden} :
        /\ s \notin v.hidden + v.reserved .. v.hidden + v.reserved + v.fats - 1
        /\ {d \in DOMAIN v.dirs : SectorOfCluster(v, d) = s} = {}
  BY <1>1, DirectoriesBehind
<1>3. v.hidden # 0
  BY <1>1
<1> QED
  BY <1>2, <1>3 DEF DiskSector

(* The slots looked at. *)
LEMMA FirstSlotsAreEntries ==
    ASSUME NEW es \in Seq(DirEntry)
    PROVE  FirstSlots(es) \in Seq(DirEntry)
<1>1. Unused \in DirEntry
  BY DEF Unused, DirEntry, OwnEntry
<1>2. PICK m \in Nat : m = Min2(Len(es), DIR_SLOTS) /\ m <= Len(es)
  BY Numbers DEF Min2
<1>3. \A i \in 1 .. m : es[i] \in DirEntry
  BY <1>2
<1>4. SubSeq(es, 1, m) \in Seq(DirEntry)
  BY <1>2, <1>3, SubSeqProperties
<1>5. <<Unused>> \in Seq(DirEntry)
  BY <1>1
<1> QED
  BY <1>2, <1>4, <1>5 DEF FirstSlots

(* A directory's sector. *)
LEMMA DirectorySector ==
    ASSUME NEW v \in Volumes, NEW s \in Nat, DiskSector(v, s).kind = "dir"
    PROVE  DiskSector(v, s).entries \in Seq(DirEntry)
<1>1. PICK D : D = {d \in DOMAIN v.dirs : SectorOfCluster(v, d) = s}
  OBVIOUS
<1>2. PICK es : es = Entries(v.dirs[CHOOSE d \in D : TRUE])
  OBVIOUS
<1>3. PICK first : first = FirstSlots(es)
  OBVIOUS
<1>4. /\ s # 0 /\ s # v.hidden /\ D # {}
      /\ s \notin v.hidden + v.reserved .. v.hidden + v.reserved + v.fats - 1
  <2>1. v.hidden \in Nat /\ v.hidden >= 1 /\ v.reserved \in Nat /\ v.fats \in Nat
    BY VolumeFacts
  <2>2. s # 0 /\ s # v.hidden
    <3>1. DiskSector(v, 0).kind = "mbr" /\ DiskSector(v, v.hidden).kind = "pbr"
      <4>1. /\ DiskSector(v, 0) = [kind |-> "mbr", lba |-> v.hidden]
            /\ DiskSector(v, v.hidden) = [kind |-> "pbr", pbr |-> Geometry(v)]
        BY BootSectors
      <4> QED
        BY <4>1
    <3>2. "mbr" # "dir" /\ "pbr" # "dir"
      OBVIOUS
    <3> QED
      BY <3>1, <3>2
  <2>3. s \in v.hidden + v.reserved .. v.hidden + v.reserved + v.fats - 1 => D = {}
    BY <1>1, <2>1, DirectoriesBehind
  <2>4. s \notin v.hidden + v.reserved .. v.hidden + v.reserved + v.fats - 1
    BY <1>1, <2>2, <2>3 DEF DiskSector
  <2> QED
    BY <1>1, <2>2, <2>4 DEF DiskSector
<1>5. DiskSector(v, s) = [kind |-> "dir", entries |-> first]
  BY <1>1, <1>2, <1>3, <1>4 DEF DiskSector
<1>6. (CHOOSE d \in D : TRUE) \in DOMAIN v.dirs
  BY <1>1, <1>4
<1>7. es \in Seq(DirEntry)
  BY <1>2, <1>6, VolumeFacts, DirectoryHasEntries
<1>8. first \in Seq(DirEntry)
  BY <1>3, <1>7, FirstSlotsAreEntries
<1> QED
  BY <1>5, <1>8

-----------------------------------------------------------------------------
(* Looking up a name.                                                      *)

(* The sector that the driver is asked for, and the entries that match a   *)
(* name, of which locate_file_dirent stops at the first.                   *)
SectorAt(v, c) == ((c - 2) * v.per_cluster + v.reserved + v.fats + v.hidden) % LBA_LOW
FoundIn(es, t, g) == { i \in DOMAIN es : ~es[i].lfn /\ Equal(Names(es, g)[i], t) }
FoundEntry(es, t, g, e) == FoundIn(es, t, g) # {} /\ e = es[FirstOf(FoundIn(es, t, g))]

(* FirstOf takes a member. *)
LEMMA FirstIsMember ==
    ASSUME NEW S, S \subseteq Nat, S # {}
    PROVE  FirstOf(S) \in S
<1>1. \E i \in S : \A j \in S : i <= j
  BY LeastNumber
<1> QED
  BY <1>1 DEF FirstOf

(* Sectors are numbers. *)
LEMMA SectorsAreNumbers ==
    ASSUME NEW v \in Volumes
    PROVE  0 .. LastSector(v) \subseteq Nat
<1>1. /\ v.hidden \in Nat /\ v.reserved \in Nat /\ v.fats \in Nat /\ v.per_cluster \in Nat
      /\ FAT_ENTRIES \in Nat
  BY VolumeFacts, FileSystemConstants
<1>2. PICK c \in Int : c = v.fats * FAT_ENTRIES
  BY <1>1
<1>3. PICK k \in Int : k = (c - 2) * v.per_cluster
  BY <1>1, <1>2
<1>4. LastSector(v) \in Int
  BY <1>1, <1>2, <1>3 DEF LastSector, SectorOfCluster
<1> QED
  BY <1>4

(* What is read from a sector of the disk are lists of entries. *)
LEMMA EntriesRead ==
    ASSUME NEW v \in Volumes, NEW s \in 0 .. LastSector(v)
    PROVE  EntriesIn(DiskOf[v][s]) \subseteq Seq(DirEntry)
<1>1. DiskOf[v][s] = DiskSector(v, s)
  BY DEF DiskOf
<1>2. s \in Nat
  BY SectorsAreNumbers
<1>3. CASE DiskSector(v, s).kind = "dir"
  BY <1>1, <1>2, <1>3, DirectorySector DEF EntriesIn
<1>4. CASE DiskSector(v, s).kind # "dir"
  BY <1>1, <1>4, StaleConstants DEF EntriesIn, DirEntry
<1> QED
  BY <1>3, <1>4

(* The entry that is found is an item's own. *)
LEMMA FoundIsOwn ==
    ASSUME NEW es \in Seq(DirEntry), NEW t, NEW g, NEW e, FoundEntry(es, t, g, e)
    PROVE  e \in OwnEntry /\ e.dir \in BOOLEAN /\ e.size \in Nat /\ e.cluster \in Nat
<1>1. PICK S : S = FoundIn(es, t, g)
  OBVIOUS
<1>2. S \subseteq Nat /\ S # {} /\ e = es[FirstOf(S)]
  BY <1>1 DEF FoundEntry, FoundIn
<1>3. FirstOf(S) \in S
  BY <1>2, FirstIsMember
<1>4. e \in DirEntry /\ ~e.lfn
  BY <1>1, <1>2, <1>3 DEF FoundIn
<1> QED
  BY <1>4, EntryKinds

-----------------------------------------------------------------------------
(* What holds of the variables as long as no read fails.                   *)

Bytes == (Int \X Int) \cup {Junk}

(* How far fat32_read's loop is. *)
LoopInv ==
    /\ bytes_to_read \in Nat /\ dest \in Seq(Bytes) /\ (pc # "done" => offset = Len(dest))
    /\ pc \in {"mbr", "pbr", "data", "fat", "done", "polling"}
    /\ pc = "fat" => bytes_to_read >= SECTOR

LookupInv ==
    /\ dest = <<>> /\ offset = 0 /\ cluster \in Nat
    /\ pc \in {"mbr", "pbr", "dir", "panic", "corrupt", "polling"}

(* The driver and the boot sectors. *)
BootInv ==
    /\ drive_head \in {-1, 0} /\ (drive_head = -1 => pc \in {"mbr", "polling"})
    /\ pbr = Geometry(volume) /\ (pc = "pbr" => lba = volume.hidden)

FitsInv ==
    /\ volume \in Volumes /\ path \in Paths /\ errors \in Nat
    /\ errors = 0 => /\ BootInv /\ call \in {"stat", "find", "load"}
                     /\ IF call = "load" THEN LoopInv ELSE LookupInv

(* The invariant holds at first. *)
LEMMA FitsInit == Init => FitsInv
<1> SUFFICES ASSUME Init PROVE FitsInv
  OBVIOUS
<1>1. /\ volume \in Volumes /\ path \in Paths /\ errors = 0 /\ drive_head = -1
      /\ pc = "mbr" /\ call = "stat" /\ pbr = Geometry(volume) /\ cluster = 2
      /\ dest = <<>> /\ offset = 0
  BY DEF Init, DiskInit
<1>2. BootInv
  BY <1>1 DEF BootInv
<1>3. LookupInv
  BY <1>1 DEF LookupInv
<1> QED
  BY <1>1, <1>2, <1>3 DEF FitsInv

(* The drive register's half is 0 after the first read, that of sector 0. *)
LEMMA HeadIsZero ==
    ASSUME BootInv, Reading
    PROVE  /\ HeadFor(Wanted) = 0
           /\ \A s \in Int : Wanted = s => Addressed(Wanted) = s % LBA_LOW
<1>1. LBA_LOW \in Int /\ LBA_LOW > 0 /\ LBA_HIGH \in Int /\ LBA_HIGH > 0
  BY DiskConstants
<1>2. HeadFor(Wanted) = 0
  <2>1. CASE drive_head = -1
    <3>1. pc = "mbr"
      BY <2>1 DEF BootInv, Reading
    <3>2. Wanted = 0
      BY <3>1 DEF Wanted
    <3>3. 0 \div LBA_LOW = 0 /\ 0 % LBA_HIGH = 0
      BY <1>1, SmallRemainder
    <3> QED
      BY <2>1, <3>2, <3>3 DEF HeadFor
  <2>2. CASE drive_head = 0
    BY <2>2 DEF HeadFor
  <2> QED
    BY <2>1, <2>2 DEF BootInv
<1>3. ASSUME NEW s \in Int, Wanted = s PROVE Addressed(Wanted) = s % LBA_LOW
  <2>1. Addressed(Wanted) = 0 * LBA_LOW + (s % LBA_LOW)
    BY <1>2, <1>3 DEF Addressed
  <2>2. s % LBA_LOW \in Int
    BY <1>1, Quotients
  <2>3. 0 * LBA_LOW = 0
    BY <1>1
  <2> QED
    BY <2>1, <2>2, <2>3
<1> QED
  BY <1>2, <1>3

(* A failed read is counted. *)
LEMMA FailureCounts ==
    ASSUME MAX_ERRORS > 0, errors \in Nat, NEW failed \in BOOLEAN, SectorRead(failed)
    PROVE  /\ errors' \in Nat /\ (failed => errors' # 0) /\ (~failed => errors' = errors)
           /\ volume' = volume /\ path' = path /\ drive_head' = HeadFor(Wanted)
<1>1. MAX_ERRORS \in Nat
  BY FileSystemConstants
<1>2. errors' = IF failed THEN Min2(errors + 1, MAX_ERRORS) ELSE errors
  BY DEF SectorRead
<1>3. errors' \in Nat /\ (failed => errors' # 0) /\ (~failed => errors' = errors)
  BY <1>1, <1>2 DEF Min2
<1> QED
  BY <1>3 DEF SectorRead, read_disk_sector, read_ide_disk_sector

(* A read that succeeds: what every step shares. *)
GoodRead(content) ==
    /\ FitsInv /\ errors = 0 /\ Reading
    /\ Addressed(Wanted) \in 0 .. LastSector(volume)
    /\ content = DiskOf[volume][Addressed(Wanted)]
    /\ errors' = 0 /\ volume' = volume /\ path' = path /\ drive_head' = 0

(* The boot sector of the disk. *)
LEMMA MbrStep ==
    ASSUME NEW content, GoodRead(content), ReadMbr(content, FALSE)
    PROVE  FitsInv'
<1>1. /\ volume \in Volumes /\ path \in Paths /\ BootInv
      /\ call \in {"stat", "find", "load"} /\ (IF call = "load" THEN LoopInv ELSE LookupInv)
  BY DEF GoodRead, FitsInv
<1>2. /\ pc = "mbr" /\ pc' = "pbr"
      /\ lba' \in IF content.kind = "mbr" THEN {content.lba} ELSE StaleNumbers
      /\ UNCHANGED <<call, pbr, rest, cluster, bytes_to_read, st_size, dest, offset>>
  BY DEF ReadMbr
<1>3. Addressed(Wanted) = 0
  <2>1. Wanted = 0
    BY <1>2 DEF Wanted
  <2>2. 0 % LBA_LOW = 0
    BY DiskConstants, SmallRemainder
  <2> QED
    BY <1>1, <2>1, <2>2, HeadIsZero DEF GoodRead
<1>4. content = DiskSector(volume, 0)
  BY <1>1, <1>3 DEF GoodRead, DiskOf
<1>5. content = [kind |-> "mbr", lba |-> volume.hidden]
  BY <1>1, <1>4, BootSectors
<1>6. lba' = volume.hidden
  BY <1>2, <1>5
<1>7. BootInv'
  BY <1>1, <1>2, <1>6 DEF BootInv, GoodRead
<1>8. call = "load" => LoopInv'
  BY <1>1, <1>2 DEF LoopInv
<1>9. call # "load" => LookupInv'
  BY <1>1, <1>2 DEF LookupInv
<1> QED
  BY <1>1, <1>2, <1>7, <1>8, <1>9 DEF FitsInv, GoodRead

(* That of the partition. *)
LEMMA PbrStep ==
    ASSUME NEW content, GoodRead(content), ReadPbr(content, FALSE)
    PROVE  FitsInv'
<1>1. /\ volume \in Volumes /\ path \in Paths /\ BootInv
      /\ call \in {"stat", "find", "load"} /\ (IF call = "load" THEN LoopInv ELSE LookupInv)
  BY DEF GoodRead, FitsInv
<1>2. /\ pc = "pbr"
      /\ content.kind = "pbr" => pbr' = content.pbr
      /\ pc' = IF call # "load" THEN "dir" ELSE IF bytes_to_read = 0 THEN "done" ELSE "data"
      /\ UNCHANGED <<call, lba, rest, cluster, bytes_to_read, st_size, dest, offset>>
  BY DEF ReadPbr
<1>3. volume.hidden \in Nat /\ volume.hidden < LBA_LOW /\ LBA_LOW \in Nat
  BY <1>1, VolumeFacts
<1>4. Addressed(Wanted) = volume.hidden
  <2>1. Wanted = volume.hidden
    BY <1>1, <1>2 DEF Wanted, BootInv
  <2>2. volume.hidden % LBA_LOW = volume.hidden
    BY <1>3, SmallRemainder
  <2> QED
    BY <1>1, <1>3, <2>1, <2>2, HeadIsZero DEF GoodRead
<1>5. content = DiskSector(volume, volume.hidden)
  BY <1>1, <1>4 DEF GoodRead, DiskOf
<1>6. content = [kind |-> "pbr", pbr |-> Geometry(volume)]
  BY <1>1, <1>5, BootSectors
<1>7. pbr' = Geometry(volume)
  BY <1>2, <1>6
<1>8. BootInv'
  BY <1>1, <1>2, <1>7 DEF BootInv, GoodRead, Geometry
<1>9. call = "load" => LoopInv'
  BY <1>1, <1>2 DEF LoopInv
<1>10. call # "load" => LookupInv'
  BY <1>1, <1>2 DEF LookupInv
<1> QED
  BY <1>1, <1>2, <1>8, <1>9, <1>10 DEF FitsInv, GoodRead

(* The buffer grows at its end, as long as dest_buffer points there. *)
LEMMA PutAtEnd ==
    ASSUME dest \in Seq(Bytes), offset = Len(dest), NEW n \in Nat, n <= SECTOR, NEW s \in Int
    PROVE  /\ SubSeq(SectorBytes(s), 1, n) \in Seq(Bytes) /\ Len(SubSeq(SectorBytes(s), 1, n)) = n
           /\ Put(SectorBytes(s), n) = dest \o SubSeq(SectorBytes(s), 1, n)
<1>1. PICK new : new = SubSeq(SectorBytes(s), 1, n)
  OBVIOUS
<1>2. \A i \in 1 .. n : SectorBytes(s)[i] \in Bytes
  <2>1. \A i \in 1 .. n : i \in 1 .. SECTOR /\ i \in Int
    BY Numbers
  <2>2. \A i \in 1 .. n : SectorBytes(s)[i] = <<s, i>>
    BY <2>1 DEF SectorBytes
  <2>3. \A i \in Int : <<s, i>> \in Bytes
    BY DEF Bytes
  <2>4. ASSUME NEW i \in 1 .. n PROVE SectorBytes(s)[i] \in Bytes
    <3>1. SectorBytes(s)[i] = <<s, i>> /\ <<s, i>> \in Bytes
      BY <2>1, <2>2, <2>3
    <3> QED
      BY <3>1, Zenon
  <2> QED
    BY <2>4
<1>3. /\ new \in Seq(Bytes) /\ Len(new) = IF 1 <= n THEN n - 1 + 1 ELSE 0
      /\ \A i \in 1 .. n - 1 + 1 : new[i] = SectorBytes(s)[1 + i - 1]
  BY <1>1, <1>2, SubSeqProperties
<1>4. Len(new) = n /\ \A i \in 1 .. n : new[i] = SectorBytes(s)[i]
  <2>1. n - 1 + 1 = n /\ \A i \in 1 .. n : 1 + i - 1 = i
    OBVIOUS
  <2> QED
    BY <1>3, <2>1
<1>5. PICK d \in Nat : d = Len(dest)
  OBVIOUS
<1>6. PICK put : put = Put(SectorBytes(s), n)
  OBVIOUS
<1>7. put = [i \in 1 .. d + n |->
               IF i \in d + 1 .. d + n
               THEN IF i - d <= SECTOR THEN SectorBytes(s)[i - d] ELSE Junk
               ELSE IF i <= d THEN dest[i] ELSE Junk]
  <2>1. (IF d < d + n THEN d + n ELSE d) = d + n
    BY <1>5
  <2> QED
    BY <1>5, <1>6, <2>1 DEF Put
<1>8. PICK all : all = dest \o new
  OBVIOUS
<1>9. /\ all \in Seq(Bytes) /\ Len(all) = d + n
      /\ \A i \in 1 .. d + n : all[i] = IF i <= d THEN dest[i] ELSE new[i - d]
  BY <1>3, <1>4, <1>5, <1>8, ConcatProperties
<1>10. \A i \in 1 .. d + n : put[i] = all[i]
  <2> TAKE i \in 1 .. d + n
  <2>1. CASE i <= d
    <3>1. i \notin d + 1 .. d + n
      BY <1>5, <2>1
    <3> QED
      BY <1>7, <1>9, <2>1, <3>1
  <2>2. CASE ~(i <= d)
    <3>1. i \in d + 1 .. d + n /\ i - d \in 1 .. n /\ i - d <= SECTOR
      BY <1>5, <2>2, Numbers
    <3> QED
      BY <1>4, <1>7, <1>9, <2>2, <3>1
  <2> QED
    BY <2>1, <2>2
<1>11. all = [i \in 1 .. d + n |-> all[i]]
  BY <1>9
<1>12. put = all
  BY <1>7, <1>10, <1>11
<1> QED
  BY <1>1, <1>3, <1>4, <1>6, <1>8, <1>12

(* A sector of the file. *)
LEMMA DataStep ==
    ASSUME NEW content, GoodRead(content), ReadData(FALSE)
    PROVE  /\ FitsInv' /\ call' = call /\ st_size' = st_size /\ bytes_to_read' = bytes_to_read
           /\ pc = "data" /\ call = "load"
           /\ IF bytes_to_read < SECTOR
              THEN pc' = "done" /\ Len(dest') = Len(dest) + bytes_to_read
              ELSE pc' = "fat" /\ Len(dest') = Len(dest) + SECTOR
<1>1. /\ volume \in Volumes /\ path \in Paths /\ BootInv
      /\ call \in {"stat", "find", "load"} /\ (IF call = "load" THEN LoopInv ELSE LookupInv)
  BY DEF GoodRead, FitsInv
<1>2. pbr.bytes = SECTOR /\ SECTOR # 0
  BY <1>1, Numbers DEF BootInv, Geometry
<1>3. /\ pc = "data"
      /\ dest' = Put(SectorBytes(Addressed(Wanted)), Copied)
      /\ \/ bytes_to_read < SECTOR /\ pc' = "done" /\ offset' = offset
         \/ bytes_to_read >= SECTOR /\ pc' = "fat" /\ offset' = offset + SECTOR
      /\ UNCHANGED <<call, lba, pbr, rest, cluster, bytes_to_read, st_size>>
  <2>1. ~(pbr.bytes < SECTOR)
    BY <1>2, Numbers
  <2> QED
    BY <1>2, <2>1 DEF ReadData
<1>4. call = "load" /\ LoopInv
  BY <1>1, <1>3 DEF LookupInv
<1>5. bytes_to_read \in Nat /\ dest \in Seq(Bytes) /\ offset = Len(dest) /\ Len(dest) \in Nat
  BY <1>3, <1>4 DEF LoopInv
<1>6. PICK n \in Nat : /\ n = Copied /\ n <= SECTOR
                       /\ n = IF bytes_to_read < SECTOR THEN bytes_to_read ELSE SECTOR
  BY <1>2, <1>5, Numbers DEF Copied
<1>7. Addressed(Wanted) \in Int
  <2>1. 0 .. LastSector(volume) \subseteq Nat
    BY <1>1, SectorsAreNumbers
  <2>2. Addressed(Wanted) \in Nat
    BY <2>1, Zenon DEF GoodRead
  <2> QED
    BY <2>2
<1>8. PICK new : /\ new = SubSeq(SectorBytes(Addressed(Wanted)), 1, n)
                 /\ new \in Seq(Bytes) /\ Len(new) = n /\ dest' = dest \o new
  BY <1>3, <1>5, <1>6, <1>7, PutAtEnd
<1>9. dest' \in Seq(Bytes) /\ Len(dest') = Len(dest) + n
  BY <1>5, <1>8, ConcatProperties
<1>10. /\ bytes_to_read' = bytes_to_read
       /\ IF bytes_to_read < SECTOR
          THEN pc' = "done" /\ Len(dest') = Len(dest) + bytes_to_read
          ELSE pc' = "fat" /\ Len(dest') = Len(dest) + SECTOR /\ bytes_to_read' >= SECTOR
  BY <1>3, <1>5, <1>6, <1>9, Numbers
<1>11. LoopInv'
  <2>0. offset' = Len(dest') \/ pc' = "done"
    BY <1>3, <1>5, <1>10
  <2> QED
    BY <1>5, <1>9, <1>10, <2>0 DEF LoopInv
<1>12. BootInv'
  BY <1>1, <1>3, <1>10 DEF BootInv, GoodRead
<1> QED
  BY <1>1, <1>3, <1>4, <1>10, <1>11, <1>12 DEF FitsInv, GoodRead

(* The number of the next cluster. *)
LEMMA FatStep ==
    ASSUME NEW content, GoodRead(content), ReadFat(content, FALSE)
    PROVE  /\ FitsInv' /\ call' = call /\ st_size' = st_size /\ dest' = dest
           /\ pc = "fat" /\ call = "load"
           /\ bytes_to_read \in Nat /\ bytes_to_read >= SECTOR /\ dest \in Seq(Bytes)
           /\ bytes_to_read' = bytes_to_read - SECTOR
           /\ pc' = IF bytes_to_read' = 0 THEN "done" ELSE "data"
<1>1. /\ volume \in Volumes /\ path \in Paths /\ BootInv
      /\ call \in {"stat", "find", "load"} /\ (IF call = "load" THEN LoopInv ELSE LookupInv)
  BY DEF GoodRead, FitsInv
<1>2. /\ pc = "fat" /\ bytes_to_read' = bytes_to_read - pbr.bytes
      /\ pc' = IF bytes_to_read' = 0 THEN "done" ELSE "data"
      /\ UNCHANGED <<call, lba, pbr, rest, st_size, dest, offset>>
  BY DEF ReadFat
<1>3. call = "load" /\ LoopInv
  BY <1>1, <1>2 DEF LookupInv
<1>4. pbr.bytes = SECTOR
  BY <1>1 DEF BootInv, Geometry
<1>5. /\ bytes_to_read \in Nat /\ dest \in Seq(Bytes) /\ (pc # "done" => offset = Len(dest))
      /\ bytes_to_read >= SECTOR
  BY <1>2, <1>3 DEF LoopInv
<1>6. bytes_to_read' = bytes_to_read - SECTOR /\ bytes_to_read' \in Nat
  BY <1>2, <1>4, <1>5, Numbers
<1>7. LoopInv'
  BY <1>2, <1>5, <1>6 DEF LoopInv
<1>8. BootInv'
  BY <1>1, <1>2 DEF BootInv, GoodRead
<1> QED
  BY <1>1, <1>2, <1>3, <1>5, <1>6, <1>7, <1>8 DEF FitsInv, GoodRead

(* The entries that locate_file_dirent looks at. *)
LEMMA DirRead ==
    ASSUME NEW content, GoodRead(content), pc = "dir", NEW es \in EntriesIn(content)
    PROVE  /\ es \in Seq(DirEntry) /\ call \in {"stat", "find"} /\ LookupInv /\ BootInv
           /\ volume \in Volumes /\ path \in Paths
           /\ Addressed(Wanted) = SectorAt(volume, cluster)
           /\ \A g : Matches(es, g) = FoundIn(es, rest[1], g)
<1>1. /\ volume \in Volumes /\ path \in Paths /\ BootInv
      /\ call \in {"stat", "find", "load"} /\ (IF call = "load" THEN LoopInv ELSE LookupInv)
  BY DEF GoodRead, FitsInv
<1>2. call \in {"stat", "find"} /\ LookupInv /\ cluster \in Nat
  BY <1>1 DEF LoopInv, LookupInv
<1>3. es \in Seq(DirEntry)
  BY <1>1, EntriesRead DEF GoodRead
<1>4. \A g : Matches(es, g) = FoundIn(es, rest[1], g)
  BY DEF Matches, FoundIn
<1>5. Addressed(Wanted) = SectorAt(volume, cluster)
  <2>1. /\ volume.hidden \in Int /\ volume.reserved \in Int /\ volume.fats \in Int
        /\ volume.per_cluster \in Int
    BY <1>1, VolumeFacts
  <2>2. PICK k \in Int : k = (cluster - 2) * volume.per_cluster
    BY <1>2, <2>1
  <2>3. PICK s \in Int : s = k + volume.reserved + volume.fats + volume.hidden
    BY <2>1, <2>2
  <2>4. Wanted = s
    <3>1. /\ pbr.per_cluster = volume.per_cluster /\ pbr.reserved = volume.reserved
          /\ pbr.fats = volume.fats /\ pbr.hidden = volume.hidden
      BY <1>1 DEF BootInv, Geometry
    <3>2. Wanted = ClusterSector(cluster)
      BY DEF Wanted
    <3> QED
      BY <2>2, <2>3, <3>1, <3>2 DEF ClusterSector
  <2>5. Addressed(Wanted) = s % LBA_LOW
    BY <1>1, <2>4, HeadIsZero DEF GoodRead
  <2> QED
    BY <2>2, <2>3, <2>5 DEF SectorAt
<1> QED
  BY <1>1, <1>2, <1>3, <1>4, <1>5

(* One directory of the path: the ways on. *)
LEMMA DirStep ==
    ASSUME NEW content, GoodRead(content), NEW es \in EntriesIn(content), NEW g \in Garbage,
           ReadDir(es, FALSE, g)
    PROVE  /\ FitsInv' /\ pc = "dir" /\ dest' = dest
           /\ \/ /\ FoundIn(es, rest[1], g) = {} /\ pc' = "panic"
                 /\ UNCHANGED <<call, rest, cluster, bytes_to_read, st_size>>
              \/ /\ pc' = "corrupt"
                 /\ UNCHANGED <<call, rest, cluster, bytes_to_read, st_size>>
              \/ \E e : /\ FoundEntry(es, rest[1], g, e) /\ e \in OwnEntry /\ ~e.dir /\ Located(e)
              \/ \E e : /\ FoundEntry(es, rest[1], g, e) /\ e \in OwnEntry /\ e.dir
                        /\ rest' \in RestsOf(rest) /\ cluster' = e.cluster /\ pc' = "dir"
                        /\ UNCHANGED <<call, bytes_to_read, st_size>>
<1>2. PICK found : found = Matches(es, g)
  OBVIOUS
<1>3. PICK entry : entry = es[FirstOf(found)]
  OBVIOUS
<1>4. /\ pc = "dir" /\ lba' = lba /\ pbr' = pbr /\ dest' = dest /\ offset' = offset
      /\ \/ /\ found = {} /\ pc' = "panic"
            /\ UNCHANGED <<call, rest, cluster, bytes_to_read, st_size>>
         \/ pc' = "corrupt" /\ UNCHANGED <<call, rest, cluster, bytes_to_read, st_size>>
         \/ found # {} /\ ~entry.dir /\ Located(entry)
         \/ /\ found # {} /\ entry.dir
            /\ rest' \in RestsOf(rest) /\ cluster' = entry.cluster
            /\ UNCHANGED <<pc, call, bytes_to_read, st_size>>
  BY <1>2, <1>3 DEF ReadDir
<1>5. /\ es \in Seq(DirEntry) /\ call \in {"stat", "find"} /\ LookupInv /\ BootInv
      /\ volume \in Volumes /\ path \in Paths /\ found = FoundIn(es, rest[1], g)
  BY <1>2, <1>4, DirRead
<1>6. volume' = volume /\ path' = path /\ errors' = 0 /\ drive_head' = 0
  BY DEF GoodRead
<1>7. pc' # "pbr" => BootInv'
  BY <1>4, <1>5, <1>6 DEF BootInv
<1>8. ASSUME found # {}
      PROVE  /\ FoundEntry(es, rest[1], g, entry) /\ entry \in OwnEntry
             /\ entry.dir \in BOOLEAN /\ entry.size \in Nat /\ entry.cluster \in Nat
  <2>1. FoundEntry(es, rest[1], g, entry)
    BY <1>3, <1>5, <1>8 DEF FoundEntry
  <2> QED
    BY <1>5, <2>1, FoundIsOwn
<1>9. CASE pc' \in {"panic", "corrupt"} /\ UNCHANGED <<call, rest, cluster, bytes_to_read, st_size>>
  <2>1. LookupInv'
    BY <1>4, <1>5, <1>9 DEF LookupInv
  <2>2. FitsInv'
    BY <1>5, <1>6, <1>7, <1>9, <2>1 DEF FitsInv
  <2> QED
    BY <1>4, <1>5, <1>8, <2>2, <1>9 DEF Located
<1>10. CASE found # {} /\ ~entry.dir /\ Located(entry)
  <2>1. pc' = "mbr"
    BY <1>10 DEF Located
  <2>2. CASE call = "stat"
    <3>1. /\ call' = "find" /\ cluster' = 2
      BY <1>10, <2>2 DEF Located
    <3>2. LookupInv'
      BY <1>4, <1>5, <2>1, <3>1 DEF LookupInv
    <3> QED
      BY <1>4, <1>5, <1>6, <1>7, <1>8, <1>10, <2>1, <3>1, <3>2 DEF FitsInv
  <2>3. CASE call = "find"
    <3>1. call' = "load" /\ bytes_to_read' = entry.size
      BY <1>10, <2>3 DEF Located
    <3>2. dest' = <<>> /\ Len(dest') = 0 /\ dest' \in Seq(Bytes) /\ offset' = 0
      BY <1>4, <1>5 DEF LookupInv
    <3>3. LoopInv'
      BY <1>8, <1>10, <2>1, <3>1, <3>2 DEF LoopInv
    <3> QED
      BY <1>4, <1>5, <1>6, <1>7, <1>8, <1>10, <2>1, <3>1, <3>3 DEF FitsInv
  <2> QED
    BY <1>5, <2>2, <2>3
<1>11. CASE /\ found # {} /\ entry.dir
            /\ rest' \in RestsOf(rest) /\ cluster' = entry.cluster
            /\ UNCHANGED <<pc, call, bytes_to_read, st_size>>
  <2>1. LookupInv'
    BY <1>4, <1>5, <1>8, <1>11 DEF LookupInv
  <2> QED
    BY <1>4, <1>5, <1>6, <1>7, <1>8, <1>11, <2>1 DEF FitsInv
<1> QED
  BY <1>4, <1>9, <1>10, <1>11

(* The invariant is kept. *)
LEMMA FitsNext ==
    ASSUME MAX_ERRORS > 0, FitsInv, [Next]_vars
    PROVE  FitsInv'
<1>0. volume \in Volumes /\ path \in Paths /\ errors \in Nat
  BY DEF FitsInv
<1>1. ASSUME NEW content, NEW failed \in BOOLEAN, Read(content, failed)
      PROVE  Reading /\ SectorRead(failed)
  BY <1>1 DEF Read, ReadMbr, ReadPbr, ReadDir, ReadData, ReadFat, SectorRead
<1>2. CASE Good
  <2>1. PICK content : content = DiskOf[volume][Addressed(Wanted)]
    OBVIOUS
  <2>2. Read(content, FALSE) /\ Addressed(Wanted) \in 0 .. LastSector(volume)
    BY <1>0, <1>2, <2>1 DEF Good, Disk, DiskOf
  <2>3. Reading /\ SectorRead(FALSE)
    BY <1>1, <2>2
  <2>4. errors' = errors /\ volume' = volume /\ path' = path /\ drive_head' = HeadFor(Wanted)
    BY <1>0, <2>3, FailureCounts
  <2>5. CASE errors = 0
    <3>1. drive_head' = 0
      BY <2>3, <2>4, <2>5, HeadIsZero DEF FitsInv
    <3>2. GoodRead(content)
      BY <2>1, <2>2, <2>3, <2>4, <2>5, <3>1 DEF GoodRead
    <3>3. CASE \E es \in EntriesIn(content), g \in Garbage : ReadDir(es, FALSE, g)
      BY <3>2, <3>3, DirStep
    <3>4. CASE ReadData(FALSE) \/ ReadFat(content, FALSE)
      BY <3>2, <3>4, DataStep, FatStep
    <3>5. CASE ReadMbr(content, FALSE) \/ ReadPbr(content, FALSE)
      BY <3>2, <3>5, MbrStep, PbrStep
    <3> QED
      BY <2>2, <3>3, <3>4, <3>5 DEF Read
  <2>6. CASE errors # 0
    BY <1>0, <2>4, <2>6 DEF FitsInv
  <2> QED
    BY <2>5, <2>6
<1>3. CASE Failed
  <2>1. PICK content : Read(content, TRUE)
    BY <1>3 DEF Failed
  <2>2. SectorRead(TRUE)
    BY <1>1, <2>1
  <2>3. errors' \in Nat /\ errors' # 0 /\ volume' = volume /\ path' = path
    BY <1>0, <2>2, FailureCounts
  <2> QED
    BY <1>0, <2>3 DEF FitsInv
<1>4. CASE Poll
  <2>1. /\ Reading /\ pc' = "polling" /\ drive_head' = HeadFor(Wanted)
        /\ UNCHANGED <<volume, path, call, lba, pbr, rest, cluster, bytes_to_read,
                       st_size, dest, offset, errors>>
    BY <1>4 DEF Poll, read_disk_sector, read_ide_disk_sector
  <2>2. CASE errors = 0
    <3>1. /\ BootInv /\ call \in {"stat", "find", "load"}
          /\ IF call = "load" THEN LoopInv ELSE LookupInv
      BY <2>2 DEF FitsInv
    <3>2. drive_head' = 0
      BY <2>1, <3>1, HeadIsZero
    <3>3. BootInv'
      BY <2>1, <3>1, <3>2 DEF BootInv
    <3>4. call = "load" => LoopInv'
      BY <2>1, <3>1 DEF LoopInv, Reading
    <3>5. call # "load" => LookupInv'
      BY <2>1, <3>1 DEF LookupInv
    <3> QED
      BY <1>0, <2>1, <3>1, <3>3, <3>4, <3>5 DEF FitsInv
  <2>3. CASE errors # 0
    BY <1>0, <2>1, <2>3 DEF FitsInv
  <2> QED
    BY <2>2, <2>3
<1>5. CASE UNCHANGED vars
  <2>1. UNCHANGED <<volume, path, pc, call, lba, pbr, rest, cluster, bytes_to_read,
                    st_size, dest, offset, errors, drive_head>>
    BY <1>5 DEF vars, fs_vars, disk_vars
  <2>2. BootInv' = BootInv /\ LoopInv' = LoopInv /\ LookupInv' = LookupInv
    BY <2>1 DEF BootInv, LoopInv, LookupInv
  <2> QED
    BY <2>1, <2>2 DEF FitsInv
<1> QED
  BY <1>2, <1>3, <1>4, <1>5 DEF Next, Ended

(* What an item's entries make of the name.                                *)

(* The characters that long name entries hold, with the end if there is    *)
(* one.                                                                    *)
Whole(name) == IF Len(name) % LFN_CHARS = 0 THEN name ELSE Append(name, NUL)

(* An item's entries turn name M into K. *)
Writes(item, M, K) ==
    \A p \in Places :
      K[p] = IF item.long /\ p < Len(Whole(item.name)) THEN Whole(item.name)[p + 1] ELSE M[p]

LEMMA WholeName ==
    ASSUME NEW name \in Seq(Characters)
    PROVE  /\ Whole(name) \in Seq(Characters \cup {NUL})
           /\ Len(Whole(name)) \in {Len(name), Len(name) + 1}
           /\ \A i \in 1 .. Len(name) : Whole(name)[i] = name[i] /\ name[i] \in Characters
           /\ Len(name) % LFN_CHARS = 0 => Whole(name) = name
           /\ Len(name) % LFN_CHARS # 0 => /\ Len(Whole(name)) = Len(name) + 1
                                           /\ Whole(name)[Len(name) + 1] = NUL
<1>1. name \in Seq(Characters \cup {NUL})
  OBVIOUS
<1>2. CASE Len(name) % LFN_CHARS = 0
  BY <1>1, <1>2 DEF Whole
<1>3. CASE Len(name) % LFN_CHARS # 0
  <2>1. Whole(name) = Append(name, NUL)
    BY <1>3 DEF Whole
  <2>2. Append(name, NUL) \in Seq(Characters \cup {NUL}) /\ Len(Append(name, NUL)) = Len(name) + 1
    BY <1>1
  <2>3. \A i \in 1 .. Len(name) : Append(name, NUL)[i] = name[i] /\ name[i] \in Characters
    OBVIOUS
  <2>4. Append(name, NUL)[Len(name) + 1] = NUL
    OBVIOUS
  <2> QED
    BY <1>3, <2>1, <2>2, <2>3, <2>4
<1> QED
  BY <1>2, <1>3

(* The parts hold the whole name. *)
LEMMA PartsCover ==
    ASSUME NEW name \in Seq(Characters)
    PROVE  /\ CeilDiv(Len(name), LFN_CHARS) \in Nat
           /\ Len(Whole(name)) <= CeilDiv(Len(name), LFN_CHARS) * LFN_CHARS
<1>1. PICK L \in Nat : L = Len(name)
  OBVIOUS
<1>2. PICK n \in Int, r \in Int : /\ n = CeilDiv(L, LFN_CHARS) /\ 0 <= r /\ r < LFN_CHARS
                                  /\ L + LFN_CHARS - 1 = n * LFN_CHARS + r
  <2>1. L + LFN_CHARS - 1 \in Int
    BY Numbers
  <2> QED
    BY <2>1, Numbers, Quotients DEF CeilDiv
<1>3. n \in Nat
  BY <1>2, PartsBegin
<1>4. PICK m \in Int : m = n * LFN_CHARS
  BY Numbers
<1>5. m >= L
  BY <1>2, <1>4, Numbers
<1>6. ASSUME m = L PROVE L % LFN_CHARS = 0
  <2>1. PICK q \in Int, x \in Int : /\ x = L % LFN_CHARS /\ 0 <= x /\ x < LFN_CHARS
                                    /\ L = q * LFN_CHARS + x
    <3>1. /\ L \div LFN_CHARS \in Int /\ L % LFN_CHARS \in Int
          /\ 0 <= L % LFN_CHARS /\ L % LFN_CHARS < LFN_CHARS
          /\ L = (L \div LFN_CHARS) * LFN_CHARS + (L % LFN_CHARS)
      BY Numbers, Quotients
    <3> QED
      BY <3>1, Zenon
  <2>2. PICK y \in Int : y = n - q /\ y * LFN_CHARS = x
    BY <1>4, <1>6, <2>1, Numbers
  <2>3. ASSUME NEW d \in Int, d >= 1 PROVE d * LFN_CHARS >= LFN_CHARS
    BY <2>3, Numbers
  <2>4. ASSUME NEW d \in Int, d <= -1 PROVE d * LFN_CHARS < 0
    BY <2>4, Numbers
  <2>5. ~(y >= 1) /\ ~(y <= -1)
    BY <2>1, <2>2, <2>3, <2>4, Numbers
  <2>6. y = 0
    BY <2>5
  <2>7. 0 * LFN_CHARS = 0
    BY Numbers
  <2> QED
    BY <2>1, <2>2, <2>6, <2>7
<1>7. CASE L % LFN_CHARS = 0
  <2>1. Len(Whole(name)) = L
    BY <1>1, <1>7 DEF Whole
  <2> QED
    BY <1>1, <1>2, <1>3, <1>4, <1>5, <2>1
<1>8. CASE L % LFN_CHARS # 0
  <2>1. Len(Whole(name)) = L + 1
    BY <1>1, <1>8, WholeName
  <2>2. m >= L + 1
    BY <1>5, <1>6, <1>8
  <2> QED
    BY <1>1, <1>2, <1>3, <1>4, <2>1, <2>2
<1> QED
  BY <1>7, <1>8

(* What one part writes. *)
LEMMA PartWrites ==
    ASSUME NEW name \in Seq(Characters), NEW n, n = CeilDiv(Len(name), LFN_CHARS),
           NEW k \in 1 .. n, NEW b \in Nat, b = (n - k) * LFN_CHARS, n < ORDERS
    PROVE  /\ LongEntries(name)[k].lfn
           /\ \A N : \A p \in Places :
                Overlay(N, LongEntries(name)[k])[p] =
                  IF p \in b .. b + LFN_CHARS - 1 /\ p < Len(Whole(name))
                  THEN Whole(name)[p + 1] ELSE N[p]
<1>1. n \in Nat
  BY PartsCover
<1>2. PICK W \in Nat : W = Len(Whole(name))
  BY WholeName
<1>3. (n - k + 1) * LFN_CHARS = b + LFN_CHARS /\ b + 1 <= Len(name)
  BY PartsBegin
<1>4. PICK e \in Nat : /\ e = Min2(W, b + LFN_CHARS) /\ e <= W /\ e <= b + LFN_CHARS
                       /\ b + 1 <= e /\ (e = W \/ e = b + LFN_CHARS)
  <2>1. W >= Len(name) /\ Len(name) \in Nat
    BY <1>2, WholeName
  <2> QED
    BY <1>3, <2>1, Numbers DEF Min2
<1>5. PICK c : c = SubSeq(Whole(name), b + 1, e)
  OBVIOUS
<1>6. LongEntries(name)[k] = [lfn |-> TRUE, order |-> n - k + 1, chars |-> c]
  <2>1. LongEntries(name) = [i \in 1 .. n |->
           [lfn |-> TRUE, order |-> n - i + 1,
            chars |-> SubSeq(Whole(name), (n - i) * LFN_CHARS + 1,
                             Min2(W, (n - i + 1) * LFN_CHARS))]]
    BY <1>2 DEF LongEntries, Whole
  <2> QED
    BY <1>3, <1>4, <1>5, <2>1
<1>7. /\ DOMAIN c = 1 .. e - b
      /\ \A i \in 1 .. e - b : c[i] = Whole(name)[b + i]
  <2>1. Whole(name) \in Seq(Characters \cup {NUL})
    BY WholeName
  <2>2. \A i \in b + 1 .. e : Whole(name)[i] \in Characters \cup {NUL}
    BY <1>2, <1>4, <2>1
  <2>3. /\ c \in Seq(Characters \cup {NUL}) /\ Len(c) = e - (b + 1) + 1
        /\ \A i \in 1 .. e - (b + 1) + 1 : c[i] = Whole(name)[b + 1 + i - 1]
    <3>1. PICK w, S : w = Whole(name) /\ S = Characters \cup {NUL}
      OBVIOUS
    <3>2. PICK m \in Int : m = b + 1 /\ m <= e
      BY <1>4
    <3>3. /\ SubSeq(w, m, e) \in Seq(S) /\ Len(SubSeq(w, m, e)) = e - m + 1
          /\ \A i \in 1 .. e - m + 1 : SubSeq(w, m, e)[i] = w[m + i - 1]
      <4>1. \A i \in m .. e : w[i] \in S
        BY <2>2, <3>1, <3>2
      <4> HIDE <3>1
      <4> QED
        BY <3>2, <4>1, SubSeqProperties
    <3> QED
      BY <1>5, <3>1, <3>2, <3>3
  <2>4. e - (b + 1) + 1 = e - b /\ \A i \in 1 .. e - b : b + 1 + i - 1 = b + i
    BY <1>4
  <2> QED
    BY <2>3, <2>4
<1>8. ASSUME NEW N, NEW p \in Places
      PROVE  Overlay(N, LongEntries(name)[k])[p] =
               IF p \in b .. b + LFN_CHARS - 1 /\ p < W THEN Whole(name)[p + 1] ELSE N[p]
  <2>1. p \in Int
    BY Numbers DEF Places
  <2>2. (n - k + 1 - 1) * LFN_CHARS = b
    BY <1>1
  <2>3. Overlay(N, LongEntries(name)[k])[p] =
          IF p - b + 1 \in DOMAIN c THEN c[p - b + 1] ELSE N[p]
    <3>1. PICK f : f = LongEntries(name)[k]
      OBVIOUS
    <3>2. f.order = n - k + 1 /\ f.chars = c
      BY <1>1, <1>6, <3>1
    <3>3. Order(f) = n - k + 1
      <4>1. n - k + 1 \in Int /\ 0 <= n - k + 1 /\ n - k + 1 < ORDERS
        BY <1>1, Numbers
      <4> QED
        BY <3>2, <4>1, Numbers, SmallRemainder DEF Order
    <3>4. PICK j \in Int : j = p - (Order(f) - 1) * LFN_CHARS /\ j + 1 = p - b + 1
      <4>1. (Order(f) - 1) * LFN_CHARS = b
        <5>1. PICK x \in Int : x = n - k + 1 - 1 /\ n - k + 1 = x + 1
          <6>1. n - k \in Int
            BY <1>1
          <6> QED
            BY <6>1
        <5>2. Order(f) - 1 = x
          BY <3>3, <5>1
        <5>3. x * LFN_CHARS = b
          BY <2>2, <5>1
        <5> QED
          BY <5>2, <5>3
      <4>2. p - b \in Int /\ (p - b) + 1 = p - b + 1
        BY <2>1
      <4> QED
        BY <4>1, <4>2
    <3>5. Overlay(N, f)[p] = IF j + 1 \in DOMAIN f.chars THEN f.chars[j + 1] ELSE N[p]
      BY <3>4 DEF Overlay, Places
    <3> QED
      BY <3>1, <3>2, <3>4, <3>5
  <2>4. p - b + 1 \in DOMAIN c <=> p \in b .. b + LFN_CHARS - 1 /\ p < W
    <3>1. p - b + 1 \in DOMAIN c <=> b <= p /\ p < e
      BY <1>7, <2>1
    <3>2. b <= p => (p < e <=> p < b + LFN_CHARS /\ p < W)
      BY <1>4, <2>1, Numbers
    <3>3. p \in b .. b + LFN_CHARS - 1 <=> b <= p /\ p < b + LFN_CHARS
      BY <2>1, Numbers
    <3> QED
      BY <3>1, <3>2, <3>3
  <2>5. ASSUME p - b + 1 \in DOMAIN c PROVE c[p - b + 1] = Whole(name)[p + 1]
    <3>1. c[p - b + 1] = Whole(name)[b + (p - b + 1)]
      BY <1>7, <2>5
    <3> QED
      BY <2>1, <3>1
  <2> QED
    BY <2>3, <2>4, <2>5
<1>9. LongEntries(name)[k].lfn
  BY <1>6
<1> QED
  BY <1>2, <1>8, <1>9, Zenon

(* What the entries of an item hold. *)
LEMMA ItemEntriesAt ==
    ASSUME NEW item \in Item
    PROVE  \E n \in Nat :
             /\ Len(ItemEntries(item)) = n + 1
             /\ n = IF item.long THEN CeilDiv(Len(item.name), LFN_CHARS) ELSE 0
             /\ \A k \in 1 .. n : /\ ItemEntries(item)[k] = LongEntries(item.name)[k]
                                  /\ ItemEntries(item)[k].lfn
             /\ ItemEntries(item)[n + 1] =
                  [lfn |-> FALSE, dir |-> item.dir, size |-> item.size,
                   cluster |-> IF item.clusters = <<>> THEN 0 ELSE item.clusters[1]]
<1>1. item.name \in Seq(Characters) /\ item.long \in BOOLEAN
  BY DEF Item
<1>2. PICK own : own = [lfn |-> FALSE, dir |-> item.dir, size |-> item.size,
                        cluster |-> IF item.clusters = <<>> THEN 0 ELSE item.clusters[1]]
  OBVIOUS
<1>3. PICK m \in Nat : m = CeilDiv(Len(item.name), LFN_CHARS)
  BY <1>1, PartsCover
<1>4. LongEntries(item.name) \in Seq(LongEntry) /\ DOMAIN LongEntries(item.name) = 1 .. m
  <2>1. LongEntries(item.name) \in Seq(LongEntry)
    BY <1>1, LongEntriesAreParts
  <2>2. DOMAIN LongEntries(item.name) = 1 .. m
    BY <1>3 DEF LongEntries
  <2> QED
    BY <2>1, <2>2
<1>5. Len(LongEntries(item.name)) = m
  BY <1>4
<1>6. PICK long : long = IF item.long THEN LongEntries(item.name) ELSE <<>>
  OBVIOUS
<1>7. PICK n \in Nat : n = IF item.long THEN m ELSE 0
  BY <1>3
<1>8. long \in Seq(LongEntry) /\ Len(long) = n
  <2>1. CASE item.long
    BY <1>4, <1>5, <1>6, <1>7, <2>1
  <2>2. CASE ~item.long
    <3>1. long = <<>> /\ n = 0
      BY <1>6, <1>7, <2>2
    <3> QED
      BY <3>1
  <2> QED
    BY <2>1, <2>2
<1>9. ItemEntries(item) = long \o <<own>>
  BY <1>2, <1>6 DEF ItemEntries
<1>10. ItemEntries(item) \in Seq(DirEntry)
  BY ItemHasEntries
<1>11. /\ Len(long \o <<own>>) = n + 1 /\ (long \o <<own>>)[n + 1] = own
       /\ \A k \in 1 .. n : (long \o <<own>>)[k] = long[k]
  BY <1>8
<1>12. \A k \in 1 .. n : long[k] = LongEntries(item.name)[k] /\ long[k].lfn
  <2> TAKE k \in 1 .. n
  <2>1. item.long
    BY <1>7
  <2>2. long = LongEntries(item.name) /\ n = m
    BY <1>6, <1>7, <2>1
  <2>3. long[k].lfn
    <3>1. long[k] \in LongEntry
      BY <1>8
    <3> QED
      BY <3>1 DEF LongEntry
  <2> QED
    BY <2>2, <2>3
<1>13. n = IF item.long THEN CeilDiv(Len(item.name), LFN_CHARS) ELSE 0
  BY <1>3, <1>7
<1>14. /\ Len(ItemEntries(item)) = n + 1 /\ ItemEntries(item)[n + 1] = own
       /\ \A k \in 1 .. n : ItemEntries(item)[k] = long[k]
  BY <1>9, <1>11, Zenon
<1>15. \A k \in 1 .. n : /\ ItemEntries(item)[k] = LongEntries(item.name)[k]
                        /\ ItemEntries(item)[k].lfn
  BY <1>12, <1>14, Zenon
<1> QED
  BY <1>2, <1>13, <1>14, <1>15, Zenon

(* All entries of an item, in a list of entries. *)
LEMMA ItemWrites ==
    ASSUME NEW es \in Seq(DirEntry), NEW g \in Buffers, NEW item \in Item, NEW s \in Nat,
           Len(ItemEntries(item)) <= DIR_SLOTS, s + Len(ItemEntries(item)) <= Len(es),
           \A k \in 1 .. Len(ItemEntries(item)) : es[s + k] = ItemEntries(item)[k]
    PROVE  Writes(item, Names(es, g)[s], Names(es, g)[s + Len(ItemEntries(item))])
<1>1. PICK N : N = Names(es, g)
  OBVIOUS
<1>2. PICK m \in Nat : m = Len(es)
  OBVIOUS
<1>3. \A i \in 1 .. m : N[i] = NameStep(N, es, g, i)
  <2>1. \A i \in 0 .. Len(es) : N[i] = NameStep(N, es, g, i)
    BY <1>1, NamesSteps
  <2> QED
    BY <1>2, <2>1
<1>4. PICK n \in Nat :
             /\ Len(ItemEntries(item)) = n + 1
             /\ n = IF item.long THEN CeilDiv(Len(item.name), LFN_CHARS) ELSE 0
             /\ \A k \in 1 .. n : /\ ItemEntries(item)[k] = LongEntries(item.name)[k]
                                  /\ ItemEntries(item)[k].lfn
             /\ ItemEntries(item)[n + 1] =
                  [lfn |-> FALSE, dir |-> item.dir, size |-> item.size,
                   cluster |-> IF item.clusters = <<>> THEN 0 ELSE item.clusters[1]]
  BY ItemEntriesAt
<1>5. item.name \in Seq(Characters) /\ item.long \in BOOLEAN
  BY DEF Item
<1>6. PICK W \in Nat : W = Len(Whole(item.name))
  BY <1>5, WholeName
<1>7. \A k \in 1 .. n : N[s + k] = Overlay(N[s + k - 1], LongEntries(item.name)[k])
  <2> TAKE k \in 1 .. n
  <2>1. s + k \in 1 .. m /\ k \in 1 .. Len(ItemEntries(item)) /\ s + k # 0
    BY <1>2, <1>4
  <2>2. es[s + k] = LongEntries(item.name)[k] /\ es[s + k].lfn
    BY <1>4, <2>1
  <2>3. N[s + k] = NameStep(N, es, g, s + k)
    BY <1>3, <2>1
  <2> QED
    BY <2>1, <2>2, <2>3 DEF NameStep
<1>8. N[s + (n + 1)] = N[s + n]
  <2>0. PICK j : j = s + (n + 1)
    OBVIOUS
  <2>1. n + 1 \in 1 .. Len(ItemEntries(item)) /\ j \in 1 .. m /\ j # 0 /\ j - 1 = s + n
    <3>1. s + (n + 1) <= m
      BY <1>2, <1>4
    <3>2. n + 1 \in 1 .. Len(ItemEntries(item))
      BY <1>4
    <3> QED
      BY <2>0, <3>1, <3>2
  <2>2. es[j] = ItemEntries(item)[n + 1]
    BY <2>0, <2>1
  <2>3. ~es[j].lfn
    BY <1>4, <2>2
  <2>4. N[j] = NameStep(N, es, g, j)
    BY <1>3, <2>1
  <2>5. N[j] = N[j - 1]
    BY <2>1, <2>3, <2>4 DEF NameStep
  <2> QED
    BY <2>0, <2>1, <2>5
<1>9. CASE ~item.long
  <2>1. n = 0
    BY <1>4, <1>9
  <2>2. N[s + n] = N[s]
    BY <2>1
  <2> QED
    BY <1>1, <1>4, <1>8, <1>9, <2>2 DEF Writes
<1>10. CASE item.long
  <2>1. n = CeilDiv(Len(item.name), LFN_CHARS) /\ n < ORDERS
    BY <1>4, <1>10, Numbers
  <2> DEFINE Done(k) == \A p \in Places :
               N[s + k][p] = IF p >= (n - k) * LFN_CHARS /\ p < W THEN Whole(item.name)[p + 1]
                             ELSE N[s][p]
  <2>2. Done(0)
    <3>1. W <= n * LFN_CHARS /\ n * LFN_CHARS \in Int
      BY <1>5, <1>6, <2>1, Numbers, PartsCover
    <3>2. n - 0 = n /\ s + 0 = s
      OBVIOUS
    <3>3. \A p \in Places : p \in Int
      BY Numbers DEF Places
    <3>4. \A p \in Places : ~(p >= (n - 0) * LFN_CHARS /\ p < W)
      BY <3>1, <3>2, <3>3
    <3> QED
      BY <3>2, <3>4
  <2>3. ASSUME NEW k \in 1 .. n, Done(k - 1) PROVE Done(k)
    <3>1. PICK b \in Nat : /\ b = (n - k) * LFN_CHARS /\ b + LFN_CHARS = (n - k + 1) * LFN_CHARS
      <4>1. PICK L \in Nat : L = Len(item.name)
        BY <1>5
      <4> QED
        BY <2>1, <4>1, PartsBegin
    <3>2. (n - (k - 1)) * LFN_CHARS = b + LFN_CHARS
      <4>1. n - (k - 1) = n - k + 1
        OBVIOUS
      <4> QED
        BY <3>1, <4>1
    <3>3. PICK M : M = N[s + k - 1]
      OBVIOUS
    <3>4. s + (k - 1) = s + k - 1
      OBVIOUS
    <3>5. \A p \in Places : M[p] = IF p >= b + LFN_CHARS /\ p < W THEN Whole(item.name)[p + 1]
                                   ELSE N[s][p]
      BY <2>3, <3>2, <3>3, <3>4
    <3>6. \A p \in Places : N[s + k][p] = IF p \in b .. b + LFN_CHARS - 1 /\ p < W
                                          THEN Whole(item.name)[p + 1] ELSE M[p]
      <4>1. \A K : \A p \in Places :
               Overlay(K, LongEntries(item.name)[k])[p] =
                  IF p \in b .. b + LFN_CHARS - 1 /\ p < Len(Whole(item.name))
                  THEN Whole(item.name)[p + 1] ELSE K[p]
        BY <1>5, <2>1, <3>1, PartWrites
      <4>2. N[s + k] = Overlay(M, LongEntries(item.name)[k])
        BY <1>7, <3>3
      <4>3. \A K : \A p \in Places :
               Overlay(K, LongEntries(item.name)[k])[p] =
                  IF p \in b .. b + LFN_CHARS - 1 /\ p < W
                  THEN Whole(item.name)[p + 1] ELSE K[p]
        BY <1>6, <4>1
      <4> QED
        BY <4>2, <4>3
    <3>7. ASSUME NEW p \in Places
          PROVE  N[s + k][p] = IF p >= b /\ p < W THEN Whole(item.name)[p + 1] ELSE N[s][p]
      <4>1. p \in Int
        BY Numbers DEF Places
      <4>2. p \in b .. b + LFN_CHARS - 1 <=> p >= b /\ ~(p >= b + LFN_CHARS)
        BY <4>1, Numbers
      <4>3. p >= b + LFN_CHARS => p >= b
        BY <4>1, Numbers
      <4>4. N[s + k][p] = IF p \in b .. b + LFN_CHARS - 1 /\ p < W
                          THEN Whole(item.name)[p + 1] ELSE M[p]
        BY <3>6
      <4>5. M[p] = IF p >= b + LFN_CHARS /\ p < W THEN Whole(item.name)[p + 1] ELSE N[s][p]
        BY <3>5
      <4> QED
        BY <4>2, <4>3, <4>4, <4>5
    <3> QED
      BY <3>1, <3>7
  <2>4. PICK T : T = {k \in 0 .. n : ~Done(k)}
    OBVIOUS
  <2>5. T = {}
    <3> SUFFICES ASSUME T # {} PROVE FALSE
      OBVIOUS
    <3> HIDE DEF Done
    <3>1. T \subseteq Nat
      BY <2>4
    <3>2. PICK x \in T : \A y \in T : x <= y
      BY <3>1, LeastNumber
    <3>3. x \in 0 .. n /\ ~Done(x)
      BY <2>4
    <3>4. x # 0
      BY <2>2, <3>3
    <3>5. x \in 1 .. n /\ x - 1 \in 0 .. n /\ ~(x <= x - 1)
      BY <3>3, <3>4
    <3>6. Done(x - 1)
      BY <2>4, <3>2, <3>5
    <3> QED
      BY <2>3, <3>3, <3>5, <3>6
  <2>6. Done(n)
    <3> HIDE DEF Done
    <3>1. n \in 0 .. n
      OBVIOUS
    <3> QED
      BY <2>4, <2>5, <3>1
  <2>7. \A p \in Places : p >= (n - n) * LFN_CHARS
    <3>1. (n - n) * LFN_CHARS = 0
      BY Numbers
    <3> QED
      BY <3>1, Numbers DEF Places
  <2>8. \A p \in Places : N[s + n][p] = IF p < W THEN Whole(item.name)[p + 1] ELSE N[s][p]
    BY <2>6, <2>7
  <2> QED
    BY <1>1, <1>4, <1>6, <1>8, <1>10, <2>8 DEF Writes
<1> QED
  BY <1>5, <1>9, <1>10

-----------------------------------------------------------------------------
(* Where the entries of a directory's items are.                           *)

SlotIn(items, j) == Len(EntriesUpTo(items)[j])

LEMMA SlotsGrow ==
    ASSUME NEW items \in Seq(Item)
    PROVE  /\ SlotIn(items, 0) = 0
           /\ \A j \in 0 .. Len(items) : SlotIn(items, j) \in Nat
           /\ \A j \in 1 .. Len(items) :
                /\ Len(ItemEntries(items[j])) \in Nat /\ Len(ItemEntries(items[j])) >= 1
                /\ SlotIn(items, j) = SlotIn(items, j - 1) + Len(ItemEntries(items[j]))
<1>1. PICK h : h = EntriesUpTo(items)
  OBVIOUS
<1>2. PICK n \in Nat : n = Len(items)
  OBVIOUS
<1>3. \A i \in 0 .. n : h[i] \in Seq(DirEntry) /\ h[i] = EntriesStep(h, items, i)
  BY <1>1, <1>2, EntriesSteps
<1>4. h[0] = <<>>
  <2>1. 0 \in 0 .. n
    OBVIOUS
  <2> QED
    BY <1>3, <2>1 DEF EntriesStep
<1>5. ASSUME NEW j \in 1 .. n
      PROVE  /\ Len(ItemEntries(items[j])) \in Nat /\ Len(ItemEntries(items[j])) >= 1
             /\ Len(h[j]) = Len(h[j - 1]) + Len(ItemEntries(items[j]))
  <2>1. items[j] \in Item /\ j - 1 \in 0 .. n /\ j \in 0 .. n /\ j # 0
    BY <1>2
  <2>2. ItemEntries(items[j]) \in Seq(DirEntry)
    BY <2>1, ItemHasEntries
  <2>3. PICK k \in Nat : Len(ItemEntries(items[j])) = k + 1
    BY <2>1, ItemEntriesAt
  <2>4. h[j] = h[j - 1] \o ItemEntries(items[j]) /\ h[j - 1] \in Seq(DirEntry)
    BY <1>3, <2>1 DEF EntriesStep
  <2>5. Len(h[j]) = Len(h[j - 1]) + Len(ItemEntries(items[j]))
    BY <2>2, <2>4, ConcatProperties
  <2> QED
    BY <2>3, <2>5
<1>6. \A i \in 0 .. n : Len(h[i]) \in Nat
  BY <1>3
<1>7. Len(h[0]) = 0
  BY <1>4
<1> QED
  BY <1>1, <1>2, <1>5, <1>6, <1>7 DEF SlotIn

(* The entries of the first items are the first entries. *)
LEMMA SlotsBelow ==
    ASSUME NEW items \in Seq(Item)
    PROVE  \A j \in 0 .. Len(items) :
             /\ SlotIn(items, j) <= Len(Entries(items))
             /\ \A i \in 1 .. SlotIn(items, j) : Entries(items)[i] = EntriesUpTo(items)[j][i]
<1>1. PICK h : h = EntriesUpTo(items)
  OBVIOUS
<1>2. PICK n \in Nat : n = Len(items)
  OBVIOUS
<1>3. \A i \in 0 .. n : h[i] \in Seq(DirEntry) /\ h[i] = EntriesStep(h, items, i)
  BY <1>1, <1>2, EntriesSteps
<1>4. Entries(items) = h[n]
  BY <1>1, <1>2 DEF Entries
<1> DEFINE Below(j) == /\ Len(h[j]) <= Len(h[n])
                       /\ \A i \in 1 .. Len(h[j]) : h[n][i] = h[j][i]
<1>5. Below(n)
  BY <1>3
<1>6. ASSUME NEW j \in 1 .. n, Below(j) PROVE Below(j - 1)
  <2>1. items[j] \in Item /\ j - 1 \in 0 .. n /\ j \in 0 .. n /\ n \in 0 .. n /\ j # 0
    BY <1>2
  <2>2. PICK a : a = h[j - 1]
    OBVIOUS
  <2>3. PICK e : e = ItemEntries(items[j])
    OBVIOUS
  <2>4. a \in Seq(DirEntry) /\ e \in Seq(DirEntry) /\ h[j] = a \o e /\ h[n] \in Seq(DirEntry)
    BY <1>3, <2>1, <2>2, <2>3, ItemHasEntries DEF EntriesStep
  <2>5. Len(a) \in Nat /\ Len(h[j]) \in Nat /\ Len(h[n]) \in Nat /\ Len(a) <= Len(h[j])
    BY <2>4, ConcatProperties
  <2>6. \A i \in 1 .. Len(a) : h[j][i] = a[i] /\ i \in 1 .. Len(h[j])
    <3>1. \A i \in 1 .. Len(a) : (a \o e)[i] = a[i]
      BY <2>4
    <3> QED
      BY <2>4, <2>5, <3>1
  <2> QED
    BY <1>6, <2>2, <2>5, <2>6
<1>7. PICK T : T = {y \in 0 .. n : ~Below(n - y)}
  OBVIOUS
<1> HIDE DEF Below
<1>8. T = {}
  <2> SUFFICES ASSUME T # {} PROVE FALSE
    OBVIOUS
  <2>1. T \subseteq Nat
    BY <1>7
  <2>2. PICK x \in T : \A y \in T : x <= y
    BY <2>1, LeastNumber
  <2>3. x \in 0 .. n /\ ~Below(n - x)
    BY <1>7
  <2>4. x # 0
    <3>1. n - 0 = n
      OBVIOUS
    <3> QED
      BY <1>5, <2>3, <3>1
  <2>5. x - 1 \in 0 .. n /\ ~(x <= x - 1) /\ n - (x - 1) \in 1 .. n /\ n - (x - 1) - 1 = n - x
    BY <2>3, <2>4
  <2>6. Below(n - (x - 1))
    BY <1>7, <2>2, <2>5
  <2>7. Below(n - (x - 1) - 1)
    BY <1>6, <2>5, <2>6
  <2> QED
    BY <2>3, <2>5, <2>7
<1>9. \A j \in 0 .. n : Below(j)
  <2> TAKE j \in 0 .. n
  <2>1. n - j \in 0 .. n /\ n - (n - j) = j
    OBVIOUS
  <2>2. Below(n - (n - j))
    BY <1>7, <1>8, <2>1
  <2> QED
    BY <2>1, <2>2
<1> QED
  BY <1>1, <1>2, <1>4, <1>9 DEF Below, SlotIn

(* The entries of an item are in the directory, behind those before it. *)
LEMMA ItemInDirectory ==
    ASSUME NEW items \in Seq(Item), NEW j \in 1 .. Len(items)
    PROVE  /\ SlotIn(items, j - 1) \in Nat /\ SlotIn(items, j) \in Nat
           /\ SlotIn(items, j) <= Len(Entries(items))
           /\ SlotIn(items, j) = SlotIn(items, j - 1) + Len(ItemEntries(items[j]))
           /\ \A k \in 1 .. Len(ItemEntries(items[j])) :
                Entries(items)[SlotIn(items, j - 1) + k] = ItemEntries(items[j])[k]
<1>1. PICK h : h = EntriesUpTo(items)
  OBVIOUS
<1>2. items[j] \in Item /\ j \in 0 .. Len(items) /\ j - 1 \in 0 .. Len(items) /\ j # 0
  OBVIOUS
<1>3. /\ SlotIn(items, j - 1) \in Nat /\ SlotIn(items, j) \in Nat
      /\ SlotIn(items, j) = SlotIn(items, j - 1) + Len(ItemEntries(items[j]))
      /\ Len(ItemEntries(items[j])) \in Nat
  BY <1>2, SlotsGrow
<1>4. /\ SlotIn(items, j) <= Len(Entries(items))
      /\ \A i \in 1 .. SlotIn(items, j) : Entries(items)[i] = h[j][i]
  BY <1>1, <1>2, SlotsBelow
<1>5. PICK a : a = h[j - 1]
  OBVIOUS
<1>6. PICK e : e = ItemEntries(items[j])
  OBVIOUS
<1>7. a \in Seq(DirEntry) /\ e \in Seq(DirEntry) /\ h[j] = a \o e
  <2>1. h[j - 1] \in Seq(DirEntry) /\ h[j] = EntriesStep(h, items, j)
    BY <1>1, <1>2, EntriesSteps
  <2> QED
    BY <1>2, <1>5, <1>6, <2>1, ItemHasEntries DEF EntriesStep
<1>8. Len(a) = SlotIn(items, j - 1)
  BY <1>1, <1>5 DEF SlotIn
<1>9. ASSUME NEW k \in 1 .. Len(e)
      PROVE  Entries(items)[SlotIn(items, j - 1) + k] = e[k]
  <2>1. (a \o e)[Len(a) + k] = e[k]
    BY <1>7
  <2>2. SlotIn(items, j - 1) + k \in 1 .. SlotIn(items, j)
    BY <1>3, <1>6
  <2> QED
    BY <1>4, <1>7, <1>8, <2>1, <2>2
<1> QED
  BY <1>3, <1>4, <1>6, <1>9

(* An entry that is no long name entry is an item's own. *)
LEMMA OwnEntries ==
    ASSUME NEW items \in Seq(Item), NEW i \in 1 .. Len(Entries(items)), ~Entries(items)[i].lfn
    PROVE  \E j \in 1 .. Len(items) : i = SlotIn(items, j)
<1>1. PICK n \in Nat : n = Len(items)
  OBVIOUS
<1>2. PICK T : T = {j \in 0 .. n : i <= SlotIn(items, j)}
  OBVIOUS
<1>3. i \in Nat /\ i >= 1
  OBVIOUS
<1>4. T # {} /\ T \subseteq Nat
  <2>1. SlotIn(items, n) = Len(Entries(items))
    BY <1>1 DEF SlotIn, Entries
  <2>2. i <= Len(Entries(items))
    <3>1. Entries(items) \in Seq(DirEntry)
      BY DirectoryHasEntries
    <3> QED
      BY <3>1
  <2> QED
    BY <1>2, <2>1, <2>2
<1>5. PICK j \in T : \A y \in T : j <= y
  BY <1>4, LeastNumber
<1>6. j \in 0 .. n /\ i <= SlotIn(items, j)
  BY <1>2
<1>7. j # 0
  BY <1>3, <1>6, SlotsGrow
<1>8. j \in 1 .. n /\ j - 1 \in 0 .. n /\ ~(j <= j - 1)
  BY <1>6, <1>7
<1>9. ~(i <= SlotIn(items, j - 1))
  BY <1>2, <1>5, <1>8
<1>10. /\ SlotIn(items, j - 1) \in Nat /\ SlotIn(items, j) \in Nat
       /\ SlotIn(items, j) = SlotIn(items, j - 1) + Len(ItemEntries(items[j]))
       /\ \A k \in 1 .. Len(ItemEntries(items[j])) :
            Entries(items)[SlotIn(items, j - 1) + k] = ItemEntries(items[j])[k]
  BY <1>1, <1>8, ItemInDirectory
<1>11. PICK m \in Nat : /\ Len(ItemEntries(items[j])) = m + 1
                        /\ \A k \in 1 .. m : ItemEntries(items[j])[k].lfn
  <2>1. items[j] \in Item
    BY <1>1, <1>8
  <2> QED
    BY <2>1, ItemEntriesAt
<1>12. PICK k \in Int : k = i - SlotIn(items, j - 1) /\ k \in 1 .. m + 1
  BY <1>3, <1>6, <1>9, <1>10, <1>11
<1>13. SlotIn(items, j - 1) + k = i
  BY <1>3, <1>10, <1>12
<1>14. Entries(items)[i] = ItemEntries(items[j])[k]
  BY <1>10, <1>11, <1>12, <1>13
<1>15. k \notin 1 .. m
  BY <1>11, <1>14
<1>16. k = m + 1
  BY <1>12, <1>15
<1>17. i = SlotIn(items, j)
  BY <1>10, <1>11, <1>13, <1>16
<1> QED
  BY <1>1, <1>8, <1>17

-----------------------------------------------------------------------------
(* Which entry of a directory is found.                                    *)
-----------------------------------------------------------------------------
(* Which entry of a directory is found.                                    *)

(* What is read of a directory. *)
FirstSector(items) == SubSeq(Entries(items), 1, Min2(Len(Entries(items)), DIR_SLOTS))

(* Misread, in a list of items. *)
MisreadIn(items, i, name) ==
    /\ items[i].name # name
    /\ \/ /\ \A h \in 1 .. i : ~items[h].long
          /\ \E g \in Garbage : Completes(g, name, 0)
       \/ /\ items[i].long /\ ~Terminated(items[i])
          /\ Len(items[i].name) < Len(name)
          /\ items[i].name = SubSeq(name, 1, Len(items[i].name))
          /\ \/ \E h \in 1 .. i - 1 : items[h].long /\ Len(items[h].name) > Len(items[i].name)
             \/ \E g \in Garbage : Completes(g, name, Len(items[i].name))

LEMMA FirstSectorEntries ==
    ASSUME NEW items \in Seq(Item)
    PROVE  /\ FirstSector(items) \in Seq(DirEntry)
           /\ Len(FirstSector(items)) \in Nat /\ Len(FirstSector(items)) <= Len(Entries(items))
           /\ Len(FirstSector(items)) \in {Len(Entries(items)), DIR_SLOTS}
           /\ Len(FirstSector(items)) <= DIR_SLOTS
           /\ \A i \in 1 .. Len(FirstSector(items)) : FirstSector(items)[i] = Entries(items)[i]
<1>1. PICK es : es = Entries(items)
  OBVIOUS
<1>2. es \in Seq(DirEntry) /\ Len(es) \in Nat /\ DIR_SLOTS \in Nat
  BY <1>1, DirectoryHasEntries, FileSystemConstants
<1>3. PICK m \in Nat : m = Min2(Len(es), DIR_SLOTS) /\ m <= Len(es) /\ m <= DIR_SLOTS
                      /\ m \in {Len(es), DIR_SLOTS}
  BY <1>2 DEF Min2
<1>4. \A i \in 1 .. m : es[i] \in DirEntry
  BY <1>2, <1>3
<1>5. FirstSector(items) = SubSeq(es, 1, m)
  BY <1>1, <1>3 DEF FirstSector
<1>6. /\ SubSeq(es, 1, m) \in Seq(DirEntry) /\ Len(SubSeq(es, 1, m)) = m
      /\ \A i \in 1 .. m : SubSeq(es, 1, m)[i] = es[i]
  <2>1. /\ SubSeq(es, 1, m) \in Seq(DirEntry)
        /\ Len(SubSeq(es, 1, m)) = IF 1 <= m THEN m - 1 + 1 ELSE 0
        /\ \A i \in 1 .. m - 1 + 1 : SubSeq(es, 1, m)[i] = es[1 + i - 1]
    BY <1>3, <1>4, SubSeqProperties
  <2>2. m - 1 + 1 = m /\ \A i \in 1 .. m : 1 + i - 1 = i
    OBVIOUS
  <2> QED
    BY <2>1, <2>2
<1> QED
  BY <1>1, <1>3, <1>5, <1>6

(* The name after the entries of each item that is read. *)
LEMMA NamesOfItems ==
    ASSUME NEW items \in Seq(Item), NEW g \in Garbage, NEW N, N = Names(FirstSector(items), g),
           NEW j \in 1 .. Len(items), SlotIn(items, j) <= Len(FirstSector(items))
    PROVE  /\ Writes(items[j], N[SlotIn(items, j - 1)], N[SlotIn(items, j)])
           /\ SlotIn(items, j) \in 1 .. Len(FirstSector(items))
           /\ SlotIn(items, j - 1) \in Nat /\ SlotIn(items, j - 1) < SlotIn(items, j)
           /\ FirstSector(items)[SlotIn(items, j)] =
                [lfn |-> FALSE, dir |-> items[j].dir, size |-> items[j].size,
                 cluster |-> IF items[j].clusters = <<>> THEN 0 ELSE items[j].clusters[1]]
<1>1. PICK es : es = FirstSector(items)
  OBVIOUS
<1>2. PICK m \in Nat : m = Len(es)
  BY <1>1, FirstSectorEntries
<1>3. /\ es \in Seq(DirEntry) /\ \A i \in 1 .. m : es[i] = Entries(items)[i]
  BY <1>1, <1>2, FirstSectorEntries
<1>4. N = Names(es, g)
  BY <1>1
<1>5. items[j] \in Item
  OBVIOUS
<1>6. PICK s \in Nat : s = SlotIn(items, j - 1)
  BY ItemInDirectory
<1>7. PICK l \in Nat : l = Len(ItemEntries(items[j])) /\ l >= 1
  BY SlotsGrow
<1>8. /\ SlotIn(items, j) = s + l
      /\ \A k \in 1 .. l : Entries(items)[s + k] = ItemEntries(items[j])[k]
  BY <1>6, <1>7, ItemInDirectory
<1>9. s + l <= m
  BY <1>1, <1>2, <1>8
<1>10. \A k \in 1 .. l : es[s + k] = ItemEntries(items[j])[k]
  <2> TAKE k \in 1 .. l
  <2>1. s + k \in 1 .. m
    BY <1>9
  <2> QED
    BY <1>3, <1>8, <2>1
<1>11. Writes(items[j], N[s], N[s + l])
  <2>1. PICK item \in Item : item = items[j]
    BY <1>5
  <2>2. /\ s + Len(ItemEntries(item)) <= Len(es) /\ Len(ItemEntries(item)) <= DIR_SLOTS
        /\ \A k \in 1 .. Len(ItemEntries(item)) : es[s + k] = ItemEntries(item)[k]
    <3>1. m <= DIR_SLOTS
      BY <1>1, <1>2, FirstSectorEntries
    <3> QED
      BY <1>2, <1>7, <1>9, <1>10, <2>1, <3>1, Numbers
  <2>3. Writes(item, N[s], N[s + Len(ItemEntries(item))])
    BY <1>3, <1>4, <2>2, ItemWrites, GarbageIsBuffer
  <2> QED
    BY <1>7, <2>1, <2>3
<1>12. es[s + l] = [lfn |-> FALSE, dir |-> items[j].dir, size |-> items[j].size,
                    cluster |-> IF items[j].clusters = <<>> THEN 0 ELSE items[j].clusters[1]]
  <2>1. ItemEntries(items[j])[l] =
          [lfn |-> FALSE, dir |-> items[j].dir, size |-> items[j].size,
           cluster |-> IF items[j].clusters = <<>> THEN 0 ELSE items[j].clusters[1]]
    BY <1>5, <1>7, ItemEntriesAt
  <2>2. l \in 1 .. l
    BY <1>7
  <2> QED
    BY <1>10, <2>1, <2>2
<1>13. s + l \in 1 .. m /\ s < s + l
  BY <1>7, <1>9
<1> QED
  BY <1>1, <1>2, <1>6, <1>8, <1>11, <1>12, <1>13
(* What the stack held is there as far as no long name reaches. *)
LEMMA Untouched ==
    ASSUME NEW items \in Seq(Item), NEW g \in Garbage, NEW N, N = Names(FirstSector(items), g),
           NEW a \in Nat
    PROVE  \A j \in 0 .. Len(items) :
             /\ SlotIn(items, j) <= Len(FirstSector(items))
             /\ \A h \in 1 .. j : items[h].long => Len(Whole(items[h].name)) <= a
             => \A p \in Places : p >= a => N[SlotIn(items, j)][p] = g[p]
<1>1. PICK m \in Nat : m = Len(FirstSector(items))
  BY FirstSectorEntries
<1>2. PICK n \in Nat : n = Len(items)
  OBVIOUS
<1> DEFINE Short(j) == \A h \in 1 .. j : items[h].long => Len(Whole(items[h].name)) <= a
           Old(j) == SlotIn(items, j) <= m /\ Short(j) =>
                       \A p \in Places : p >= a => N[SlotIn(items, j)][p] = g[p]
<1>3. Old(0)
  <2>1. SlotIn(items, 0) = 0
    BY SlotsGrow
  <2>2. FirstSector(items) \in Seq(DirEntry) /\ 0 \in 0 .. Len(FirstSector(items))
    BY FirstSectorEntries
  <2>3. N[0] = NameStep(N, FirstSector(items), g, 0)
    BY <2>2, NamesSteps, GarbageIsBuffer
  <2>4. N[0] = g
    BY <2>3 DEF NameStep
  <2> QED
    BY <2>1, <2>4
<1>4. ASSUME NEW j \in 1 .. n, Old(j - 1) PROVE Old(j)
  <2> SUFFICES ASSUME SlotIn(items, j) <= m, Short(j), NEW p \in Places, p >= a
               PROVE  N[SlotIn(items, j)][p] = g[p]
    OBVIOUS
  <2>1. /\ Writes(items[j], N[SlotIn(items, j - 1)], N[SlotIn(items, j)])
        /\ SlotIn(items, j - 1) \in Nat /\ SlotIn(items, j - 1) < SlotIn(items, j)
    BY <1>1, <1>2, NamesOfItems
  <2>2. items[j].name \in Seq(Characters)
    <3>1. items[j] \in Item
      BY <1>2
    <3> QED
      BY <3>1 DEF Item
  <2>3. Len(Whole(items[j].name)) \in Nat /\ p \in Int
    BY <2>2, WholeName, Numbers DEF Places
  <2>4. ~(items[j].long /\ p < Len(Whole(items[j].name)))
    <3>1. j \in 1 .. j
      OBVIOUS
    <3> QED
      BY <2>3, <3>1
  <2>5. N[SlotIn(items, j)][p] = N[SlotIn(items, j - 1)][p]
    BY <2>1, <2>4 DEF Writes
  <2>6. SlotIn(items, j) \in Nat
    BY <1>2, ItemInDirectory
  <2>7. SlotIn(items, j - 1) <= m
    BY <1>1, <2>1, <2>6
  <2>8. Short(j - 1)
    OBVIOUS
  <2> QED
    BY <1>4, <2>5, <2>7, <2>8
<1>5. PICK T : T = {j \in 0 .. n : ~Old(j)}
  OBVIOUS
<1> HIDE DEF Old
<1>6. T = {}
  <2> SUFFICES ASSUME T # {} PROVE FALSE
    OBVIOUS
  <2>1. T \subseteq Nat
    BY <1>5
  <2>2. PICK x \in T : \A y \in T : x <= y
    BY <2>1, LeastNumber
  <2>3. x \in 0 .. n /\ ~Old(x)
    BY <1>5
  <2>4. x # 0
    BY <1>3, <2>3
  <2>5. x \in 1 .. n /\ x - 1 \in 0 .. n /\ ~(x <= x - 1)
    BY <2>3, <2>4
  <2>6. Old(x - 1)
    BY <1>5, <2>2, <2>5
  <2> QED
    BY <1>4, <2>3, <2>5, <2>6
<1>7. \A j \in 0 .. n : Old(j)
  BY <1>5, <1>6
<1> QED
  BY <1>1, <1>2, <1>7 DEF Old

(* Two strings of characters are equal up to their ends. *)
LEMMA EqualStrings ==
    ASSUME NEW t \in Name, NEW u \in Name, NEW K,
           \A p \in Places : p < Len(u) => K[p] = u[p + 1],
           Equal(K, t), Len(t) <= Len(u)
    PROVE  t = u
<1>1. PICK a \in Nat : a = Len(t) /\ a >= 1 /\ a < NAME_SIZE
  BY Numbers DEF Name
<1>2. PICK b \in Nat : b = Len(u) /\ b < NAME_SIZE
  BY Numbers DEF Name
<1>3. t \in Seq(Characters) /\ u \in Seq(Characters)
  BY DEF Name
<1>4. a \in Places /\ \A k \in 1 .. a : k - 1 \in Places /\ k - 1 < b
  BY <1>1, <1>2, Numbers DEF Places
<1>5. (\A k \in 1 .. a : K[k - 1] = t[k]) /\ K[a] = NUL
  BY <1>1 DEF Equal
<1>6. a = b
  <2> SUFFICES ASSUME a < b PROVE FALSE
    BY <1>1, <1>2
  <2>1. K[a] = u[a + 1] /\ a + 1 \in 1 .. Len(u)
    BY <1>1, <1>2, <1>4
  <2>2. u[a + 1] \in Characters
    BY <1>3, <2>1
  <2> QED
    BY <1>5, <2>1, <2>2, Numbers
<1>7. \A k \in 1 .. a : t[k] = u[k]
  <2> TAKE k \in 1 .. a
  <2>1. K[k - 1] = u[k - 1 + 1]
    BY <1>2, <1>4
  <2>2. k - 1 + 1 = k
    OBVIOUS
  <2> QED
    BY <1>5, <2>1, <2>2
<1> QED
  BY <1>1, <1>2, <1>3, <1>6, <1>7, SeqEqual

(* The first entry that matches a name is the own entry of an item of that *)
(* name, if no other name may be taken for it.                             *)
LEMMA FoundNamed ==
    ASSUME NEW items \in Seq(Item), \A j \in 1 .. Len(items) : items[j].name \in Name,
           NEW g \in Garbage, NEW t \in Name, FoundIn(FirstSector(items), t, g) # {},
           \A j \in 1 .. Len(items) : ~MisreadIn(items, j, t)
    PROVE  \E j \in 1 .. Len(items) :
             /\ FirstOf(FoundIn(FirstSector(items), t, g)) = SlotIn(items, j)
             /\ SlotIn(items, j) <= Len(FirstSector(items)) /\ items[j].name = t
<1>1. PICK es : es = FirstSector(items)
  OBVIOUS
<1>2. PICK m \in Nat : m = Len(es)
  BY <1>1, FirstSectorEntries
<1>3. es \in Seq(DirEntry) /\ m <= Len(Entries(items)) /\ \A i \in 1 .. m : es[i] = Entries(items)[i]
  BY <1>1, <1>2, FirstSectorEntries
<1>4. PICK N : N = Names(es, g)
  OBVIOUS
<1>5. PICK S : S = FoundIn(es, t, g)
  OBVIOUS
<1>6. S = {i \in 1 .. m : ~es[i].lfn /\ Equal(N[i], t)} /\ S # {} /\ S \subseteq Nat
  <2>1. DOMAIN es = 1 .. m
    BY <1>2, <1>3
  <2> QED
    BY <1>1, <1>4, <1>5, <2>1 DEF FoundIn
<1>7. PICK i : i = FirstOf(S)
  OBVIOUS
<1>8. i \in S /\ \A x \in S : i <= x
  <2>1. \E y \in S : \A x \in S : y <= x
    BY <1>6, LeastNumber
  <2> QED
    BY <1>7, <2>1 DEF FirstOf
<1>9. i \in 1 .. m /\ ~es[i].lfn /\ Equal(N[i], t)
  BY <1>6, <1>8
<1>10. PICK j \in 1 .. Len(items) : i = SlotIn(items, j)
  <2>1. i \in 1 .. Len(Entries(items)) /\ ~Entries(items)[i].lfn
    <3>1. Len(Entries(items)) \in Nat
      BY DirectoryHasEntries
    <3> QED
      BY <1>3, <1>9, <3>1
  <2> QED
    BY <2>1, OwnEntries
<1>11. PICK s \in Nat : s = SlotIn(items, j - 1) /\ s < i
  <2>1. SlotIn(items, j) <= Len(FirstSector(items))
    BY <1>1, <1>2, <1>9, <1>10
  <2> QED
    BY <1>10, <2>1, NamesOfItems
<1>12. Writes(items[j], N[s], N[i])
  <2>1. SlotIn(items, j) <= Len(FirstSector(items))
    BY <1>1, <1>2, <1>9, <1>10
  <2> QED
    BY <1>1, <1>4, <1>10, <1>11, <2>1, NamesOfItems
<1>13. /\ t \in Seq(Characters) /\ Len(t) \in Nat /\ Len(t) >= 1 /\ Len(t) < NAME_SIZE
       /\ \A k \in 1 .. Len(t) : t[k] \in Characters
  BY Numbers DEF Name
<1>14. PICK u \in Name : u = items[j].name
  OBVIOUS
<1>15. u \in Seq(Characters) /\ Len(u) \in Nat /\ Len(u) >= 1 /\ Len(u) < NAME_SIZE
  BY Numbers DEF Name
<1>16. ASSUME ~items[j].long, u # t PROVE FALSE
  <2>1. \A p \in Places : N[i][p] = N[s][p]
    BY <1>12, <1>16 DEF Writes
  <2>2. Len(t) \in Places /\ \A k \in 1 .. Len(t) : k - 1 \in Places
    BY <1>13, Numbers DEF Places
  <2>3. Equal(N[s], t)
    BY <1>9, <2>1, <2>2 DEF Equal
  <2>4. CASE j = 1
    <3>1. s = 0
      BY <1>11, <2>4, SlotsGrow
    <3>2. N[0] = NameStep(N, es, g, 0)
      <4>1. 0 \in 0 .. Len(es)
        BY <1>2
      <4> QED
        BY <1>3, <1>4, <4>1, NamesSteps, GarbageIsBuffer
    <3>3. Equal(g, t)
      BY <2>3, <3>1, <3>2 DEF NameStep
    <3>4. Completes(g, t, 0)
      <4>1. \A k \in 0 + 1 .. Len(t) : k \in 1 .. Len(t)
        BY <1>13
      <4> QED
        BY <3>3, <4>1 DEF Equal, Completes
    <3>5. \A h \in 1 .. j : ~items[h].long
      BY <1>16, <2>4
    <3>6. MisreadIn(items, j, t)
      BY <1>14, <1>16, <3>4, <3>5 DEF MisreadIn
    <3> QED
      BY <3>6
  <2>5. CASE j # 1
    <3>1. j - 1 \in 1 .. Len(items)
      BY <2>5
    <3>2. s <= m
      BY <1>9, <1>11
    <3>3. s \in 1 .. m /\ ~es[s].lfn
      <4>1. SlotIn(items, j - 1) <= Len(FirstSector(items))
        BY <1>1, <1>2, <1>11, <3>2
      <4>2. /\ SlotIn(items, j - 1) \in 1 .. Len(FirstSector(items))
            /\ FirstSector(items)[SlotIn(items, j - 1)] =
                 [lfn |-> FALSE, dir |-> items[j - 1].dir, size |-> items[j - 1].size,
                  cluster |-> IF items[j - 1].clusters = <<>> THEN 0 ELSE items[j - 1].clusters[1]]
        BY <3>1, <4>1, NamesOfItems
      <4> QED
        BY <1>1, <1>2, <1>11, <4>2
    <3>4. s \in S
      BY <1>6, <2>3, <3>3
    <3> QED
      BY <1>8, <1>9, <1>11, <3>4
  <2> QED
    BY <2>4, <2>5
<1>17. ASSUME items[j].long PROVE \A p \in Places : p < Len(u) => N[i][p] = u[p + 1]
  <2> SUFFICES ASSUME NEW p \in Places, p < Len(u) PROVE N[i][p] = u[p + 1]
    OBVIOUS
  <2>1. p \in Nat /\ p + 1 \in 1 .. Len(u)
    BY <1>15, Numbers DEF Places
  <2>2. Whole(u)[p + 1] = u[p + 1]
    BY <1>15, <2>1, WholeName
  <2>3. Len(Whole(u)) \in {Len(u), Len(u) + 1}
    BY <1>15, WholeName
  <2>4. p < Len(Whole(u))
    BY <1>15, <2>1, <2>3
  <2>5. N[i][p] = Whole(u)[p + 1]
    BY <1>12, <1>14, <1>17, <2>4 DEF Writes
  <2> QED
    BY <2>2, <2>5
<1>18. ASSUME items[j].long, Len(t) <= Len(u) PROVE t = u
  BY <1>9, <1>17, <1>18, EqualStrings
<1>19. ASSUME items[j].long, ~(Len(t) <= Len(u)) PROVE FALSE
  <2>1. Len(u) \in Places /\ Len(u) + 1 \in 1 .. Len(t) /\ Len(u) + 1 - 1 = Len(u)
    BY <1>13, <1>15, <1>19, Numbers DEF Places
  <2>2. N[i][Len(u)] = t[Len(u) + 1] /\ t[Len(u) + 1] \in Characters
    BY <1>9, <1>13, <2>1 DEF Equal
  <2>3. Len(u) % LFN_CHARS = 0
    <3> SUFFICES ASSUME Len(u) % LFN_CHARS # 0 PROVE FALSE
      OBVIOUS
    <3>1. Len(Whole(u)) = Len(u) + 1 /\ Whole(u)[Len(u) + 1] = NUL
      BY <1>15, WholeName
    <3>2. N[i][Len(u)] = NUL
      BY <1>12, <1>14, <1>15, <1>19, <2>1, <3>1 DEF Writes
    <3> QED
      BY <2>2, <3>2, Numbers
  <2>4. u = SubSeq(t, 1, Len(u))
    <3>1. PICK a \in Nat : a = Len(u) /\ a < Len(t)
      BY <1>13, <1>15, <1>19
    <3>2. /\ SubSeq(t, 1, a) \in Seq(Characters) /\ Len(SubSeq(t, 1, a)) = a
          /\ \A k \in 1 .. a : SubSeq(t, 1, a)[k] = t[k]
      BY <1>13, <3>1
    <3>3. \A k \in 1 .. a : t[k] = u[k]
      <4> TAKE k \in 1 .. a
      <4>1. k - 1 \in Places /\ k - 1 < Len(u) /\ k - 1 + 1 = k /\ k \in 1 .. Len(t)
        BY <1>13, <1>15, <3>1, Numbers DEF Places
      <4>2. N[i][k - 1] = u[k]
        BY <1>17, <1>19, <4>1
      <4>3. N[i][k - 1] = t[k]
        BY <1>9, <4>1 DEF Equal
      <4> QED
        BY <4>2, <4>3
    <3> QED
      BY <1>15, <3>1, <3>2, <3>3
  <2>5. /\ u # t /\ items[j].long /\ ~Terminated(items[j]) /\ Len(u) < Len(t)
    BY <1>13, <1>14, <1>15, <1>19, <2>3 DEF Terminated
  <2>6. CASE \E h \in 1 .. j - 1 : items[h].long /\ Len(items[h].name) > Len(u)
    <3>1. MisreadIn(items, j, t)
      BY <1>14, <2>4, <2>5, <2>6 DEF MisreadIn
    <3> QED
      BY <3>1
  <2>7. CASE \A h \in 1 .. j - 1 : ~(items[h].long /\ Len(items[h].name) > Len(u))
    <3>1. ASSUME NEW h \in 1 .. j - 1, items[h].long PROVE Len(Whole(items[h].name)) <= Len(u)
      <4>1. PICK w \in Seq(Characters) : w = items[h].name /\ Len(w) \in Nat
        <5>1. h \in 1 .. Len(items)
          OBVIOUS
        <5>2. items[h] \in Item
          BY <5>1
        <5>3. items[h].name \in Seq(Characters)
          BY <5>2 DEF Item
        <5>4. Len(items[h].name) \in Nat
          BY <5>3
        <5> QED
          BY <5>3, <5>4
      <4>2. Len(w) <= Len(u)
        BY <1>15, <2>7, <3>1, <4>1
      <4>3. CASE Len(w) = Len(u)
        <5>1. Whole(w) = w
          BY <2>3, <4>3 DEF Whole
        <5> QED
          BY <1>15, <4>1, <4>3, <5>1
      <4>4. CASE Len(w) < Len(u)
        <5>1. Len(Whole(w)) \in {Len(w), Len(w) + 1}
          BY <4>1, WholeName
        <5> QED
          BY <1>15, <4>1, <4>4, <5>1
      <4> QED
        BY <1>15, <4>1, <4>2, <4>3, <4>4
    <3>2. \A p \in Places : p >= Len(u) => N[s][p] = g[p]
      <4>1. j - 1 \in 0 .. Len(items) /\ SlotIn(items, j - 1) <= Len(FirstSector(items))
        BY <1>1, <1>2, <1>9, <1>11
      <4> QED
        BY <1>1, <1>4, <1>11, <1>15, <3>1, <4>1, Untouched
    <3>3. \A p \in Places : p >= Len(u) => N[i][p] = g[p]
      <4> SUFFICES ASSUME NEW p \in Places, p >= Len(u) PROVE N[i][p] = g[p]
        OBVIOUS
      <4>1. Whole(u) = u /\ p \in Int
        BY <2>3, Numbers DEF Whole, Places
      <4>2. N[i][p] = N[s][p]
        BY <1>12, <1>14, <1>15, <4>1 DEF Writes
      <4> QED
        BY <3>2, <4>2
    <3>4. Completes(g, t, Len(u))
      <4>1. \A k \in Len(u) + 1 .. Len(t) : /\ k - 1 \in Places /\ k - 1 >= Len(u)
                                            /\ k \in 1 .. Len(t)
        BY <1>13, <1>15, Numbers DEF Places
      <4>2. Len(t) \in Places /\ Len(t) >= Len(u)
        BY <1>13, <1>15, <1>19, Numbers DEF Places
      <4>3. \A k \in Len(u) + 1 .. Len(t) : g[k - 1] = t[k]
        BY <1>9, <3>3, <4>1 DEF Equal
      <4>4. g[Len(t)] = NUL
        BY <1>9, <3>3, <4>2 DEF Equal
      <4> QED
        BY <4>3, <4>4 DEF Completes
    <3>5. MisreadIn(items, j, t)
      BY <1>14, <2>4, <2>5, <3>4 DEF MisreadIn
    <3> QED
      BY <3>5
  <2> QED
    BY <2>6, <2>7
<1>20. t = u
  BY <1>16, <1>18, <1>19
<1> QED
  BY <1>1, <1>2, <1>5, <1>7, <1>9, <1>10, <1>14, <1>20

(* An item whose name is terminated matches its name. *)
LEMMA NameFound ==
    ASSUME NEW items \in Seq(Item), NEW j \in 1 .. Len(items), items[j].name \in Name,
           Terminated(items[j]), SlotIn(items, j) <= DIR_SLOTS, NEW g \in Garbage
    PROVE  SlotIn(items, j) \in FoundIn(FirstSector(items), items[j].name, g)
<1>1. PICK es : es = FirstSector(items)
  OBVIOUS
<1>2. PICK m \in Nat : m = Len(es) /\ es \in Seq(DirEntry) /\ m \in {Len(Entries(items)), DIR_SLOTS}
  BY <1>1, FirstSectorEntries
<1>3. PICK i \in Nat : i = SlotIn(items, j) /\ i <= m
  BY <1>2, ItemInDirectory
<1>4. PICK N : N = Names(es, g)
  OBVIOUS
<1>5. PICK M : M = N[SlotIn(items, j - 1)]
  OBVIOUS
<1>6. Writes(items[j], M, N[i]) /\ i \in 1 .. m /\ ~es[i].lfn
  <2>1. SlotIn(items, j) <= Len(FirstSector(items))
    BY <1>1, <1>2, <1>3
  <2>2. /\ Writes(items[j], M, N[i]) /\ i \in 1 .. m
        /\ es[i] = [lfn |-> FALSE, dir |-> items[j].dir, size |-> items[j].size,
                    cluster |-> IF items[j].clusters = <<>> THEN 0 ELSE items[j].clusters[1]]
    BY <1>1, <1>2, <1>3, <1>4, <1>5, <2>1, NamesOfItems
  <2> QED
    BY <2>2
<1>7. PICK u \in Name : u = items[j].name
  OBVIOUS
<1>8. u \in Seq(Characters) /\ Len(u) \in Nat /\ Len(u) < NAME_SIZE
  BY Numbers DEF Name
<1>9. items[j].long /\ Len(u) % LFN_CHARS # 0
  BY <1>7 DEF Terminated
<1>10. /\ Len(Whole(u)) = Len(u) + 1 /\ Whole(u)[Len(u) + 1] = NUL
       /\ \A k \in 1 .. Len(u) : Whole(u)[k] = u[k]
  BY <1>8, <1>9, WholeName
<1>11. \A p \in Places : p < Len(u) + 1 => N[i][p] = Whole(u)[p + 1]
  BY <1>6, <1>7, <1>9, <1>10 DEF Writes
<1>12. \A k \in 1 .. Len(u) : N[i][k - 1] = u[k]
  <2> TAKE k \in 1 .. Len(u)
  <2>1. k - 1 \in Places /\ k - 1 < Len(u) + 1 /\ k - 1 + 1 = k
    BY <1>8, Numbers DEF Places
  <2> QED
    BY <1>10, <1>11, <2>1
<1>13. N[i][Len(u)] = NUL
  <2>1. Len(u) \in Places /\ Len(u) < Len(u) + 1
    BY <1>8, Numbers DEF Places
  <2> QED
    BY <1>10, <1>11, <2>1
<1>14. Equal(N[i], u)
  BY <1>12, <1>13 DEF Equal
<1>15. i \in DOMAIN es
  BY <1>2, <1>6
<1> QED
  BY <1>1, <1>3, <1>4, <1>6, <1>7, <1>14, <1>15 DEF FoundIn

-----------------------------------------------------------------------------
(* What locate_file_dirent reads.                                          *)

(* No two clusters begin at the same sector. *)
LEMMA SectorsApart ==
    ASSUME NEW v \in Volumes, NEW d \in DOMAIN v.dirs, NEW e \in DOMAIN v.dirs,
           SectorOfCluster(v, d) = SectorOfCluster(v, e)
    PROVE  d = e
<1>1. PICK q \in Int : q = v.per_cluster /\ q >= 1
  BY VolumeFacts
<1>2. d \in Int /\ e \in Int /\ v.hidden \in Int /\ v.reserved \in Int /\ v.fats \in Int
  BY VolumeFacts
<1>3. PICK x \in Int, y \in Int : x = (d - 2) * q /\ y = (e - 2) * q
  BY <1>1, <1>2
<1>4. x = y
  BY <1>1, <1>2, <1>3 DEF SectorOfCluster
<1>5. PICK z \in Int : z = d - e /\ z * q = 0
  BY <1>1, <1>2, <1>3, <1>4
<1>6. ASSUME NEW w \in Int, w >= 1 PROVE w * q >= 1
  BY <1>1, <1>6
<1>7. ASSUME NEW w \in Int, w <= -1 PROVE w * q <= -1
  BY <1>1, <1>7
<1>8. z = 0
  BY <1>5, <1>6, <1>7
<1> QED
  BY <1>2, <1>5, <1>8

(* A directory on the low sectors is read from its first sector. *)
LEMMA DirectoryAt ==
    ASSUME NEW v \in Volumes, NEW d \in DOMAIN v.dirs, SectorOfCluster(v, d) < LBA_LOW,
           v.dirs[d] # <<>>, SectorAt(v, d) \in 0 .. LastSector(v)
    PROVE  EntriesIn(DiskOf[v][SectorAt(v, d)]) = {FirstSector(v.dirs[d])}
<1>1. PICK s \in Nat : s = SectorOfCluster(v, d) /\ s >= v.hidden + v.reserved + v.fats
  BY DirectoriesBehind
<1>2. /\ v.hidden \in Nat /\ v.hidden >= 1 /\ v.reserved \in Nat /\ v.reserved >= 1
      /\ v.fats \in Nat /\ v.fats >= 1 /\ v.per_cluster \in Nat /\ d \in Nat
  BY VolumeFacts
<1>3. SectorAt(v, d) = s
  <2>1. PICK k \in Int : k = (d - 2) * v.per_cluster
    BY <1>2
  <2>2. k + v.reserved + v.fats + v.hidden = s
    <3>1. s = v.hidden + v.reserved + v.fats + k
      BY <1>1, <2>1 DEF SectorOfCluster
    <3> QED
      BY <1>2, <3>1
  <2>3. SectorAt(v, d) = s % LBA_LOW
    BY <2>1, <2>2 DEF SectorAt
  <2>4. LBA_LOW \in Int
    BY DiskConstants
  <2> QED
    BY <1>1, <2>3, <2>4, SmallRemainder
<1>4. PICK D : D = {e \in DOMAIN v.dirs : SectorOfCluster(v, e) = s}
  OBVIOUS
<1>5. D = {d}
  BY <1>1, <1>4, SectorsApart
<1>6. (CHOOSE e \in D : TRUE) = d /\ D # {}
  BY <1>5
<1>7. s # 0 /\ s # v.hidden /\ s \notin v.hidden + v.reserved .. v.hidden + v.reserved + v.fats - 1
  BY <1>1, <1>2
<1>8. PICK first : first = FirstSector(v.dirs[d])
  OBVIOUS
<1>9. FirstSlots(Entries(v.dirs[d])) = first
  <2>1. v.dirs[d] \in Seq(Item)
    BY VolumeFacts
  <2>2. 1 \in 1 .. Len(v.dirs[d]) /\ 1 - 1 = 0
    BY <2>1
  <2>3. SlotIn(v.dirs[d], 1) >= 1 /\ SlotIn(v.dirs[d], 1) <= Len(Entries(v.dirs[d]))
    <3>1. PICK l \in Nat : l >= 1 /\ SlotIn(v.dirs[d], 1) = SlotIn(v.dirs[d], 1 - 1) + l
      BY <2>1, <2>2, SlotsGrow
    <3>2. SlotIn(v.dirs[d], 0) = 0
      BY <2>1, SlotsGrow
    <3> QED
      BY <2>1, <2>2, <3>1, <3>2, ItemInDirectory
  <2>4. Entries(v.dirs[d]) # <<>>
    <3>1. Len(Entries(v.dirs[d])) \in Nat /\ SlotIn(v.dirs[d], 1) \in Nat
      BY <2>1, <2>2, DirectoryHasEntries, ItemInDirectory
    <3>2. Len(Entries(v.dirs[d])) # 0
      BY <2>3, <3>1
    <3> QED
      BY <3>2
  <2> QED
    BY <1>8, <2>4 DEF FirstSlots, FirstSector
<1>10. DiskSector(v, s) = [kind |-> "dir", entries |-> first]
  BY <1>4, <1>6, <1>7, <1>9 DEF DiskSector
<1>11. DiskOf[v][s] = DiskSector(v, s)
  BY <1>3 DEF DiskOf
<1>12. EntriesIn(DiskOf[v][s]) = {first}
  BY <1>10, <1>11 DEF EntriesIn
<1> QED
  BY <1>3, <1>8, <1>12

(* Looking for a name in a directory that has nothing to mistake for it. *)
LEMMA LooksUp ==
    ASSUME NEW content, GoodRead(content), pc = "dir", NEW es \in EntriesIn(content),
           NEW g \in Garbage, cluster \in DOMAIN volume.dirs, volume.dirs[cluster] # <<>>,
           SectorOfCluster(volume, cluster) < LBA_LOW, rest[1] \in Name,
           \A i \in DOMAIN volume.dirs[cluster] : ~Misread(cluster, i, rest[1])
    PROVE  /\ \A entry : FoundEntry(es, rest[1], g, entry) =>
                \E j \in DOMAIN volume.dirs[cluster] :
                  LET item == volume.dirs[cluster][j]
                  IN  /\ item.name = rest[1] /\ entry.dir = item.dir
                      /\ item.dir => entry.cluster = item.clusters[1]
                      /\ entry.size = item.size
                      /\ item.clusters # <<>> => entry.cluster = item.clusters[1]
           /\ \A j \in DOMAIN volume.dirs[cluster] :
                /\ volume.dirs[cluster][j].name = rest[1] /\ Terminated(volume.dirs[cluster][j])
                /\ SlotOf(cluster, j) <= DIR_SLOTS
                => FoundIn(es, rest[1], g) # {}
<1>1. volume \in Volumes
  BY DEF GoodRead, FitsInv
<1>2. PICK items : items = volume.dirs[cluster]
  OBVIOUS
<1>3. items \in Seq(Item) /\ cluster \in Nat /\ DOMAIN items = 1 .. Len(items)
  BY <1>1, <1>2, VolumeFacts
<1>4. \A j \in 1 .. Len(items) : /\ items[j].name \in Name
                                 /\ items[j].dir => items[j].clusters # <<>>
  BY <1>1, <1>2, <1>3, VolumesSound
<1>5. es = FirstSector(items)
  <2>1. Addressed(Wanted) = SectorAt(volume, cluster)
    BY DirRead
  <2>2. SectorAt(volume, cluster) \in 0 .. LastSector(volume)
    BY <2>1 DEF GoodRead
  <2>3. EntriesIn(DiskOf[volume][SectorAt(volume, cluster)]) = {FirstSector(items)}
    BY <1>1, <1>2, <2>2, DirectoryAt
  <2>4. content = DiskOf[volume][SectorAt(volume, cluster)]
    BY <2>1 DEF GoodRead
  <2> QED
    BY <2>3, <2>4
<1>7. PICK t \in Name : t = rest[1]
  OBVIOUS
<1>8. PICK found : found = FoundIn(FirstSector(items), t, g)
  OBVIOUS
<1>9. \A j \in 1 .. Len(items) : ~MisreadIn(items, j, t)
  BY <1>2, <1>3, <1>7 DEF Misread, MisreadIn
<1>10. ASSUME NEW entry, FoundEntry(es, t, g, entry)
       PROVE  \E j \in 1 .. Len(items) :
                  /\ items[j].name = t /\ entry.dir = items[j].dir
                  /\ items[j].dir => entry.cluster = items[j].clusters[1]
                  /\ entry.size = items[j].size
                  /\ items[j].clusters # <<>> => entry.cluster = items[j].clusters[1]
  <2>0. found # {} /\ entry = FirstSector(items)[FirstOf(found)]
    BY <1>5, <1>8, <1>10 DEF FoundEntry
  <2>1. PICK j \in 1 .. Len(items) :
             /\ FirstOf(found) = SlotIn(items, j)
             /\ SlotIn(items, j) <= Len(FirstSector(items)) /\ items[j].name = t
    BY <1>3, <1>4, <1>8, <1>9, <2>0, FoundNamed
  <2>2. entry = [lfn |-> FALSE, dir |-> items[j].dir, size |-> items[j].size,
                 cluster |-> IF items[j].clusters = <<>> THEN 0 ELSE items[j].clusters[1]]
    BY <1>3, <2>0, <2>1, NamesOfItems
  <2>3. entry.dir = items[j].dir
    BY <2>2
  <2>4. items[j].dir => entry.cluster = items[j].clusters[1]
    BY <1>4, <2>2
  <2>5. entry.size = items[j].size /\ (items[j].clusters # <<>> => entry.cluster = items[j].clusters[1])
    BY <2>2
  <2> QED
    BY <2>1, <2>3, <2>4, <2>5
<1>11. ASSUME NEW j \in 1 .. Len(items), items[j].name = t, Terminated(items[j]),
              SlotOf(cluster, j) <= DIR_SLOTS
       PROVE  found # {}
  <2>1. SlotIn(items, j) <= DIR_SLOTS
    BY <1>2, <1>11 DEF SlotOf, SlotIn
  <2>2. SlotIn(items, j) \in FoundIn(FirstSector(items), items[j].name, g)
    BY <1>3, <1>4, <1>11, <2>1, NameFound
  <2> QED
    BY <1>8, <1>11, <2>2
<1> QED
  BY <1>2, <1>3, <1>5, <1>7, <1>8, <1>10, <1>11

-----------------------------------------------------------------------------
(* Where a path leads.                                                     *)

(* The directory that the i-th name of the path is looked for in, and the  *)
(* items of that name there.                                               *)
DirsAt(i) == IF i = 1 THEN {volume.root}
             ELSE { item.clusters[1] : item \in { item \in Resolved(i - 1) : item.dir } }
NamedIn(D, i) == { item \in Items(volume) :
                     /\ item.name = path[i]
                     /\ \E d \in D : \E j \in DOMAIN volume.dirs[d] : volume.dirs[d][j] = item }

ResolvedStep(f, i) ==
    IF i = 0 THEN {}
    ELSE NamedIn(IF i = 1 THEN {volume.root}
                 ELSE { item.clusters[1] : item \in { item \in f[i - 1] : item.dir } }, i)

LEMMA ResolvedIs ==
    ASSUME path \in Seq(Name)
    PROVE  \A i \in 1 .. Len(path) : Resolved(i) = NamedIn(DirsAt(i), i)
<1>1. PICK n \in Nat : n = Len(path)
  OBVIOUS
<1>2. PICK V : V = SUBSET Items(volume)
  OBVIOUS
<1>3. {} \in V /\ \A D, i : NamedIn(D, i) \in V
  BY <1>2 DEF NamedIn
<1>4. PICK F : F = [i \in 1 .. n |-> [R \in V |->
          NamedIn(IF i = 1 THEN {volume.root}
                  ELSE { item.clusters[1] : item \in { item \in R : item.dir } }, i)]]
  OBVIOUS
<1>5. F \in [1 .. n -> [V -> V]]
  BY <1>3, <1>4
<1>6. PICK f : Iterates(V, {}, F, n, f)
  BY <1>3, <1>5, IterateExists
<1>7. f \in [0 .. n -> V] /\ f[0] = {} /\ \A i \in 1 .. n : f[i] = F[i][f[i - 1]]
  BY <1>6 DEF Iterates
<1>8. \A i \in 0 .. n : f[i] = ResolvedStep(f, i)
  <2> TAKE i \in 0 .. n
  <2>1. CASE i = 0
    BY <1>7, <2>1 DEF ResolvedStep
  <2>2. CASE i # 0
    <3>1. i \in 1 .. n /\ i - 1 \in 0 .. n
      BY <2>2
    <3>2. f[i] = F[i][f[i - 1]] /\ f[i - 1] \in V
      BY <1>7, <3>1
    <3>3. F[i][f[i - 1]] = ResolvedStep(f, i)
      BY <1>4, <2>2, <3>1, <3>2 DEF ResolvedStep
    <3> QED
      BY <3>2, <3>3
  <2> QED
    BY <2>1, <2>2
<1>9. f = [i \in 0 .. n |-> ResolvedStep(f, i)]
  BY <1>7, <1>8
<1>10. PICK h : h = (CHOOSE s : s = [i \in 0 .. n |-> ResolvedStep(s, i)])
  OBVIOUS
<1>11. h = [i \in 0 .. n |-> ResolvedStep(h, i)]
  BY <1>9, <1>10
<1>12. ResolvedUpTo = h
  BY <1>1, <1>10 DEF ResolvedUpTo, ResolvedStep, NamedIn
<1>13. ASSUME NEW i \in 1 .. n PROVE Resolved(i) = NamedIn(DirsAt(i), i)
  <2>1. i \in 0 .. n /\ i # 0
    OBVIOUS
  <2>2. Resolved(i) = ResolvedStep(h, i)
    BY <1>11, <1>12, <2>1 DEF Resolved
  <2>3. DirsAt(i) = IF i = 1 THEN {volume.root}
                    ELSE { item.clusters[1] : item \in { item \in h[i - 1] : item.dir } }
    BY <1>12 DEF DirsAt, Resolved
  <2> QED
    BY <2>1, <2>2, <2>3 DEF ResolvedStep
<1> QED
  BY <1>1, <1>13

(* The items that the path resolves to are in the directories it reaches. *)
LEMMA ResolvedMember ==
    ASSUME volume \in Volumes, path \in Seq(Name), NEW i \in 1 .. Len(path),
           DirsAt(i) \subseteq DOMAIN volume.dirs, NEW x
    PROVE  x \in Resolved(i) <=>
             /\ \E d \in DirsAt(i) : \E j \in DOMAIN volume.dirs[d] : volume.dirs[d][j] = x
             /\ x.name = path[i]
<1>1. Resolved(i) = NamedIn(DirsAt(i), i)
  BY ResolvedIs
<1>2. \A d \in DirsAt(i) : \A j \in DOMAIN volume.dirs[d] : volume.dirs[d][j] \in Items(volume)
  BY DEF Items, Range
<1> QED
  BY <1>1, <1>2 DEF NamedIn

(* They are directories of the volume, one at most. *)
LEMMA OneDirectory ==
    ASSUME volume \in Volumes, path \in Seq(Name)
    PROVE  /\ \A i \in 1 .. Len(path) + 1 : /\ DirsAt(i) \subseteq DOMAIN volume.dirs
                                            /\ \A x \in DirsAt(i), y \in DirsAt(i) : x = y
           /\ \A i \in 1 .. Len(path) : \A x \in Resolved(i), y \in Resolved(i) : x = y
<1>1. PICK n \in Nat : n = Len(path)
  OBVIOUS
<1> DEFINE One(i) == /\ DirsAt(i) \subseteq DOMAIN volume.dirs
                     /\ \A x \in DirsAt(i), y \in DirsAt(i) : x = y
<1>2. One(1)
  <2>1. volume.root \in DOMAIN volume.dirs
    BY FileSystemConstants
  <2> QED
    BY <2>1 DEF DirsAt
<1>3. ASSUME NEW i \in 1 .. n, One(i), NEW x \in Resolved(i), NEW y \in Resolved(i) PROVE x = y
  <2>1. PICK d \in DirsAt(i) : \E j \in DOMAIN volume.dirs[d] : volume.dirs[d][j] = x
    BY <1>1, <1>3, ResolvedMember
  <2>2. PICK e \in DirsAt(i) : \E k \in DOMAIN volume.dirs[e] : volume.dirs[e][k] = y
    BY <1>1, <1>3, ResolvedMember
  <2>3. PICK j \in DOMAIN volume.dirs[d] : volume.dirs[d][j] = x
    BY <2>1
  <2>4. d = e /\ d \in DOMAIN volume.dirs
    BY <1>3
  <2>5. PICK k \in DOMAIN volume.dirs[d] : volume.dirs[d][k] = y
    BY <2>2, <2>4
  <2>6. x.name = path[i] /\ y.name = path[i]
    BY <1>1, <1>3, ResolvedMember
  <2>7. j = k
    BY <2>3, <2>4, <2>5, <2>6, VolumesSound
  <2> QED
    BY <2>3, <2>5, <2>7
<1>4. ASSUME NEW i \in 1 .. n, One(i) PROVE One(i + 1)
  <2>1. DirsAt(i + 1) = { item.clusters[1] : item \in { item \in Resolved(i) : item.dir } }
    <3>1. i + 1 # 1 /\ i + 1 - 1 = i
      OBVIOUS
    <3> QED
      BY <3>1 DEF DirsAt
  <2>2. \A x \in DirsAt(i + 1), y \in DirsAt(i + 1) : x = y
    BY <1>3, <1>4, <2>1
  <2>3. ASSUME NEW x \in Resolved(i), x.dir PROVE x.clusters[1] \in DOMAIN volume.dirs
    <3>1. PICK d \in DirsAt(i) : \E j \in DOMAIN volume.dirs[d] : volume.dirs[d][j] = x
      BY <1>1, <1>4, ResolvedMember
    <3>2. d \in DOMAIN volume.dirs
      BY <1>4
    <3> QED
      BY <2>3, <3>1, <3>2, VolumesSound
  <2>4. DirsAt(i + 1) \subseteq DOMAIN volume.dirs
    BY <2>1, <2>3
  <2> QED
    BY <2>2, <2>4
<1>5. PICK T : T = {i \in 1 .. n + 1 : ~One(i)}
  OBVIOUS
<1> HIDE DEF One
<1>6. T = {}
  <2> SUFFICES ASSUME T # {} PROVE FALSE
    OBVIOUS
  <2>1. T \subseteq Nat
    BY <1>5
  <2>2. PICK x \in T : \A y \in T : x <= y
    BY <2>1, LeastNumber
  <2>3. x \in 1 .. n + 1 /\ ~One(x)
    BY <1>5
  <2>4. x # 1
    BY <1>2, <2>3
  <2>5. x - 1 \in 1 .. n /\ x - 1 \in 1 .. n + 1 /\ ~(x <= x - 1) /\ x - 1 + 1 = x
    BY <2>3, <2>4
  <2>6. One(x - 1)
    BY <1>5, <2>2, <2>5
  <2>7. One(x - 1 + 1)
    BY <1>4, <2>5, <2>6
  <2> QED
    BY <2>3, <2>5, <2>7
<1>7. \A i \in 1 .. n + 1 : One(i)
  BY <1>5, <1>6
<1>8. \A i \in 1 .. n : \A x \in Resolved(i), y \in Resolved(i) : x = y
  <2>1. \A i \in 1 .. n : i \in 1 .. n + 1
    OBVIOUS
  <2> QED
    BY <1>3, <1>7, <2>1
<1> QED
  BY <1>1, <1>7, <1>8 DEF One

(* What leads somewhere leads there step by step. *)
LEMMA ResolvedBefore ==
    ASSUME volume \in Volumes, path \in Seq(Name), NEW m \in 1 .. Len(path), Resolved(m) # {},
           NEW k \in 1 .. m
    PROVE  Resolved(k) # {}
<1>1. PICK n \in Nat : n = Len(path)
  OBVIOUS
<1>2. ASSUME NEW i \in 1 .. n, i + 1 <= n, Resolved(i + 1) # {} PROVE Resolved(i) # {}
  <2>1. i + 1 \in 1 .. Len(path) /\ i + 1 \in 1 .. Len(path) + 1 /\ i + 1 # 1 /\ i + 1 - 1 = i
    BY <1>1, <1>2
  <2>2. DirsAt(i + 1) # {}
    BY <1>2, <2>1, ResolvedMember, OneDirectory
  <2>3. DirsAt(i + 1) = { item.clusters[1] : item \in { item \in Resolved(i) : item.dir } }
    BY <2>1 DEF DirsAt
  <2> QED
    BY <2>2, <2>3
<1>3. PICK T : T = {i \in k .. m : Resolved(i) # {}}
  OBVIOUS
<1>4. m \in T /\ T \subseteq Nat
  BY <1>3
<1>5. PICK x \in T : \A y \in T : x <= y
  BY <1>4, LeastNumber
<1>6. x \in k .. m /\ Resolved(x) # {}
  BY <1>3
<1>7. CASE x = k
  BY <1>6, <1>7
<1>8. CASE x # k
  <2>1. x - 1 \in k .. m /\ x - 1 \in 1 .. n /\ x - 1 + 1 = x /\ x <= n /\ ~(x <= x - 1)
    BY <1>1, <1>6, <1>8
  <2>2. Resolved(x - 1) # {}
    BY <1>2, <1>6, <2>1
  <2>3. x - 1 \in T
    BY <1>3, <2>1, <2>2
  <2> QED
    BY <1>5, <2>1, <2>3
<1> QED
  BY <1>7, <1>8

(* The item found in a directory that the path reaches. *)
LEMMA FollowsItem ==
    ASSUME volume \in Volumes, path \in Seq(Name), NEW n \in 1 .. Len(path), NEW d \in DirsAt(n),
           NEW j \in DOMAIN volume.dirs[d], volume.dirs[d][j].name = path[n]
    PROVE  /\ volume.dirs[d][j] \in Resolved(n)
           /\ volume.dirs[d][j].dir => volume.dirs[d][j].clusters[1] \in DirsAt(n + 1)
           /\ n \in FilesOn <=> ~volume.dirs[d][j].dir
<1>1. PICK item : item = volume.dirs[d][j]
  OBVIOUS
<1>2. n \in 1 .. Len(path) + 1 /\ n + 1 # 1 /\ n + 1 - 1 = n /\ n \in DOMAIN path
  OBVIOUS
<1>3. item \in Resolved(n)
  BY <1>1, <1>2, OneDirectory, ResolvedMember
<1>4. \A x \in Resolved(n) : x = item
  BY <1>3, OneDirectory
<1>5. DirsAt(n + 1) = { x.clusters[1] : x \in { x \in Resolved(n) : x.dir } }
  BY <1>2 DEF DirsAt
<1>6. item.dir => item.clusters[1] \in DirsAt(n + 1)
  BY <1>3, <1>5
<1>7. n \in FilesOn <=> ~item.dir
  BY <1>2, <1>3, <1>4 DEF FilesOn
<1> QED
  BY <1>1, <1>3, <1>6, <1>7

-----------------------------------------------------------------------------
(* The invariant behind FoundIfThere.                                      *)

(* The lookup is at the n-th name of the path, behind directories only. *)
OnPath == \E n \in 1 .. Len(path) :
            /\ rest = SubSeq(path, n, Len(path)) /\ cluster \in DirsAt(n)
            /\ \A k \in 1 .. n - 1 : k \notin FilesOn

Looking == call # "load" /\ pc \in {"mbr", "pbr", "dir"}

WalkInv ==
    errors = 0 =>
      /\ FilesOn # {} /\ Findable => pc # "panic"
      /\ FilesOn # {} /\ Unmistaken => (Looking => OnPath)
      /\ Plain /\ FilesOn = {} /\ Resolved(Len(path)) = {} =>
           call # "load" /\ (Looking => OnPath)

(* What is compared with stays as the volume and the path do. *)
ResolvedOf(v, q) ==
    LET at[i \in 0 .. Len(q)] ==
          IF i = 0 THEN {}
          ELSE LET dirs == IF i = 1 THEN {v.root}
                           ELSE { item.clusters[1] : item \in
                                    { item \in at[i - 1] : item.dir } }
               IN  { item \in Items(v) :
                       /\ item.name = q[i]
                       /\ \E d \in dirs : \E j \in DOMAIN v.dirs[d] :
                            v.dirs[d][j] = item }
    IN  at

LEMMA ResolvedKept ==
    ASSUME volume' = volume, path' = path
    PROVE  \A n : Resolved(n)' = Resolved(n)
<1>1. ResolvedUpTo = ResolvedOf(volume, path)
  BY DEF ResolvedUpTo, ResolvedOf
<1>2. ResolvedUpTo' = ResolvedOf(volume', path')
  BY DEF ResolvedUpTo, ResolvedOf
<1>3. ResolvedUpTo' = ResolvedUpTo
  BY <1>1, <1>2
<1> QED
  BY <1>3 DEF Resolved

LEMMA WalkKept ==
    ASSUME volume' = volume, path' = path
    PROVE  /\ FilesOn' = FilesOn /\ (Unmistaken' <=> Unmistaken)
           /\ (Findable' <=> Findable) /\ (Plain' <=> Plain)
           /\ \A n : DirsAt(n)' = DirsAt(n)
           /\ Resolved(Len(path))' = Resolved(Len(path))
<1>1. \A n : Resolved(n)' = Resolved(n)
  BY ResolvedKept
<1>2. FilesOn' = FilesOn
  BY <1>1 DEF FilesOn
<1>3. \A d, i, t : Misread(d, i, t)' <=> Misread(d, i, t)
  BY DEF Misread, Terminated
<1>4. Unmistaken' <=> Unmistaken
  BY <1>1, <1>2, <1>3 DEF Unmistaken
<1>5. \A d, j : SlotOf(d, j)' = SlotOf(d, j)
  BY DEF SlotOf
<1>6. Findable' <=> Findable
  BY <1>1, <1>2, <1>4, <1>5 DEF Findable
<1>7. Plain' <=> Plain
  BY <1>3 DEF Plain
<1>8. Resolved(Len(path))' = Resolved(Len(path))
  BY <1>1
<1>9. \A n : DirsAt(n)' = DirsAt(n)
  BY <1>1 DEF DirsAt
<1> QED
  BY <1>2, <1>4, <1>6, <1>7, <1>8, <1>9

(* What is left of a path. *)
LEMMA RestOfPath ==
    ASSUME NEW q \in Seq(Name), NEW n \in 1 .. Len(q), NEW r, r = SubSeq(q, n, Len(q))
    PROVE  /\ r[1] = q[n] /\ q[n] \in Name
           /\ n = 1 => r = q
           /\ n # Len(q) => RestsOf(r) = {SubSeq(q, n + 1, Len(q))}
<1>1. PICK m \in Nat : m = Len(q) /\ n \in Nat /\ 1 <= n /\ n <= m
  OBVIOUS
<1>2. /\ r \in Seq(Name) /\ Len(r) = m - n + 1
      /\ \A i \in 1 .. m - n + 1 : r[i] = q[n + i - 1]
  BY <1>1
<1>3. r[1] = q[n] /\ q[n] \in Name
  <2>1. 1 \in 1 .. m - n + 1 /\ n + 1 - 1 = n
    BY <1>1
  <2> QED
    BY <1>1, <1>2, <2>1
<1>4. ASSUME n = 1 PROVE r = q
  <2>1. Len(r) = Len(q) /\ \A i \in 1 .. Len(r) : r[i] = q[i]
    BY <1>1, <1>2, <1>4
  <2> QED
    BY <1>2, <2>1, SeqEqual
<1>6. ASSUME n # m PROVE RestsOf(r) = {SubSeq(q, n + 1, m)}
  <2>1. Len(r) > 1 /\ Len(r) = m - n + 1
    BY <1>1, <1>2, <1>6
  <2>2. Tail(r) \in Seq(Name) /\ Len(Tail(r)) = m - n /\ \A i \in 1 .. m - n : Tail(r)[i] = r[i + 1]
    <3>1. /\ Tail(r) \in Seq(Name) /\ Len(Tail(r)) = Len(r) - 1
          /\ \A i \in 1 .. Len(r) - 1 : Tail(r)[i] = r[i + 1]
      <4>1. r \in Seq(Name) /\ r # <<>>
        <5>1. Len(r) # 0
          BY <1>1, <2>1
        <5> QED
          BY <1>2, <5>1, EmptySeq, Zenon
      <4> QED
        BY <4>1
    <3>2. Len(r) - 1 = m - n
      BY <1>1, <2>1
    <3> QED
      BY <3>1, <3>2
  <2>3. PICK u : u = SubSeq(q, n + 1, m)
    OBVIOUS
  <2>4. /\ u \in Seq(Name) /\ Len(u) = m - n
        /\ \A i \in 1 .. m - n : u[i] = q[n + i]
    <3>1. n + 1 \in Nat /\ n + 1 <= m /\ 1 <= n + 1
      BY <1>1, <1>6
    <3>2. /\ u \in Seq(Name) /\ Len(u) = m - (n + 1) + 1
          /\ \A i \in 1 .. m - (n + 1) + 1 : u[i] = q[n + 1 + i - 1]
      BY <1>1, <2>3, <3>1
    <3>3. m - (n + 1) + 1 = m - n /\ \A i \in 1 .. m - n : n + 1 + i - 1 = n + i
      BY <1>1
    <3> QED
      BY <3>2, <3>3
  <2>5. \A i \in 1 .. m - n : Tail(r)[i] = u[i]
    <3> TAKE i \in 1 .. m - n
    <3>1. i + 1 \in 1 .. m - n + 1 /\ n + (i + 1) - 1 = n + i
      BY <1>1
    <3>2. r[i + 1] = q[n + (i + 1) - 1]
      BY <1>2, <3>1
    <3> QED
      BY <2>2, <2>4, <3>1, <3>2
  <2>6. Tail(r) = u
    BY <2>2, <2>4, <2>5, SeqEqual
  <2> QED
    BY <2>1, <2>3, <2>6 DEF RestsOf
<1> QED
  BY <1>1, <1>3, <1>4, <1>6

(* A path begins in the root directory. *)
LEMMA BeginsOnPath ==
    ASSUME path \in Seq(Name) \ {<<>>}, rest = path, cluster = 2, volume.root = 2
    PROVE  OnPath
<1>1. 1 \in 1 .. Len(path)
  <2>1. Len(path) # 0 /\ Len(path) \in Nat
    BY EmptySeq
  <2> QED
    BY <2>1
<1>2. rest = SubSeq(path, 1, Len(path))
  BY <1>1, RestOfPath
<1>3. cluster \in DirsAt(1) /\ 1 .. 1 - 1 = {}
  BY DEF DirsAt
<1> QED
  BY <1>1, <1>2, <1>3 DEF OnPath

LEMMA WalkInit == Init => WalkInv
<1> SUFFICES ASSUME Init PROVE WalkInv
  OBVIOUS
<1>1. path \in Paths /\ pc = "mbr" /\ call = "stat" /\ rest = path /\ cluster = 2
  BY DEF Init
<1>2. path \in Seq(Name) \ {<<>>}
  BY <1>1, FileSystemConstants
<1>3. Unmistaken \/ Plain => OnPath
  BY <1>1, <1>2, BeginsOnPath DEF Unmistaken, Plain
<1> QED
  BY <1>1, <1>3 DEF WalkInv

(* What fat32_read begins with. *)
AtFile == /\ bytes_to_read = File.size
          /\ File.clusters # <<>> => cluster = File.clusters[1]

LEMMA FileKept ==
    ASSUME volume' = volume, path' = path
    PROVE  File' = File
<1>1. FilesOn' = FilesOn /\ \A n : Resolved(n)' = Resolved(n)
  BY WalkKept, ResolvedKept
<1> QED
  BY <1>1 DEF File

(* The first of a set of numbers is the least. *)
LEMMA FirstIsLeast ==
    ASSUME NEW S, S \subseteq Nat, NEW n \in S, \A k \in 1 .. n - 1 : k \notin S, 0 \notin S
    PROVE  n = FirstOf(S)
<1>1. \A j \in S : n <= j
  OBVIOUS
<1>2. PICK f \in S : f = FirstOf(S) /\ f <= n
  <2>1. FirstOf(S) \in S /\ \A j \in S : FirstOf(S) <= j
    BY <1>1 DEF FirstOf
  <2> QED
    BY <2>1
<1>3. n <= f /\ f \in Nat /\ n \in Nat
  BY <1>1
<1>4. f = n
  BY <1>2, <1>3
<1> QED
  BY <1>2, <1>4

(* The file's path: the lookup does not end before it is found, and it is  *)
(* the file that is found.                                                 *)
LEMMA WalkFinds ==
    ASSUME NEW content, GoodRead(content), NEW es \in EntriesIn(content), NEW g \in Garbage,
           ReadDir(es, FALSE, g), FilesOn # {}, Unmistaken, OnPath
    PROVE  /\ Findable => pc' # "panic"
           /\ Looking' => OnPath'
           /\ call' = "load" => AtFile' /\ pc' = "mbr" /\ dest' = <<>> /\ call = "find"
           /\ IF call = "stat" /\ call' # "stat" THEN st_size' = File.size ELSE st_size' = st_size
<1>1. PICK found : found = FoundIn(es, rest[1], g)
  OBVIOUS
<1>2. /\ pc = "dir" /\ dest' = dest
      /\ \/ found = {} /\ pc' = "panic" /\ call' = call /\ st_size' = st_size
         \/ pc' = "corrupt" /\ call' = call /\ st_size' = st_size
         \/ \E entry : /\ FoundEntry(es, rest[1], g, entry)
                       /\ \/ ~entry.dir /\ Located(entry)
                          \/ /\ entry.dir /\ pc' = "dir"
                             /\ rest' \in RestsOf(rest) /\ cluster' = entry.cluster
                             /\ UNCHANGED <<call, bytes_to_read, st_size>>
  BY <1>1, DirStep
<1>5. call \in {"stat", "find"} /\ dest = <<>>
  BY <1>2, DirRead DEF LookupInv
<1>6. /\ volume \in Volumes /\ path \in Seq(Name) \ {<<>>} /\ volume' = volume /\ path' = path
  BY FileSystemConstants DEF GoodRead, FitsInv
<1>7. PICK n \in 1 .. Len(path) : /\ rest = SubSeq(path, n, Len(path)) /\ cluster \in DirsAt(n)
                                  /\ \A k \in 1 .. n - 1 : k \notin FilesOn
  BY DEF OnPath
<1>8. PICK f : f = FirstOf(FilesOn)
  OBVIOUS
<1>9. f \in FilesOn /\ FilesOn \subseteq 1 .. Len(path) /\ n \in 1 .. f
  <2>1. FilesOn \subseteq 1 .. Len(path)
    BY <1>6 DEF FilesOn
  <2>2. f \in FilesOn
    <3>1. FilesOn \subseteq Nat
      BY <2>1
    <3> QED
      BY <1>8, <3>1, FirstIsMember
  <2>3. f \in 1 .. Len(path) /\ f \notin 1 .. n - 1
    BY <1>7, <2>1, <2>2
  <2>4. Len(path) \in Nat
    BY <1>6
  <2>5. n \in 1 .. f
    BY <2>3, <2>4
  <2> QED
    BY <2>1, <2>2, <2>5
<1>10. PICK item \in Resolved(n) : TRUE
  <2>1. Resolved(f) # {} /\ f \in 1 .. Len(path)
    BY <1>9 DEF FilesOn
  <2> QED
    BY <1>6, <1>9, <2>1, ResolvedBefore
<1>11. /\ \A i \in 1 .. Len(path) + 1 : /\ DirsAt(i) \subseteq DOMAIN volume.dirs
                                        /\ \A x \in DirsAt(i), y \in DirsAt(i) : x = y
  BY <1>6, OneDirectory
<1>12. n \in 1 .. Len(path) + 1 /\ cluster \in DOMAIN volume.dirs
  BY <1>7, <1>11
<1>13. PICK j \in DOMAIN volume.dirs[cluster] :
         volume.dirs[cluster][j] = item /\ item.name = path[n]
  <2>1. /\ \E d \in DirsAt(n) : \E j \in DOMAIN volume.dirs[d] : volume.dirs[d][j] = item
        /\ item.name = path[n]
    BY <1>6, <1>10, <1>11, <1>12, ResolvedMember
  <2> QED
    BY <1>7, <1>11, <1>12, <2>1
<1>14. rest[1] = path[n] /\ path[n] \in Name
  BY <1>6, <1>7, RestOfPath
<1>15. /\ volume.dirs[cluster] # <<>> /\ SectorOfCluster(volume, cluster) < LBA_LOW
       /\ \A i \in DOMAIN volume.dirs[cluster] : ~Misread(cluster, i, rest[1])
  <2>1. Range(volume.dirs[cluster]) \cap Resolved(n) # {}
    BY <1>10, <1>13 DEF Range
  <2> QED
    BY <1>8, <1>9, <1>12, <1>13, <1>14, <2>1 DEF Unmistaken
<1>16. Findable => Terminated(item) /\ SlotOf(cluster, j) <= DIR_SLOTS
  BY <1>8, <1>9, <1>10, <1>12, <1>13 DEF Findable
<1>17. /\ \A entry : FoundEntry(es, rest[1], g, entry) =>
              \E i \in DOMAIN volume.dirs[cluster] :
                LET x == volume.dirs[cluster][i]
                IN  /\ x.name = rest[1] /\ entry.dir = x.dir
                    /\ x.dir => entry.cluster = x.clusters[1]
                    /\ entry.size = x.size
                    /\ x.clusters # <<>> => entry.cluster = x.clusters[1]
       /\ \A i \in DOMAIN volume.dirs[cluster] :
            /\ volume.dirs[cluster][i].name = rest[1] /\ Terminated(volume.dirs[cluster][i])
            /\ SlotOf(cluster, i) <= DIR_SLOTS
            => found # {}
  BY <1>1, <1>2, <1>12, <1>14, <1>15, LooksUp
<1>18. Findable => found # {}
  BY <1>13, <1>14, <1>16, <1>17
<1>19. CASE \/ found = {} /\ pc' = "panic" /\ call' = call /\ st_size' = st_size
            \/ pc' = "corrupt" /\ call' = call /\ st_size' = st_size
  BY <1>5, <1>18, <1>19 DEF Looking
<1>20. SUFFICES ASSUME NEW entry, FoundEntry(es, rest[1], g, entry),
                       \/ ~entry.dir /\ Located(entry)
                       \/ /\ entry.dir /\ pc' = "dir"
                          /\ rest' \in RestsOf(rest) /\ cluster' = entry.cluster
                          /\ UNCHANGED <<call, bytes_to_read, st_size>>
               PROVE  /\ pc' # "panic" /\ (Looking' => OnPath')
                      /\ (call' = "load" => AtFile' /\ pc' = "mbr" /\ call = "find")
                      /\ IF call = "stat" /\ call' # "stat" THEN st_size' = File.size
                         ELSE st_size' = st_size
  BY <1>2, <1>5, <1>19
<1>21. PICK i \in DOMAIN volume.dirs[cluster] :
         /\ volume.dirs[cluster][i].name = path[n] /\ entry.dir = volume.dirs[cluster][i].dir
         /\ volume.dirs[cluster][i].dir => entry.cluster = volume.dirs[cluster][i].clusters[1]
         /\ entry.size = volume.dirs[cluster][i].size
         /\ volume.dirs[cluster][i].clusters # <<>> =>
              entry.cluster = volume.dirs[cluster][i].clusters[1]
  BY <1>14, <1>17, <1>20
<1>22. /\ volume.dirs[cluster][i] \in Resolved(n)
       /\ volume.dirs[cluster][i].dir => volume.dirs[cluster][i].clusters[1] \in DirsAt(n + 1)
       /\ n \in FilesOn <=> ~volume.dirs[cluster][i].dir
  BY <1>6, <1>7, <1>21, FollowsItem
<1>23. CASE ~entry.dir /\ Located(entry)
  <2>1. pc' = "mbr"
    BY <1>23 DEF Located
  <2>2. Looking' => rest' = path /\ cluster' = 2
    BY <1>23 DEF Located, Looking
  <2>3. ASSUME Looking' PROVE OnPath'
    <3>1. path' \in Seq(Name) \ {<<>>} /\ rest' = path' /\ cluster' = 2
      BY <1>6, <2>2, <2>3
    <3>2. 1 \in 1 .. Len(path) /\ 1 .. 1 - 1 = {}
      BY <1>7
    <3>3. rest' = SubSeq(path', 1, Len(path'))
      BY <1>6, <3>1, <3>2, RestOfPath
    <3>4. cluster' \in DirsAt(1)'
      BY <1>6, <3>1 DEF DirsAt, Unmistaken
    <3> QED
      BY <1>6, <3>2, <3>3, <3>4 DEF OnPath
  <2>4. File = volume.dirs[cluster][i]
    <3>1. n \in FilesOn
      BY <1>21, <1>22, <1>23
    <3>2. n = f
      <4>1. FilesOn \subseteq Nat /\ 0 \notin FilesOn
        BY <1>9
      <4> QED
        BY <1>7, <1>8, <3>1, <4>1, FirstIsLeast
    <3>3. \A x \in Resolved(n) : x = volume.dirs[cluster][i]
      BY <1>6, <1>22, OneDirectory
    <3> QED
      BY <1>8, <1>22, <3>2, <3>3 DEF File
  <2>5. ASSUME call' = "load" PROVE AtFile' /\ call = "find" /\ st_size' = st_size
    <3>1. cluster' = entry.cluster /\ bytes_to_read' = entry.size /\ call = "find"
          /\ st_size' = st_size
      BY <1>23, <2>5 DEF Located
    <3>2. File' = File
      BY <1>6, FileKept
    <3> QED
      BY <1>21, <2>4, <3>1, <3>2 DEF AtFile
  <2>6. ASSUME call = "stat", call' # "stat" PROVE st_size' = File.size
    BY <1>21, <1>23, <2>4, <2>6 DEF Located
  <2>7. call' = "load" \/ (call = "stat" /\ call' # "stat")
    BY <1>5, <1>23 DEF Located
  <2> QED
    BY <2>1, <2>3, <2>5, <2>6, <2>7
<1>24. CASE /\ entry.dir /\ pc' = "dir" /\ rest' \in RestsOf(rest) /\ cluster' = entry.cluster
            /\ UNCHANGED <<call, bytes_to_read, st_size>>
  <2>1. n \notin FilesOn /\ cluster' \in DirsAt(n + 1)
    BY <1>21, <1>22, <1>24
  <2>2. n # Len(path) /\ n + 1 \in 1 .. Len(path) /\ n + 1 - 1 = n
    <3>1. n # f
      BY <1>9, <2>1
    <3>2. f \in 1 .. Len(path) /\ n \in 1 .. f /\ Len(path) \in Nat
      BY <1>6, <1>9
    <3> QED
      BY <3>1, <3>2
  <2>3. rest' = SubSeq(path, n + 1, Len(path))
    <3>1. RestsOf(rest) = {SubSeq(path, n + 1, Len(path))}
      BY <1>6, <1>7, <2>2, RestOfPath
    <3> QED
      BY <1>24, <3>1
  <2>4. \A k \in 1 .. n + 1 - 1 : k \notin FilesOn
    <3>1. \A k \in 1 .. n : k \in 1 .. n - 1 \/ k = n
      OBVIOUS
    <3> QED
      BY <1>7, <2>1, <2>2, <3>1
  <2>5. FilesOn' = FilesOn /\ \A k : DirsAt(k)' = DirsAt(k)
    BY <1>6, WalkKept
  <2>6. OnPath'
    BY <1>6, <2>1, <2>2, <2>3, <2>4, <2>5 DEF OnPath
  <2> QED
    BY <1>5, <1>24, <2>6
<1> QED
  BY <1>20, <1>23, <1>24

(* No path of a file or a directory, on a volume with nothing to mistake:  *)
(* none is found.                                                          *)
LEMMA WalkStays ==
    ASSUME NEW content, GoodRead(content), NEW es \in EntriesIn(content), NEW g \in Garbage,
           ReadDir(es, FALSE, g), Plain, FilesOn = {}, Resolved(Len(path)) = {}, OnPath
    PROVE  call' # "load" /\ (Looking' => OnPath')
<1>1. /\ pc = "dir"
      /\ \/ pc' \in {"panic", "corrupt"} /\ call' = call
         \/ \E entry : /\ FoundEntry(es, rest[1], g, entry)
                       /\ \/ ~entry.dir
                          \/ /\ entry.dir /\ call' = call
                             /\ rest' \in RestsOf(rest) /\ cluster' = entry.cluster
  BY DirStep
<1>2. /\ volume \in Volumes /\ path \in Seq(Name) \ {<<>>} /\ volume' = volume /\ path' = path
  BY FileSystemConstants DEF GoodRead, FitsInv
<1>3. call # "load"
  BY <1>1, DirRead
<1>4. CASE pc' \in {"panic", "corrupt"} /\ call' = call
  BY <1>3, <1>4 DEF Looking
<1>5. SUFFICES ASSUME NEW entry, FoundEntry(es, rest[1], g, entry),
                      ~entry.dir \/ /\ entry.dir /\ call' = call
                                    /\ rest' \in RestsOf(rest) /\ cluster' = entry.cluster
               PROVE  call' = call /\ OnPath'
  BY <1>1, <1>3, <1>4
<1>6. PICK m \in Nat : m = Len(path) /\ m # 0
  BY <1>2, EmptySeq
<1>7. PICK n \in 1 .. m : rest = SubSeq(path, n, Len(path)) /\ cluster \in DirsAt(n)
  BY <1>6 DEF OnPath
<1>8. rest[1] = path[n] /\ path[n] \in Name
  BY <1>2, <1>6, <1>7, RestOfPath
<1>9. cluster \in DOMAIN volume.dirs
  <2>1. n \in 1 .. Len(path) + 1
    BY <1>6
  <2> QED
    BY <1>2, <1>7, <2>1, OneDirectory
<1>10. PICK i \in DOMAIN volume.dirs[cluster] :
          /\ volume.dirs[cluster][i].name = path[n] /\ entry.dir = volume.dirs[cluster][i].dir
          /\ volume.dirs[cluster][i].dir => entry.cluster = volume.dirs[cluster][i].clusters[1]
  <2>1. SectorOfCluster(volume, cluster) < LBA_LOW /\ volume.dirs[cluster] # <<>>
    BY <1>9 DEF Plain
  <2>2. \A j \in DOMAIN volume.dirs[cluster] : ~Misread(cluster, j, rest[1])
    <3>1. n \in DOMAIN path
      BY <1>2, <1>6
    <3> QED
      BY <1>8, <1>9, <3>1 DEF Plain
  <2> QED
    BY <1>1, <1>5, <1>8, <1>9, <2>1, <2>2, LooksUp
<1>11. /\ volume.dirs[cluster][i] \in Resolved(n)
       /\ volume.dirs[cluster][i].dir => volume.dirs[cluster][i].clusters[1] \in DirsAt(n + 1)
       /\ n \in FilesOn <=> ~volume.dirs[cluster][i].dir
  BY <1>2, <1>6, <1>7, <1>10, FollowsItem
<1>12. entry.dir /\ entry.cluster \in DirsAt(n + 1) /\ n # m
  BY <1>6, <1>10, <1>11
<1>13. rest' \in RestsOf(rest) /\ cluster' \in DirsAt(n + 1) /\ call' = call
  BY <1>5, <1>12
<1>14. FilesOn' = FilesOn /\ \A k : DirsAt(k)' = DirsAt(k)
  BY <1>2, WalkKept
<1>15. RestsOf(rest) = {SubSeq(path, n + 1, Len(path))}
  BY <1>2, <1>6, <1>7, <1>12, RestOfPath
<1>16. n + 1 \in 1 .. Len(path)
  BY <1>6, <1>12
<1>17. rest' = SubSeq(path', n + 1, Len(path')) /\ cluster' \in DirsAt(n + 1)'
  BY <1>2, <1>13, <1>14, <1>15
<1>18. \A k \in 1 .. n + 1 - 1 : k \notin FilesOn'
  BY <1>14
<1>19. OnPath'
  BY <1>2, <1>16, <1>17, <1>18 DEF OnPath
<1> QED
  BY <1>13, <1>19

(* A step that leaves the lookup where it is. *)
LEMMA WalkWaits ==
    ASSUME WalkInv, errors = 0,
           UNCHANGED <<volume, path, call, rest>>,
           cluster' = cluster \/ call = "load",
           pc' # "panic" \/ pc = "panic", Looking' => Looking
    PROVE  WalkInv'
<1>1. /\ FilesOn' = FilesOn /\ (Unmistaken' <=> Unmistaken)
      /\ (Findable' <=> Findable) /\ (Plain' <=> Plain)
      /\ Resolved(Len(path))' = Resolved(Len(path)) /\ \A n : DirsAt(n)' = DirsAt(n)
  BY WalkKept
<1>2. ASSUME Looking' PROVE cluster' = cluster
  BY <1>2 DEF Looking
<1>3. ASSUME Looking' PROVE OnPath => OnPath'
  BY <1>1, <1>2, <1>3 DEF OnPath
<1>4. /\ FilesOn' # {} /\ Findable' => pc' # "panic"
      /\ FilesOn' # {} /\ Unmistaken' => (Looking' => OnPath')
  BY <1>1, <1>3 DEF WalkInv
<1>5. ASSUME Plain', FilesOn' = {}, Resolved(Len(path))' = {}
      PROVE  call' # "load" /\ (Looking' => OnPath')
  BY <1>1, <1>3, <1>5 DEF WalkInv
<1> QED
  BY <1>4, <1>5 DEF WalkInv

(* A directory is read. *)
LEMMA WalkDir ==
    ASSUME WalkInv, NEW content, GoodRead(content), NEW es \in EntriesIn(content),
           NEW g \in Garbage, ReadDir(es, FALSE, g)
    PROVE  WalkInv'
<1>1. pc = "dir" /\ errors = 0 /\ volume' = volume /\ path' = path
  BY DEF ReadDir, GoodRead
<1>2. call # "load"
  BY <1>1, DirRead
<1>3. Looking
  BY <1>1, <1>2 DEF Looking
<1>4. /\ FilesOn' = FilesOn /\ (Unmistaken' <=> Unmistaken)
      /\ (Findable' <=> Findable) /\ (Plain' <=> Plain)
      /\ Resolved(Len(path))' = Resolved(Len(path))
  BY <1>1, WalkKept
<1>5. ASSUME FilesOn' # {}, Unmistaken' PROVE (Findable => pc' # "panic") /\ (Looking' => OnPath')
  <2>1. FilesOn # {} /\ Unmistaken /\ OnPath
    BY <1>1, <1>3, <1>4, <1>5 DEF WalkInv
  <2> QED
    BY <2>1, WalkFinds
<1>6. ASSUME Plain', FilesOn' = {}, Resolved(Len(path))' = {}
      PROVE  call' # "load" /\ (Looking' => OnPath')
  <2>1. Plain /\ FilesOn = {} /\ Resolved(Len(path)) = {} /\ OnPath
    BY <1>1, <1>3, <1>4, <1>6 DEF WalkInv
  <2> QED
    BY <2>1, WalkStays
<1>7. Findable' => Unmistaken'
  BY DEF Findable
<1> QED
  BY <1>4, <1>5, <1>6, <1>7 DEF WalkInv

(* The invariant is kept. *)
LEMMA WalkNext ==
    ASSUME MAX_ERRORS > 0, FitsInv, WalkInv, [Next]_vars
    PROVE  WalkInv'
<1>0. volume \in Volumes /\ path \in Paths /\ errors \in Nat
  BY DEF FitsInv
<1>1. ASSUME NEW content, NEW failed \in BOOLEAN, Read(content, failed)
      PROVE  Reading /\ SectorRead(failed)
  BY <1>1 DEF Read, ReadMbr, ReadPbr, ReadDir, ReadData, ReadFat, SectorRead
<1>2. CASE Good
  <2>1. PICK content : content = DiskOf[volume][Addressed(Wanted)]
    OBVIOUS
  <2>2. Read(content, FALSE) /\ Addressed(Wanted) \in 0 .. LastSector(volume)
    BY <1>0, <1>2, <2>1 DEF Good, Disk, DiskOf
  <2>3. Reading /\ SectorRead(FALSE)
    BY <1>1, <2>2
  <2>4. errors' = errors /\ volume' = volume /\ path' = path /\ drive_head' = HeadFor(Wanted)
    BY <1>0, <2>3, FailureCounts
  <2>5. CASE errors # 0
    BY <2>4, <2>5 DEF WalkInv
  <2>6. CASE errors = 0
    <3>1. drive_head' = 0
      BY <2>3, <2>4, <2>6, HeadIsZero DEF FitsInv
    <3>2. GoodRead(content)
      BY <2>1, <2>2, <2>3, <2>4, <2>6, <3>1 DEF GoodRead
    <3>3. pc \in {"data", "fat"} => call = "load"
      BY <2>6 DEF FitsInv, LookupInv
    <3>4. CASE ReadMbr(content, FALSE)
      <4>1. /\ UNCHANGED <<volume, path, call, rest, cluster>> /\ pc = "mbr" /\ pc' = "pbr"
        BY <2>4, <3>4 DEF ReadMbr
      <4> QED
        BY <2>6, <4>1, WalkWaits DEF Looking
    <3>5. CASE ReadPbr(content, FALSE)
      <4>1. /\ UNCHANGED <<volume, path, call, rest, cluster>> /\ pc = "pbr" /\ pc' # "panic"
        BY <2>4, <3>5 DEF ReadPbr
      <4> QED
        BY <2>6, <4>1, WalkWaits DEF Looking
    <3>6. CASE \E es \in EntriesIn(content), g \in Garbage : ReadDir(es, FALSE, g)
      BY <3>2, <3>6, WalkDir
    <3>7. CASE ReadData(FALSE)
      <4>1. /\ UNCHANGED <<volume, path, call, rest, cluster>> /\ pc = "data" /\ pc' # "panic"
        BY <2>4, <3>7 DEF ReadData
      <4> QED
        BY <2>6, <3>3, <4>1, WalkWaits DEF Looking
    <3>8. CASE ReadFat(content, FALSE)
      <4>1. /\ UNCHANGED <<volume, path, call, rest>> /\ pc = "fat" /\ pc' # "panic"
        BY <2>4, <3>8 DEF ReadFat
      <4> QED
        BY <2>6, <3>3, <4>1, WalkWaits DEF Looking
    <3> QED
      BY <2>2, <3>4, <3>5, <3>6, <3>7, <3>8 DEF Read
  <2> QED
    BY <2>5, <2>6
<1>3. CASE Failed
  <2>1. PICK content : Read(content, TRUE)
    BY <1>3 DEF Failed
  <2>2. SectorRead(TRUE)
    BY <1>1, <2>1
  <2>3. errors' # 0
    BY <1>0, <2>2, FailureCounts
  <2> QED
    BY <2>3 DEF WalkInv
<1>4. CASE Poll
  <2>1. pc' = "polling" /\ UNCHANGED <<volume, path, call, rest, cluster, errors>>
    BY <1>4 DEF Poll
  <2>2. CASE errors = 0
    BY <2>1, <2>2, WalkWaits DEF Looking
  <2>3. CASE errors # 0
    BY <2>1, <2>3 DEF WalkInv
  <2> QED
    BY <2>2, <2>3
<1>5. CASE UNCHANGED vars
  <2>1. UNCHANGED <<volume, path, pc, call, rest, cluster, errors>>
    BY <1>5 DEF vars, fs_vars
  <2>2. CASE errors = 0
    BY <2>1, <2>2, WalkWaits DEF Looking
  <2>3. CASE errors # 0
    BY <2>1, <2>3 DEF WalkInv
  <2> QED
    BY <2>2, <2>3
<1> QED
  BY <1>2, <1>3, <1>4, <1>5 DEF Next, Ended

(* As long as no read fails, locate_file_dirent's panic ("File not found") *)
(* means that the path leads to no file or to one whose name cannot be     *)
(* found; and on a volume with nothing to mistake for a name of the path,  *)
(* fs_read returns only for the path of a file or of a directory.  On every*)
(* volume and for every path, whatever the stack and the memory behind the *)
(* path hold: if what the stack can hold may pass for a name, that is one  *)
(* of the things to mistake.  The hypothesis says that failed reads are    *)
(* counted.                                                                *)
THEOREM FoundByItsPath ==
    ASSUME MAX_ERRORS > 0
    PROVE  Spec => []FoundIfThere
<1>1. FitsInv /\ WalkInv /\ [Next]_vars => (FitsInv /\ WalkInv)'
  BY FitsNext, WalkNext
<1>2. FitsInv /\ WalkInv => FoundIfThere
  <2> SUFFICES ASSUME FitsInv, WalkInv, errors = 0 PROVE FoundIfThere
    BY DEF FoundIfThere, NoErrors
  <2>1. call # "load" => pc # "done"
    BY DEF FitsInv, LookupInv
  <2>2. pc = "panic" => FilesOn = {} \/ ~Findable
    BY DEF WalkInv
  <2>3. pc = "done" /\ Plain => FilesOn # {} \/ Resolved(Len(path)) # {}
    BY <2>1 DEF WalkInv
  <2> QED
    BY <2>2, <2>3 DEF FoundIfThere
<1> QED
  BY <1>1, <1>2, FitsInit, WalkInit, PTL DEF Spec

-----------------------------------------------------------------------------
(* What is in a file.                                                      *)

(* The file that a path leads to is on the volume. *)
LEMMA FileIsThere ==
    ASSUME volume \in Volumes, path \in Seq(Name), FilesOn # {}
    PROVE  /\ File \in Items(volume) /\ ~File.dir
           /\ File.size \in Nat /\ File.clusters \in Seq(Nat)
<1>1. FilesOn \subseteq 1 .. Len(path) /\ FilesOn \subseteq Nat
  BY DEF FilesOn
<1>2. PICK f \in FilesOn : f = FirstOf(FilesOn)
  BY <1>1, FirstIsMember
<1>3. f \in 1 .. Len(path) /\ f \in 1 .. Len(path) + 1
  BY <1>1
<1>4. PICK item \in Resolved(f) : ~item.dir
  BY DEF FilesOn
<1>5. File = item
  <2>1. \A x \in Resolved(f) : x = item
    BY <1>3, OneDirectory
  <2> QED
    BY <1>2, <2>1 DEF File
<1>6. PICK d \in DirsAt(f) : \E j \in DOMAIN volume.dirs[d] : volume.dirs[d][j] = item
  BY <1>3, OneDirectory, ResolvedMember
<1>7. d \in DOMAIN volume.dirs
  BY <1>3, OneDirectory
<1>8. volume.dirs[d] \in Seq(Item)
  BY <1>7, VolumeFacts
<1>9. item \in Item
  BY <1>6, <1>8
<1>10. item \in Items(volume)
  BY <1>6, <1>7 DEF Items, Range
<1> QED
  BY <1>4, <1>5, <1>9, <1>10 DEF Item

(* The place of a number among the multiples of another. *)
LEMMA DivideAt ==
    ASSUME NEW S \in Nat, S >= 1, NEW k \in Int, NEW r \in Int, 0 <= r, r < S,
           NEW x \in Int, x = k * S + r
    PROVE  x \div S = k /\ x % S = r
<1>1. PICK q \in Int, t \in Int : /\ q = x \div S /\ t = x % S /\ 0 <= t /\ t < S
                                  /\ x = q * S + t
  BY Quotients
<1>2. PICK d \in Int : d = q - k
  OBVIOUS
<1>3. d * S = r - t
  <2>1. PICK a \in Int, b \in Int : a = q * S /\ b = k * S
    OBVIOUS
  <2>2. d * S = a - b
    BY <1>2, <2>1
  <2>3. x = a + t /\ x = b + r
    BY <1>1, <2>1
  <2> QED
    BY <1>1, <2>2, <2>3
<1>4. ASSUME NEW e \in Int, e >= 1 PROVE e * S >= S
  BY <1>4
<1>5. ASSUME NEW e \in Int, e <= -1 PROVE e * S <= 0 - S
  BY <1>5
<1>6. d = 0
  BY <1>1, <1>3, <1>4, <1>5
<1>7. q = k
  BY <1>2, <1>6
<1>8. t = r
  BY <1>1, <1>7
<1> QED
  BY <1>1, <1>7, <1>8

(* How multiples compare. *)
LEMMA MultiplesCompare ==
    ASSUME NEW S \in Nat, S >= 1, NEW k \in Int, NEW m \in Int, k * S < m * S
    PROVE  k < m
<1>1. ASSUME NEW e \in Int, e >= 0 PROVE e * S >= 0
  BY <1>1
<1>2. (k - m) * S = k * S - m * S
  OBVIOUS
<1>3. k * S \in Int /\ m * S \in Int
  OBVIOUS
<1>4. ~((k - m) * S >= 0)
  BY <1>2, <1>3
<1> QED
  BY <1>1, <1>4

(* The k-th sector that is read: where the file has it. *)
LEMMA SectorRightAt ==
    ASSUME volume \in Volumes, path \in Seq(Name), FilesOn # {},
           NEW k \in Nat, k * SECTOR < File.size, k = 0 \/ volume.per_cluster = 1
    PROVE  /\ k < Len(File.clusters) /\ File.clusters[k + 1] \in Nat
           /\ k + 1 \in 1 .. CeilDiv(File.size, SECTOR)
           /\ FileSectors(File)[k + 1] = SectorOfCluster(volume, File.clusters[k + 1])
           /\ Readable(File) => SectorOfCluster(volume, File.clusters[k + 1]) < LBA_LOW
<1>1. PICK it : it = File
  OBVIOUS
<1>2. it \in Items(volume) /\ ~it.dir /\ it.size \in Nat /\ it.clusters \in Seq(Nat)
  BY <1>1, FileIsThere
<1>3. PICK S \in Nat : S = SECTOR /\ S >= 1
  BY Numbers
<1>4. PICK q \in Nat : q = volume.per_cluster /\ q >= 1
  BY VolumeFacts
<1>5. PICK m \in Nat : m = Len(it.clusters) /\ it.size <= m * q * S
  BY <1>2, <1>3, <1>4, ChainsSound
<1>6. k * S \in Nat /\ k * S < it.size
  BY <1>1, <1>3
<1>7. k < m
  <2>1. CASE k = 0
    <3>1. m # 0
      <4> SUFFICES ASSUME m = 0 PROVE FALSE
        OBVIOUS
      <4>1. m * q * S = 0
        BY <1>3, <1>4
      <4> QED
        BY <1>2, <1>5, <1>6, <2>1, <4>1
    <3> QED
      BY <2>1, <3>1
  <2>2. CASE q = 1
    <3>1. m * q * S = m * S /\ m * S \in Nat
      BY <1>3, <2>2
    <3>2. k * S < m * S
      BY <1>2, <1>5, <1>6, <3>1
    <3> QED
      BY <1>3, <3>2, MultiplesCompare
  <2> QED
    BY <1>4, <2>1, <2>2
<1>8. PICK c \in Nat : c = CeilDiv(it.size, S) /\ k + 1 \in 1 .. c
  <2>1. PICK x \in Nat : x = it.size + S - 1
    BY <1>2, <1>3
  <2>2. PICK c \in Int, r \in Int : /\ c = x \div S /\ r = x % S /\ 0 <= r /\ r < S
                                    /\ x = c * S + r
    <3>1. S \in Int /\ S > 0 /\ x \in Int
      BY <1>3
    <3> QED
      BY <3>1, Quotients
  <2>3. k * S < c * S
    <3>1. PICK a \in Int, b \in Int : a = c * S /\ b = k * S
      BY <1>6, <2>2
    <3>2. x = a + r /\ b < it.size /\ r < S
      BY <1>6, <2>2, <3>1
    <3>3. b < a
      BY <1>2, <2>1, <3>2
    <3> QED
      BY <3>1, <3>3
  <2>4. k < c
    BY <1>3, <2>2, <2>3, MultiplesCompare
  <2>5. c = CeilDiv(it.size, S)
    BY <2>1, <2>2 DEF CeilDiv
  <2> QED
    BY <2>2, <2>4, <2>5
<1>9. (k + 1 - 1) \div q = k /\ (k + 1 - 1) % q = 0
  <2>1. PICK x \in Int : x = k + 1 - 1 /\ x = k
    OBVIOUS
  <2>2. CASE k = 0
    BY <1>4, <2>1, <2>2, SmallRemainder
  <2>3. CASE q = 1
    <3>1. x = k * q + 0
      BY <2>1, <2>3
    <3>2. x \div q = k /\ x % q = 0
      <4>1. q \in Nat /\ q >= 1 /\ 0 < q /\ 0 <= 0 /\ 0 \in Int /\ k \in Int
        BY <1>4
      <4> QED
        BY <3>1, <4>1, DivideAt
    <3> QED
      BY <2>1, <3>2
  <2> QED
    BY <1>4, <2>2, <2>3
<1>10. PICK s : s = SectorOfCluster(volume, it.clusters[k + 1])
  OBVIOUS
<1>11. it.clusters[k + 1] \in Nat
  BY <1>2, <1>5, <1>7
<1>12. s \in Int
  BY <1>10, <1>11, VolumeFacts DEF SectorOfCluster
<1>13. DOMAIN FileSectors(it) = 1 .. c /\ FileSectors(it)[k + 1] = s
  <2>1. DOMAIN FileSectors(it) = 1 .. c
    BY <1>3, <1>8 DEF FileSectors
  <2>2. FileSectors(it)[k + 1] =
          SectorOfCluster(volume, it.clusters[(k + 1 - 1) \div volume.per_cluster + 1])
             + ((k + 1 - 1) % volume.per_cluster)
    BY <1>3, <1>8 DEF FileSectors
  <2>3. FileSectors(it)[k + 1] = s + 0
    BY <1>4, <1>9, <1>10, <2>2
  <2> QED
    BY <1>12, <2>1, <2>3
<1>14. Readable(File) => s < LBA_LOW
  BY <1>1, <1>8, <1>13 DEF Readable
<1> QED
  BY <1>1, <1>3, <1>5, <1>7, <1>8, <1>10, <1>11, <1>13, <1>14

(* Its bytes. *)
LEMMA BytesAt ==
    ASSUME volume \in Volumes, path \in Seq(Name), FilesOn # {},
           NEW k \in Nat, k = 0 \/ volume.per_cluster = 1,
           NEW r \in 1 .. SECTOR, k * SECTOR + r <= File.size
    PROVE  FileBytes(File)[k * SECTOR + r] =
             <<SectorOfCluster(volume, File.clusters[k + 1]), r>>
<1>1. PICK S \in Nat : S = SECTOR /\ S >= 1
  BY Numbers
<1>2. PICK z \in Nat : z = File.size
  BY FileIsThere
<1>3. PICK y \in Nat : y = k * S
  BY <1>1
<1>4. r \in Nat /\ r >= 1 /\ r <= S /\ y + r <= z
  BY <1>1, <1>2, <1>3
<1>5. (y + r - 1) \div S = k /\ (y + r - 1) % S = r - 1
  <2>1. PICK t \in Int : t = r - 1 /\ 0 <= t /\ t < S
    BY <1>1, <1>4
  <2>2. PICK x \in Int : x = y + r - 1
    BY <1>3, <1>4
  <2>3. x = k * S + t
    BY <1>3, <1>4, <2>1, <2>2
  <2>4. S \in Nat /\ S >= 1 /\ k \in Int /\ t \in Int /\ 0 <= t /\ t < S /\ x \in Int
    BY <1>1, <2>1
  <2>5. x \div S = k /\ x % S = t
    BY <2>3, <2>4, DivideAt, ZenonT(40)
  <2> QED
    BY <2>1, <2>2, <2>5
<1>6. k * SECTOR < File.size
  BY <1>1, <1>2, <1>3, <1>4
<1>7. FileSectors(File)[k + 1] = SectorOfCluster(volume, File.clusters[k + 1])
  BY <1>6, SectorRightAt
<1>8. FileBytes(File)[y + r] =
        <<FileSectors(File)[((y + r - 1) \div S) + 1], ((y + r - 1) % S) + 1>>
  <2>1. y + r \in 1 .. z
    BY <1>2, <1>3, <1>4
  <2> QED
    BY <1>1, <1>2, <2>1 DEF FileBytes
<1>9. r - 1 + 1 = r
  BY <1>4
<1> QED
  BY <1>1, <1>3, <1>5, <1>7, <1>8, <1>9

-----------------------------------------------------------------------------
(* What the FAT holds.                                                     *)

(* The FAT leads from each cluster of a file to the next. *)
LEMMA NextOf ==
    ASSUME NEW v \in Volumes, NEW item \in Items(v), NEW i \in 1 .. Len(item.clusters) - 1
    PROVE  Next_cluster(v, item.clusters[i]) = item.clusters[i + 1]
<1>1. PICK c, n : c = item.clusters[i] /\ n = item.clusters[i + 1]
  OBVIOUS
<1> DEFINE After(y) == { y.clusters[j + 1] : j \in
                           { j \in 1 .. Len(y.clusters) - 1 : y.clusters[j] = c } }
           after == UNION { After(y) : y \in Items(v) }
<1>2. n \in after
  <2>1. n \in After(item)
    BY <1>1
  <2> QED
    BY <2>1, Zenon
<1>3. ASSUME NEW x \in after PROVE x = n
  <2>1. PICK y \in Items(v) : x \in After(y)
    BY <1>3, Zenon
  <2>2. PICK j \in 1 .. Len(y.clusters) - 1 : y.clusters[j] = c /\ x = y.clusters[j + 1]
    BY <2>1
  <2> QED
    BY <1>1, <2>2, ChainsSound
<1>4. Next_cluster(v, c) = IF after = {} THEN EOC ELSE CHOOSE x \in after : TRUE
  BY DEF Next_cluster
<1> HIDE DEF after
<1>5. after = {n}
  BY <1>2, <1>3
<1>6. Next_cluster(v, c) = n
  BY <1>4, <1>5
<1> QED
  BY <1>1, <1>6

(* The sector that next_cluster reads holds the entry of the cluster. *)
LEMMA FatHolds ==
    ASSUME NEW v \in Volumes, NEW c \in 2 .. (v.fats * FAT_ENTRIES) - 1, NEW s,
           s = v.reserved + (c \div FAT_ENTRIES) + v.hidden
    PROVE  /\ s \in Nat /\ s < v.hidden + v.reserved + v.fats
           /\ DiskSector(v, s).kind = "fat"
           /\ DiskSector(v, s).fat[c % FAT_ENTRIES] = Next_cluster(v, c)
<1>1. /\ v.hidden \in Nat /\ v.hidden >= 1 /\ v.reserved \in Nat /\ v.reserved >= 1
      /\ v.fats \in Nat /\ v.fats >= 1
  BY VolumeFacts
<1>2. PICK E \in Nat : E = FAT_ENTRIES /\ E >= 1
  BY FileSystemConstants
<1>3. c \in Nat /\ c < v.fats * E /\ v.fats * E \in Nat
  BY <1>1, <1>2
<1>4. PICK q \in Int, r \in Int : /\ q = c \div E /\ r = c % E /\ 0 <= r /\ r < E
                                  /\ c = q * E + r
  <2>1. E \in Int /\ E > 0 /\ c \in Int
    BY <1>2, <1>3
  <2> QED
    BY <2>1, Quotients
<1>5. PICK a \in Int : a = q * E /\ c = a + r
  BY <1>4
<1>6. 0 <= q
  <2>1. ASSUME NEW e \in Int, e <= -1 PROVE e * E <= 0 - E
    BY <1>2, <2>1
  <2> QED
    BY <1>3, <1>4, <1>5, <2>1
<1>7. q < v.fats
  <2>1. q * E < v.fats * E
    BY <1>3, <1>4, <1>5
  <2> QED
    BY <1>1, <1>2, <2>1, MultiplesCompare
<1>8. s = v.reserved + q + v.hidden
  BY <1>2, <1>4
<1>9. s \in Nat /\ s < v.hidden + v.reserved + v.fats
  BY <1>1, <1>6, <1>7, <1>8
<1>10. /\ s # 0 /\ s # v.hidden
       /\ s \in v.hidden + v.reserved .. v.hidden + v.reserved + v.fats - 1
  BY <1>1, <1>6, <1>7, <1>8
<1>11. s - v.hidden - v.reserved = q
  BY <1>1, <1>8
<1>12. PICK F : F = [i \in 0 .. FAT_ENTRIES - 1 |->
                      Next_cluster(v, (s - v.hidden - v.reserved) * FAT_ENTRIES + i)]
  OBVIOUS
<1>13. DiskSector(v, s) = [kind |-> "fat", fat |-> F]
  <2>1. {d \in DOMAIN v.dirs : SectorOfCluster(v, d) = s} = {}
    BY <1>1, <1>9, DirectoriesBehind
  <2> QED
    BY <1>10, <1>12, <2>1 DEF DiskSector
<1>14. F[r] = Next_cluster(v, c)
  <2>1. r \in 0 .. FAT_ENTRIES - 1
    BY <1>2, <1>4
  <2>2. F[r] = Next_cluster(v, q * E + r)
    BY <1>2, <1>11, <1>12, <2>1
  <2> QED
    BY <1>4, <2>2
<1>15. DiskSector(v, s).kind = "fat" /\ DiskSector(v, s).fat = F
  BY <1>13
<1> QED
  BY <1>2, <1>4, <1>9, <1>14, <1>15

(* What is compared with stays. *)
LEMMA ContentKept ==
    ASSUME volume' = volume, path' = path
    PROVE  /\ File' = File /\ FileBytes(File)' = FileBytes(File)
           /\ FilesOn' = FilesOn /\ (Unmistaken' <=> Unmistaken)
           /\ Readable(File)' <=> Readable(File)
<1>1. File' = File
  BY FileKept
<1>2. FileSectors(File)' = FileSectors(File)
  BY <1>1 DEF FileSectors
<1>3. FileBytes(File)' = FileBytes(File)
  BY <1>1, <1>2 DEF FileBytes
<1>4. Readable(File)' <=> Readable(File)
  BY <1>1, <1>2 DEF Readable
<1> QED
  BY <1>1, <1>3, <1>4, WalkKept

-----------------------------------------------------------------------------
(* How much is read: the size that both lookups found.                     *)

SizeOk ==
    /\ call # "stat" => st_size = File.size
    /\ call = "load" =>
         /\ Len(dest) <= File.size
         /\ pc \in {"mbr", "pbr", "data"} => Len(dest) + bytes_to_read = File.size
         /\ pc = "fat" => Len(dest) + bytes_to_read = File.size + SECTOR
         /\ pc = "done" => Len(dest) = File.size

SizeInv == errors = 0 /\ FilesOn # {} /\ Unmistaken => SizeOk

(* A directory is read: the first lookup gives the size for the buffer, the*)
(* second the number of bytes to read.                                     *)
LEMMA SizeDir ==
    ASSUME NEW content, GoodRead(content), NEW es \in EntriesIn(content), NEW g \in Garbage,
           ReadDir(es, FALSE, g), WalkInv, FilesOn # {}, Unmistaken, SizeOk
    PROVE  SizeOk'
<1>1. pc = "dir" /\ errors = 0
  BY DEF ReadDir, GoodRead
<1>2. call \in {"stat", "find"}
  BY <1>1, DirRead
<1>3. OnPath
  BY <1>1, <1>2 DEF WalkInv, Looking
<1>4. /\ call' = "load" => AtFile' /\ pc' = "mbr" /\ dest' = <<>> /\ call = "find"
      /\ IF call = "stat" /\ call' # "stat" THEN st_size' = File.size ELSE st_size' = st_size
  BY <1>3, WalkFinds
<1>5. /\ volume \in Volumes /\ path \in Seq(Name) /\ volume' = volume /\ path' = path
  BY FileSystemConstants DEF GoodRead, FitsInv
<1>6. PICK z \in Nat : z = File.size
  BY <1>5, FileIsThere
<1>7. File.size' = z
  BY <1>5, <1>6, ContentKept
<1>8. call' # "stat" => st_size' = z
  BY <1>2, <1>4, <1>6 DEF SizeOk
<1>9. ASSUME call' = "load"
      PROVE  pc' = "mbr" /\ Len(dest') = 0 /\ bytes_to_read' = z
  BY <1>4, <1>7, <1>9 DEF AtFile
<1>10. 0 <= z /\ 0 + z = z
  OBVIOUS
<1> QED
  BY <1>7, <1>8, <1>9, <1>10 DEF SizeOk

(* The loop of fat32_read. *)
LEMMA SizeLoop ==
    ASSUME NEW content, GoodRead(content), SizeOk, FilesOn # {},
           \/ ReadMbr(content, FALSE) \/ ReadPbr(content, FALSE)
           \/ ReadData(FALSE) \/ ReadFat(content, FALSE)
    PROVE  SizeOk'
<1>1. /\ volume \in Volumes /\ path \in Seq(Name) /\ volume' = volume /\ path' = path
      /\ call \in {"stat", "find", "load"} /\ (IF call = "load" THEN LoopInv ELSE LookupInv)
  BY FileSystemConstants DEF GoodRead, FitsInv
<1>2. PICK z \in Nat : z = File.size /\ z = File.size'
  BY <1>1, FileIsThere, ContentKept
<1>3. PICK S \in Nat : S = SECTOR /\ S >= 1
  BY Numbers
<1>4. call' = call /\ st_size' = st_size
  BY DataStep, FatStep DEF ReadMbr, ReadPbr
<1> SUFFICES ASSUME call = "load"
             PROVE  /\ Len(dest') <= z
                    /\ pc' \in {"mbr", "pbr", "data"} => Len(dest') + bytes_to_read' = z
                    /\ pc' = "fat" => Len(dest') + bytes_to_read' = z + S
                    /\ pc' = "done" => Len(dest') = z
  BY <1>2, <1>3, <1>4 DEF SizeOk
<1>5. PICK y \in Nat, b \in Nat : y = Len(dest) /\ b = bytes_to_read
  BY <1>1 DEF LoopInv
<1>6. /\ y <= z /\ (pc \in {"mbr", "pbr", "data"} => y + b = z)
      /\ pc = "fat" => y + b = z + S
  BY <1>2, <1>3, <1>5 DEF SizeOk
<1>7. CASE ReadMbr(content, FALSE) \/ ReadPbr(content, FALSE)
  <2>1. /\ dest' = dest /\ bytes_to_read' = bytes_to_read /\ pc \in {"mbr", "pbr"}
        /\ pc' \in {"pbr", "done", "data"} /\ (pc' = "done" => b = 0)
    BY <1>5, <1>7 DEF ReadMbr, ReadPbr
  <2>2. y + b = z /\ Len(dest') = y /\ bytes_to_read' = b
    BY <1>5, <1>6, <2>1
  <2> QED
    BY <1>6, <2>1, <2>2
<1>8. CASE ReadData(FALSE)
  <2>1. /\ pc = "data" /\ bytes_to_read' = b
        /\ IF b < S THEN pc' = "done" /\ Len(dest') = y + b
                    ELSE pc' = "fat" /\ Len(dest') = y + S
    BY <1>3, <1>5, <1>8, DataStep
  <2>2. y + b = z
    BY <1>6, <2>1
  <2> QED
    BY <1>3, <2>1, <2>2
<1>9. CASE ReadFat(content, FALSE)
  <2>1. /\ pc = "fat" /\ dest' = dest /\ b >= S /\ bytes_to_read' = b - S
        /\ pc' = IF bytes_to_read' = 0 THEN "done" ELSE "data"
    BY <1>3, <1>5, <1>9, FatStep
  <2>2. y + b = z + S /\ Len(dest') = y
    BY <1>5, <1>6, <2>1
  <2> QED
    BY <1>3, <1>6, <2>1, <2>2
<1> QED
  BY <1>7, <1>8, <1>9

(* The invariant is kept. *)
LEMMA SizeNext ==
    ASSUME MAX_ERRORS > 0, FitsInv, WalkInv, SizeInv, [Next]_vars
    PROVE  SizeInv'
<1>0. volume \in Volumes /\ path \in Paths /\ errors \in Nat
  BY DEF FitsInv
<1>1. ASSUME NEW content, NEW failed \in BOOLEAN, Read(content, failed)
      PROVE  Reading /\ SectorRead(failed)
  BY <1>1 DEF Read, ReadMbr, ReadPbr, ReadDir, ReadData, ReadFat, SectorRead
<1> SUFFICES ASSUME errors' = 0, FilesOn' # {}, Unmistaken' PROVE SizeOk'
  BY DEF SizeInv
<1>2. CASE Good
  <2>1. PICK content : content = DiskOf[volume][Addressed(Wanted)]
    OBVIOUS
  <2>2. Read(content, FALSE) /\ Addressed(Wanted) \in 0 .. LastSector(volume)
    BY <1>0, <1>2, <2>1 DEF Good, Disk, DiskOf
  <2>3. Reading /\ SectorRead(FALSE)
    BY <1>1, <2>2
  <2>4. errors = 0 /\ volume' = volume /\ path' = path /\ drive_head' = HeadFor(Wanted)
    BY <1>0, <2>3, FailureCounts
  <2>5. drive_head' = 0
    BY <2>3, <2>4, HeadIsZero DEF FitsInv
  <2>6. GoodRead(content)
    BY <2>1, <2>2, <2>3, <2>4, <2>5 DEF GoodRead
  <2>7. FilesOn # {} /\ Unmistaken
    BY <2>4, ContentKept
  <2>8. SizeOk
    BY <2>4, <2>7 DEF SizeInv
  <2>9. CASE \E es \in EntriesIn(content), g \in Garbage : ReadDir(es, FALSE, g)
    BY <2>6, <2>7, <2>8, <2>9, SizeDir
  <2>10. CASE \/ ReadMbr(content, FALSE) \/ ReadPbr(content, FALSE)
              \/ ReadData(FALSE) \/ ReadFat(content, FALSE)
    BY <2>6, <2>7, <2>8, <2>10, SizeLoop
  <2> QED
    BY <2>2, <2>9, <2>10 DEF Read
<1>3. CASE Failed
  <2>1. PICK content : Read(content, TRUE)
    BY <1>3 DEF Failed
  <2>2. SectorRead(TRUE)
    BY <1>1, <2>1
  <2> QED
    BY <1>0, <2>2, FailureCounts
<1>4. CASE Poll \/ UNCHANGED vars
  <2>1. /\ UNCHANGED <<volume, path, call, bytes_to_read, st_size, dest, errors>>
        /\ pc' = "polling" \/ pc' = pc
    BY <1>4 DEF Poll, vars, fs_vars
  <2>2. File.size' = File.size /\ FilesOn # {} /\ Unmistaken
    BY <2>1, ContentKept
  <2>3. SizeOk
    BY <2>1, <2>2 DEF SizeInv
  <2> QED
    BY <2>1, <2>2, <2>3 DEF SizeOk
<1> QED
  BY <1>2, <1>3, <1>4 DEF Next, Ended

(* As long as no read fails, fat32_read's loop never writes behind the end *)
(* of the buffer that execv and the boot loader allocate with stat's size, *)
(* and fills it, on every volume and whatever the stack holds in either    *)
(* lookup: unless what it can hold, or another name of the directories on  *)
(* the way, may pass for a name of the path (Unmistaken), when the two     *)
(* lookups may find different files.  The hypothesis says that failed reads*)
(* are counted.                                                            *)
THEOREM NeverBehindBuffer ==
    ASSUME MAX_ERRORS > 0
    PROVE  Spec => []FitsBuffer
<1> DEFINE Inv == FitsInv /\ WalkInv /\ SizeInv
<1>1. Init => Inv
  <2>1. Init => SizeInv
    BY DEF Init, SizeInv, SizeOk
  <2> QED
    BY <2>1, FitsInit, WalkInit
<1>2. Inv /\ [Next]_vars => Inv'
  BY FitsNext, WalkNext, SizeNext
<1>3. Inv => FitsBuffer
  <2> SUFFICES ASSUME Inv, errors = 0, call = "load", FilesOn # {}, Unmistaken
               PROVE  Len(dest) <= st_size /\ (pc = "done" => Len(dest) = st_size)
    BY DEF FitsBuffer, NoErrors
  <2>1. SizeOk
    BY DEF SizeInv
  <2> QED
    BY <2>1 DEF SizeOk
<1> QED
  BY <1>1, <1>2, <1>3, PTL DEF Spec

-----------------------------------------------------------------------------
(* The invariants behind ReadExactly: what is Readable is read right.      *)

(* The buffer holds the first n bytes of the file. *)
Written(n) == Len(dest) = n /\ \A i \in 1 .. n : dest[i] = FileBytes(File)[i]

(* fat32_read is at the k-th sector of the file, counted from 0. *)
AtSector(k) ==
    /\ bytes_to_read = File.size - k * SECTOR
    /\ k < Len(File.clusters) => cluster = File.clusters[k + 1]
    /\ k = 0 \/ volume.per_cluster = 1

LoadOk ==
    /\ pc \in {"mbr", "pbr", "data"} => \E k \in Nat : AtSector(k) /\ Written(k * SECTOR)
    /\ pc = "data" => bytes_to_read # 0
    /\ pc = "fat" => \E k \in Nat : AtSector(k) /\ Written(k * SECTOR + SECTOR)
    /\ pc = "done" => Written(File.size)

LoadInv == errors = 0 /\ FilesOn # {} /\ Unmistaken /\ call = "load" /\ Readable(File) => LoadOk

(* A cluster of the file lies behind the FAT, and has an entry in it. *)
LEMMA ClusterPlace ==
    ASSUME volume \in Volumes, path \in Seq(Name), FilesOn # {}, NEW k \in Nat,
           k < Len(File.clusters), NEW c, c = File.clusters[k + 1]
    PROVE  /\ c \in 2 .. (volume.fats * FAT_ENTRIES) - 1 /\ c \in Nat
           /\ SectorOfCluster(volume, c) \in Nat
           /\ SectorOfCluster(volume, c) >= volume.hidden + volume.reserved + volume.fats
<1>1. File \in Items(volume) /\ File.clusters \in Seq(Nat)
  BY FileIsThere
<1>2. c \in Range(File.clusters)
  <2>1. k + 1 \in DOMAIN File.clusters
    BY <1>1
  <2> QED
    BY <2>1 DEF Range
<1>3. c \in 2 .. (volume.fats * FAT_ENTRIES) - 1
  BY <1>1, <1>2, ChainsSound
<1>4. /\ volume.hidden \in Nat /\ volume.reserved \in Nat /\ volume.fats \in Nat
      /\ volume.per_cluster \in Nat
  BY VolumeFacts
<1>5. PICK N \in Nat : N = volume.fats * FAT_ENTRIES
  BY <1>4, FileSystemConstants
<1>6. c \in Nat /\ c - 2 \in Nat
  BY <1>3, <1>5
<1>7. PICK p \in Nat : p = (c - 2) * volume.per_cluster
  <2>1. \A x \in Nat, q \in Nat : x * q \in Nat
    OBVIOUS
  <2> QED
    BY <1>4, <1>6, <2>1
<1>8. SectorOfCluster(volume, c) = volume.hidden + volume.reserved + volume.fats + p
  BY <1>7 DEF SectorOfCluster
<1>9. /\ SectorOfCluster(volume, c) \in Nat
      /\ SectorOfCluster(volume, c) >= volume.hidden + volume.reserved + volume.fats
  BY <1>4, <1>8
<1> QED
  BY <1>3, <1>6, <1>9

(* A low sector is the one that is read. *)
LEMMA LowSectorRead ==
    ASSUME NEW content, GoodRead(content), NEW s \in Nat, Wanted = s, s < LBA_LOW
    PROVE  content = DiskSector(volume, s)
<1>1. volume \in Volumes /\ BootInv /\ LBA_LOW \in Int
  BY DiskConstants DEF GoodRead, FitsInv
<1>2. Addressed(Wanted) = s % LBA_LOW
  BY <1>1, HeadIsZero DEF GoodRead
<1>3. s % LBA_LOW = s
  BY <1>1, SmallRemainder
<1> QED
  BY <1>1, <1>2, <1>3 DEF GoodRead, DiskOf

(* read_cluster copies a sector, or what is left of the file, from the head*)
(* of the cluster; of its address only the low bits count.                 *)
LEMMA CopiesSector ==
    ASSUME NEW content, GoodRead(content), ReadData(FALSE)
    PROVE  /\ pc = "data" /\ call = "load" /\ bytes_to_read \in Nat
           /\ UNCHANGED <<cluster, bytes_to_read>>
           /\ pc' = IF bytes_to_read < SECTOR THEN "done" ELSE "fat"
           /\ \E n \in Nat, y \in Nat :
                /\ n = IF bytes_to_read < SECTOR THEN bytes_to_read ELSE SECTOR
                /\ y = Len(dest) /\ Len(dest') = y + n
                /\ \A i \in 1 .. y : dest'[i] = dest[i]
                /\ \A r \in 1 .. n : dest'[y + r] = <<Addressed(Wanted), r>>
           /\ cluster \in Nat => Addressed(Wanted) = SectorOfCluster(volume, cluster) % LBA_LOW
<1>1. /\ volume \in Volumes /\ BootInv
      /\ call \in {"stat", "find", "load"} /\ (IF call = "load" THEN LoopInv ELSE LookupInv)
  BY DEF GoodRead, FitsInv
<1>2. /\ pc = "data"
      /\ dest' = Put(SectorBytes(Addressed(Wanted)), Copied)
      /\ UNCHANGED <<cluster, bytes_to_read>>
  BY DEF ReadData
<1>3. call = "load" /\ LoopInv
  BY <1>1, <1>2 DEF LookupInv
<1>4. /\ bytes_to_read \in Nat /\ dest \in Seq(Bytes) /\ Len(dest) \in Nat
      /\ offset = Len(dest)
  BY <1>2, <1>3 DEF LoopInv
<1>5. PICK S \in Nat : S = SECTOR /\ S >= 1
  BY Numbers
<1>6. pbr.bytes = S /\ S # 0
  BY <1>1, <1>5 DEF BootInv, Geometry
<1>7. PICK s \in Int : s = Addressed(Wanted)
  <2>1. 0 .. LastSector(volume) \subseteq Nat
    BY <1>1, SectorsAreNumbers
  <2>2. Addressed(Wanted) \in Nat
    BY <2>1, Zenon DEF GoodRead
  <2> QED
    BY <2>2
<1>8. PICK n \in Nat : /\ n = IF bytes_to_read < S THEN bytes_to_read ELSE S
                       /\ n = Copied /\ n <= S
  <2>1. PICK n \in Nat : n = IF bytes_to_read < S THEN bytes_to_read ELSE S
    BY <1>4
  <2>2. n = Copied
    BY <1>5, <1>6, <2>1 DEF Copied
  <2>3. n <= S
    BY <1>4, <2>1
  <2> QED
    BY <2>1, <2>2, <2>3
<1>9. PICK new : new = SubSeq(SectorBytes(s), 1, n)
  OBVIOUS
<1>10. /\ new \in Seq(Bytes) /\ Len(new) = n /\ Put(SectorBytes(s), n) = dest \o new
       /\ \A i \in 1 .. n : new[i] = <<s, i>>
  <2>1. \A i \in 1 .. n : i \in 1 .. SECTOR /\ i \in Int
    BY <1>5, <1>8
  <2>2. \A i \in 1 .. n : SectorBytes(s)[i] = <<s, i>>
    BY <2>1 DEF SectorBytes
  <2>3. new \in Seq(Bytes) /\ Len(new) = n /\ Put(SectorBytes(s), n) = dest \o new
    BY <1>4, <1>5, <1>8, <1>9, PutAtEnd
  <2>4. \A i \in 1 .. n : new[i] = SectorBytes(s)[i]
    BY <1>9, <2>1, <2>3
  <2> QED
    BY <2>2, <2>3, <2>4
<1>11. dest' = dest \o new
  BY <1>2, <1>7, <1>8, <1>10
<1>12. PICK y \in Nat : y = Len(dest)
  BY <1>4
<1>13. /\ Len(dest') = y + n
       /\ \A i \in 1 .. y + n : dest'[i] = IF i <= y THEN dest[i] ELSE new[i - y]
  BY <1>4, <1>10, <1>11, <1>12, ConcatProperties
<1>14. \A i \in 1 .. y : dest'[i] = dest[i]
  <2>1. \A i \in 1 .. y : i \in 1 .. y + n /\ i <= y
    OBVIOUS
  <2> QED
    BY <1>13, <2>1
<1>15. ASSUME NEW r \in 1 .. n PROVE dest'[y + r] = <<s, r>>
  <2>1. y + r \in 1 .. y + n /\ ~(y + r <= y) /\ y + r - y = r
    OBVIOUS
  <2>2. dest'[y + r] = new[r]
    BY <1>13, <2>1
  <2>3. new[r] = <<s, r>>
    BY <1>10
  <2> QED
    BY <2>2, <2>3, Zenon
<1>16. ASSUME cluster \in Nat PROVE s = SectorOfCluster(volume, cluster) % LBA_LOW
  <2>1. /\ pbr.per_cluster = volume.per_cluster /\ pbr.reserved = volume.reserved
        /\ pbr.fats = volume.fats /\ pbr.hidden = volume.hidden
    BY <1>1 DEF BootInv, Geometry
  <2>2. /\ volume.hidden \in Int /\ volume.reserved \in Int /\ volume.fats \in Int
        /\ volume.per_cluster \in Int
    BY <1>1, VolumeFacts
  <2>3. PICK p \in Int : p = (cluster - 2) * volume.per_cluster
    BY <1>16, <2>2
  <2>4. PICK w \in Int : w = volume.hidden + volume.reserved + volume.fats + p
    BY <2>2
  <2>5. Wanted = p + volume.reserved + volume.fats + volume.hidden
    BY <1>2, <2>1, <2>3 DEF Wanted, ClusterSector
  <2>6. Wanted = w /\ w = SectorOfCluster(volume, cluster)
    BY <2>2, <2>3, <2>4, <2>5 DEF SectorOfCluster
  <2>7. Addressed(Wanted) = w % LBA_LOW
    BY <1>1, <2>6, HeadIsZero DEF GoodRead
  <2> QED
    BY <1>7, <2>6, <2>7
<1>17. \E m \in Nat, x \in Nat :
         /\ m = IF bytes_to_read < SECTOR THEN bytes_to_read ELSE SECTOR
         /\ x = Len(dest) /\ Len(dest') = x + m
         /\ \A i \in 1 .. x : dest'[i] = dest[i]
         /\ \A r \in 1 .. m : dest'[x + r] = <<Addressed(Wanted), r>>
  <2>1. /\ n = IF bytes_to_read < SECTOR THEN bytes_to_read ELSE SECTOR
        /\ y = Len(dest) /\ Len(dest') = y + n
        /\ \A i \in 1 .. y : dest'[i] = dest[i]
        /\ \A r \in 1 .. n : dest'[y + r] = <<Addressed(Wanted), r>>
    BY <1>5, <1>7, <1>8, <1>12, <1>13, <1>14, <1>15
  <2> QED
    BY <2>1, Zenon
<1>18. pc' = IF bytes_to_read < SECTOR THEN "done" ELSE "fat"
  BY DataStep
<1> QED
  BY <1>2, <1>3, <1>4, <1>7, <1>16, <1>17, <1>18

(* A sector of the file is copied. *)
LEMMA LoadData ==
    ASSUME NEW content, GoodRead(content), ReadData(FALSE), LoadOk,
           FilesOn # {}, Readable(File)
    PROVE  LoadOk'
<1>1. /\ volume \in Volumes /\ path \in Seq(Name) /\ volume' = volume /\ path' = path
  BY FileSystemConstants DEF GoodRead, FitsInv
<1>2. /\ pc = "data" /\ bytes_to_read \in Nat /\ UNCHANGED <<cluster, bytes_to_read>>
      /\ pc' = IF bytes_to_read < SECTOR THEN "done" ELSE "fat"
      /\ cluster \in Nat => Addressed(Wanted) = SectorOfCluster(volume, cluster) % LBA_LOW
  BY CopiesSector
<1>3. PICK n \in Nat, y \in Nat :
        /\ n = IF bytes_to_read < SECTOR THEN bytes_to_read ELSE SECTOR
        /\ y = Len(dest) /\ Len(dest') = y + n
        /\ \A i \in 1 .. y : dest'[i] = dest[i]
        /\ \A r \in 1 .. n : dest'[y + r] = <<Addressed(Wanted), r>>
  BY CopiesSector
<1>4. PICK S \in Nat : S = SECTOR /\ S >= 1
  BY Numbers
<1>5. PICK k \in Nat : AtSector(k) /\ Written(k * SECTOR)
  BY <1>2 DEF LoadOk
<1>6. y = k * S /\ \A i \in 1 .. y : dest[i] = FileBytes(File)[i]
  BY <1>3, <1>4, <1>5 DEF Written
<1>7. PICK z \in Nat : z = File.size
  BY <1>1, FileIsThere
<1>8. bytes_to_read = z - y /\ bytes_to_read # 0 /\ (k = 0 \/ volume.per_cluster = 1)
  BY <1>2, <1>4, <1>5, <1>6, <1>7 DEF AtSector, LoadOk
<1>9. k * SECTOR < File.size
  BY <1>2, <1>4, <1>6, <1>7, <1>8
<1>10. /\ k < Len(File.clusters)
       /\ SectorOfCluster(volume, File.clusters[k + 1]) < LBA_LOW
  BY <1>1, <1>8, <1>9, SectorRightAt
<1>11. cluster = File.clusters[k + 1]
  BY <1>5, <1>10 DEF AtSector
<1>12. PICK s \in Nat : s = SectorOfCluster(volume, cluster) /\ s < LBA_LOW /\ cluster \in Nat
  BY <1>1, <1>10, <1>11, ClusterPlace
<1>13. Addressed(Wanted) = s
  <2>1. LBA_LOW \in Int
    BY DiskConstants
  <2> QED
    BY <1>2, <1>12, <2>1, SmallRemainder
<1>14. n <= S /\ y + n <= z
  BY <1>2, <1>3, <1>4, <1>8
<1>15. ASSUME NEW i \in 1 .. y + n PROVE dest'[i] = FileBytes(File)[i]
  <2>1. CASE i <= y
    <3>1. i \in 1 .. y
      BY <2>1
    <3>2. dest'[i] = dest[i] /\ dest[i] = FileBytes(File)[i]
      BY <1>3, <1>6, <3>1
    <3> QED
      BY <3>2
  <2>2. CASE ~(i <= y)
    <3>1. PICK r \in Nat : r \in 1 .. n /\ i = y + r
      <4>1. i - y \in Nat /\ i - y \in 1 .. n /\ i = y + (i - y)
        BY <2>2
      <4> QED
        BY <4>1
    <3>2. dest'[i] = <<s, r>>
      BY <1>3, <1>13, <3>1
    <3>3. r \in 1 .. SECTOR /\ k * SECTOR + r <= File.size
      BY <1>4, <1>6, <1>7, <1>14, <3>1
    <3>4. FileBytes(File)[k * SECTOR + r] = <<SectorOfCluster(volume, File.clusters[k + 1]), r>>
      BY <1>1, <1>8, <3>3, BytesAt
    <3> QED
      BY <1>4, <1>6, <1>11, <1>12, <3>1, <3>2, <3>4
  <2> QED
    BY <2>1, <2>2
<1>16. File' = File /\ FileBytes(File)' = FileBytes(File)
  BY <1>1, ContentKept
<1>17. Written(y + n)'
  BY <1>3, <1>15, <1>16 DEF Written
<1>18. CASE bytes_to_read < S
  <2>1. pc' = "done" /\ y + n = z
    BY <1>2, <1>3, <1>4, <1>8, <1>18
  <2>2. File.size' = y + n
    BY <1>7, <1>16, <2>1
  <2> QED
    BY <1>17, <2>1, <2>2 DEF LoadOk, Written
<1>19. CASE ~(bytes_to_read < S)
  <2>1. pc' = "fat" /\ y + n = k * SECTOR + SECTOR
    BY <1>2, <1>3, <1>4, <1>6, <1>19
  <2>2. AtSector(k)'
    BY <1>1, <1>2, <1>5, <1>16 DEF AtSector
  <2> QED
    BY <1>17, <2>1, <2>2 DEF LoadOk
<1> QED
  BY <1>18, <1>19

(* next_cluster finds the entry of a cluster that is on the low sectors. *)
LEMMA NextFound ==
    ASSUME NEW content, GoodRead(content), ReadFat(content, FALSE), FilesOn # {},
           NEW k \in Nat, k < Len(File.clusters), cluster = File.clusters[k + 1],
           SectorOfCluster(volume, cluster) < LBA_LOW
    PROVE  /\ cluster' = Next_cluster(volume, cluster)
           /\ k + 1 < Len(File.clusters) => cluster' = File.clusters[k + 1 + 1]
<1>1. /\ volume \in Volumes /\ path \in Seq(Name) /\ BootInv
  BY FileSystemConstants DEF GoodRead, FitsInv
<1>2. /\ pc = "fat"
      /\ cluster' \in IF content.kind = "fat" THEN {content.fat[cluster % FAT_ENTRIES]}
                      ELSE StaleNumbers
  BY DEF ReadFat
<1>3. PICK c : c = cluster
  OBVIOUS
<1>4. /\ c \in 2 .. (volume.fats * FAT_ENTRIES) - 1
      /\ SectorOfCluster(volume, c) \in Nat
      /\ SectorOfCluster(volume, c) >= volume.hidden + volume.reserved + volume.fats
  BY <1>1, <1>3, ClusterPlace
<1>5. PICK s : s = volume.reserved + (c \div FAT_ENTRIES) + volume.hidden
  OBVIOUS
<1>6. /\ s \in Nat /\ s < volume.hidden + volume.reserved + volume.fats
      /\ DiskSector(volume, s).kind = "fat"
      /\ DiskSector(volume, s).fat[c % FAT_ENTRIES] = Next_cluster(volume, c)
  BY <1>1, <1>4, <1>5, FatHolds
<1>7. s < LBA_LOW
  <2>1. PICK x \in Nat : x = SectorOfCluster(volume, c) /\ x < LBA_LOW
    BY <1>3, <1>4
  <2>2. PICK w \in Nat : w = volume.hidden + volume.reserved + volume.fats
    BY <1>1, VolumeFacts
  <2>3. LBA_LOW \in Nat
    BY DiskConstants
  <2> QED
    BY <1>4, <1>6, <2>1, <2>2, <2>3
<1>8. Wanted = s
  BY <1>1, <1>2, <1>3, <1>5 DEF Wanted, FatSector, BootInv, Geometry
<1>9. content = DiskSector(volume, s)
  BY <1>6, <1>7, <1>8, LowSectorRead
<1>10. cluster' = Next_cluster(volume, c)
  BY <1>2, <1>3, <1>6, <1>9
<1>11. ASSUME k + 1 < Len(File.clusters) PROVE cluster' = File.clusters[k + 1 + 1]
  <2>1. File \in Items(volume) /\ File.clusters \in Seq(Nat)
    BY <1>1, FileIsThere
  <2>2. k + 1 \in 1 .. Len(File.clusters) - 1
    BY <1>11, <2>1
  <2> QED
    BY <1>1, <1>3, <1>10, <2>1, <2>2, NextOf
<1> QED
  BY <1>3, <1>10, <1>11

(* The number of the file's next cluster is found. *)
LEMMA LoadFat ==
    ASSUME NEW content, GoodRead(content), ReadFat(content, FALSE), LoadOk,
           FilesOn # {}, Readable(File)
    PROVE  LoadOk'
<1>1. /\ volume \in Volumes /\ path \in Seq(Name) /\ BootInv
      /\ call \in {"stat", "find", "load"} /\ (IF call = "load" THEN LoopInv ELSE LookupInv)
      /\ volume' = volume /\ path' = path
  BY FileSystemConstants DEF GoodRead, FitsInv
<1>2. /\ pc = "fat" /\ bytes_to_read' = bytes_to_read - pbr.bytes /\ dest' = dest
      /\ pc' = IF bytes_to_read' = 0 THEN "done" ELSE "data"
  BY DEF ReadFat
<1>3. call = "load" /\ LoopInv
  BY <1>1, <1>2 DEF LookupInv
<1>4. bytes_to_read \in Nat /\ bytes_to_read >= SECTOR
  BY <1>2, <1>3 DEF LoopInv
<1>5. PICK S \in Nat : S = SECTOR /\ S >= 1
  BY Numbers
<1>6. pbr.bytes = S
  BY <1>1, <1>5 DEF BootInv, Geometry
<1>7. PICK k \in Nat : AtSector(k) /\ Written(k * SECTOR + SECTOR)
  BY <1>2 DEF LoadOk
<1>8. PICK y \in Nat : y = k * S
  BY <1>5
<1>9. PICK z \in Nat : z = File.size
  BY <1>1, FileIsThere
<1>10. bytes_to_read = z - y /\ (k = 0 \/ volume.per_cluster = 1)
  BY <1>5, <1>7, <1>8, <1>9 DEF AtSector
<1>11. k * SECTOR < File.size
  BY <1>4, <1>5, <1>8, <1>9, <1>10
<1>12. /\ k < Len(File.clusters)
       /\ SectorOfCluster(volume, File.clusters[k + 1]) < LBA_LOW
  BY <1>1, <1>10, <1>11, SectorRightAt
<1>13. cluster = File.clusters[k + 1]
  BY <1>7, <1>12 DEF AtSector
<1>14. File' = File /\ FileBytes(File)' = FileBytes(File)
  BY <1>1, ContentKept
<1>15. \A n : Written(n) => Written(n)'
  BY <1>2, <1>14 DEF Written
<1>16. (k + 1) * S = y + S /\ k * SECTOR + SECTOR = y + S
  BY <1>5, <1>8
<1>17. bytes_to_read' = z - (y + S) /\ bytes_to_read' \in Nat
  BY <1>2, <1>4, <1>5, <1>6, <1>10
<1>18. CASE bytes_to_read' = 0
  <2>1. z = y + S /\ pc' = "done"
    BY <1>2, <1>17, <1>18
  <2>2. Written(File.size)
    BY <1>7, <1>9, <1>16, <2>1
  <2>3. Written(File.size)'
    BY <1>2, <1>14, <2>2 DEF Written
  <2> QED
    BY <2>1, <2>3 DEF LoadOk
<1>19. CASE bytes_to_read' # 0
  <2>1. pc' = "data"
    BY <1>2, <1>19
  <2>2. volume.per_cluster = 1
    <3>1. z > S
      BY <1>8, <1>17, <1>19
    <3> QED
      BY <1>5, <1>9, <3>1 DEF Readable
  <2>3. ASSUME k + 1 < Len(File.clusters) PROVE cluster' = File.clusters[k + 1 + 1]
    BY <1>12, <1>13, <2>3, NextFound
  <2>4. bytes_to_read' = File.size - (k + 1) * SECTOR
    BY <1>5, <1>9, <1>16, <1>17
  <2>5. AtSector(k + 1)'
    BY <1>1, <1>14, <2>2, <2>3, <2>4 DEF AtSector
  <2>6. Written((k + 1) * SECTOR)'
    BY <1>5, <1>7, <1>15, <1>16
  <2>7. k + 1 \in Nat
    OBVIOUS
  <2> QED
    BY <1>19, <2>1, <2>5, <2>6, <2>7 DEF LoadOk
<1> QED
  BY <1>18, <1>19

(* The file is found: nothing of it is read yet. *)
LEMMA LoadBegins ==
    ASSUME NEW content, GoodRead(content), NEW es \in EntriesIn(content), NEW g \in Garbage,
           ReadDir(es, FALSE, g), WalkInv, FilesOn # {}, Unmistaken, call' = "load"
    PROVE  pc' = "mbr" /\ AtSector(0)' /\ Written(0 * SECTOR)'
<1>1. pc = "dir" /\ errors = 0
  BY DEF ReadDir, GoodRead
<1>2. call # "load"
  BY <1>1, DirRead
<1>3. OnPath
  BY <1>1, <1>2 DEF WalkInv, Looking
<1>4. AtFile' /\ pc' = "mbr" /\ dest' = <<>>
  BY <1>3, WalkFinds
<1>7. /\ volume \in Volumes /\ path \in Seq(Name) /\ volume' = volume /\ path' = path
  BY FileSystemConstants DEF GoodRead, FitsInv
<1>8. PICK it : it = File /\ it.size \in Nat /\ it.clusters \in Seq(Nat)
  BY <1>7, FileIsThere
<1>9. File' = it
  BY <1>7, <1>8, ContentKept
<1>10. bytes_to_read' = it.size /\ (it.clusters # <<>> => cluster' = it.clusters[1])
  BY <1>4, <1>9 DEF AtFile
<1>11. 0 * SECTOR = 0 /\ it.size - 0 = it.size /\ 0 + 1 = 1
  BY <1>8, Numbers
<1>12. 0 < Len(it.clusters) => it.clusters # <<>>
  BY EmptySeq
<1>13. AtSector(0)'
  <2>1. bytes_to_read' = it.size - 0 * SECTOR
    BY <1>10, <1>11
  <2>2. 0 < Len(it.clusters) => cluster' = it.clusters[0 + 1]
    BY <1>10, <1>11, <1>12
  <2> QED
    BY <1>9, <2>1, <2>2 DEF AtSector
<1>14. Written(0)'
  BY <1>4 DEF Written
<1>15. Written(0 * SECTOR)'
  BY <1>11, <1>14
<1> QED
  BY <1>4, <1>13, <1>15

(* The boot sectors are read again. *)
LEMMA LoadBoots ==
    ASSUME NEW content, GoodRead(content), ReadMbr(content, FALSE) \/ ReadPbr(content, FALSE),
           LoadOk, FilesOn # {}
    PROVE  LoadOk'
<1>1. /\ volume \in Volumes /\ path \in Seq(Name)
      /\ call \in {"stat", "find", "load"} /\ (IF call = "load" THEN LoopInv ELSE LookupInv)
      /\ volume' = volume /\ path' = path
  BY FileSystemConstants DEF GoodRead, FitsInv
<1>2. /\ UNCHANGED <<cluster, bytes_to_read, dest>>
      /\ \/ pc = "mbr" /\ pc' = "pbr"
         \/ pc = "pbr" /\ pc' = IF call # "load" THEN "dir"
                                ELSE IF bytes_to_read = 0 THEN "done" ELSE "data"
  <2>1. CASE ReadMbr(content, FALSE)
    BY <2>1 DEF ReadMbr
  <2>2. CASE ReadPbr(content, FALSE)
    BY <2>2 DEF ReadPbr
  <2> QED
    BY <2>1, <2>2
<1>3. File' = File /\ FileBytes(File)' = FileBytes(File)
  BY <1>1, ContentKept
<1>4. PICK k \in Nat : AtSector(k) /\ Written(k * SECTOR)
  BY <1>2 DEF LoadOk
<1>5. AtSector(k)'
  BY <1>1, <1>2, <1>3, <1>4 DEF AtSector
<1>6. Written(k * SECTOR)'
  BY <1>2, <1>3, <1>4 DEF Written
<1>7. ASSUME pc' = "done" PROVE Written(File.size)'
  <2>1. bytes_to_read = 0
    BY <1>2, <1>7
  <2>2. PICK z \in Nat, y \in Nat : z = File.size /\ y = k * SECTOR
    <3>1. k * SECTOR \in Nat
      BY FileSystemConstants
    <3> QED
      BY <1>1, <3>1, FileIsThere
  <2>3. z = y
    BY <1>4, <2>1, <2>2 DEF AtSector
  <2>4. Written(File.size)
    BY <1>4, <2>2, <2>3
  <2> QED
    BY <1>2, <1>3, <2>4 DEF Written
<1>8. pc' = "data" => bytes_to_read' # 0
  BY <1>2
<1>9. pc' # "fat"
  BY <1>2
<1> QED
  BY <1>5, <1>6, <1>7, <1>8, <1>9 DEF LoadOk

(* The invariant is kept. *)
LEMMA LoadNext ==
    ASSUME MAX_ERRORS > 0, FitsInv, WalkInv, LoadInv, [Next]_vars
    PROVE  LoadInv'
<1>0. volume \in Volumes /\ path \in Paths /\ errors \in Nat
  BY DEF FitsInv
<1>1. ASSUME NEW content, NEW failed \in BOOLEAN, Read(content, failed)
      PROVE  Reading /\ SectorRead(failed)
  BY <1>1 DEF Read, ReadMbr, ReadPbr, ReadDir, ReadData, ReadFat, SectorRead
<1> SUFFICES ASSUME errors' = 0, FilesOn' # {}, Unmistaken', call' = "load", Readable(File)'
             PROVE  LoadOk'
  BY DEF LoadInv
<1>2. CASE Good
  <2>1. PICK content : content = DiskOf[volume][Addressed(Wanted)]
    OBVIOUS
  <2>2. Read(content, FALSE) /\ Addressed(Wanted) \in 0 .. LastSector(volume)
    BY <1>0, <1>2, <2>1 DEF Good, Disk, DiskOf
  <2>3. Reading /\ SectorRead(FALSE)
    BY <1>1, <2>2
  <2>4. errors = 0 /\ volume' = volume /\ path' = path /\ drive_head' = HeadFor(Wanted)
    BY <1>0, <2>3, FailureCounts
  <2>5. drive_head' = 0
    BY <2>3, <2>4, HeadIsZero DEF FitsInv
  <2>6. GoodRead(content)
    BY <2>1, <2>2, <2>3, <2>4, <2>5 DEF GoodRead
  <2>7. FilesOn # {} /\ Unmistaken /\ Readable(File)
    BY <2>4, ContentKept
  <2>8. call = "load" => LoadOk
    BY <2>4, <2>7 DEF LoadInv
  <2>9. CASE ReadMbr(content, FALSE) \/ ReadPbr(content, FALSE)
    <3>1. ReadMbr(content, FALSE) => call = "load"
      BY DEF ReadMbr
    <3>2. ReadPbr(content, FALSE) => call = "load"
      BY DEF ReadPbr
    <3> QED
      BY <2>6, <2>7, <2>8, <2>9, <3>1, <3>2, LoadBoots
  <2>10. CASE \E es \in EntriesIn(content), g \in Garbage : ReadDir(es, FALSE, g)
    <3>1. pc' = "mbr" /\ AtSector(0)' /\ Written(0 * SECTOR)'
      BY <2>6, <2>7, <2>10, LoadBegins
    <3> QED
      BY <3>1 DEF LoadOk
  <2>11. CASE ReadData(FALSE)
    <3>1. call = "load"
      BY <2>6, <2>11, DataStep
    <3> QED
      BY <2>6, <2>7, <2>8, <2>11, <3>1, LoadData
  <2>12. CASE ReadFat(content, FALSE)
    <3>1. call = "load"
      BY <2>6, <2>12, FatStep
    <3> QED
      BY <2>6, <2>7, <2>8, <2>12, <3>1, LoadFat
  <2> QED
    BY <2>2, <2>9, <2>10, <2>11, <2>12 DEF Read
<1>3. CASE Failed
  <2>1. PICK content : Read(content, TRUE)
    BY <1>3 DEF Failed
  <2>2. SectorRead(TRUE)
    BY <1>1, <2>1
  <2> QED
    BY <1>0, <2>2, FailureCounts
<1>4. CASE Poll
  <2>1. pc' = "polling"
    BY <1>4 DEF Poll
  <2> QED
    BY <2>1 DEF LoadOk
<1>5. CASE UNCHANGED vars
  <2>1. UNCHANGED <<volume, path, pc, call, cluster, bytes_to_read, dest, errors>>
    BY <1>5 DEF vars, fs_vars
  <2>2. /\ File' = File /\ FileBytes(File)' = FileBytes(File)
        /\ FilesOn # {} /\ Unmistaken /\ Readable(File)
    BY <2>1, ContentKept
  <2>3. LoadOk
    BY <2>1, <2>2 DEF LoadInv
  <2>4. \A k : AtSector(k)' <=> AtSector(k)
    BY <2>1, <2>2 DEF AtSector
  <2>5. \A n : Written(n)' <=> Written(n)
    BY <2>1, <2>2 DEF Written
  <2>6. Written(File.size)' <=> Written(File.size)
    BY <2>1, <2>2 DEF Written
  <2> QED
    BY <2>1, <2>3, <2>4, <2>5, <2>6 DEF LoadOk
<1> QED
  BY <1>2, <1>3, <1>4, <1>5 DEF Next, Ended

-----------------------------------------------------------------------------
(* What is not Readable is not read right.                                 *)

Low(k) == \A j \in 1 .. k : FileSectors(File)[j] < LBA_LOW

(* With several sectors per cluster the second sector of the file is next  *)
(* to the first, and what is read comes from the head of another cluster.  *)
Astray == /\ pc = "data" /\ volume.per_cluster # 1 /\ Len(dest) = SECTOR
          /\ File.size > SECTOR /\ cluster \in Nat

Spoilt == \E i \in 1 .. Len(dest) : dest[i] # FileBytes(File)[i]

SpoilOk ==
    \/ Spoilt
    \/ /\ pc \in {"mbr", "pbr", "data"} =>
            Astray \/ \E k \in Nat : AtSector(k) /\ Len(dest) = k * SECTOR /\ Low(k)
       /\ pc = "data" => bytes_to_read # 0
       /\ pc = "fat" => \E k \in Nat : AtSector(k) /\ Len(dest) = k * SECTOR + SECTOR /\ Low(k + 1)
       /\ pc # "done"

SpoilInv == errors = 0 /\ FilesOn # {} /\ Unmistaken /\ call = "load" /\ ~Readable(File) => SpoilOk

(* No cluster begins where the second sector of another is. *)
LEMMA NeverBeside ==
    ASSUME NEW v \in Volumes, v.per_cluster # 1, NEW c \in Nat, NEW d \in Nat
    PROVE  SectorOfCluster(v, c) % LBA_LOW # SectorOfCluster(v, d) + 1
<1>1. PICK q \in Nat : q = v.per_cluster /\ q >= 2
  BY VolumeFacts
<1>2. PICK h \in Int : h = v.hidden + v.reserved + v.fats
  BY VolumeFacts
<1>3. PICK N \in Nat : N = LBA_LOW /\ N >= 1
  BY DiskConstants
<1>4. PICK m \in Int : N = m * q
  <2>1. N % q = 0
    BY <1>1, <1>3, ClustersAligned
  <2>2. N = (N \div q) * q + (N % q) /\ N \div q \in Int
    BY <1>1, <1>3, Quotients
  <2>3. PICK w \in Int : w = N \div q
    BY <2>2
  <2>4. PICK p \in Int : p = w * q
    OBVIOUS
  <2>5. N = p + 0
    BY <2>1, <2>2, <2>3, <2>4
  <2> QED
    BY <2>4, <2>5
<1>5. PICK x \in Int, a \in Int : x = SectorOfCluster(v, c) /\ a = c - 2 /\ x = h + a * q
  BY <1>1, <1>2 DEF SectorOfCluster
<1>6. PICK y \in Int, b \in Int : y = SectorOfCluster(v, d) /\ b = d - 2 /\ y = h + b * q
  BY <1>1, <1>2 DEF SectorOfCluster
<1>7. PICK e \in Int, t \in Int : t = x % N /\ x = e * N + t
  <2>1. N \in Int /\ N > 0
    BY <1>3
  <2> QED
    BY <2>1, Quotients
<1>8. PICK f \in Int : f = e * m
  OBVIOUS
<1>9. e * N = f * q
  BY <1>4, <1>8
<1> SUFFICES ASSUME t = y + 1 PROVE FALSE
  BY <1>3, <1>5, <1>6, <1>7
<1>10. PICK g \in Int : g = a - f - b
  OBVIOUS
<1>11. g * q = 1
  <2>1. PICK A \in Int, B \in Int, F \in Int : A = a * q /\ B = b * q /\ F = f * q
    OBVIOUS
  <2>2. g * q = A - F - B
    BY <1>10, <2>1
  <2>3. x = h + A
    BY <1>5, <2>1
  <2>4. y = h + B
    BY <1>6, <2>1
  <2>5. x = F + t
    BY <1>7, <1>9, <2>1
  <2>6. A - F - B = 1
    BY <2>3, <2>4, <2>5
  <2> QED
    BY <2>2, <2>6
<1>12. ASSUME NEW w \in Int, w >= 1 PROVE w * q >= 2
  BY <1>1, <1>12
<1>13. ASSUME NEW w \in Int, w <= 0 PROVE w * q <= 0
  BY <1>1, <1>13
<1> QED
  BY <1>11, <1>12, <1>13

(* The second sector's first byte. *)
LEMMA SecondSector ==
    ASSUME volume \in Volumes, path \in Seq(Name), FilesOn # {},
           volume.per_cluster # 1, SECTOR < File.size
    PROVE  /\ 0 < Len(File.clusters)
           /\ FileBytes(File)[SECTOR + 1] =
                <<SectorOfCluster(volume, File.clusters[1]) + 1, 1>>
<1>1. PICK S \in Nat : S = SECTOR /\ S >= 1
  BY Numbers
<1>2. PICK z \in Nat : z = File.size /\ S < z
  BY <1>1, FileIsThere
<1>3. PICK q \in Nat : q = volume.per_cluster /\ q >= 2
  BY VolumeFacts
<1>4. 0 < Len(File.clusters)
  <2>1. 0 * SECTOR < File.size
    BY <1>1, <1>2
  <2> QED
    BY <2>1, SectorRightAt
<1>5. S \div S = 1 /\ S % S = 0
  <2>1. S = 1 * S + 0 /\ 0 < S /\ 0 <= 0 /\ 0 \in Int /\ 1 \in Int /\ S \in Int
    BY <1>1
  <2> QED
    BY <1>1, <2>1, DivideAt
<1>6. 1 \div q = 0 /\ 1 % q = 1
  BY <1>3, SmallRemainder
<1>7. 2 \in 1 .. CeilDiv(z, S)
  <2>1. PICK x \in Nat : x = z + S - 1
    BY <1>1, <1>2
  <2>2. PICK c \in Int, r \in Int : c = x \div S /\ 0 <= r /\ r < S /\ x = c * S + r
    <3>1. S \in Int /\ S > 0 /\ x \in Int
      BY <1>1
    <3> QED
      BY <3>1, Quotients
  <2>3. 1 * S < c * S
    <3>1. PICK a \in Int : a = c * S
      BY <2>2
    <3>2. x = a + r
      BY <2>2, <3>1
    <3>3. x = z + S - 1 /\ S < z /\ r < S
      BY <1>2, <2>1, <2>2
    <3>4. S < a
      BY <3>2, <3>3
    <3>5. 1 * S = S
      OBVIOUS
    <3> QED
      BY <3>1, <3>4, <3>5
  <2>4. 1 < c
    BY <1>1, <2>2, <2>3, MultiplesCompare
  <2>5. c = CeilDiv(z, S)
    BY <2>1, <2>2 DEF CeilDiv
  <2> QED
    BY <2>2, <2>4, <2>5
<1>8. FileSectors(File)[2] = SectorOfCluster(volume, File.clusters[1]) + 1
  <2>1. FileSectors(File)[2] =
          SectorOfCluster(volume, File.clusters[(2 - 1) \div volume.per_cluster + 1])
             + ((2 - 1) % volume.per_cluster)
    BY <1>1, <1>2, <1>7 DEF FileSectors
  <2>2. 2 - 1 = 1 /\ 0 + 1 = 1
    OBVIOUS
  <2> QED
    BY <1>3, <1>6, <2>1, <2>2
<1>9. FileBytes(File)[S + 1] =
        <<FileSectors(File)[((S + 1 - 1) \div S) + 1], ((S + 1 - 1) % S) + 1>>
  <2>1. S + 1 \in 1 .. z
    BY <1>1, <1>2
  <2> QED
    BY <1>1, <1>2, <2>1 DEF FileBytes
<1>10. S + 1 - 1 = S /\ 1 + 1 = 2 /\ 0 + 1 = 1
  OBVIOUS
<1> QED
  BY <1>1, <1>4, <1>5, <1>8, <1>9, <1>10

(* A file all of whose sectors are low, and are read where they are, is    *)
(* Readable.                                                               *)
LEMMA LowIsReadable ==
    ASSUME volume \in Volumes, path \in Seq(Name), FilesOn # {}, NEW k \in Nat, Low(k),
           File.size <= k * SECTOR, volume.per_cluster = 1 \/ File.size <= SECTOR
    PROVE  Readable(File)
<1>1. PICK S \in Nat : S = SECTOR /\ S >= 1
  BY Numbers
<1>2. PICK z \in Nat : z = File.size /\ z <= k * S
  BY <1>1, FileIsThere
<1>3. PICK x \in Nat : x = z + S - 1
  BY <1>1, <1>2
<1>4. PICK c \in Int, r \in Int : c = x \div S /\ 0 <= r /\ r < S /\ x = c * S + r
  <2>1. S \in Int /\ S > 0 /\ x \in Int
    BY <1>1
  <2> QED
    BY <2>1, Quotients
<1>5. c < k + 1
  <2>1. PICK a \in Int, b \in Int : a = c * S /\ b = k * S
    BY <1>4
  <2>2. (k + 1) * S = b + S
    BY <2>1
  <2>3. x = a + r /\ z <= b
    BY <1>2, <1>4, <2>1
  <2>4. a < b + S
    BY <1>1, <1>3, <1>4, <2>3
  <2>5. c * S < (k + 1) * S
    BY <2>1, <2>2, <2>4
  <2> QED
    BY <1>1, <1>4, <2>5, MultiplesCompare
<1>6. c = CeilDiv(z, S)
  BY <1>3, <1>4 DEF CeilDiv
<1>7. DOMAIN FileSectors(File) = 1 .. c
  BY <1>1, <1>2, <1>6 DEF FileSectors
<1>8. \A j \in 1 .. c : j \in 1 .. k
  BY <1>4, <1>5
<1>9. \A j \in DOMAIN FileSectors(File) : FileSectors(File)[j] < LBA_LOW
  BY <1>7, <1>8 DEF Low
<1> QED
  BY <1>9 DEF Readable

(* What the FAT holds are numbers. *)
LEMMA NextIsNumber ==
    ASSUME NEW v \in Volumes, NEW c
    PROVE  Next_cluster(v, c) \in Nat
<1> DEFINE After(y) == { y.clusters[j + 1] : j \in
                           { j \in 1 .. Len(y.clusters) - 1 : y.clusters[j] = c } }
           after == UNION { After(y) : y \in Items(v) }
<1>1. ASSUME NEW x \in after PROVE x \in Nat
  <2>1. PICK y \in Items(v) : x \in After(y)
    BY <1>1, Zenon
  <2>2. PICK j \in 1 .. Len(y.clusters) - 1 : x = y.clusters[j + 1]
    BY <2>1
  <2>3. y.clusters \in Seq(Nat)
    <3>1. PICK d \in DOMAIN v.dirs : y \in Range(v.dirs[d])
      BY DEF Items
    <3>2. v.dirs[d] \in Seq(Item)
      BY <3>1, VolumeFacts
    <3>3. y \in Item
      BY <3>1, <3>2 DEF Range
    <3> QED
      BY <3>3 DEF Item
  <2> QED
    BY <2>2, <2>3
<1>2. Next_cluster(v, c) = IF after = {} THEN EOC ELSE CHOOSE x \in after : TRUE
  BY DEF Next_cluster
<1>3. EOC \in Nat
  BY FileSystemConstants
<1> HIDE DEF after
<1> QED
  BY <1>1, <1>2, <1>3

(* What is compared with stays, its sectors too. *)
LEMMA LowKept ==
    ASSUME volume' = volume, path' = path, NEW k
    PROVE  Low(k)' <=> Low(k)
<1>1. File' = File
  BY ContentKept
<1>2. FileSectors(File)' = FileSectors(File)
  BY <1>1 DEF FileSectors
<1> QED
  BY <1>2 DEF Low

(* A file that is not Readable is not over after sectors that are all low. *)
LEMMA MoreToRead ==
    ASSUME volume \in Volumes, path \in Seq(Name), FilesOn # {}, ~Readable(File),
           NEW k \in Nat, Low(k), volume.per_cluster = 1 \/ k <= 1
    PROVE  k * SECTOR < File.size
<1>1. PICK S \in Nat : S = SECTOR /\ S >= 1
  BY Numbers
<1>2. PICK z \in Nat : z = File.size
  BY FileIsThere
<1>3. PICK y \in Nat : y = k * S
  BY <1>1
<1> SUFFICES ASSUME z <= y PROVE FALSE
  BY <1>1, <1>2, <1>3
<1>4. k <= 1 => y <= S
  <2>1. k <= 1 => k = 0 \/ k = 1
    OBVIOUS
  <2>2. 0 * S = 0 /\ 1 * S = S
    OBVIOUS
  <2> QED
    BY <1>1, <1>3, <2>1, <2>2
<1>5. File.size <= k * SECTOR
  BY <1>1, <1>2, <1>3
<1>6. k <= 1 => File.size <= SECTOR
  BY <1>1, <1>2, <1>3, <1>4
<1> QED
  BY <1>5, <1>6, LowIsReadable

(* A sector is copied: the right one while there is one, else one that is  *)
(* not the file's.                                                         *)
LEMMA SpoilData ==
    ASSUME NEW content, GoodRead(content), ReadData(FALSE), SpoilOk,
           FilesOn # {}, ~Readable(File)
    PROVE  SpoilOk'
<1>1. /\ volume \in Volumes /\ path \in Seq(Name) /\ volume' = volume /\ path' = path
  BY FileSystemConstants DEF GoodRead, FitsInv
<1>2. /\ pc = "data" /\ bytes_to_read \in Nat /\ UNCHANGED <<cluster, bytes_to_read>>
      /\ pc' = IF bytes_to_read < SECTOR THEN "done" ELSE "fat"
      /\ cluster \in Nat => Addressed(Wanted) = SectorOfCluster(volume, cluster) % LBA_LOW
  BY CopiesSector
<1>3. PICK n \in Nat, y \in Nat :
        /\ n = IF bytes_to_read < SECTOR THEN bytes_to_read ELSE SECTOR
        /\ y = Len(dest) /\ Len(dest') = y + n
        /\ \A i \in 1 .. y : dest'[i] = dest[i]
        /\ \A r \in 1 .. n : dest'[y + r] = <<Addressed(Wanted), r>>
  BY CopiesSector
<1>4. PICK S \in Nat : S = SECTOR /\ S >= 1
  BY Numbers
<1>5. File' = File /\ FileBytes(File)' = FileBytes(File)
  BY <1>1, ContentKept
<1>6. CASE Spoilt
  <2>1. PICK i \in 1 .. y : dest[i] # FileBytes(File)[i]
    BY <1>3, <1>6 DEF Spoilt
  <2>2. i \in 1 .. y + n /\ dest'[i] # FileBytes(File)[i]
    BY <1>3, <2>1
  <2>3. Spoilt'
    BY <1>3, <1>5, <2>2 DEF Spoilt
  <2> QED
    BY <2>3 DEF SpoilOk
<1>7. ASSUME bytes_to_read # 0, Addressed(Wanted) # FileBytes(File)[y + 1][1]
      PROVE  Spoilt'
  <2>1. n >= 1
    BY <1>2, <1>3, <1>4, <1>7
  <2>2. 1 \in 1 .. n /\ y + 1 \in 1 .. y + n
    BY <2>1
  <2>3. dest'[y + 1] = <<Addressed(Wanted), 1>>
    BY <1>3, <2>2
  <2>4. dest'[y + 1] # FileBytes(File)[y + 1]
    BY <1>7, <2>3
  <2> QED
    BY <1>3, <1>5, <2>2, <2>4 DEF Spoilt
<1>8. CASE ~Spoilt /\ Astray
  <2>1. /\ volume.per_cluster # 1 /\ y = SECTOR /\ SECTOR < File.size /\ cluster \in Nat
        /\ bytes_to_read # 0
    <3>1. SECTOR < File.size
      <4>1. PICK z \in Nat : z = File.size
        BY <1>1, FileIsThere
      <4> QED
        BY <1>4, <1>8, <4>1 DEF Astray
    <3> QED
      BY <1>2, <1>3, <1>8, <3>1 DEF Astray, SpoilOk
  <2>2. /\ 0 < Len(File.clusters)
        /\ FileBytes(File)[SECTOR + 1] = <<SectorOfCluster(volume, File.clusters[1]) + 1, 1>>
    BY <1>1, <2>1, SecondSector
  <2>3. File.clusters[1] \in Nat
    <3>1. File.clusters \in Seq(Nat)
      BY <1>1, FileIsThere
    <3> QED
      BY <2>2, <3>1
  <2>4. SectorOfCluster(volume, cluster) % LBA_LOW #
          SectorOfCluster(volume, File.clusters[1]) + 1
    BY <1>1, <2>1, <2>3, NeverBeside
  <2>5. Addressed(Wanted) # FileBytes(File)[y + 1][1]
    BY <1>2, <2>1, <2>2, <2>4
  <2> QED
    BY <1>7, <2>1, <2>5 DEF SpoilOk
<1>9. CASE ~Spoilt /\ ~Astray
  <2>1. PICK k \in Nat : AtSector(k) /\ Len(dest) = k * SECTOR /\ Low(k)
    BY <1>2, <1>9 DEF SpoilOk
  <2>2. /\ y = k * S /\ bytes_to_read # 0 /\ bytes_to_read = File.size - k * SECTOR
        /\ k = 0 \/ volume.per_cluster = 1
    BY <1>2, <1>3, <1>4, <1>9, <2>1 DEF SpoilOk, AtSector
  <2>3. PICK z \in Nat : z = File.size
    BY <1>1, FileIsThere
  <2>4. bytes_to_read = z - y
    BY <1>4, <2>2, <2>3
  <2>5. k * SECTOR < File.size
    BY <1>2, <1>4, <2>2, <2>3, <2>4
  <2>6. /\ k < Len(File.clusters)
        /\ FileSectors(File)[k + 1] = SectorOfCluster(volume, File.clusters[k + 1])
    BY <1>1, <2>2, <2>5, SectorRightAt
  <2>7. cluster = File.clusters[k + 1]
    BY <2>1, <2>6 DEF AtSector
  <2>8. PICK s \in Nat : s = SectorOfCluster(volume, cluster) /\ cluster \in Nat
    BY <1>1, <2>6, <2>7, ClusterPlace
  <2>9. PICK L \in Nat : L = LBA_LOW /\ L >= 1
    BY DiskConstants
  <2>10. Addressed(Wanted) = s % L
    BY <1>2, <2>8, <2>9
  <2>11. CASE s >= L
    <3>1. s % L # s
      <4>1. s % L < L /\ s % L \in Int
        BY <2>9, Quotients
      <4> QED
        BY <2>11, <4>1
    <3>2. 1 \in 1 .. SECTOR /\ k * SECTOR + 1 <= File.size
      BY <1>4, <2>2, <2>3, <2>5
    <3>3. FileBytes(File)[k * SECTOR + 1] = <<SectorOfCluster(volume, File.clusters[k + 1]), 1>>
      BY <1>1, <2>2, <3>2, BytesAt
    <3>4. FileBytes(File)[y + 1] = <<s, 1>>
      BY <1>4, <2>2, <2>7, <2>8, <3>3
    <3>5. Addressed(Wanted) # FileBytes(File)[y + 1][1]
      BY <2>10, <3>1, <3>4
    <3> QED
      BY <1>7, <2>2, <3>5 DEF SpoilOk
  <2>12. CASE s < L
    <3>1. Low(k + 1)
      <4>1. ASSUME NEW j \in 1 .. k + 1 PROVE FileSectors(File)[j] < LBA_LOW
        <5>1. CASE j = k + 1
          BY <2>6, <2>7, <2>8, <2>9, <2>12, <5>1
        <5>2. CASE j # k + 1
          <6>1. j \in 1 .. k
            BY <5>2
          <6> QED
            BY <2>1, <6>1 DEF Low
        <5> QED
          BY <5>1, <5>2
      <4> QED
        BY <4>1 DEF Low
    <3>2. (k + 1) * SECTOR < File.size
      <4>1. k + 1 \in Nat /\ (k = 0 => k + 1 <= 1)
        OBVIOUS
      <4> QED
        BY <1>1, <2>2, <3>1, <4>1, MoreToRead
    <3>3. (k + 1) * S = y + S
      BY <2>2
    <3>4. y + S < z
      BY <1>4, <2>3, <3>2, <3>3
    <3>5. pc' = "fat" /\ n = S
      BY <1>2, <1>3, <1>4, <2>4, <3>4
    <3>6. AtSector(k)'
      BY <1>1, <1>2, <1>5, <2>1 DEF AtSector
    <3>7. Low(k + 1)'
      BY <1>1, <3>1, LowKept
    <3>8. Len(dest)' = k * SECTOR + SECTOR
      BY <1>3, <1>4, <2>2, <3>5
    <3> QED
      BY <3>5, <3>6, <3>7, <3>8 DEF SpoilOk
  <2> QED
    BY <2>9, <2>11, <2>12
<1> QED
  BY <1>6, <1>8, <1>9

(* The number of the next cluster is found; it is used for the next sector.*)
LEMMA SpoilFat ==
    ASSUME NEW content, GoodRead(content), ReadFat(content, FALSE), SpoilOk,
           FilesOn # {}, ~Readable(File)
    PROVE  SpoilOk'
<1>1. /\ volume \in Volumes /\ path \in Seq(Name) /\ BootInv
      /\ call \in {"stat", "find", "load"} /\ (IF call = "load" THEN LoopInv ELSE LookupInv)
      /\ volume' = volume /\ path' = path
  BY FileSystemConstants DEF GoodRead, FitsInv
<1>2. /\ pc = "fat" /\ bytes_to_read' = bytes_to_read - pbr.bytes /\ dest' = dest
      /\ pc' = IF bytes_to_read' = 0 THEN "done" ELSE "data"
  BY DEF ReadFat
<1>3. PICK S \in Nat : S = SECTOR /\ S >= 1
  BY Numbers
<1>4. pbr.bytes = S
  BY <1>1, <1>3 DEF BootInv, Geometry
<1>5. File' = File /\ FileBytes(File)' = FileBytes(File)
  BY <1>1, ContentKept
<1>6. CASE Spoilt
  BY <1>2, <1>5, <1>6 DEF Spoilt, SpoilOk
<1>7. CASE ~Spoilt
  <2>1. PICK k \in Nat : /\ AtSector(k) /\ Len(dest) = k * SECTOR + SECTOR
                         /\ Low(k + 1)
    BY <1>2, <1>7 DEF SpoilOk
  <2>2. PICK y \in Nat : y = k * S
    BY <1>3
  <2>3. PICK z \in Nat : z = File.size
    BY <1>1, FileIsThere
  <2>4. bytes_to_read = z - y /\ (k = 0 \/ volume.per_cluster = 1)
    BY <1>3, <2>1, <2>2, <2>3 DEF AtSector
  <2>5. (k + 1) * S = y + S /\ k + 1 \in Nat /\ (k = 0 => k + 1 <= 1)
    BY <1>3, <2>2
  <2>6. (k + 1) * SECTOR < File.size
    BY <1>1, <2>1, <2>4, <2>5, MoreToRead
  <2>7. y + S < z
    BY <1>3, <2>3, <2>5, <2>6
  <2>8. bytes_to_read' = z - (y + S) /\ bytes_to_read' # 0 /\ pc' = "data"
    BY <1>2, <1>3, <1>4, <2>4, <2>7
  <2>9. k * SECTOR < File.size
    BY <1>3, <2>2, <2>3, <2>7
  <2>10. /\ k < Len(File.clusters)
         /\ FileSectors(File)[k + 1] = SectorOfCluster(volume, File.clusters[k + 1])
    BY <1>1, <2>4, <2>9, SectorRightAt
  <2>11. cluster = File.clusters[k + 1]
    BY <2>1, <2>10 DEF AtSector
  <2>12. SectorOfCluster(volume, cluster) < LBA_LOW
    <3>1. k + 1 \in 1 .. k + 1
      OBVIOUS
    <3> QED
      BY <2>1, <2>10, <2>11, <3>1 DEF Low
  <2>13. /\ cluster' = Next_cluster(volume, cluster)
         /\ k + 1 < Len(File.clusters) => cluster' = File.clusters[k + 1 + 1]
    BY <2>10, <2>11, <2>12, NextFound
  <2>14. Len(dest)' = y + S
    BY <1>2, <1>3, <2>1, <2>2
  <2>15. CASE volume.per_cluster = 1
    <3>1. bytes_to_read' = File.size - (k + 1) * SECTOR
      BY <1>3, <2>3, <2>5, <2>8
    <3>2. AtSector(k + 1)'
      BY <1>1, <1>5, <2>13, <2>15, <3>1 DEF AtSector
    <3>3. Low(k + 1)'
      BY <1>1, <2>1, LowKept
    <3>4. Len(dest)' = (k + 1) * SECTOR
      BY <1>3, <2>5, <2>14
    <3> QED
      BY <2>5, <2>8, <3>2, <3>3, <3>4 DEF SpoilOk
  <2>16. CASE volume.per_cluster # 1
    <3>1. k = 0
      BY <2>4, <2>16
    <3>2. y = 0
      BY <2>2, <3>1
    <3>3. Len(dest)' = SECTOR
      BY <1>3, <2>14, <3>2
    <3>4. File.size' > SECTOR
      BY <1>3, <1>5, <2>3, <2>7, <3>2
    <3>5. cluster' \in Nat
      BY <1>1, <2>13, NextIsNumber
    <3>6. Astray'
      BY <1>1, <2>8, <2>16, <3>3, <3>4, <3>5 DEF Astray
    <3> QED
      BY <2>8, <3>6 DEF SpoilOk
  <2> QED
    BY <2>15, <2>16
<1> QED
  BY <1>6, <1>7

(* The boot sectors are read again. *)
LEMMA SpoilBoots ==
    ASSUME NEW content, GoodRead(content), ReadMbr(content, FALSE) \/ ReadPbr(content, FALSE),
           SpoilOk, FilesOn # {}, ~Readable(File), call = "load"
    PROVE  SpoilOk'
<1>1. /\ volume \in Volumes /\ path \in Seq(Name) /\ volume' = volume /\ path' = path
  BY FileSystemConstants DEF GoodRead, FitsInv
<1>2. /\ UNCHANGED <<cluster, bytes_to_read, dest>>
      /\ \/ pc = "mbr" /\ pc' = "pbr"
         \/ pc = "pbr" /\ pc' = IF bytes_to_read = 0 THEN "done" ELSE "data"
  <2>1. CASE ReadMbr(content, FALSE)
    BY <2>1 DEF ReadMbr
  <2>2. CASE ReadPbr(content, FALSE)
    BY <2>2 DEF ReadPbr
  <2> QED
    BY <2>1, <2>2
<1>3. File' = File /\ FileBytes(File)' = FileBytes(File)
  BY <1>1, ContentKept
<1>4. CASE Spoilt
  BY <1>2, <1>3, <1>4 DEF Spoilt, SpoilOk
<1>5. CASE ~Spoilt
  <2>1. ~Astray
    BY <1>2 DEF Astray
  <2>2. PICK k \in Nat : AtSector(k) /\ Len(dest) = k * SECTOR /\ Low(k)
    BY <1>2, <1>5, <2>1 DEF SpoilOk
  <2>3. AtSector(k)'
    BY <1>1, <1>2, <1>3, <2>2 DEF AtSector
  <2>4. Low(k)' /\ Len(dest)' = k * SECTOR
    BY <1>1, <1>2, <2>2, LowKept
  <2>5. bytes_to_read # 0
    <3>1. volume.per_cluster = 1 \/ k <= 1
      BY <2>2 DEF AtSector
    <3>2. k * SECTOR < File.size
      BY <1>1, <2>2, <3>1, MoreToRead
    <3>3. PICK z \in Nat, y \in Nat : z = File.size /\ y = k * SECTOR
      <4>1. k * SECTOR \in Nat
        BY FileSystemConstants
      <4> QED
        BY <1>1, <4>1, FileIsThere
    <3> QED
      BY <2>2, <3>2, <3>3 DEF AtSector
  <2>6. pc' \in {"pbr", "data"} /\ bytes_to_read' # 0
    BY <1>2, <2>5
  <2> QED
    BY <2>3, <2>4, <2>6 DEF SpoilOk
<1> QED
  BY <1>4, <1>5

(* The invariant is kept. *)
LEMMA SpoilNext ==
    ASSUME MAX_ERRORS > 0, FitsInv, WalkInv, SpoilInv, [Next]_vars
    PROVE  SpoilInv'
<1>0. volume \in Volumes /\ path \in Paths /\ errors \in Nat
  BY DEF FitsInv
<1>1. ASSUME NEW content, NEW failed \in BOOLEAN, Read(content, failed)
      PROVE  Reading /\ SectorRead(failed)
  BY <1>1 DEF Read, ReadMbr, ReadPbr, ReadDir, ReadData, ReadFat, SectorRead
<1> SUFFICES ASSUME errors' = 0, FilesOn' # {}, Unmistaken', call' = "load", ~Readable(File)'
             PROVE  SpoilOk'
  BY DEF SpoilInv
<1>2. CASE Good
  <2>1. PICK content : content = DiskOf[volume][Addressed(Wanted)]
    OBVIOUS
  <2>2. Read(content, FALSE) /\ Addressed(Wanted) \in 0 .. LastSector(volume)
    BY <1>0, <1>2, <2>1 DEF Good, Disk, DiskOf
  <2>3. Reading /\ SectorRead(FALSE)
    BY <1>1, <2>2
  <2>4. errors = 0 /\ volume' = volume /\ path' = path /\ drive_head' = HeadFor(Wanted)
    BY <1>0, <2>3, FailureCounts
  <2>5. drive_head' = 0
    BY <2>3, <2>4, HeadIsZero DEF FitsInv
  <2>6. GoodRead(content)
    BY <2>1, <2>2, <2>3, <2>4, <2>5 DEF GoodRead
  <2>7. FilesOn # {} /\ Unmistaken /\ ~Readable(File)
    BY <2>4, ContentKept
  <2>8. call = "load" => SpoilOk
    BY <2>4, <2>7 DEF SpoilInv
  <2>9. CASE ReadMbr(content, FALSE) \/ ReadPbr(content, FALSE)
    <3>1. ReadMbr(content, FALSE) => call = "load"
      BY DEF ReadMbr
    <3>2. ReadPbr(content, FALSE) => call = "load"
      BY DEF ReadPbr
    <3> QED
      BY <2>6, <2>7, <2>8, <2>9, <3>1, <3>2, SpoilBoots
  <2>10. CASE \E es \in EntriesIn(content), g \in Garbage : ReadDir(es, FALSE, g)
    <3>1. pc' = "mbr" /\ AtSector(0)' /\ Written(0 * SECTOR)'
      BY <2>6, <2>7, <2>10, LoadBegins
    <3>2. Len(dest)' = 0 * SECTOR
      BY <3>1 DEF Written
    <3>3. Low(0)'
      BY DEF Low
    <3> QED
      BY <3>1, <3>2, <3>3 DEF SpoilOk
  <2>11. CASE ReadData(FALSE)
    <3>1. call = "load"
      BY <2>6, <2>11, DataStep
    <3> QED
      BY <2>6, <2>7, <2>8, <2>11, <3>1, SpoilData
  <2>12. CASE ReadFat(content, FALSE)
    <3>1. call = "load"
      BY <2>6, <2>12, FatStep
    <3> QED
      BY <2>6, <2>7, <2>8, <2>12, <3>1, SpoilFat
  <2> QED
    BY <2>2, <2>9, <2>10, <2>11, <2>12 DEF Read
<1>3. CASE Failed
  <2>1. PICK content : Read(content, TRUE)
    BY <1>3 DEF Failed
  <2>2. SectorRead(TRUE)
    BY <1>1, <2>1
  <2> QED
    BY <1>0, <2>2, FailureCounts
<1>4. CASE Poll
  <2>1. pc' = "polling"
    BY <1>4 DEF Poll
  <2> QED
    BY <2>1 DEF SpoilOk
<1>5. CASE UNCHANGED vars
  <2>1. UNCHANGED <<volume, path, pc, call, cluster, bytes_to_read, dest, errors>>
    BY <1>5 DEF vars, fs_vars
  <2>2. /\ File' = File /\ FileBytes(File)' = FileBytes(File)
        /\ FilesOn # {} /\ Unmistaken /\ ~Readable(File)
    BY <2>1, ContentKept
  <2>3. SpoilOk
    BY <2>1, <2>2 DEF SpoilInv
  <2>4. \A k : AtSector(k)' <=> AtSector(k)
    BY <2>1, <2>2 DEF AtSector
  <2>5. \A k : Low(k)' <=> Low(k)
    BY <2>1, LowKept
  <2>6. (Astray' <=> Astray) /\ (Spoilt' <=> Spoilt)
    BY <2>1, <2>2 DEF Astray, Spoilt
  <2> QED
    BY <2>1, <2>3, <2>4, <2>5, <2>6 DEF SpoilOk
<1> QED
  BY <1>2, <1>3, <1>4, <1>5 DEF Next, Ended

(* As long as no read fails, fs_read (fat32_read's loop over read_cluster  *)
(* and next_cluster) delivers the file that the path leads to byte for     *)
(* byte exactly when it is no longer than a sector, or the clusters are of *)
(* one sector, and its sectors are all among those that the three address  *)
(* registers tell apart; unless the root directory is not at cluster 2, or *)
(* another name, or what the uninitialised name buffer can hold, may be    *)
(* taken for a name of the path (Unmistaken).  The hypothesis says that    *)
(* failed reads are counted.                                               *)
THEOREM FilesReadExactly ==
    ASSUME MAX_ERRORS > 0
    PROVE  Spec => []ReadExactly
<1> DEFINE Inv == FitsInv /\ WalkInv /\ LoadInv /\ SpoilInv
<1>1. Init => Inv
  <2>1. Init => LoadInv /\ SpoilInv
    BY DEF Init, LoadInv, SpoilInv
  <2> QED
    BY <2>1, FitsInit, WalkInit
<1>2. Inv /\ [Next]_vars => Inv'
  BY FitsNext, WalkNext, LoadNext, SpoilNext
<1>3. Inv => ReadExactly
  <2> SUFFICES ASSUME Inv, errors = 0, pc = "done", FilesOn # {}, Unmistaken
               PROVE  dest = FileBytes(File) <=> Readable(File)
    BY DEF ReadExactly, NoErrors
  <2>1. call = "load" /\ LoopInv
    BY DEF FitsInv, LookupInv
  <2>2. dest \in Seq(Bytes)
    BY <2>1 DEF LoopInv
  <2>3. ASSUME Readable(File) PROVE dest = FileBytes(File)
    <3>1. Written(File.size)
      BY <2>1, <2>3 DEF LoadInv, LoadOk
    <3>2. PICK z \in Nat : z = File.size
      BY FileIsThere, FileSystemConstants DEF FitsInv
    <3>3. Len(dest) = z /\ \A i \in 1 .. z : dest[i] = FileBytes(File)[i]
      BY <3>1, <3>2 DEF Written
    <3>4. dest = [i \in 1 .. z |-> dest[i]]
      BY <2>2, <3>3
    <3>5. PICK B : B = FileBytes(File) /\ B = [i \in 1 .. z |-> B[i]]
      BY <3>2 DEF FileBytes
    <3> QED
      BY <3>3, <3>4, <3>5
  <2>4. ASSUME ~Readable(File) PROVE dest # FileBytes(File)
    <3>1. Spoilt
      BY <2>1, <2>4 DEF SpoilInv, SpoilOk
    <3> QED
      BY <3>1 DEF Spoilt
  <2> QED
    BY <2>3, <2>4
<1> QED
  BY <1>1, <1>2, <1>3, PTL DEF Spec
=============================================================================

---------------------------- MODULE AddrManProofs ----------------------------
(***************************************************************************)
(* Proofs about the tables of peer addresses, for any finite set of         *)
(* addresses and of new buckets, any bucket sizes and any hash.             *)
(*                                                                          *)
(* An operation of CAddrMan is a composition of small changes.  A lemma for *)
(* each says which members it changes; another that the tables stay         *)
(* Coherent, which is the part of Check that also holds in the middle of an *)
(* operation.                                                               *)
(***************************************************************************)
EXTENDS AddrMan, FiniteSetTheorems, SequenceTheorems, TLAPS

\* Check without the bounds on references.
Coherent(m) ==
    /\ m \in AddrManType
    /\ PlacesExact(m) /\ ReferencesExact(m) /\ CountersExact(m) /\ EntriesOnly(m)

\* The invariant of the tables between two operations.
Sound(m) == Coherent(m) /\ Bounded(m) /\ Referenced(m, m.mapInfo)

\* The members that vRandom's order does not touch.
SameTables(m, r) ==
    /\ r.source = m.source /\ r.nRefCount = m.nRefCount /\ r.fInTried = m.fInTried
    /\ r.vvNew = m.vvNew /\ r.vvTried = m.vvTried
    /\ r.nNew = m.nNew /\ r.nTried = m.nTried

\* A reference more and a reference less, as in AddToBucket and ShrinkNew.
AddRef(m, a, b) == [m EXCEPT !.nRefCount[a] = @ + 1, !.vvNew[b] = @ \cup {a}]
DropRef(m, b, x) == [m EXCEPT !.nRefCount[x] = @ - 1, !.vvNew[b] = @ \ {x}]

\* What MakeTried does to an entry when its tried bucket has a place.
Promote(m, a) == EnterTried(LeaveNew(m, a), a)

-----------------------------------------------------------------------------
\* Subsets of the addresses and of the new buckets can be counted.
LEMMA FiniteParts ==
    /\ \A S \in SUBSET Addr : IsFiniteSet(S) /\ Cardinality(S) \in Nat
    /\ \A S \in SUBSET NewBucket : IsFiniteSet(S) /\ Cardinality(S) \in Nat
  BY AddrManAssumption, FS_Subset, FS_CardinalityType

\* What SwapRandom changes.
LEMMA SwapFields ==
    ASSUME NEW m \in AddrManType, NEW i \in 1 .. Len(m.vRandom), NEW j \in 1 .. Len(m.vRandom)
    PROVE  /\ SwapRandom(m, i, j) \in AddrManType
           /\ SameTables(m, SwapRandom(m, i, j))
           /\ SwapRandom(m, i, j).mapInfo = m.mapInfo
           /\ Len(SwapRandom(m, i, j).vRandom) = Len(m.vRandom)
           /\ \A p \in 1 .. Len(m.vRandom) :
                 SwapRandom(m, i, j).vRandom[p] = IF p = j THEN m.vRandom[i]
                                                  ELSE IF p = i THEN m.vRandom[j]
                                                  ELSE m.vRandom[p]
           /\ \A a \in Addr :
                 SwapRandom(m, i, j).nRandomPos[a] = IF a = m.vRandom[j] THEN i
                                                     ELSE IF a = m.vRandom[i] THEN j
                                                     ELSE m.nRandomPos[a]
  <1>. DEFINE v == m.vRandom
              w == [v EXCEPT ![i] = v[j], ![j] = v[i]]
              q == [m.nRandomPos EXCEPT ![v[i]] = j, ![v[j]] = i]
  <1>1. v \in Seq(Addr) /\ Len(v) \in Nat /\ v \in [1 .. Len(v) -> Addr]
    BY LenProperties DEF AddrManType
  <1>2. v[i] \in Addr /\ v[j] \in Addr
    BY <1>1
  <1>3. /\ w \in [1 .. Len(v) -> Addr]
        /\ \A p \in 1 .. Len(v) : w[p] = IF p = j THEN v[i] ELSE IF p = i THEN v[j] ELSE v[p]
    BY <1>1, <1>2
  <1>4. w \in Seq(Addr) /\ Len(w) = Len(v)
    <2>1. w \in Seq(Addr)
      BY <1>1, <1>3, SeqDef
    <2>2. DOMAIN w = 1 .. Len(w) /\ DOMAIN w = 1 .. Len(v) /\ Len(w) \in Nat
      BY <1>3, <2>1, LenProperties
    <2>. QED
      BY <1>1, <2>1, <2>2
  <1>5. /\ q \in [Addr -> Nat]
        /\ \A a \in Addr : q[a] = IF a = v[j] THEN i ELSE IF a = v[i] THEN j ELSE m.nRandomPos[a]
    <2>1. m.nRandomPos \in [Addr -> Nat] /\ i \in Nat /\ j \in Nat
      BY DEF AddrManType
    <2>. HIDE DEF v
    <2>. QED
      BY <1>2, <2>1
  <1>6. SwapRandom(m, i, j) = [m EXCEPT !.nRandomPos = q, !.vRandom = w]
    BY DEF SwapRandom
  <1>. HIDE DEF w, q
  <1>7. /\ SwapRandom(m, i, j) \in AddrManType
        /\ SwapRandom(m, i, j).mapInfo = m.mapInfo
        /\ SwapRandom(m, i, j).vRandom = w /\ SwapRandom(m, i, j).nRandomPos = q
        /\ SameTables(m, SwapRandom(m, i, j))
    BY <1>4, <1>5, <1>6 DEF AddrManType, SameTables
  <1>. QED
    BY <1>3, <1>4, <1>5, <1>7

\* vRandom and the positions agree after SwapRandom.
LEMMA SwapPlaces ==
    ASSUME NEW m \in AddrManType, PlacesExact(m),
           NEW i \in 1 .. Len(m.vRandom), NEW j \in 1 .. Len(m.vRandom)
    PROVE  PlacesExact(SwapRandom(m, i, j))
  <1>. DEFINE v == m.vRandom
              r == SwapRandom(m, i, j)
  <1>1. /\ r \in AddrManType /\ r.mapInfo = m.mapInfo /\ Len(r.vRandom) = Len(v)
        /\ \A p \in 1 .. Len(v) :
              r.vRandom[p] = IF p = j THEN v[i] ELSE IF p = i THEN v[j] ELSE v[p]
        /\ \A a \in Addr : r.nRandomPos[a] = IF a = v[j] THEN i ELSE IF a = v[i] THEN j
                                             ELSE m.nRandomPos[a]
    BY SwapFields
  <1>2. DOMAIN v = 1 .. Len(v) /\ DOMAIN r.vRandom = 1 .. Len(v)
    BY <1>1, LenProperties DEF AddrManType
  <1>3. \A p \in 1 .. Len(v) : v[p] \in m.mapInfo /\ v[p] \in Addr /\ m.nRandomPos[v[p]] = p
    BY <1>2 DEF PlacesExact, AddrManType
  <1>4. \A a \in m.mapInfo : /\ a \in Addr /\ m.nRandomPos[a] \in 1 .. Len(v)
                             /\ v[m.nRandomPos[a]] = a
    BY <1>2 DEF PlacesExact, AddrManType
  <1>. HIDE DEF r
  <1>0. \A p, k \in 1 .. Len(v) : v[p] = v[k] => p = k
    BY <1>3
  <1>5. ASSUME NEW p \in 1 .. Len(v)
        PROVE  r.vRandom[p] \in m.mapInfo /\ r.nRandomPos[r.vRandom[p]] = p
    <2>1. CASE p = j
      BY <1>0, <1>1, <1>3, <2>1
    <2>2. CASE p # j /\ p = i
      BY <1>0, <1>1, <1>3, <2>2
    <2>3. CASE p # j /\ p # i
      <3>1. r.vRandom[p] = v[p] /\ v[p] # v[i] /\ v[p] # v[j]
        BY <1>0, <1>1, <2>3
      <3>. QED
        BY <1>1, <1>3, <3>1
    <2>. QED
      BY <2>1, <2>2, <2>3
  <1>6. ASSUME NEW a \in m.mapInfo
        PROVE  r.nRandomPos[a] \in 1 .. Len(v) /\ r.vRandom[r.nRandomPos[a]] = a
    <2>1. CASE a = v[j]
      BY <1>0, <1>1, <1>3, <1>4, <2>1
    <2>2. CASE a # v[j] /\ a = v[i]
      BY <1>0, <1>1, <1>3, <1>4, <2>2
    <2>3. CASE a # v[j] /\ a # v[i]
      <3>1. /\ r.nRandomPos[a] = m.nRandomPos[a]
            /\ m.nRandomPos[a] # i /\ m.nRandomPos[a] # j
        BY <1>1, <1>3, <1>4, <2>3
      <3>. QED
        BY <1>1, <1>4, <3>1
    <2>. QED
      BY <2>1, <2>2, <2>3
  <1>7. PlacesExact(r)
    BY <1>1, <1>2, <1>5, <1>6 DEF PlacesExact
  <1>. QED
    BY <1>7 DEF r

\* GetAddr_ only changes the order.
LEMMA SwapCoherent ==
    ASSUME NEW m, Coherent(m), NEW i \in 1 .. Len(m.vRandom), NEW j \in 1 .. Len(m.vRandom)
    PROVE  Coherent(SwapRandom(m, i, j))
  <1>. DEFINE r == SwapRandom(m, i, j)
  <1>1. m \in AddrManType /\ PlacesExact(m)
    BY DEF Coherent
  <1>2. r \in AddrManType /\ r.mapInfo = m.mapInfo /\ SameTables(m, r) /\ Len(r.vRandom) = Len(m.vRandom)
    BY <1>1, SwapFields
  <1>3. PlacesExact(r)
    BY <1>1, SwapPlaces
  <1>. HIDE DEF r
  <1>4. ReferencesExact(r) /\ CountersExact(r) /\ EntriesOnly(r)
    BY <1>2 DEF Coherent, ReferencesExact, CountersExact, EntriesOnly, SameTables
  <1>5. Coherent(r)
    BY <1>2, <1>3, <1>4 DEF Coherent
  <1>. QED
    BY <1>5 DEF r

-----------------------------------------------------------------------------
\* An address enters a new bucket: it is in one more.
LEMMA BucketsAfterAdd ==
    ASSUME NEW vv \in [NewBucket -> SUBSET Addr], NEW b \in NewBucket,
           NEW a \in Addr, a \notin vv[b]
    PROVE  LET ww == [vv EXCEPT ![b] = @ \cup {a}]
           IN  /\ Cardinality({c \in NewBucket : a \in ww[c]})
                    = Cardinality({c \in NewBucket : a \in vv[c]}) + 1
               /\ \A y \in Addr \ {a} : {c \in NewBucket : y \in ww[c]}
                                         = {c \in NewBucket : y \in vv[c]}
  <1>. DEFINE ww == [vv EXCEPT ![b] = @ \cup {a}]
              P == {c \in NewBucket : a \in vv[c]}
  <1>1. \A c \in NewBucket : ww[c] = IF c = b THEN vv[b] \cup {a} ELSE vv[c]
    OBVIOUS
  <1>. HIDE DEF ww
  <1>2. {c \in NewBucket : a \in ww[c]} = P \cup {b}
    BY <1>1
  <1>3. IsFiniteSet(P) /\ b \notin P
    BY FiniteParts
  <1>4. Cardinality(P \cup {b}) = Cardinality(P) + 1
    <2>. HIDE DEF P
    <2>. QED
      BY <1>3, FS_AddElement
  <1>5. \A y \in Addr \ {a} : {c \in NewBucket : y \in ww[c]} = {c \in NewBucket : y \in vv[c]}
    BY <1>1
  <1>6. /\ Cardinality({c \in NewBucket : a \in ww[c]}) = Cardinality(P) + 1
        /\ \A y \in Addr \ {a} : {c \in NewBucket : y \in ww[c]} = {c \in NewBucket : y \in vv[c]}
    BY <1>2, <1>4, <1>5
  <1>. QED
    BY <1>6 DEF ww

\* An address leaves a new bucket: it is in one less.
LEMMA BucketsAfterRemove ==
    ASSUME NEW vv \in [NewBucket -> SUBSET Addr], NEW b \in NewBucket,
           NEW x \in Addr, x \in vv[b]
    PROVE  LET ww == [vv EXCEPT ![b] = @ \ {x}]
           IN  /\ Cardinality({c \in NewBucket : x \in ww[c]})
                    = Cardinality({c \in NewBucket : x \in vv[c]}) - 1
               /\ Cardinality({c \in NewBucket : x \in vv[c]}) \in Nat \ {0}
               /\ \A y \in Addr \ {x} : {c \in NewBucket : y \in ww[c]}
                                         = {c \in NewBucket : y \in vv[c]}
  <1>. DEFINE ww == [vv EXCEPT ![b] = @ \ {x}]
              P == {c \in NewBucket : x \in vv[c]}
  <1>1. \A c \in NewBucket : ww[c] = IF c = b THEN vv[b] \ {x} ELSE vv[c]
    OBVIOUS
  <1>. HIDE DEF ww
  <1>2. {c \in NewBucket : x \in ww[c]} = P \ {b}
    BY <1>1
  <1>3. IsFiniteSet(P) /\ Cardinality(P) \in Nat /\ b \in P
    BY FiniteParts
  <1>4. Cardinality(P \ {b}) = Cardinality(P) - 1 /\ Cardinality(P) # 0
    <2>. HIDE DEF P
    <2>. QED
      BY <1>3, FS_RemoveElement, FS_EmptySet
  <1>5. \A y \in Addr \ {x} : {c \in NewBucket : y \in ww[c]} = {c \in NewBucket : y \in vv[c]}
    BY <1>1
  <1>6. /\ Cardinality({c \in NewBucket : x \in ww[c]}) = Cardinality(P) - 1
        /\ Cardinality(P) \in Nat \ {0}
        /\ \A y \in Addr \ {x} : {c \in NewBucket : y \in ww[c]} = {c \in NewBucket : y \in vv[c]}
    BY <1>2, <1>3, <1>4, <1>5
  <1>. QED
    BY <1>6 DEF ww

-----------------------------------------------------------------------------
\* What Create changes.
LEMMA CreateFields ==
    ASSUME NEW m \in AddrManType, NEW a \in Addr, NEW s \in Source
    PROVE  LET r == Create(m, a, s)
           IN  /\ r \in AddrManType
               /\ r.mapInfo = m.mapInfo \cup {a}
               /\ r.source = [m.source EXCEPT ![a] = s]
               /\ r.nRefCount = [m.nRefCount EXCEPT ![a] = 0]
               /\ r.fInTried = [m.fInTried EXCEPT ![a] = FALSE]
               /\ r.nRandomPos = [m.nRandomPos EXCEPT ![a] = Len(m.vRandom) + 1]
               /\ r.vRandom = Append(m.vRandom, a)
               /\ r.vvNew = m.vvNew /\ r.vvTried = m.vvTried
               /\ r.nNew = m.nNew + 1 /\ r.nTried = m.nTried
  <1>1. /\ m.vRandom \in Seq(Addr) /\ Append(m.vRandom, a) \in Seq(Addr)
        /\ Len(m.vRandom) + 1 \in Nat /\ m.nNew + 1 \in Nat
    BY AppendProperties, LenProperties DEF AddrManType
  <1>. QED
    BY <1>1 DEF Create, AddrManType

\* A new entry without references: the tables are coherent, and the bounds on
\* references hold for the others.
LEMMA CreateCoherent ==
    ASSUME NEW m, Coherent(m), NEW a \in Addr, a \notin m.mapInfo, NEW s \in Source
    PROVE  Coherent(Create(m, a, s))
  <1>. DEFINE r == Create(m, a, s)
              n == Len(m.vRandom)
  <1>0. m \in AddrManType /\ m.mapInfo \subseteq Addr /\ m.vRandom \in Seq(Addr)
    BY DEF Coherent, AddrManType
  <1>1. /\ r \in AddrManType
        /\ r.mapInfo = m.mapInfo \cup {a}
        /\ r.source = [m.source EXCEPT ![a] = s]
        /\ r.nRefCount = [m.nRefCount EXCEPT ![a] = 0]
        /\ r.fInTried = [m.fInTried EXCEPT ![a] = FALSE]
        /\ r.nRandomPos = [m.nRandomPos EXCEPT ![a] = n + 1]
        /\ r.vRandom = Append(m.vRandom, a)
        /\ r.vvNew = m.vvNew /\ r.vvTried = m.vvTried
        /\ r.nNew = m.nNew + 1 /\ r.nTried = m.nTried
    BY <1>0, CreateFields
  <1>. HIDE DEF r
  <1>2. /\ n \in Nat /\ DOMAIN m.vRandom = 1 .. n
        /\ Len(r.vRandom) = n + 1 /\ DOMAIN r.vRandom = 1 .. n + 1
        /\ \A i \in 1 .. n : r.vRandom[i] = m.vRandom[i]
        /\ r.vRandom[n + 1] = a
    BY <1>0, <1>1, AppendProperties, LenProperties
  <1>. HIDE DEF n
  <1>3. PlacesExact(r)
    <2>1. /\ \A i \in 1 .. n : m.vRandom[i] \in m.mapInfo /\ m.nRandomPos[m.vRandom[i]] = i
          /\ \A y \in m.mapInfo : m.nRandomPos[y] \in 1 .. n /\ m.vRandom[m.nRandomPos[y]] = y
      BY <1>2 DEF Coherent, PlacesExact
    <2>2. /\ \A y \in m.mapInfo : y # a /\ r.nRandomPos[y] = m.nRandomPos[y]
          /\ r.nRandomPos[a] = n + 1
      BY <1>0, <1>1 DEF AddrManType
    <2>3. ASSUME NEW i \in 1 .. n + 1
          PROVE  r.vRandom[i] \in r.mapInfo /\ r.nRandomPos[r.vRandom[i]] = i
      <3>1. CASE i = n + 1
        BY <1>1, <1>2, <2>2, <3>1
      <3>2. CASE i \in 1 .. n
        BY <1>1, <1>2, <2>1, <2>2, <3>2
      <3>. QED
        BY <1>2, <3>1, <3>2
    <2>4. ASSUME NEW y \in r.mapInfo
          PROVE  r.nRandomPos[y] \in 1 .. n + 1 /\ r.vRandom[r.nRandomPos[y]] = y
      <3>1. CASE y = a
        BY <1>2, <2>2, <3>1
      <3>2. CASE y \in m.mapInfo
        BY <1>2, <2>1, <2>2, <3>2
      <3>. QED
        BY <1>1, <3>1, <3>2
    <2>. QED
      BY <1>2, <2>3, <2>4 DEF PlacesExact
  <1>4. \A y \in m.mapInfo : y # a /\ r.fInTried[y] = m.fInTried[y]
    BY <1>0, <1>1 DEF AddrManType
  <1>5. ~ r.fInTried[a]
    BY <1>0, <1>1 DEF AddrManType
  <1>6. ReferencesExact(r)
    <2>1. \A b \in NewBucket : a \notin m.vvNew[b]
      BY DEF Coherent, ReferencesExact
    <2>2. Cardinality({b \in NewBucket : a \in m.vvNew[b]}) = 0
      <3>1. {b \in NewBucket : a \in m.vvNew[b]} = {}
        BY <2>1
      <3>. QED
        BY <3>1, FS_EmptySet
    <2>3. \A y \in Addr : r.nRefCount[y] = IF y = a THEN 0 ELSE m.nRefCount[y]
      BY <1>0, <1>1 DEF AddrManType
    <2>4. \A y \in Addr : r.nRefCount[y] = Cardinality({b \in NewBucket : y \in r.vvNew[b]})
      BY <1>1, <2>2, <2>3 DEF Coherent, ReferencesExact
    <2>5. \A b \in NewBucket : r.vvNew[b] \subseteq {y \in r.mapInfo : ~ r.fInTried[y]}
      BY <1>1, <1>4 DEF Coherent, ReferencesExact
    <2>6. \A k \in TriedBucket :
            r.vvTried[k] = {y \in r.mapInfo : r.fInTried[y] /\ GetTriedBucket[y] = k}
      BY <1>1, <1>4, <1>5 DEF Coherent, ReferencesExact
    <2>. QED
      BY <2>4, <2>5, <2>6 DEF ReferencesExact
  <1>7. CountersExact(r)
    <2>. DEFINE N == {y \in m.mapInfo : ~ m.fInTried[y]}
    <2>1. {y \in r.mapInfo : r.fInTried[y]} = {y \in m.mapInfo : m.fInTried[y]}
      BY <1>1, <1>4, <1>5
    <2>2. {y \in r.mapInfo : ~ r.fInTried[y]} = N \cup {a}
      BY <1>1, <1>4, <1>5
    <2>3. IsFiniteSet(N) /\ a \notin N
      BY <1>0, FiniteParts
    <2>4. Cardinality(N \cup {a}) = Cardinality(N) + 1
      <3>. HIDE DEF N
      <3>. QED
        BY <2>3, FS_AddElement
    <2>5. m.nNew = Cardinality(N) /\ n = m.nNew + m.nTried /\ m.nNew \in Nat /\ m.nTried \in Nat
      BY <1>0 DEF Coherent, CountersExact, AddrManType, n
    <2>. HIDE DEF N
    <2>6. Len(r.vRandom) = r.nNew + r.nTried
      <3>1. Len(r.vRandom) = n + 1 /\ r.nNew = m.nNew + 1 /\ r.nTried = m.nTried
        BY <1>1, <1>2
      <3>. QED
        BY <2>5, <3>1
    <2>7. r.nNew = Cardinality({y \in r.mapInfo : ~ r.fInTried[y]})
      BY <1>1, <2>2, <2>4, <2>5
    <2>8. r.nTried = Cardinality({y \in r.mapInfo : r.fInTried[y]})
      BY <1>1, <2>1 DEF Coherent, CountersExact
    <2>. QED
      BY <2>6, <2>7, <2>8 DEF CountersExact
  <1>8. EntriesOnly(r)
    <2>1. \A y \in Addr : r.source[y] = IF y = a THEN s ELSE m.source[y]
      <3>1. m.source \in [Addr -> Source \cup {NoSource}] /\ r.source = [m.source EXCEPT ![a] = s]
        BY <1>0, <1>1 DEF AddrManType
      <3>. QED
        BY <3>1
    <2>2. \A y \in Addr : r.fInTried[y] = IF y = a THEN FALSE ELSE m.fInTried[y]
      BY <1>0, <1>1 DEF AddrManType
    <2>. QED
      BY <1>0, <1>1, <2>1, <2>2 DEF Coherent, EntriesOnly
  <1>9. Coherent(r)
    BY <1>1, <1>3, <1>6, <1>7, <1>8 DEF Coherent
  <1>. QED
    BY <1>9 DEF r

-----------------------------------------------------------------------------
\* The number of new entries counts this one.
LEMMA NewCounted ==
    ASSUME NEW m, Coherent(m), NEW x \in m.mapInfo, ~ m.fInTried[x]
    PROVE  m.nNew \in Nat /\ m.nNew # 0
  <1>. DEFINE N == {y \in m.mapInfo : ~ m.fInTried[y]}
  <1>1. x \in N /\ IsFiniteSet(N) /\ m.nNew = Cardinality(N) /\ m.nNew \in Nat
    BY FiniteParts DEF Coherent, CountersExact, AddrManType
  <1>. HIDE DEF N
  <1>. QED
    BY <1>1, FS_EmptySet

(***************************************************************************)
(* What Delete changes; the entry at the end of vRandom takes the place of  *)
(* the one that leaves.                                                     *)
(***************************************************************************)
LEMMA DeleteFields ==
    ASSUME NEW m, Coherent(m), NEW x \in m.mapInfo, ~ m.fInTried[x]
    PROVE  LET r == Delete(m, x)
           IN  /\ r \in AddrManType
               /\ r.mapInfo = m.mapInfo \ {x}
               /\ r.source = [m.source EXCEPT ![x] = NoSource]
               /\ r.nRefCount = m.nRefCount /\ r.fInTried = m.fInTried
               /\ r.vvNew = m.vvNew /\ r.vvTried = m.vvTried
               /\ r.nNew = m.nNew - 1 /\ r.nTried = m.nTried
               /\ Len(r.vRandom) = Len(m.vRandom) - 1
               /\ PlacesExact(r)
  <1>. DEFINE L  == Len(m.vRandom)
              sw == SwapRandom(m, m.nRandomPos[x], L)
              w  == SubSeq(sw.vRandom, 1, L - 1)
              q  == [sw.nRandomPos EXCEPT ![x] = 0]
              r  == Delete(m, x)
  <1>0. /\ m \in AddrManType /\ PlacesExact(m) /\ m.mapInfo \subseteq Addr /\ x \in Addr
        /\ m.vRandom \in Seq(Addr) /\ L \in Nat /\ DOMAIN m.vRandom = 1 .. L
    BY LenProperties DEF Coherent, AddrManType
  <1>1. m.nRandomPos[x] \in 1 .. L /\ m.vRandom[m.nRandomPos[x]] = x /\ L \in 1 .. L
    BY <1>0 DEF PlacesExact
  <1>2. /\ sw \in AddrManType /\ SameTables(m, sw) /\ sw.mapInfo = m.mapInfo
        /\ Len(sw.vRandom) = L /\ sw.vRandom[L] = x
    BY <1>0, <1>1, SwapFields
  <1>3. PlacesExact(sw)
    BY <1>0, <1>1, SwapPlaces
  <1>. HIDE DEF sw
  <1>4. sw.vRandom \in Seq(Addr) /\ DOMAIN sw.vRandom = 1 .. L /\ sw.nRandomPos \in [Addr -> Nat]
    BY <1>2, LenProperties DEF AddrManType
  <1>. HIDE DEF L
  <1>5. w \in Seq(Addr) /\ Len(w) = L - 1 /\ \A p \in 1 .. L - 1 : w[p] = sw.vRandom[p]
    <2>1. \A p \in 1 .. L - 1 : sw.vRandom[p] \in Addr
      BY <1>0, <1>2, <1>4, ElementOfSeq
    <2>2. L - 1 \in Int /\ 1 \in Int
      BY <1>0
    <2>3. /\ w \in Seq(Addr)
          /\ Len(w) = IF 1 <= L - 1 THEN L - 1 - 1 + 1 ELSE 0
          /\ \A p \in 1 .. L - 1 - 1 + 1 : w[p] = sw.vRandom[1 + p - 1]
      BY <2>1, <2>2, SubSeqProperties
    <2>. HIDE DEF w
    <2>. QED
      BY <1>0, <1>1, <2>3
  <1>6. q \in [Addr -> Nat] /\ \A y \in Addr : q[y] = IF y = x THEN 0 ELSE sw.nRandomPos[y]
    BY <1>4
  <1>7. m.nNew - 1 \in Nat
    BY NewCounted
  <1>8. r = [sw EXCEPT !.vRandom = w, !.nRandomPos[x] = 0, !.mapInfo = @ \ {x},
                       !.source[x] = NoSource, !.nNew = @ - 1]
    BY <1>2 DEF Delete, sw, L
  <1>9. /\ r \in AddrManType
        /\ r.mapInfo = m.mapInfo \ {x}
        /\ r.source = [m.source EXCEPT ![x] = NoSource]
        /\ r.nRefCount = m.nRefCount /\ r.fInTried = m.fInTried
        /\ r.vvNew = m.vvNew /\ r.vvTried = m.vvTried
        /\ r.nNew = m.nNew - 1 /\ r.nTried = m.nTried
        /\ r.vRandom = w /\ r.nRandomPos = q
    <2>. HIDE DEF w, r
    <2>1. w \in Seq(Addr)
      BY <1>5
    <2>. QED
      BY <1>2, <2>1, <1>7, <1>8 DEF AddrManType, SameTables
  <1>10. PlacesExact(r)
    <2>1. DOMAIN w = 1 .. L - 1
      BY <1>5, LenProperties
    <2>. HIDE DEF w, q, r
    <2>2. \A p \in 1 .. L : sw.vRandom[p] \in m.mapInfo /\ sw.nRandomPos[sw.vRandom[p]] = p
      BY <1>2, <1>3, <1>4 DEF PlacesExact
    <2>3. \A y \in m.mapInfo : sw.nRandomPos[y] \in 1 .. L /\ sw.vRandom[sw.nRandomPos[y]] = y
      BY <1>2, <1>3, <1>4 DEF PlacesExact
    <2>4. ASSUME NEW p \in 1 .. L - 1
          PROVE  w[p] \in m.mapInfo \ {x} /\ q[w[p]] = p
      <3>1. p \in 1 .. L /\ p # L
        BY <1>0
      <3>2. sw.vRandom[p] # x
        BY <1>1, <1>2, <2>2, <3>1
      <3>. QED
        BY <1>0, <1>5, <1>6, <2>2, <3>1, <3>2
    <2>5. ASSUME NEW y \in m.mapInfo \ {x}
          PROVE  q[y] \in 1 .. L - 1 /\ w[q[y]] = y
      <3>1. q[y] = sw.nRandomPos[y] /\ sw.nRandomPos[y] \in 1 .. L /\ sw.vRandom[sw.nRandomPos[y]] = y
        BY <1>0, <1>6, <2>3
      <3>2. sw.nRandomPos[y] # L
        BY <1>2, <3>1
      <3>3. sw.nRandomPos[y] \in 1 .. L - 1
        BY <1>0, <3>1, <3>2
      <3>. QED
        BY <1>5, <3>1, <3>3
    <2>. QED
      BY <1>9, <2>1, <2>4, <2>5 DEF PlacesExact
  <1>11. /\ r \in AddrManType
         /\ r.mapInfo = m.mapInfo \ {x}
         /\ r.source = [m.source EXCEPT ![x] = NoSource]
         /\ r.nRefCount = m.nRefCount /\ r.fInTried = m.fInTried
         /\ r.vvNew = m.vvNew /\ r.vvTried = m.vvTried
         /\ r.nNew = m.nNew - 1 /\ r.nTried = m.nTried
         /\ Len(r.vRandom) = L - 1
         /\ PlacesExact(r)
    <2>. HIDE DEF w, q, r
    <2>. QED
      BY <1>5, <1>9, <1>10
  <1>. QED
    BY <1>11 DEF L

\* Delete of an entry without references.
LEMMA DeleteCoherent ==
    ASSUME NEW m, Coherent(m), NEW x \in m.mapInfo, ~ m.fInTried[x], m.nRefCount[x] = 0
    PROVE  Coherent(Delete(m, x))
  <1>. DEFINE r == Delete(m, x)
  <1>0. /\ m \in AddrManType /\ m.mapInfo \subseteq Addr /\ x \in Addr
        /\ ReferencesExact(m) /\ CountersExact(m) /\ EntriesOnly(m)
        /\ m.nNew \in Nat /\ m.nTried \in Nat
    BY DEF Coherent, AddrManType
  <1>1. /\ r \in AddrManType
        /\ r.mapInfo = m.mapInfo \ {x}
        /\ r.source = [m.source EXCEPT ![x] = NoSource]
        /\ r.nRefCount = m.nRefCount /\ r.fInTried = m.fInTried
        /\ r.vvNew = m.vvNew /\ r.vvTried = m.vvTried
        /\ r.nNew = m.nNew - 1 /\ r.nTried = m.nTried
        /\ Len(r.vRandom) = Len(m.vRandom) - 1
        /\ PlacesExact(r)
    BY DeleteFields
  <1>. HIDE DEF r
  <1>2. \A b \in NewBucket : x \notin m.vvNew[b]
    <2>. DEFINE P == {b \in NewBucket : x \in m.vvNew[b]}
    <2>1. Cardinality(P) = 0 /\ IsFiniteSet(P)
      BY <1>0, FiniteParts DEF ReferencesExact
    <2>2. P = {}
      <3>. HIDE DEF P
      <3>. QED
        BY <2>1, FS_EmptySet
    <2>. QED
      BY <2>2
  <1>3. ReferencesExact(r)
    <2>1. \A y \in Addr : r.nRefCount[y] = Cardinality({b \in NewBucket : y \in r.vvNew[b]})
      BY <1>0, <1>1 DEF ReferencesExact
    <2>2. \A b \in NewBucket : r.vvNew[b] \subseteq {y \in r.mapInfo : ~ r.fInTried[y]}
      BY <1>0, <1>1, <1>2 DEF ReferencesExact
    <2>3. \A k \in TriedBucket :
            r.vvTried[k] = {y \in r.mapInfo : r.fInTried[y] /\ GetTriedBucket[y] = k}
      BY <1>0, <1>1 DEF ReferencesExact
    <2>. QED
      BY <2>1, <2>2, <2>3 DEF ReferencesExact
  <1>4. CountersExact(r)
    <2>. DEFINE N == {y \in m.mapInfo : ~ m.fInTried[y]}
    <2>1. {y \in r.mapInfo : r.fInTried[y]} = {y \in m.mapInfo : m.fInTried[y]}
      BY <1>1
    <2>2. {y \in r.mapInfo : ~ r.fInTried[y]} = N \ {x}
      BY <1>1
    <2>3. IsFiniteSet(N) /\ x \in N
      BY <1>0, FiniteParts
    <2>4. Cardinality(N \ {x}) = Cardinality(N) - 1
      <3>. HIDE DEF N
      <3>. QED
        BY <2>3, FS_RemoveElement
    <2>5. m.nNew = Cardinality(N) /\ Len(m.vRandom) = m.nNew + m.nTried
      BY <1>0 DEF CountersExact
    <2>. HIDE DEF N
    <2>6. Len(r.vRandom) = r.nNew + r.nTried
      <3>1. Len(r.vRandom) = Len(m.vRandom) - 1 /\ r.nNew = m.nNew - 1 /\ r.nTried = m.nTried
        BY <1>1
      <3>. QED
        BY <1>0, <2>5, <3>1
    <2>7. r.nNew = Cardinality({y \in r.mapInfo : ~ r.fInTried[y]})
      BY <1>1, <2>2, <2>4, <2>5
    <2>8. r.nTried = Cardinality({y \in r.mapInfo : r.fInTried[y]})
      BY <1>0, <1>1, <2>1 DEF CountersExact
    <2>. QED
      BY <2>6, <2>7, <2>8 DEF CountersExact
  <1>5. EntriesOnly(r)
    <2>1. \A y \in r.mapInfo : r.source[y] = m.source[y] /\ y \in m.mapInfo
      <3>1. m.source \in [Addr -> Source \cup {NoSource}] /\ r.source = [m.source EXCEPT ![x] = NoSource]
        BY <1>0, <1>1 DEF AddrManType
      <3>. QED
        BY <1>0, <1>1, <3>1
    <2>. QED
      BY <1>0, <1>1, <2>1 DEF EntriesOnly
  <1>6. Coherent(r)
    BY <1>1, <1>3, <1>4, <1>5 DEF Coherent
  <1>. QED
    BY <1>6 DEF r

-----------------------------------------------------------------------------
(***************************************************************************)
(* A change of the new buckets of entries that are not tried, and of the    *)
(* reference counts with them, keeps the tables coherent.                   *)
(***************************************************************************)
LEMMA NewBucketsCoherent ==
    ASSUME NEW m, Coherent(m), NEW r \in AddrManType,
           r.mapInfo = m.mapInfo, r.source = m.source, r.fInTried = m.fInTried,
           r.nRandomPos = m.nRandomPos, r.vRandom = m.vRandom, r.vvTried = m.vvTried,
           r.nNew = m.nNew, r.nTried = m.nTried,
           \A y \in Addr : r.nRefCount[y] = Cardinality({b \in NewBucket : y \in r.vvNew[b]}),
           \A b \in NewBucket : r.vvNew[b] \subseteq {y \in m.mapInfo : ~ m.fInTried[y]}
    PROVE  Coherent(r)
  <1>1. ReferencesExact(r)
    BY DEF Coherent, ReferencesExact
  <1>2. PlacesExact(r) /\ CountersExact(r) /\ EntriesOnly(r)
    BY DEF Coherent, PlacesExact, CountersExact, EntriesOnly
  <1>. QED
    BY <1>1, <1>2 DEF Coherent

\* An entry takes a place in a bucket.
LEMMA AddRefCoherent ==
    ASSUME NEW m, Coherent(m), NEW a \in m.mapInfo, ~ m.fInTried[a],
           NEW b \in NewBucket, a \notin m.vvNew[b]
    PROVE  LET r == AddRef(m, a, b)
           IN  /\ Coherent(r)
               /\ r.mapInfo = m.mapInfo /\ r.fInTried = m.fInTried /\ r.vvTried = m.vvTried
               /\ \A y \in Addr :
                     r.nRefCount[y] = IF y = a THEN m.nRefCount[a] + 1 ELSE m.nRefCount[y]
               /\ \A c \in NewBucket :
                     r.vvNew[c] = IF c = b THEN m.vvNew[b] \cup {a} ELSE m.vvNew[c]
  <1>. DEFINE r == AddRef(m, a, b)
              ww == [m.vvNew EXCEPT ![b] = @ \cup {a}]
  <1>0. /\ m \in AddrManType /\ a \in Addr /\ ReferencesExact(m)
        /\ m.nRefCount \in [Addr -> Nat] /\ m.vvNew \in [NewBucket -> SUBSET Addr]
    BY DEF Coherent, AddrManType
  <1>1. /\ r \in AddrManType
        /\ r.mapInfo = m.mapInfo /\ r.source = m.source /\ r.fInTried = m.fInTried
        /\ r.nRandomPos = m.nRandomPos /\ r.vRandom = m.vRandom /\ r.vvTried = m.vvTried
        /\ r.nNew = m.nNew /\ r.nTried = m.nTried
        /\ r.nRefCount = [m.nRefCount EXCEPT ![a] = @ + 1]
        /\ r.vvNew = ww
    <2>. DEFINE cc == [m.nRefCount EXCEPT ![a] = @ + 1]
    <2>1. cc \in [Addr -> Nat] /\ ww \in [NewBucket -> SUBSET Addr]
      BY <1>0
    <2>2. r = [m EXCEPT !.nRefCount = cc, !.vvNew = ww]
      BY <1>0 DEF AddRef, AddrManType
    <2>. HIDE DEF cc, ww, r
    <2>3. /\ r \in AddrManType
          /\ r.mapInfo = m.mapInfo /\ r.source = m.source /\ r.fInTried = m.fInTried
          /\ r.nRandomPos = m.nRandomPos /\ r.vRandom = m.vRandom /\ r.vvTried = m.vvTried
          /\ r.nNew = m.nNew /\ r.nTried = m.nTried /\ r.nRefCount = cc /\ r.vvNew = ww
      BY <1>0, <2>1, <2>2 DEF AddrManType
    <2>. QED
      BY <2>3 DEF cc
  <1>. HIDE DEF r
  <1>2. /\ Cardinality({c \in NewBucket : a \in ww[c]})
             = Cardinality({c \in NewBucket : a \in m.vvNew[c]}) + 1
        /\ \A y \in Addr \ {a} : {c \in NewBucket : y \in ww[c]}
                                  = {c \in NewBucket : y \in m.vvNew[c]}
    BY <1>0, BucketsAfterAdd
  <1>3. \A c \in NewBucket : ww[c] \subseteq {y \in m.mapInfo : ~ m.fInTried[y]}
    BY <1>0 DEF ReferencesExact
  <1>. HIDE DEF ww
  <1>4. \A y \in Addr : r.nRefCount[y] = Cardinality({c \in NewBucket : y \in ww[c]})
    <2>1. \A y \in Addr : r.nRefCount[y] = IF y = a THEN m.nRefCount[a] + 1 ELSE m.nRefCount[y]
      <3>1. r.nRefCount = [m.nRefCount EXCEPT ![a] = @ + 1]
        BY <1>1
      <3>. QED
        BY <1>0, <3>1
    <2>2. \A y \in Addr : m.nRefCount[y] = Cardinality({c \in NewBucket : y \in m.vvNew[c]})
      BY <1>0 DEF ReferencesExact
    <2>. QED
      BY <1>0, <1>2, <2>1, <2>2
  <1>5. Coherent(r)
    <2>1. /\ \A y \in Addr : r.nRefCount[y] = Cardinality({c \in NewBucket : y \in r.vvNew[c]})
          /\ \A c \in NewBucket : r.vvNew[c] \subseteq {y \in m.mapInfo : ~ m.fInTried[y]}
      BY <1>1, <1>3, <1>4
    <2>. QED
      BY <1>1, <2>1, NewBucketsCoherent
  <1>6. \A y \in Addr : r.nRefCount[y] = IF y = a THEN m.nRefCount[a] + 1 ELSE m.nRefCount[y]
    BY <1>0, <1>1
  <1>7. \A c \in NewBucket : r.vvNew[c] = IF c = b THEN m.vvNew[b] \cup {a} ELSE m.vvNew[c]
    BY <1>0, <1>1 DEF ww
  <1>. QED
    BY <1>1, <1>5, <1>6, <1>7 DEF r

\* An entry leaves a bucket.
LEMMA DropRefCoherent ==
    ASSUME NEW m, Coherent(m), NEW b \in NewBucket, NEW x \in m.vvNew[b]
    PROVE  LET r == DropRef(m, b, x)
           IN  /\ Coherent(r)
               /\ r.mapInfo = m.mapInfo /\ r.fInTried = m.fInTried /\ r.vvTried = m.vvTried
               /\ r.nRefCount = [m.nRefCount EXCEPT ![x] = @ - 1]
               /\ r.vvNew = [m.vvNew EXCEPT ![b] = @ \ {x}]
  <1>. DEFINE r == DropRef(m, b, x)
              ww == [m.vvNew EXCEPT ![b] = @ \ {x}]
  <1>0. /\ m \in AddrManType /\ x \in Addr /\ ReferencesExact(m)
        /\ m.nRefCount \in [Addr -> Nat] /\ m.vvNew \in [NewBucket -> SUBSET Addr]
    BY DEF Coherent, AddrManType
  <1>2. /\ Cardinality({c \in NewBucket : x \in ww[c]})
             = Cardinality({c \in NewBucket : x \in m.vvNew[c]}) - 1
        /\ Cardinality({c \in NewBucket : x \in m.vvNew[c]}) \in Nat \ {0}
        /\ \A y \in Addr \ {x} : {c \in NewBucket : y \in ww[c]}
                                  = {c \in NewBucket : y \in m.vvNew[c]}
    BY <1>0, BucketsAfterRemove
  <1>6. m.nRefCount[x] \in Nat \ {0}
    BY <1>0, <1>2 DEF ReferencesExact
  <1>1. /\ r \in AddrManType
        /\ r.mapInfo = m.mapInfo /\ r.source = m.source /\ r.fInTried = m.fInTried
        /\ r.nRandomPos = m.nRandomPos /\ r.vRandom = m.vRandom /\ r.vvTried = m.vvTried
        /\ r.nNew = m.nNew /\ r.nTried = m.nTried
        /\ r.nRefCount = [m.nRefCount EXCEPT ![x] = @ - 1]
        /\ r.vvNew = ww
    <2>. DEFINE cc == [m.nRefCount EXCEPT ![x] = @ - 1]
    <2>1. cc \in [Addr -> Nat] /\ ww \in [NewBucket -> SUBSET Addr]
      BY <1>0, <1>6
    <2>2. r = [m EXCEPT !.nRefCount = cc, !.vvNew = ww]
      BY <1>0 DEF DropRef, AddrManType
    <2>. HIDE DEF cc, ww, r
    <2>3. /\ r \in AddrManType
          /\ r.mapInfo = m.mapInfo /\ r.source = m.source /\ r.fInTried = m.fInTried
          /\ r.nRandomPos = m.nRandomPos /\ r.vRandom = m.vRandom /\ r.vvTried = m.vvTried
          /\ r.nNew = m.nNew /\ r.nTried = m.nTried /\ r.nRefCount = cc /\ r.vvNew = ww
      BY <1>0, <2>1, <2>2 DEF AddrManType
    <2>. QED
      BY <2>3 DEF cc
  <1>. HIDE DEF r
  <1>3. \A c \in NewBucket : ww[c] \subseteq {y \in m.mapInfo : ~ m.fInTried[y]}
    BY <1>0 DEF ReferencesExact
  <1>. HIDE DEF ww
  <1>4. \A y \in Addr : r.nRefCount[y] = Cardinality({c \in NewBucket : y \in ww[c]})
    <2>1. \A y \in Addr : r.nRefCount[y] = IF y = x THEN m.nRefCount[x] - 1 ELSE m.nRefCount[y]
      <3>1. r.nRefCount = [m.nRefCount EXCEPT ![x] = @ - 1]
        BY <1>1
      <3>. QED
        BY <1>0, <3>1
    <2>2. \A y \in Addr : m.nRefCount[y] = Cardinality({c \in NewBucket : y \in m.vvNew[c]})
      BY <1>0 DEF ReferencesExact
    <2>. QED
      BY <1>0, <1>2, <2>1, <2>2
  <1>5. Coherent(r)
    <2>1. /\ \A y \in Addr : r.nRefCount[y] = Cardinality({c \in NewBucket : y \in r.vvNew[c]})
          /\ \A c \in NewBucket : r.vvNew[c] \subseteq {y \in m.mapInfo : ~ m.fInTried[y]}
      BY <1>1, <1>3, <1>4
    <2>. QED
      BY <1>1, <2>1, NewBucketsCoherent
  <1>. QED
    BY <1>1, <1>5 DEF r, ww

(***************************************************************************)
(* ShrinkNew makes a place in its bucket.  It may delete the entry it takes *)
(* out, and no other; a is the entry that Add_ is about to put there.       *)
(***************************************************************************)
LEMMA ShrinkNewCorrect ==
    ASSUME NEW m, Coherent(m), NEW b \in NewBucket, NEW x \in m.vvNew[b],
           NEW a \in m.mapInfo, a # x, Referenced(m, m.mapInfo \ {a})
    PROVE  LET r == ShrinkNew(m, b, x)
           IN  /\ Coherent(r) /\ Referenced(r, r.mapInfo \ {a})
               /\ m.mapInfo \ {x} \subseteq r.mapInfo /\ a \in r.mapInfo
               /\ r.fInTried = m.fInTried /\ r.vvTried = m.vvTried
               /\ r.nRefCount[a] = m.nRefCount[a]
               /\ r.vvNew = [m.vvNew EXCEPT ![b] = @ \ {x}]
  <1>. DEFINE u == DropRef(m, b, x)
              r == ShrinkNew(m, b, x)
  <1>0. /\ m \in AddrManType /\ x \in Addr /\ a \in Addr /\ m.nRefCount \in [Addr -> Nat]
        /\ m.mapInfo \subseteq Addr /\ x \in m.mapInfo /\ ~ m.fInTried[x]
    BY DEF Coherent, AddrManType, ReferencesExact
  <1>1. /\ Coherent(u)
        /\ u.mapInfo = m.mapInfo /\ u.fInTried = m.fInTried /\ u.vvTried = m.vvTried
        /\ u.nRefCount = [m.nRefCount EXCEPT ![x] = @ - 1]
        /\ u.vvNew = [m.vvNew EXCEPT ![b] = @ \ {x}]
    BY DropRefCoherent
  <1>2. r = IF u.nRefCount[x] = 0 THEN Delete(u, x) ELSE u
    BY DEF ShrinkNew, DropRef
  <1>. HIDE DEF u, r
  <1>3. \A y \in Addr : u.nRefCount[y] = IF y = x THEN m.nRefCount[x] - 1 ELSE m.nRefCount[y]
    BY <1>0, <1>1
  <1>4. \A y \in m.mapInfo \ {a, x} : u.fInTried[y] \/ u.nRefCount[y] \in 1 .. NEW_BUCKETS_PER_ADDRESS
    BY <1>0, <1>1, <1>3 DEF Referenced
  <1>5. u.nRefCount[a] = m.nRefCount[a]
    BY <1>0, <1>3
  <1>6. CASE u.nRefCount[x] = 0
    <2>1. r = Delete(u, x)
      BY <1>2, <1>6
    <2>2. x \in u.mapInfo /\ ~ u.fInTried[x]
      BY <1>0, <1>1
    <2>3. Coherent(r)
      BY <1>1, <1>6, <2>1, <2>2, DeleteCoherent
    <2>4. /\ r.mapInfo = u.mapInfo \ {x} /\ r.nRefCount = u.nRefCount /\ r.fInTried = u.fInTried
          /\ r.vvNew = u.vvNew /\ r.vvTried = u.vvTried
      <3>1. /\ Delete(u, x).mapInfo = u.mapInfo \ {x} /\ Delete(u, x).nRefCount = u.nRefCount
            /\ Delete(u, x).fInTried = u.fInTried /\ Delete(u, x).vvNew = u.vvNew
            /\ Delete(u, x).vvTried = u.vvTried
        <4>1. Coherent(u)
          BY <1>1
        <4>. QED
          BY <2>2, <4>1, DeleteFields
      <3>. QED
        BY <2>1, <3>1
    <2>5. Referenced(r, r.mapInfo \ {a})
      BY <1>1, <1>4, <2>4 DEF Referenced
    <2>. QED
      BY <1>1, <1>5, <2>3, <2>4, <2>5 DEF r
  <1>7. CASE u.nRefCount[x] # 0
    <2>1. r = u
      BY <1>2, <1>7
    <2>2. m.nRefCount[x] \in 1 .. NEW_BUCKETS_PER_ADDRESS
      BY <1>0 DEF Referenced
    <2>3. u.nRefCount[x] \in 1 .. NEW_BUCKETS_PER_ADDRESS
      BY <1>0, <1>3, <1>7, <2>2, AddrManAssumption
    <2>4. Referenced(r, r.mapInfo \ {a})
      BY <1>1, <1>4, <2>1, <2>3 DEF Referenced
    <2>. QED
      BY <1>0, <1>1, <1>5, <2>1, <2>4 DEF r
  <1>. QED
    BY <1>6, <1>7

\* A reference in a bucket that has a place for it.
LEMMA AddRefCorrect ==
    ASSUME NEW m, Coherent(m), Bounded(m), NEW a \in m.mapInfo, ~ m.fInTried[a],
           NEW b \in NewBucket, a \notin m.vvNew[b],
           Cardinality(m.vvNew[b]) < NEW_BUCKET_SIZE,
           m.nRefCount[a] < NEW_BUCKETS_PER_ADDRESS, Referenced(m, m.mapInfo \ {a})
    PROVE  LET r == AddRef(m, a, b)
           IN  Coherent(r) /\ Bounded(r) /\ Referenced(r, r.mapInfo) /\ r.mapInfo = m.mapInfo
  <1>. DEFINE r == AddRef(m, a, b)
  <1>0. /\ m \in AddrManType /\ a \in Addr /\ m.nRefCount \in [Addr -> Nat]
        /\ m.mapInfo \subseteq Addr /\ m.vvNew \in [NewBucket -> SUBSET Addr]
    BY DEF Coherent, AddrManType
  <1>1. /\ Coherent(r)
        /\ r.mapInfo = m.mapInfo /\ r.fInTried = m.fInTried /\ r.vvTried = m.vvTried
        /\ \A y \in Addr : r.nRefCount[y] = IF y = a THEN m.nRefCount[a] + 1 ELSE m.nRefCount[y]
        /\ \A c \in NewBucket : r.vvNew[c] = IF c = b THEN m.vvNew[b] \cup {a} ELSE m.vvNew[c]
    BY AddRefCoherent
  <1>. HIDE DEF r
  <1>2. Bounded(r)
    <2>1. Cardinality(m.vvNew[b] \cup {a}) = Cardinality(m.vvNew[b]) + 1
      BY <1>0, FiniteParts, FS_AddElement
    <2>2. Cardinality(m.vvNew[b]) + 1 <= NEW_BUCKET_SIZE
      BY <1>0, FiniteParts, AddrManAssumption
    <2>3. \A c \in NewBucket : r.vvNew[c] = IF c = b THEN m.vvNew[b] \cup {a} ELSE m.vvNew[c]
      BY <1>0, <1>1
    <2>4. \A c \in NewBucket : Cardinality(r.vvNew[c]) <= NEW_BUCKET_SIZE
      BY <2>1, <2>2, <2>3 DEF Bounded
    <2>. QED
      BY <1>1, <2>4 DEF Bounded
  <1>3. Referenced(r, r.mapInfo)
    <2>1. \A y \in Addr : r.nRefCount[y] = IF y = a THEN m.nRefCount[a] + 1 ELSE m.nRefCount[y]
      BY <1>0, <1>1
    <2>2. m.nRefCount[a] + 1 \in 1 .. NEW_BUCKETS_PER_ADDRESS
      BY <1>0, AddrManAssumption
    <2>. QED
      BY <1>0, <1>1, <2>1, <2>2 DEF Referenced
  <1>. QED
    BY <1>1, <1>2, <1>3 DEF r

(***************************************************************************)
(* The end of Add_: the tables are coherent, the buckets bounded and every  *)
(* entry referenced again, and no tried entry is lost.                      *)
(***************************************************************************)
LEMMA AddToBucketCorrect ==
    ASSUME NEW m, Coherent(m), Bounded(m), NEW a \in m.mapInfo, ~ m.fInTried[a],
           NEW b \in NewBucket, NEW x, x \in m.vvNew[b] \/ m.vvNew[b] = {},
           m.nRefCount[a] < NEW_BUCKETS_PER_ADDRESS, Referenced(m, m.mapInfo \ {a}),
           a \in m.vvNew[b] => Referenced(m, m.mapInfo)
    PROVE  LET r == AddToBucket(m, a, b, x)
           IN  /\ Coherent(r) /\ Bounded(r) /\ Referenced(r, r.mapInfo)
               /\ \A y \in m.mapInfo : m.fInTried[y] => y \in r.mapInfo
  <1>. DEFINE r == AddToBucket(m, a, b, x)
  <1>0. /\ m \in AddrManType /\ m.vvNew \in [NewBucket -> SUBSET Addr]
        /\ m.vvNew[b] \subseteq {y \in m.mapInfo : ~ m.fInTried[y]}
        /\ IsFiniteSet(m.vvNew[b]) /\ Cardinality(m.vvNew[b]) \in Nat
        /\ Cardinality(m.vvNew[b]) <= NEW_BUCKET_SIZE
        /\ NEW_BUCKET_SIZE \in Nat \ {0}
    <2>1. m \in AddrManType /\ m.vvNew \in [NewBucket -> SUBSET Addr]
      BY DEF Coherent, AddrManType
    <2>2. m.vvNew[b] \subseteq {y \in m.mapInfo : ~ m.fInTried[y]}
      BY DEF Coherent, ReferencesExact
    <2>3. Cardinality(m.vvNew[b]) <= NEW_BUCKET_SIZE /\ NEW_BUCKET_SIZE \in Nat \ {0}
      BY AddrManAssumption DEF Bounded
    <2>. QED
      BY <2>1, <2>2, <2>3, FiniteParts
  <1>1. CASE a \in m.vvNew[b]
    <2>1. r = m
      BY <1>1 DEF AddToBucket
    <2>. QED
      BY <1>1, <2>1
  <1>2. CASE a \notin m.vvNew[b] /\ Cardinality(m.vvNew[b]) # NEW_BUCKET_SIZE
    <2>1. r = AddRef(m, a, b)
      BY <1>2 DEF AddToBucket, AddRef
    <2>2. Cardinality(m.vvNew[b]) < NEW_BUCKET_SIZE
      BY <1>0, <1>2
    <2>3. Coherent(r) /\ Bounded(r) /\ Referenced(r, r.mapInfo) /\ r.mapInfo = m.mapInfo
      BY <1>2, <2>1, <2>2, AddRefCorrect
    <2>. QED
      BY <2>3
  <1>3. CASE a \notin m.vvNew[b] /\ Cardinality(m.vvNew[b]) = NEW_BUCKET_SIZE
    <2>. DEFINE u == ShrinkNew(m, b, x)
    <2>1. r = AddRef(u, a, b)
      BY <1>3 DEF AddToBucket, AddRef
    <2>2. x \in m.vvNew[b] /\ a # x
      BY <1>0, <1>3, FS_EmptySet
    <2>3. /\ Coherent(u) /\ Referenced(u, u.mapInfo \ {a})
          /\ m.mapInfo \ {x} \subseteq u.mapInfo /\ a \in u.mapInfo
          /\ u.fInTried = m.fInTried /\ u.vvTried = m.vvTried
          /\ u.nRefCount[a] = m.nRefCount[a]
          /\ u.vvNew = [m.vvNew EXCEPT ![b] = @ \ {x}]
      BY <2>2, ShrinkNewCorrect
    <2>. HIDE DEF u, r
    <2>4. \A c \in NewBucket : u.vvNew[c] = IF c = b THEN m.vvNew[b] \ {x} ELSE m.vvNew[c]
      BY <1>0, <2>3
    <2>5. Cardinality(m.vvNew[b] \ {x}) = NEW_BUCKET_SIZE - 1
      <3>1. IsFiniteSet(m.vvNew[b])
        BY <1>0
      <3>2. Cardinality(m.vvNew[b] \ {x}) = Cardinality(m.vvNew[b]) - 1
        BY <2>2, <3>1, FS_RemoveElement
      <3>. QED
        BY <1>3, <3>2
    <2>6. Bounded(u)
      <3>1. NEW_BUCKET_SIZE - 1 <= NEW_BUCKET_SIZE
        BY <1>0
      <3>2. \A c \in NewBucket : Cardinality(u.vvNew[c]) <= NEW_BUCKET_SIZE
        BY <2>4, <2>5, <3>1 DEF Bounded
      <3>. QED
        BY <2>3, <3>2 DEF Bounded
    <2>7. a \notin u.vvNew[b] /\ Cardinality(u.vvNew[b]) < NEW_BUCKET_SIZE
      BY <1>0, <1>3, <2>4, <2>5
    <2>8. ~ u.fInTried[a] /\ u.nRefCount[a] < NEW_BUCKETS_PER_ADDRESS
      BY <2>3
    <2>9. Coherent(r) /\ Bounded(r) /\ Referenced(r, r.mapInfo) /\ r.mapInfo = u.mapInfo
      <3>1. Coherent(u) /\ Referenced(u, u.mapInfo \ {a}) /\ a \in u.mapInfo
        BY <2>3
      <3>. QED
        BY <2>1, <2>6, <2>7, <2>8, <3>1, AddRefCorrect
    <2>10. \A y \in m.mapInfo : m.fInTried[y] => y \in r.mapInfo
      BY <1>0, <2>2, <2>3, <2>9
    <2>. QED
      BY <2>9, <2>10 DEF r
  <1>. QED
    BY <1>1, <1>2, <1>3

-----------------------------------------------------------------------------
\* What LeaveNew changes: the reference count of a goes to zero.
LEMMA LeaveNewFields ==
    ASSUME NEW m, Coherent(m), NEW a \in m.mapInfo, ~ m.fInTried[a]
    PROVE  LET r == LeaveNew(m, a)
           IN  /\ r \in AddrManType
               /\ r.mapInfo = m.mapInfo /\ r.source = m.source /\ r.fInTried = m.fInTried
               /\ r.nRandomPos = m.nRandomPos /\ r.vRandom = m.vRandom /\ r.vvTried = m.vvTried
               /\ r.nNew = m.nNew - 1 /\ r.nTried = m.nTried
               /\ \A y \in Addr : r.nRefCount[y] = IF y = a THEN 0 ELSE m.nRefCount[y]
               /\ \A c \in NewBucket : r.vvNew[c] = m.vvNew[c] \ {a}
  <1>. DEFINE r  == LeaveNew(m, a)
              cc == [m.nRefCount EXCEPT ![a] = 0]
              ww == [c \in NewBucket |-> m.vvNew[c] \ {a}]
  <1>0. /\ m \in AddrManType /\ a \in Addr /\ m.nRefCount \in [Addr -> Nat]
        /\ m.vvNew \in [NewBucket -> SUBSET Addr]
    BY DEF Coherent, AddrManType
  <1>1. m.nRefCount[a] - Cardinality({b \in NewBucket : a \in m.vvNew[b]}) = 0
    BY <1>0 DEF Coherent, ReferencesExact
  <1>2. m.nNew - 1 \in Nat
    BY NewCounted
  <1>3. /\ cc \in [Addr -> Nat] /\ ww \in [NewBucket -> SUBSET Addr]
        /\ \A y \in Addr : cc[y] = IF y = a THEN 0 ELSE m.nRefCount[y]
        /\ \A c \in NewBucket : ww[c] = m.vvNew[c] \ {a}
    BY <1>0
  <1>4. r = [m EXCEPT !.nRefCount = cc, !.vvNew = ww, !.nNew = @ - 1]
    BY <1>0, <1>1 DEF LeaveNew, AddrManType
  <1>. HIDE DEF r, cc, ww
  <1>5. /\ r \in AddrManType
        /\ r.mapInfo = m.mapInfo /\ r.source = m.source /\ r.fInTried = m.fInTried
        /\ r.nRandomPos = m.nRandomPos /\ r.vRandom = m.vRandom /\ r.vvTried = m.vvTried
        /\ r.nNew = m.nNew - 1 /\ r.nTried = m.nTried /\ r.nRefCount = cc /\ r.vvNew = ww
    BY <1>0, <1>2, <1>3, <1>4 DEF AddrManType
  <1>. QED
    BY <1>3, <1>5 DEF r

\* What EnterTried changes.
LEMMA EnterTriedFields ==
    ASSUME NEW m \in AddrManType, NEW a \in Addr
    PROVE  LET r == EnterTried(m, a)
           IN  /\ r \in AddrManType
               /\ r.mapInfo = m.mapInfo /\ r.source = m.source /\ r.nRefCount = m.nRefCount
               /\ r.nRandomPos = m.nRandomPos /\ r.vRandom = m.vRandom /\ r.vvNew = m.vvNew
               /\ r.nNew = m.nNew /\ r.nTried = m.nTried + 1
               /\ \A y \in Addr : r.fInTried[y] <=> y = a \/ m.fInTried[y]
               /\ r.vvTried[GetTriedBucket[a]] = m.vvTried[GetTriedBucket[a]] \cup {a}
               /\ \A k \in TriedBucket \ {GetTriedBucket[a]} : r.vvTried[k] = m.vvTried[k]
  <1>. DEFINE r  == EnterTried(m, a)
              ff == [m.fInTried EXCEPT ![a] = TRUE]
              tt == [m.vvTried EXCEPT ![GetTriedBucket[a]] = @ \cup {a}]
  <1>1. /\ m.fInTried \in [Addr -> BOOLEAN] /\ m.vvTried \in [TriedBucket -> SUBSET Addr]
        /\ m.nTried + 1 \in Nat /\ GetTriedBucket[a] \in TriedBucket
    BY AddrManAssumption DEF AddrManType
  <1>2. /\ ff \in [Addr -> BOOLEAN]
        /\ \A y \in Addr : ff[y] <=> y = a \/ m.fInTried[y]
    BY <1>1
  <1>5. /\ tt \in [TriedBucket -> SUBSET Addr]
        /\ tt[GetTriedBucket[a]] = m.vvTried[GetTriedBucket[a]] \cup {a}
        /\ \A k \in TriedBucket \ {GetTriedBucket[a]} : tt[k] = m.vvTried[k]
    BY <1>1
  <1>3. r = [m EXCEPT !.fInTried = ff, !.vvTried = tt, !.nTried = @ + 1]
    BY <1>1 DEF EnterTried, AddrManType
  <1>. HIDE DEF r, ff, tt
  <1>4. /\ r \in AddrManType
        /\ r.mapInfo = m.mapInfo /\ r.source = m.source /\ r.nRefCount = m.nRefCount
        /\ r.nRandomPos = m.nRandomPos /\ r.vRandom = m.vRandom /\ r.vvNew = m.vvNew
        /\ r.nNew = m.nNew /\ r.nTried = m.nTried + 1
        /\ r.fInTried = ff /\ r.vvTried = tt
    BY <1>1, <1>2, <1>3, <1>5 DEF AddrManType
  <1>. QED
    BY <1>2, <1>4, <1>5 DEF r

\* What EvictTo changes.
LEMMA EvictToFields ==
    ASSUME NEW m \in AddrManType, NEW x \in Addr, NEW u \in NewBucket, m.nTried # 0
    PROVE  LET r == EvictTo(m, x, u)
           IN  /\ r \in AddrManType
               /\ r.mapInfo = m.mapInfo /\ r.source = m.source
               /\ r.nRandomPos = m.nRandomPos /\ r.vRandom = m.vRandom
               /\ r.nNew = m.nNew + 1 /\ r.nTried = m.nTried - 1
               /\ \A y \in Addr : r.fInTried[y] <=> y # x /\ m.fInTried[y]
               /\ \A y \in Addr : r.nRefCount[y] = IF y = x THEN 1 ELSE m.nRefCount[y]
               /\ r.vvNew[u] = m.vvNew[u] \cup {x}
               /\ \A c \in NewBucket \ {u} : r.vvNew[c] = m.vvNew[c]
               /\ r.vvTried[GetTriedBucket[x]] = m.vvTried[GetTriedBucket[x]] \ {x}
               /\ \A k \in TriedBucket \ {GetTriedBucket[x]} : r.vvTried[k] = m.vvTried[k]
  <1>. DEFINE r  == EvictTo(m, x, u)
              ff == [m.fInTried EXCEPT ![x] = FALSE]
              cc == [m.nRefCount EXCEPT ![x] = 1]
              ww == [m.vvNew EXCEPT ![u] = @ \cup {x}]
              tt == [m.vvTried EXCEPT ![GetTriedBucket[x]] = @ \ {x}]
  <1>1. /\ m.fInTried \in [Addr -> BOOLEAN] /\ m.vvTried \in [TriedBucket -> SUBSET Addr]
        /\ m.nRefCount \in [Addr -> Nat] /\ m.vvNew \in [NewBucket -> SUBSET Addr]
        /\ m.nTried - 1 \in Nat /\ m.nNew + 1 \in Nat /\ GetTriedBucket[x] \in TriedBucket
    BY AddrManAssumption DEF AddrManType
  <1>2. /\ ff \in [Addr -> BOOLEAN]
        /\ \A y \in Addr : ff[y] <=> y # x /\ m.fInTried[y]
    BY <1>1
  <1>5. /\ cc \in [Addr -> Nat]
        /\ \A y \in Addr : cc[y] = IF y = x THEN 1 ELSE m.nRefCount[y]
    BY <1>1
  <1>6. /\ ww \in [NewBucket -> SUBSET Addr]
        /\ ww[u] = m.vvNew[u] \cup {x}
        /\ \A c \in NewBucket \ {u} : ww[c] = m.vvNew[c]
    BY <1>1
  <1>7. /\ tt \in [TriedBucket -> SUBSET Addr]
        /\ tt[GetTriedBucket[x]] = m.vvTried[GetTriedBucket[x]] \ {x}
        /\ \A k \in TriedBucket \ {GetTriedBucket[x]} : tt[k] = m.vvTried[k]
    BY <1>1
  <1>3. r = [m EXCEPT !.fInTried = ff, !.nRefCount = cc, !.vvNew = ww, !.vvTried = tt,
                      !.nNew = @ + 1, !.nTried = @ - 1]
    BY <1>1 DEF EvictTo, AddrManType
  <1>. HIDE DEF r, ff, tt, cc, ww
  <1>4. /\ r \in AddrManType
        /\ r.mapInfo = m.mapInfo /\ r.source = m.source
        /\ r.nRandomPos = m.nRandomPos /\ r.vRandom = m.vRandom
        /\ r.nNew = m.nNew + 1 /\ r.nTried = m.nTried - 1
        /\ r.fInTried = ff /\ r.nRefCount = cc /\ r.vvNew = ww /\ r.vvTried = tt
    BY <1>1, <1>2, <1>3, <1>5, <1>6, <1>7 DEF AddrManType
  <1>. QED
    BY <1>2, <1>4, <1>5, <1>6, <1>7 DEF r

-----------------------------------------------------------------------------
(***************************************************************************)
(* An entry goes from its new buckets to its tried bucket.                  *)
(***************************************************************************)
LEMMA PromoteCoherent ==
    ASSUME NEW m, Coherent(m), NEW a \in m.mapInfo, ~ m.fInTried[a]
    PROVE  LET r == Promote(m, a)
           IN  /\ Coherent(r)
               /\ r.mapInfo = m.mapInfo /\ r.source = m.source
               /\ \A y \in Addr : r.fInTried[y] <=> y = a \/ m.fInTried[y]
               /\ \A y \in Addr : r.nRefCount[y] = IF y = a THEN 0 ELSE m.nRefCount[y]
               /\ \A c \in NewBucket : r.vvNew[c] = m.vvNew[c] \ {a}
               /\ r.vvTried[GetTriedBucket[a]] = m.vvTried[GetTriedBucket[a]] \cup {a}
               /\ \A k \in TriedBucket \ {GetTriedBucket[a]} : r.vvTried[k] = m.vvTried[k]
  <1>. DEFINE l == LeaveNew(m, a)
              r == Promote(m, a)
  <1>0. /\ m \in AddrManType /\ a \in Addr /\ m.mapInfo \subseteq Addr
        /\ m.nRefCount \in [Addr -> Nat] /\ m.fInTried \in [Addr -> BOOLEAN]
        /\ m.vvTried \in [TriedBucket -> SUBSET Addr] /\ m.vvNew \in [NewBucket -> SUBSET Addr]
        /\ m.nNew \in Nat /\ m.nTried \in Nat
    BY DEF Coherent, AddrManType
  <1>1. /\ l \in AddrManType
        /\ l.mapInfo = m.mapInfo /\ l.source = m.source /\ l.fInTried = m.fInTried
        /\ l.nRandomPos = m.nRandomPos /\ l.vRandom = m.vRandom /\ l.vvTried = m.vvTried
        /\ l.nNew = m.nNew - 1 /\ l.nTried = m.nTried
        /\ \A y \in Addr : l.nRefCount[y] = IF y = a THEN 0 ELSE m.nRefCount[y]
        /\ \A c \in NewBucket : l.vvNew[c] = m.vvNew[c] \ {a}
    BY LeaveNewFields
  <1>2. /\ r \in AddrManType
        /\ r.mapInfo = l.mapInfo /\ r.source = l.source /\ r.nRefCount = l.nRefCount
        /\ r.nRandomPos = l.nRandomPos /\ r.vRandom = l.vRandom /\ r.vvNew = l.vvNew
        /\ r.nNew = l.nNew /\ r.nTried = l.nTried + 1
        /\ \A y \in Addr : r.fInTried[y] <=> y = a \/ l.fInTried[y]
        /\ r.vvTried[GetTriedBucket[a]] = l.vvTried[GetTriedBucket[a]] \cup {a}
        /\ \A k \in TriedBucket \ {GetTriedBucket[a]} : r.vvTried[k] = l.vvTried[k]
    <2>1. l \in AddrManType
      BY <1>1
    <2>. HIDE DEF l
    <2>2. r = EnterTried(l, a)
      BY DEF Promote, l
    <2>3. a \in Addr
      BY <1>0
    <2>. HIDE DEF r
    <2>4. \A y \in Addr : r.fInTried[y] <=> y = a \/ l.fInTried[y]
      BY <2>1, <2>2, <2>3, EnterTriedFields
    <2>5. /\ r.vvTried[GetTriedBucket[a]] = l.vvTried[GetTriedBucket[a]] \cup {a}
          /\ \A k \in TriedBucket \ {GetTriedBucket[a]} : r.vvTried[k] = l.vvTried[k]
      BY <2>1, <2>2, <2>3, EnterTriedFields
    <2>6. /\ r \in AddrManType
          /\ r.mapInfo = l.mapInfo /\ r.source = l.source /\ r.nRefCount = l.nRefCount
          /\ r.nRandomPos = l.nRandomPos /\ r.vRandom = l.vRandom /\ r.vvNew = l.vvNew
          /\ r.nNew = l.nNew /\ r.nTried = l.nTried + 1
      BY <2>1, <2>2, <2>3, EnterTriedFields
    <2>. QED
      BY <2>4, <2>5, <2>6
  <1>. HIDE DEF l, r
  <1>3. \A y \in Addr : r.fInTried[y] <=> y = a \/ m.fInTried[y]
    BY <1>1, <1>2
  <1>4. \A y \in Addr : r.nRefCount[y] = IF y = a THEN 0 ELSE m.nRefCount[y]
    BY <1>1, <1>2
  <1>5. \A c \in NewBucket : r.vvNew[c] = m.vvNew[c] \ {a}
    BY <1>1, <1>2
  <1>6. /\ r.vvTried[GetTriedBucket[a]] = m.vvTried[GetTriedBucket[a]] \cup {a}
        /\ \A k \in TriedBucket \ {GetTriedBucket[a]} : r.vvTried[k] = m.vvTried[k]
    BY <1>1, <1>2
  <1>7. /\ r \in AddrManType /\ r.mapInfo = m.mapInfo /\ r.source = m.source
        /\ r.nRandomPos = m.nRandomPos /\ r.vRandom = m.vRandom
        /\ r.nNew = m.nNew - 1 /\ r.nTried = m.nTried + 1
    BY <1>1, <1>2
  <1>8. PlacesExact(r)
    BY <1>7 DEF Coherent, PlacesExact
  <1>9. ReferencesExact(r)
    <2>1. \A y \in Addr : r.nRefCount[y] = Cardinality({b \in NewBucket : y \in r.vvNew[b]})
      <3>. SUFFICES ASSUME NEW y \in Addr
                    PROVE  r.nRefCount[y] = Cardinality({b \in NewBucket : y \in r.vvNew[b]})
        OBVIOUS
      <3>1. CASE y = a
        <4>1. {b \in NewBucket : y \in r.vvNew[b]} = {}
          BY <1>5, <3>1
        <4>. QED
          BY <1>4, <3>1, <4>1, FS_EmptySet
      <3>2. CASE y # a
        <4>1. {b \in NewBucket : y \in r.vvNew[b]} = {b \in NewBucket : y \in m.vvNew[b]}
          BY <1>5, <3>2
        <4>. QED
          BY <1>4, <3>2, <4>1 DEF Coherent, ReferencesExact
      <3>. QED
        BY <3>1, <3>2
    <2>2. \A b \in NewBucket : r.vvNew[b] \subseteq {y \in r.mapInfo : ~ r.fInTried[y]}
      <3>1. \A b \in NewBucket : m.vvNew[b] \subseteq {y \in m.mapInfo : ~ m.fInTried[y]}
        BY DEF Coherent, ReferencesExact
      <3>. QED
        BY <1>0, <1>3, <1>5, <1>7, <3>1
    <2>3. \A k \in TriedBucket :
            r.vvTried[k] = {y \in r.mapInfo : r.fInTried[y] /\ GetTriedBucket[y] = k}
      <3>. SUFFICES ASSUME NEW k \in TriedBucket
                    PROVE  r.vvTried[k] = {y \in r.mapInfo : r.fInTried[y] /\ GetTriedBucket[y] = k}
        OBVIOUS
      <3>1. m.vvTried[k] = {y \in m.mapInfo : m.fInTried[y] /\ GetTriedBucket[y] = k}
        BY DEF Coherent, ReferencesExact
      <3>2. CASE k = GetTriedBucket[a]
        BY <1>0, <1>3, <1>6, <1>7, <3>1, <3>2
      <3>3. CASE k # GetTriedBucket[a]
        BY <1>0, <1>3, <1>6, <1>7, <3>1, <3>3
      <3>. QED
        BY <3>2, <3>3
    <2>. QED
      BY <2>1, <2>2, <2>3 DEF ReferencesExact
  <1>10. CountersExact(r)
    <2>. DEFINE N == {y \in m.mapInfo : ~ m.fInTried[y]}
                T == {y \in m.mapInfo : m.fInTried[y]}
    <2>1. {y \in r.mapInfo : r.fInTried[y]} = T \cup {a}
      BY <1>0, <1>3, <1>7
    <2>2. {y \in r.mapInfo : ~ r.fInTried[y]} = N \ {a}
      BY <1>0, <1>3, <1>7
    <2>3. IsFiniteSet(N) /\ a \in N /\ IsFiniteSet(T) /\ a \notin T
      BY <1>0, FiniteParts
    <2>4. m.nNew = Cardinality(N) /\ m.nTried = Cardinality(T) /\ Len(m.vRandom) = m.nNew + m.nTried
      BY DEF Coherent, CountersExact
    <2>. HIDE DEF N, T
    <2>5. Cardinality(N \ {a}) = Cardinality(N) - 1 /\ Cardinality(T \cup {a}) = Cardinality(T) + 1
      BY <2>3, FS_RemoveElement, FS_AddElement
    <2>6. Len(r.vRandom) = r.nNew + r.nTried
      BY <1>0, <1>7, <2>4
    <2>. QED
      BY <1>7, <2>1, <2>2, <2>4, <2>5, <2>6 DEF CountersExact
  <1>11. EntriesOnly(r)
    BY <1>0, <1>3, <1>7 DEF Coherent, EntriesOnly
  <1>12. Coherent(r)
    BY <1>7, <1>8, <1>9, <1>10, <1>11 DEF Coherent
  <1>. QED
    BY <1>3, <1>4, <1>5, <1>6, <1>7, <1>12 DEF r

(***************************************************************************)
(* A tried entry goes back to a new bucket.                                 *)
(***************************************************************************)
LEMMA EvictToCoherent ==
    ASSUME NEW m, Coherent(m), NEW x \in m.mapInfo, m.fInTried[x], NEW u \in NewBucket
    PROVE  LET r == EvictTo(m, x, u)
           IN  /\ Coherent(r)
               /\ r.mapInfo = m.mapInfo /\ r.source = m.source
               /\ \A y \in Addr : r.fInTried[y] <=> y # x /\ m.fInTried[y]
               /\ \A y \in Addr : r.nRefCount[y] = IF y = x THEN 1 ELSE m.nRefCount[y]
               /\ r.vvNew[u] = m.vvNew[u] \cup {x}
               /\ \A c \in NewBucket \ {u} : r.vvNew[c] = m.vvNew[c]
               /\ r.vvTried[GetTriedBucket[x]] = m.vvTried[GetTriedBucket[x]] \ {x}
               /\ \A k \in TriedBucket \ {GetTriedBucket[x]} : r.vvTried[k] = m.vvTried[k]
  <1>. DEFINE r == EvictTo(m, x, u)
              N == {y \in m.mapInfo : ~ m.fInTried[y]}
              T == {y \in m.mapInfo : m.fInTried[y]}
  <1>0. /\ m \in AddrManType /\ x \in Addr /\ m.mapInfo \subseteq Addr
        /\ m.nRefCount \in [Addr -> Nat] /\ m.fInTried \in [Addr -> BOOLEAN]
        /\ m.vvTried \in [TriedBucket -> SUBSET Addr] /\ m.vvNew \in [NewBucket -> SUBSET Addr]
        /\ m.nNew \in Nat /\ m.nTried \in Nat
    BY DEF Coherent, AddrManType
  <1>1. IsFiniteSet(N) /\ x \notin N /\ IsFiniteSet(T) /\ x \in T
    BY <1>0, FiniteParts
  <1>2. m.nNew = Cardinality(N) /\ m.nTried = Cardinality(T) /\ Len(m.vRandom) = m.nNew + m.nTried
    BY DEF Coherent, CountersExact
  <1>3. m.nTried # 0
    <2>. HIDE DEF T
    <2>. QED
      BY <1>1, <1>2, FS_EmptySet
  <1>4. /\ r \in AddrManType
        /\ r.mapInfo = m.mapInfo /\ r.source = m.source
        /\ r.nRandomPos = m.nRandomPos /\ r.vRandom = m.vRandom
        /\ r.nNew = m.nNew + 1 /\ r.nTried = m.nTried - 1
        /\ \A y \in Addr : r.fInTried[y] <=> y # x /\ m.fInTried[y]
        /\ \A y \in Addr : r.nRefCount[y] = IF y = x THEN 1 ELSE m.nRefCount[y]
        /\ r.vvNew[u] = m.vvNew[u] \cup {x}
        /\ \A c \in NewBucket \ {u} : r.vvNew[c] = m.vvNew[c]
        /\ r.vvTried[GetTriedBucket[x]] = m.vvTried[GetTriedBucket[x]] \ {x}
        /\ \A k \in TriedBucket \ {GetTriedBucket[x]} : r.vvTried[k] = m.vvTried[k]
    <2>1. m \in AddrManType /\ x \in Addr
      BY <1>0
    <2>. HIDE DEF N, T
    <2>. QED
      BY <1>3, <2>1, EvictToFields
  <1>. HIDE DEF r
  <1>5. \A y \in Addr : r.fInTried[y] <=> y # x /\ m.fInTried[y]
    BY <1>4
  <1>6. \A y \in Addr : r.nRefCount[y] = IF y = x THEN 1 ELSE m.nRefCount[y]
    BY <1>4
  <1>7. /\ r.vvNew[u] = m.vvNew[u] \cup {x}
        /\ \A c \in NewBucket \ {u} : r.vvNew[c] = m.vvNew[c]
    BY <1>4
  <1>8. /\ r.vvTried[GetTriedBucket[x]] = m.vvTried[GetTriedBucket[x]] \ {x}
        /\ \A k \in TriedBucket \ {GetTriedBucket[x]} : r.vvTried[k] = m.vvTried[k]
    BY <1>4
  <1>9. /\ r \in AddrManType /\ r.mapInfo = m.mapInfo /\ r.source = m.source
        /\ r.nRandomPos = m.nRandomPos /\ r.vRandom = m.vRandom
        /\ r.nNew = m.nNew + 1 /\ r.nTried = m.nTried - 1
    BY <1>4
  <1>10. PlacesExact(r)
    BY <1>9 DEF Coherent, PlacesExact
  <1>11. ReferencesExact(r)
    <2>0. \A c \in NewBucket : x \notin m.vvNew[c]
      BY DEF Coherent, ReferencesExact
    <2>1. \A y \in Addr : r.nRefCount[y] = Cardinality({b \in NewBucket : y \in r.vvNew[b]})
      <3>. SUFFICES ASSUME NEW y \in Addr
                    PROVE  r.nRefCount[y] = Cardinality({b \in NewBucket : y \in r.vvNew[b]})
        OBVIOUS
      <3>1. CASE y = x
        <4>1. {b \in NewBucket : y \in r.vvNew[b]} = {u}
          BY <1>7, <2>0, <3>1
        <4>. QED
          BY <1>6, <3>1, <4>1, FS_Singleton
      <3>2. CASE y # x
        <4>1. {b \in NewBucket : y \in r.vvNew[b]} = {b \in NewBucket : y \in m.vvNew[b]}
          BY <1>7, <3>2
        <4>. QED
          BY <1>6, <3>2, <4>1 DEF Coherent, ReferencesExact
      <3>. QED
        BY <3>1, <3>2
    <2>2. \A b \in NewBucket : r.vvNew[b] \subseteq {y \in r.mapInfo : ~ r.fInTried[y]}
      <3>1. \A b \in NewBucket : m.vvNew[b] \subseteq {y \in m.mapInfo : ~ m.fInTried[y]}
        BY DEF Coherent, ReferencesExact
      <3>. SUFFICES ASSUME NEW b \in NewBucket, NEW y \in r.vvNew[b]
                    PROVE  y \in r.mapInfo /\ ~ r.fInTried[y]
        OBVIOUS
      <3>2. y = x \/ (y # x /\ y \in m.vvNew[b])
        BY <1>7, <2>0
      <3>3. y \in m.mapInfo
        BY <3>1, <3>2
      <3>4. y = x \/ ~ m.fInTried[y]
        BY <3>1, <3>2
      <3>. QED
        BY <1>0, <1>5, <1>9, <3>3, <3>4
    <2>3. \A k \in TriedBucket :
            r.vvTried[k] = {y \in r.mapInfo : r.fInTried[y] /\ GetTriedBucket[y] = k}
      <3>. SUFFICES ASSUME NEW k \in TriedBucket
                    PROVE  r.vvTried[k] = {y \in r.mapInfo : r.fInTried[y] /\ GetTriedBucket[y] = k}
        OBVIOUS
      <3>1. m.vvTried[k] = {y \in m.mapInfo : m.fInTried[y] /\ GetTriedBucket[y] = k}
        BY DEF Coherent, ReferencesExact
      <3>2. CASE k = GetTriedBucket[x]
        BY <1>0, <1>5, <1>8, <1>9, <3>1, <3>2
      <3>3. CASE k # GetTriedBucket[x]
        <4>1. r.vvTried[k] = m.vvTried[k] /\ r.mapInfo = m.mapInfo
          BY <1>8, <1>9, <3>3
        <4>2. \A y \in m.mapInfo : GetTriedBucket[y] = k => y # x
          BY <3>3
        <4>3. \A y \in m.mapInfo : y # x => (r.fInTried[y] <=> m.fInTried[y])
          BY <1>0, <1>5
        <4>. QED
          BY <3>1, <4>1, <4>2, <4>3
      <3>. QED
        BY <3>2, <3>3
    <2>. QED
      BY <2>1, <2>2, <2>3 DEF ReferencesExact
  <1>12. CountersExact(r)
    <2>1. {y \in r.mapInfo : r.fInTried[y]} = T \ {x}
      BY <1>0, <1>5, <1>9
    <2>2. {y \in r.mapInfo : ~ r.fInTried[y]} = N \cup {x}
      BY <1>0, <1>5, <1>9
    <2>. HIDE DEF N, T
    <2>3. Cardinality(N \cup {x}) = Cardinality(N) + 1 /\ Cardinality(T \ {x}) = Cardinality(T) - 1
      BY <1>1, FS_RemoveElement, FS_AddElement
    <2>4. Len(r.vRandom) = r.nNew + r.nTried
      BY <1>0, <1>2, <1>9
    <2>. QED
      BY <1>2, <1>9, <2>1, <2>2, <2>3, <2>4 DEF CountersExact
  <1>13. EntriesOnly(r)
    BY <1>0, <1>5, <1>9 DEF Coherent, EntriesOnly
  <1>14. Coherent(r)
    BY <1>9, <1>10, <1>11, <1>12, <1>13 DEF Coherent
  <1>. QED
    BY <1>5, <1>6, <1>7, <1>8, <1>9, <1>14 DEF r

-----------------------------------------------------------------------------
\* Tables with the same members are the same.
LEMMA SameMembers ==
    ASSUME NEW r \in AddrManType, NEW q \in AddrManType,
           r.mapInfo = q.mapInfo, r.source = q.source, r.nRefCount = q.nRefCount,
           r.fInTried = q.fInTried, r.nRandomPos = q.nRandomPos, r.vRandom = q.vRandom,
           r.vvNew = q.vvNew, r.vvTried = q.vvTried, r.nNew = q.nNew, r.nTried = q.nTried
    PROVE  r = q
  <1>1. r = [mapInfo |-> r.mapInfo, source |-> r.source, nRefCount |-> r.nRefCount,
               fInTried |-> r.fInTried, nRandomPos |-> r.nRandomPos, vRandom |-> r.vRandom,
               vvNew |-> r.vvNew, vvTried |-> r.vvTried, nNew |-> r.nNew, nTried |-> r.nTried]
    BY DEF AddrManType
  <1>2. q = [mapInfo |-> q.mapInfo, source |-> q.source, nRefCount |-> q.nRefCount,
               fInTried |-> q.fInTried, nRandomPos |-> q.nRandomPos, vRandom |-> q.vRandom,
               vvNew |-> q.vvNew, vvTried |-> q.vvTried, nNew |-> q.nNew, nTried |-> q.nTried]
    BY DEF AddrManType
  <1>. QED
    BY <1>1, <1>2

\* MakeTried evicts before it enters; the other order has the same result.
LEMMA EvictAndEnter ==
    ASSUME NEW l \in AddrManType, NEW a \in Addr, NEW x \in Addr, a # x,
           NEW u \in NewBucket, l.nTried # 0
    PROVE  EnterTried(EvictTo(l, x, u), a) = EvictTo(EnterTried(l, a), x, u)
  <1>. DEFINE e == EvictTo(l, x, u)
              r == EnterTried(e, a)
              p == EnterTried(l, a)
              q == EvictTo(p, x, u)
              ka == GetTriedBucket[a]
              kx == GetTriedBucket[x]
  <1>0. l.nNew \in Nat /\ l.nTried \in Nat /\ ka \in TriedBucket /\ kx \in TriedBucket
    BY AddrManAssumption DEF AddrManType
  <1>1. /\ e \in AddrManType
        /\ e.mapInfo = l.mapInfo /\ e.source = l.source
        /\ e.nRandomPos = l.nRandomPos /\ e.vRandom = l.vRandom
        /\ e.nNew = l.nNew + 1 /\ e.nTried = l.nTried - 1
    BY EvictToFields
  <1>2. /\ \A y \in Addr : e.fInTried[y] <=> y # x /\ l.fInTried[y]
        /\ \A y \in Addr : e.nRefCount[y] = IF y = x THEN 1 ELSE l.nRefCount[y]
        /\ e.vvNew[u] = l.vvNew[u] \cup {x}
        /\ \A c \in NewBucket \ {u} : e.vvNew[c] = l.vvNew[c]
        /\ e.vvTried[kx] = l.vvTried[kx] \ {x}
        /\ \A k \in TriedBucket \ {kx} : e.vvTried[k] = l.vvTried[k]
    BY EvictToFields
  <1>3. /\ p \in AddrManType
        /\ p.mapInfo = l.mapInfo /\ p.source = l.source /\ p.nRefCount = l.nRefCount
        /\ p.nRandomPos = l.nRandomPos /\ p.vRandom = l.vRandom /\ p.vvNew = l.vvNew
        /\ p.nNew = l.nNew /\ p.nTried = l.nTried + 1
    BY EnterTriedFields
  <1>4. /\ \A y \in Addr : p.fInTried[y] <=> y = a \/ l.fInTried[y]
        /\ p.vvTried[ka] = l.vvTried[ka] \cup {a}
        /\ \A k \in TriedBucket \ {ka} : p.vvTried[k] = l.vvTried[k]
    BY EnterTriedFields
  <1>. HIDE DEF e, p
  <1>5. e \in AddrManType /\ p \in AddrManType /\ p.nTried # 0
    BY <1>0, <1>1, <1>3
  <1>6. /\ r \in AddrManType
        /\ r.mapInfo = e.mapInfo /\ r.source = e.source /\ r.nRefCount = e.nRefCount
        /\ r.nRandomPos = e.nRandomPos /\ r.vRandom = e.vRandom /\ r.vvNew = e.vvNew
        /\ r.nNew = e.nNew /\ r.nTried = e.nTried + 1
    BY <1>5, EnterTriedFields
  <1>7. /\ \A y \in Addr : r.fInTried[y] <=> y = a \/ e.fInTried[y]
        /\ r.vvTried[ka] = e.vvTried[ka] \cup {a}
        /\ \A k \in TriedBucket \ {ka} : r.vvTried[k] = e.vvTried[k]
    <2>1. \A y \in Addr : r.fInTried[y] <=> y = a \/ e.fInTried[y]
      BY <1>5, EnterTriedFields
    <2>2. /\ r.vvTried[ka] = e.vvTried[ka] \cup {a}
          /\ \A k \in TriedBucket \ {ka} : r.vvTried[k] = e.vvTried[k]
      BY <1>5, EnterTriedFields
    <2>. QED
      BY <2>1, <2>2
  <1>8. /\ q \in AddrManType
        /\ q.mapInfo = p.mapInfo /\ q.source = p.source
        /\ q.nRandomPos = p.nRandomPos /\ q.vRandom = p.vRandom
        /\ q.nNew = p.nNew + 1 /\ q.nTried = p.nTried - 1
    BY <1>5, EvictToFields
  <1>9. /\ \A y \in Addr : q.fInTried[y] <=> y # x /\ p.fInTried[y]
        /\ \A y \in Addr : q.nRefCount[y] = IF y = x THEN 1 ELSE p.nRefCount[y]
        /\ q.vvNew[u] = p.vvNew[u] \cup {x}
        /\ \A c \in NewBucket \ {u} : q.vvNew[c] = p.vvNew[c]
        /\ q.vvTried[kx] = p.vvTried[kx] \ {x}
        /\ \A k \in TriedBucket \ {kx} : q.vvTried[k] = p.vvTried[k]
    <2>1. \A y \in Addr : q.fInTried[y] <=> y # x /\ p.fInTried[y]
      BY <1>5, EvictToFields
    <2>2. \A y \in Addr : q.nRefCount[y] = IF y = x THEN 1 ELSE p.nRefCount[y]
      BY <1>5, EvictToFields
    <2>3. /\ q.vvNew[u] = p.vvNew[u] \cup {x}
          /\ \A c \in NewBucket \ {u} : q.vvNew[c] = p.vvNew[c]
      BY <1>5, EvictToFields
    <2>4. /\ q.vvTried[kx] = p.vvTried[kx] \ {x}
          /\ \A k \in TriedBucket \ {kx} : q.vvTried[k] = p.vvTried[k]
      BY <1>5, EvictToFields
    <2>. QED
      BY <2>1, <2>2, <2>3, <2>4
  <1>. HIDE DEF r, q, ka, kx
  <1>10. /\ r.mapInfo = q.mapInfo /\ r.source = q.source
         /\ r.nRandomPos = q.nRandomPos /\ r.vRandom = q.vRandom
    BY <1>1, <1>3, <1>6, <1>8
  <1>11. r.nNew = q.nNew /\ r.nTried = q.nTried
    BY <1>0, <1>1, <1>3, <1>6, <1>8
  <1>12. /\ r.nRefCount \in [Addr -> Nat] /\ q.nRefCount \in [Addr -> Nat]
         /\ r.fInTried \in [Addr -> BOOLEAN] /\ q.fInTried \in [Addr -> BOOLEAN]
         /\ r.vvNew \in [NewBucket -> SUBSET Addr] /\ q.vvNew \in [NewBucket -> SUBSET Addr]
         /\ r.vvTried \in [TriedBucket -> SUBSET Addr] /\ q.vvTried \in [TriedBucket -> SUBSET Addr]
    BY <1>6, <1>8 DEF AddrManType
  <1>13. r.nRefCount = q.nRefCount
    <2>1. \A y \in Addr : r.nRefCount[y] = q.nRefCount[y]
      BY <1>2, <1>3, <1>6, <1>9
    <2>. QED
      BY <1>12, <2>1
  <1>14. r.fInTried = q.fInTried
    <2>1. \A y \in Addr : r.fInTried[y] <=> q.fInTried[y]
      BY <1>2, <1>4, <1>7, <1>9
    <2>2. \A y \in Addr : r.fInTried[y] \in BOOLEAN /\ q.fInTried[y] \in BOOLEAN
      BY <1>12
    <2>3. \A y \in Addr : r.fInTried[y] = q.fInTried[y]
      BY <2>1, <2>2
    <2>. QED
      BY <1>12, <2>3
  <1>15. r.vvNew = q.vvNew
    <2>1. ASSUME NEW c \in NewBucket
          PROVE  r.vvNew[c] = q.vvNew[c]
      <3>1. r.vvNew[c] = e.vvNew[c] /\ p.vvNew[c] = l.vvNew[c]
        BY <1>3, <1>6
      <3>2. CASE c = u
        BY <1>2, <1>9, <3>1, <3>2
      <3>3. CASE c # u
        BY <1>2, <1>9, <3>1, <3>3
      <3>. QED
        BY <3>2, <3>3
    <2>. QED
      BY <1>12, <2>1
  <1>16. r.vvTried = q.vvTried
    <2>1. ASSUME NEW k \in TriedBucket
          PROVE  r.vvTried[k] = q.vvTried[k]
      <3>1. CASE k = ka /\ k = kx
        <4>1. r.vvTried[k] = (l.vvTried[k] \ {x}) \cup {a}
          BY <1>2, <1>7, <3>1
        <4>2. q.vvTried[k] = (l.vvTried[k] \cup {a}) \ {x}
          BY <1>4, <1>9, <3>1
        <4>. QED
          BY <4>1, <4>2
      <3>2. CASE k = ka /\ k # kx
        BY <1>2, <1>4, <1>7, <1>9, <3>2
      <3>3. CASE k # ka /\ k = kx
        BY <1>2, <1>4, <1>7, <1>9, <3>3
      <3>4. CASE k # ka /\ k # kx
        BY <1>2, <1>4, <1>7, <1>9, <3>4
      <3>. QED
        BY <3>1, <3>2, <3>3, <3>4
    <2>. QED
      BY <1>12, <2>1
  <1>17. r = q
    BY <1>6, <1>8, <1>10, <1>11, <1>13, <1>14, <1>15, <1>16, SameMembers
  <1>. QED
    BY <1>17 DEF r, q, e, p

(***************************************************************************)
(* MakeTried: "there is certainly place" in the new bucket that the entry   *)
(* it evicts goes back to.                                                  *)
(***************************************************************************)
LEMMA MakeTriedCorrect ==
    ASSUME NEW m, Sound(m), NEW a \in m.mapInfo, ~ m.fInTried[a],
           NEW o \in NewBucket, a \in m.vvNew[o], NEW x,
           \/ Cardinality(m.vvTried[GetTriedBucket[a]]) < TRIED_BUCKET_SIZE
           \/ x \in m.vvTried[GetTriedBucket[a]]
    PROVE  Sound(MakeTried(m, a, o, x)) /\ MakeTried(m, a, o, x).mapInfo = m.mapInfo
  <1>. DEFINE ka == GetTriedBucket[a]
              p == Promote(m, a)
              r == MakeTried(m, a, o, x)
  <1>0. /\ Coherent(m) /\ Bounded(m) /\ Referenced(m, m.mapInfo)
        /\ m \in AddrManType /\ m.mapInfo \subseteq Addr /\ a \in Addr
        /\ m.vvNew \in [NewBucket -> SUBSET Addr] /\ m.vvTried \in [TriedBucket -> SUBSET Addr]
        /\ ka \in TriedBucket
    BY AddrManAssumption DEF Sound, Coherent, AddrManType
  <1>1. /\ \A c \in NewBucket : IsFiniteSet(m.vvNew[c]) /\ Cardinality(m.vvNew[c]) \in Nat
        /\ \A k \in TriedBucket : IsFiniteSet(m.vvTried[k]) /\ Cardinality(m.vvTried[k]) \in Nat
    BY <1>0, FiniteParts
  <1>2. /\ \A c \in NewBucket : Cardinality(m.vvNew[c]) <= NEW_BUCKET_SIZE
        /\ \A k \in TriedBucket : Cardinality(m.vvTried[k]) <= TRIED_BUCKET_SIZE
        /\ NEW_BUCKET_SIZE \in Nat /\ TRIED_BUCKET_SIZE \in Nat
    BY <1>0, AddrManAssumption DEF Bounded
  <1>3. Coherent(p) /\ p.mapInfo = m.mapInfo /\ p.source = m.source
    BY <1>0, PromoteCoherent
  <1>4. \A y \in Addr : p.fInTried[y] <=> y = a \/ m.fInTried[y]
    BY <1>0, PromoteCoherent
  <1>5. \A y \in Addr : p.nRefCount[y] = IF y = a THEN 0 ELSE m.nRefCount[y]
    BY <1>0, PromoteCoherent
  <1>6. \A c \in NewBucket : p.vvNew[c] = m.vvNew[c] \ {a}
    BY <1>0, PromoteCoherent
  <1>7. /\ p.vvTried[ka] = m.vvTried[ka] \cup {a}
        /\ \A k \in TriedBucket \ {ka} : p.vvTried[k] = m.vvTried[k]
    BY <1>0, PromoteCoherent
  <1>8. \A c \in NewBucket : /\ IsFiniteSet(p.vvNew[c]) /\ Cardinality(p.vvNew[c]) \in Nat
                             /\ Cardinality(p.vvNew[c]) <= NEW_BUCKET_SIZE
    <2>. SUFFICES ASSUME NEW c \in NewBucket
                  PROVE  /\ IsFiniteSet(p.vvNew[c]) /\ Cardinality(p.vvNew[c]) \in Nat
                         /\ Cardinality(p.vvNew[c]) <= NEW_BUCKET_SIZE
      OBVIOUS
    <2>. HIDE DEF p
    <2>1. p.vvNew[c] = m.vvNew[c] \ {a} /\ IsFiniteSet(m.vvNew[c])
      BY <1>1, <1>6
    <2>2. p.vvNew[c] \in SUBSET m.vvNew[c]
      BY <2>1
    <2>3. IsFiniteSet(p.vvNew[c]) /\ Cardinality(p.vvNew[c]) <= Cardinality(m.vvNew[c])
      BY <2>1, <2>2, FS_Subset
    <2>4. Cardinality(p.vvNew[c]) \in Nat
      BY <2>3, FS_CardinalityType
    <2>5. Cardinality(m.vvNew[c]) \in Nat /\ Cardinality(m.vvNew[c]) <= NEW_BUCKET_SIZE
      BY <1>1, <1>2
    <2>. QED
      BY <1>2, <2>3, <2>4, <2>5
  <1>9. Cardinality(p.vvNew[o]) < NEW_BUCKET_SIZE
    <2>. HIDE DEF p
    <2>1. p.vvNew[o] = m.vvNew[o] \ {a} /\ IsFiniteSet(m.vvNew[o])
      BY <1>1, <1>6
    <2>2. Cardinality(p.vvNew[o]) = Cardinality(m.vvNew[o]) - 1
      BY <2>1, FS_RemoveElement
    <2>3. Cardinality(m.vvNew[o]) \in Nat /\ Cardinality(m.vvNew[o]) <= NEW_BUCKET_SIZE
      BY <1>1, <1>2
    <2>. QED
      BY <1>2, <2>2, <2>3
  <1>10. Cardinality(m.vvTried[ka] \cup {a}) = Cardinality(m.vvTried[ka]) + 1
    <2>1. a \notin m.vvTried[ka] /\ IsFiniteSet(m.vvTried[ka])
      BY <1>0, <1>1 DEF Coherent, ReferencesExact
    <2>. QED
      BY <2>1, FS_AddElement
  <1>11. CASE Cardinality(m.vvTried[ka]) < TRIED_BUCKET_SIZE
    <2>1. r = p
      BY <1>11 DEF MakeTried, Promote
    <2>. HIDE DEF p, ka
    <2>2. Cardinality(p.vvTried[ka]) <= TRIED_BUCKET_SIZE
      BY <1>0, <1>1, <1>2, <1>7, <1>10, <1>11
    <2>3. \A k \in TriedBucket : Cardinality(p.vvTried[k]) <= TRIED_BUCKET_SIZE
      BY <1>2, <1>7, <2>2
    <2>4. Bounded(p)
      BY <1>8, <2>3 DEF Bounded
    <2>5. Referenced(p, p.mapInfo)
      BY <1>0, <1>3, <1>4, <1>5 DEF Referenced
    <2>. QED
      BY <1>3, <2>1, <2>4, <2>5 DEF Sound
  <1>12. CASE ~ (Cardinality(m.vvTried[ka]) < TRIED_BUCKET_SIZE)
    <2>. DEFINE l == LeaveNew(m, a)
                b == GetNewBucket[<<x, m.source[x]>>]
                u == IF Cardinality(l.vvNew[b]) < NEW_BUCKET_SIZE THEN b ELSE o
                q == EvictTo(p, x, u)
    <2>1. x \in m.mapInfo /\ x \in Addr /\ m.fInTried[x] /\ GetTriedBucket[x] = ka /\ a # x
      <3>1. x \in m.vvTried[ka]
        BY <1>12
      <3>. QED
        BY <1>0, <3>1 DEF Coherent, ReferencesExact
    <2>2. b \in NewBucket
      <3>1. m.source[x] \in Source
        BY <1>0, <2>1 DEF Coherent, EntriesOnly
      <3>2. <<x, m.source[x]>> \in Addr \X Source
        BY <2>1, <3>1
      <3>. QED
        BY <3>2, AddrManAssumption
    <2>3. /\ l \in AddrManType /\ l.source = m.source /\ l.nTried = m.nTried
          /\ \A c \in NewBucket : l.vvNew[c] = m.vvNew[c] \ {a}
      BY <1>0, LeaveNewFields
    <2>4. l.nTried # 0
      <3>. DEFINE T == {y \in m.mapInfo : m.fInTried[y]}
      <3>1. x \in T /\ IsFiniteSet(T) /\ m.nTried = Cardinality(T)
        BY <1>0, <2>1, FiniteParts DEF Coherent, CountersExact
      <3>. HIDE DEF T
      <3>2. m.nTried # 0
        BY <3>1, FS_EmptySet
      <3>. QED
        BY <2>3, <3>2
    <2>5. u \in NewBucket /\ Cardinality(p.vvNew[u]) < NEW_BUCKET_SIZE
      <3>. HIDE DEF l, p, b
      <3>1. l.vvNew[b] = p.vvNew[b]
        BY <1>6, <2>2, <2>3
      <3>. QED
        BY <1>9, <2>2, <3>1
    <2>6. r = EnterTried(EvictTo(l, x, u), a)
      <3>1. l.source = m.source
        BY <2>3
      <3>. HIDE DEF l
      <3>2. EvictTried(l, x, o) = EvictTo(l, x, u)
        BY <3>1 DEF EvictTried
      <3>3. r = EnterTried(EvictTried(l, x, o), a)
        BY <1>12 DEF MakeTried, l
      <3>. QED
        BY <3>2, <3>3
    <2>. HIDE DEF u, b
    <2>7. r = q
      <3>1. p = EnterTried(l, a)
        BY DEF Promote
      <3>2. EnterTried(EvictTo(l, x, u), a) = EvictTo(EnterTried(l, a), x, u)
        <4>1. l \in AddrManType
          BY <2>3
        <4>. HIDE DEF l, p
        <4>. QED
          BY <1>0, <2>1, <2>4, <2>5, <4>1, EvictAndEnter
      <3>. QED
        BY <2>6, <3>1, <3>2
    <2>. HIDE DEF p, r, l
    <2>8. Coherent(p) /\ x \in p.mapInfo /\ p.fInTried[x] /\ u \in NewBucket
      BY <1>3, <1>4, <2>1, <2>5
    <2>9. /\ Coherent(q) /\ q.mapInfo = p.mapInfo
          /\ \A y \in Addr : q.fInTried[y] <=> y # x /\ p.fInTried[y]
          /\ \A y \in Addr : q.nRefCount[y] = IF y = x THEN 1 ELSE p.nRefCount[y]
      BY <2>8, EvictToCoherent
    <2>10. /\ q.vvNew[u] = p.vvNew[u] \cup {x}
           /\ \A c \in NewBucket \ {u} : q.vvNew[c] = p.vvNew[c]
      BY <2>8, EvictToCoherent
    <2>11. /\ q.vvTried[ka] = p.vvTried[ka] \ {x}
           /\ \A k \in TriedBucket \ {ka} : q.vvTried[k] = p.vvTried[k]
      <3>1. /\ q.vvTried[GetTriedBucket[x]] = p.vvTried[GetTriedBucket[x]] \ {x}
            /\ \A k \in TriedBucket \ {GetTriedBucket[x]} : q.vvTried[k] = p.vvTried[k]
        BY <2>8, EvictToCoherent
      <3>. QED
        BY <2>1, <3>1
    <2>. HIDE DEF q, ka
    <2>12. Cardinality(q.vvNew[u]) <= NEW_BUCKET_SIZE
      <3>1. x \notin p.vvNew[u]
        BY <2>8 DEF Coherent, ReferencesExact
      <3>2. IsFiniteSet(p.vvNew[u]) /\ Cardinality(p.vvNew[u]) \in Nat
        BY <1>8, <2>5
      <3>3. Cardinality(p.vvNew[u] \cup {x}) = Cardinality(p.vvNew[u]) + 1
        BY <3>1, <3>2, FS_AddElement
      <3>. QED
        BY <1>2, <2>5, <2>10, <3>2, <3>3
    <2>13. Cardinality(q.vvTried[ka]) <= TRIED_BUCKET_SIZE
      <3>1. x \in m.vvTried[ka] /\ IsFiniteSet(m.vvTried[ka])
        BY <1>0, <1>1, <1>12 DEF ka
      <3>2. q.vvTried[ka] = (m.vvTried[ka] \cup {a}) \ {x}
        BY <1>7, <2>11
      <3>3. IsFiniteSet(m.vvTried[ka] \cup {a}) /\ x \in m.vvTried[ka] \cup {a}
        BY <3>1, FS_AddElement
      <3>4. Cardinality(q.vvTried[ka]) = Cardinality(m.vvTried[ka] \cup {a}) - 1
        <4>. DEFINE W == m.vvTried[ka] \cup {a}
        <4>1. IsFiniteSet(W) /\ x \in W /\ q.vvTried[ka] = W \ {x}
          BY <3>2, <3>3
        <4>. HIDE DEF W
        <4>2. Cardinality(W \ {x}) = Cardinality(W) - 1
          BY <4>1, FS_RemoveElement
        <4>. QED
          BY <4>1, <4>2 DEF W
      <3>5. Cardinality(m.vvTried[ka]) \in Nat /\ Cardinality(m.vvTried[ka]) <= TRIED_BUCKET_SIZE
        BY <1>0, <1>1, <1>2
      <3>. QED
        BY <1>2, <1>10, <3>4, <3>5
    <2>14. Bounded(q)
      <3>1. \A c \in NewBucket : Cardinality(q.vvNew[c]) <= NEW_BUCKET_SIZE
        BY <1>8, <2>10, <2>12
      <3>2. \A k \in TriedBucket : Cardinality(q.vvTried[k]) <= TRIED_BUCKET_SIZE
        BY <1>2, <1>7, <2>11, <2>13
      <3>. QED
        BY <3>1, <3>2 DEF Bounded
    <2>15. Referenced(q, q.mapInfo)
      <3>. SUFFICES ASSUME NEW y \in m.mapInfo
                    PROVE  q.fInTried[y] \/ q.nRefCount[y] \in 1 .. NEW_BUCKETS_PER_ADDRESS
        BY <1>3, <2>9 DEF Referenced
      <3>1. y \in Addr
        BY <1>0
      <3>2. CASE y = x
        BY <2>9, <3>1, <3>2, AddrManAssumption
      <3>3. CASE y # x /\ y = a
        BY <1>4, <2>9, <3>1, <3>3
      <3>4. CASE y # x /\ y # a
        <4>1. m.fInTried[y] \/ m.nRefCount[y] \in 1 .. NEW_BUCKETS_PER_ADDRESS
          BY <1>0 DEF Referenced
        <4>2. q.nRefCount[y] = m.nRefCount[y]
          BY <1>5, <2>9, <3>1, <3>4
        <4>3. m.fInTried[y] => q.fInTried[y]
          BY <1>4, <2>9, <3>1, <3>4
        <4>. QED
          BY <4>1, <4>2, <4>3
      <3>. QED
        BY <3>2, <3>3, <3>4
    <2>16. Sound(r) /\ r.mapInfo = m.mapInfo
      BY <1>3, <2>7, <2>9, <2>14, <2>15 DEF Sound
    <2>. QED
      BY <2>16 DEF r
  <1>. QED
    BY <1>11, <1>12

-----------------------------------------------------------------------------
\* Add_ of a new address.
LEMMA AddFirstCorrect ==
    ASSUME Sound(am), NEW a \in Addr, NEW s \in Source, AddFirst(a, s)
    PROVE  Sound(am') /\ \A y \in am.mapInfo : am.fInTried[y] => y \in am'.mapInfo
  <1>. DEFINE c == Create(am, a, s)
              b == GetNewBucket[<<a, s>>]
  <1>0. /\ Coherent(am) /\ Bounded(am) /\ Referenced(am, am.mapInfo) /\ am \in AddrManType
        /\ am.mapInfo \subseteq Addr /\ a \notin am.mapInfo /\ b \in NewBucket
        /\ am.nRefCount \in [Addr -> Nat] /\ am.fInTried \in [Addr -> BOOLEAN]
    BY AddrManAssumption DEF Sound, Coherent, AddrManType, AddFirst
  <1>11. am \in AddrManType
    BY <1>0
  <1>1. Coherent(c)
    BY <1>0, CreateCoherent
  <1>2. c.mapInfo = am.mapInfo \cup {a} /\ c.vvNew = am.vvNew /\ c.vvTried = am.vvTried
    <2>1. c.mapInfo = am.mapInfo \cup {a}
      BY <1>11 DEF Create, AddrManType
    <2>2. c.vvNew = am.vvNew /\ c.vvTried = am.vvTried
      BY <1>11, CreateFields
    <2>. QED
      BY <2>1, <2>2
  <1>3. \A y \in am.mapInfo : (c.fInTried[y] <=> am.fInTried[y]) /\ c.nRefCount[y] = am.nRefCount[y]
    <2>1. c.nRefCount = [am.nRefCount EXCEPT ![a] = 0] /\ c.fInTried = [am.fInTried EXCEPT ![a] = FALSE]
      BY <1>11, CreateFields
    <2>. HIDE DEF c
    <2>. QED
      BY <1>0, <2>1
  <1>4. ~ c.fInTried[a] /\ c.nRefCount[a] = 0
    <2>1. c.nRefCount = [am.nRefCount EXCEPT ![a] = 0] /\ c.fInTried = [am.fInTried EXCEPT ![a] = FALSE]
      BY <1>11, CreateFields
    <2>. HIDE DEF c
    <2>. QED
      BY <1>0, <2>1
  <1>5. PICK x : (x \in am.vvNew[b] \/ am.vvNew[b] = {}) /\ am' = AddToBucket(c, a, b, x)
    BY DEF AddFirst
  <1>. HIDE DEF c, b
  <1>6. Bounded(c)
    BY <1>0, <1>2 DEF Bounded
  <1>7. Referenced(c, c.mapInfo \ {a})
    BY <1>0, <1>2, <1>3 DEF Referenced
  <1>8. a \notin c.vvNew[b]
    BY <1>0, <1>2 DEF Coherent, ReferencesExact
  <1>9. /\ a \in c.mapInfo /\ c.nRefCount[a] < NEW_BUCKETS_PER_ADDRESS
        /\ x \in c.vvNew[b] \/ c.vvNew[b] = {}
    BY <1>2, <1>4, <1>5, AddrManAssumption
  <1>10. /\ Coherent(am') /\ Bounded(am') /\ Referenced(am', am'.mapInfo)
         /\ \A y \in c.mapInfo : c.fInTried[y] => y \in am'.mapInfo
    BY <1>0, <1>1, <1>4, <1>5, <1>6, <1>7, <1>8, <1>9, AddToBucketCorrect
  <1>. QED
    BY <1>2, <1>3, <1>10 DEF Sound

\* Add_ of an address that has an entry in new buckets.
LEMMA AddAgainCorrect ==
    ASSUME Sound(am), NEW a \in Addr, NEW s \in Source, AddAgain(a, s)
    PROVE  Sound(am') /\ \A y \in am.mapInfo : am.fInTried[y] => y \in am'.mapInfo
  <1>. DEFINE b == GetNewBucket[<<a, s>>]
  <1>0. /\ Coherent(am) /\ Bounded(am) /\ Referenced(am, am.mapInfo)
        /\ a \in am.mapInfo /\ ~ am.fInTried[a] /\ b \in NewBucket
        /\ am.nRefCount[a] # NEW_BUCKETS_PER_ADDRESS
    BY AddrManAssumption DEF Sound, AddAgain
  <1>1. am.nRefCount[a] < NEW_BUCKETS_PER_ADDRESS
    <2>1. am.nRefCount[a] \in 1 .. NEW_BUCKETS_PER_ADDRESS
      BY <1>0 DEF Referenced
    <2>. QED
      BY <1>0, <2>1, AddrManAssumption
  <1>2. Referenced(am, am.mapInfo \ {a})
    BY <1>0 DEF Referenced
  <1>3. PICK x : (x \in am.vvNew[b] \/ am.vvNew[b] = {}) /\ am' = AddToBucket(am, a, b, x)
    BY DEF AddAgain
  <1>. HIDE DEF b
  <1>4. /\ Coherent(am') /\ Bounded(am') /\ Referenced(am', am'.mapInfo)
        /\ \A y \in am.mapInfo : am.fInTried[y] => y \in am'.mapInfo
    BY <1>0, <1>1, <1>2, <1>3, AddToBucketCorrect
  <1>. QED
    BY <1>4 DEF Sound

\* Good_ of an entry in new buckets.
LEMMA GoodCorrect ==
    ASSUME Sound(am), NEW a \in Addr, Good(a)
    PROVE  Sound(am') /\ am'.mapInfo = am.mapInfo
  <1>1. a \in am.mapInfo /\ ~ am.fInTried[a]
    BY DEF Good
  <1>2. PICK o \in NewBucket :
           /\ a \in am.vvNew[o]
           /\ \/ /\ Cardinality(am.vvTried[GetTriedBucket[a]]) < TRIED_BUCKET_SIZE
                 /\ am' = MakeTried(am, a, o, a)
              \/ \E x \in am.vvTried[GetTriedBucket[a]] : am' = MakeTried(am, a, o, x)
    BY DEF Good
  <1>3. PICK x : /\ \/ Cardinality(am.vvTried[GetTriedBucket[a]]) < TRIED_BUCKET_SIZE
                    \/ x \in am.vvTried[GetTriedBucket[a]]
                 /\ am' = MakeTried(am, a, o, x)
    BY <1>2
  <1>. QED
    BY <1>1, <1>2, <1>3, MakeTriedCorrect

\* An iteration of GetAddr_.
LEMMA GetAddrCorrect ==
    ASSUME Sound(am), NEW n, NEW nRndPos, GetAddr(n, nRndPos)
    PROVE  Sound(am') /\ am'.mapInfo = am.mapInfo
  <1>1. /\ Coherent(am) /\ Bounded(am) /\ Referenced(am, am.mapInfo) /\ am \in AddrManType
    BY DEF Sound, Coherent
  <1>2. Len(am.vRandom) \in Nat /\ DOMAIN am.vRandom = 1 .. Len(am.vRandom)
    BY <1>1, LenProperties DEF AddrManType
  <1>3. n \in 1 .. Len(am.vRandom) /\ nRndPos \in 1 .. Len(am.vRandom)
    BY <1>2 DEF GetAddr
  <1>4. am' = SwapRandom(am, n, nRndPos)
    BY DEF GetAddr
  <1>5. Coherent(am')
    BY <1>1, <1>3, <1>4, SwapCoherent
  <1>6. am'.mapInfo = am.mapInfo /\ SameTables(am, am')
    BY <1>1, <1>3, <1>4, SwapFields
  <1>7. Bounded(am') /\ Referenced(am', am'.mapInfo)
    BY <1>1, <1>6 DEF Bounded, Referenced, SameTables
  <1>. QED
    BY <1>5, <1>6, <1>7 DEF Sound

-----------------------------------------------------------------------------
(***************************************************************************)
(* A start of the node: every entry is in the file, as new or as tried, and *)
(* the order in which they are read is one of all of them.                  *)
(***************************************************************************)
LEMMA RestartCorrect ==
    ASSUME Sound(am), Restart
    PROVE  Sound(am') /\ am'.mapInfo = am.mapInfo /\ SameTables(am, am')
  <1>. DEFINE f == Serialize(am)
              N == {a \in am.mapInfo : ~ am.fInTried[a]}
              T == {a \in am.mapInfo : am.fInTried[a]}
              n == Cardinality(am.mapInfo)
              r == am'
  <1>0. /\ Coherent(am) /\ Bounded(am) /\ Referenced(am, am.mapInfo) /\ am \in AddrManType
        /\ PlacesExact(am) /\ ReferencesExact(am) /\ CountersExact(am) /\ EntriesOnly(am)
    BY DEF Sound, Coherent
  <1>1. /\ am.mapInfo \subseteq Addr /\ am.nRefCount \in [Addr -> Nat]
        /\ am.fInTried \in [Addr -> BOOLEAN] /\ am.source \in [Addr -> Source \cup {NoSource}]
        /\ am.vvNew \in [NewBucket -> SUBSET Addr] /\ am.vvTried \in [TriedBucket -> SUBSET Addr]
        /\ am.nNew \in Nat /\ am.nTried \in Nat
    BY <1>0 DEF AddrManType
  <1>2. f.tried = T /\ f.vvNew = am.vvNew /\ f.source = am.source
    BY DEF Serialize
  <1>3. f.new = N
    <2>1. ASSUME NEW a \in am.mapInfo, am.fInTried[a]
          PROVE  am.nRefCount[a] = 0
      <3>1. {b \in NewBucket : a \in am.vvNew[b]} = {}
        BY <1>0, <2>1 DEF ReferencesExact
      <3>2. am.nRefCount[a] = Cardinality({b \in NewBucket : a \in am.vvNew[b]})
        BY <1>0, <1>1 DEF ReferencesExact
      <3>. QED
        BY <3>1, <3>2, FS_EmptySet
    <2>2. ASSUME NEW a \in am.mapInfo, ~ am.fInTried[a]
          PROVE  am.nRefCount[a] > 0
      <3>1. am.nRefCount[a] \in 1 .. NEW_BUCKETS_PER_ADDRESS
        BY <1>0, <2>2 DEF Referenced
      <3>. QED
        BY <3>1
    <2>3. f.new = {a \in am.mapInfo : am.nRefCount[a] > 0}
      BY DEF Serialize
    <2>. QED
      BY <2>1, <2>2, <2>3
  <1>4. N \cup T = am.mapInfo /\ N \cap T = {}
    OBVIOUS
  <1>5. PICK order \in [1 .. n -> am.mapInfo] : IsOrder(order, f) /\ am' = Unserialize(f, order)
    <2>1. f.new \cup f.tried = am.mapInfo
      BY <1>2, <1>3, <1>4
    <2>. HIDE DEF f, N, T
    <2>. QED
      BY <2>1 DEF Restart, f
  <1>6. n \in Nat /\ IsFiniteSet(am.mapInfo)
    BY <1>1, FiniteParts
  <1>. HIDE DEF n
  <1>7. \A i, j \in 1 .. n : i # j => order[i] # order[j]
    BY <1>5 DEF IsOrder
  <1>8. \A a \in am.mapInfo : \E i \in 1 .. n : order[i] = a
    <2>1. order \in Injection(1 .. n, am.mapInfo)
      BY <1>5, <1>7 DEF Injection, IsInjective
    <2>2. Cardinality(1 .. n) = n
      BY <1>6, FS_Interval
    <2>3. order \in Surjection(1 .. n, am.mapInfo)
      BY <1>6, <2>1, <2>2, FS_Injection DEF n
    <2>. QED
      BY <2>3 DEF Surjection
  <1>9. order \in Seq(Addr) /\ Len(order) = n /\ DOMAIN order = 1 .. n
    <2>1. order \in [1 .. n -> Addr]
      BY <1>1, <1>5
    <2>2. order \in Seq(Addr)
      BY <1>6, <2>1, SeqDef
    <2>3. DOMAIN order = 1 .. Len(order) /\ Len(order) \in Nat /\ DOMAIN order = 1 .. n
      BY <2>1, <2>2, LenProperties
    <2>. QED
      BY <1>6, <2>2, <2>3
  <1>. DEFINE pos == [a \in Addr |-> IF \E i \in DOMAIN order : order[i] = a
                                       THEN CHOOSE i \in DOMAIN order : order[i] = a
                                       ELSE 0]
  <1>10. /\ pos \in [Addr -> Nat]
         /\ \A i \in 1 .. n : pos[order[i]] = i
    <2>1. ASSUME NEW a \in Addr
          PROVE  pos[a] \in Nat
      BY <1>6, <1>9
    <2>2. ASSUME NEW i \in 1 .. n
          PROVE  pos[order[i]] = i
      <3>1. order[i] \in Addr /\ i \in DOMAIN order
        BY <1>1, <1>5, <1>9
      <3>2. pos[order[i]] = CHOOSE k \in DOMAIN order : order[k] = order[i]
        BY <3>1
      <3>3. \A k \in DOMAIN order : order[k] = order[i] => k = i
        BY <1>7, <1>9
      <3>. QED
        BY <3>1, <3>2, <3>3
    <2>. QED
      BY <2>1, <2>2
  <1>11. /\ r.mapInfo = f.new \cup f.tried /\ r.source = f.source /\ r.vvNew = f.vvNew
         /\ r.nRefCount = [a \in Addr |-> Cardinality({b \in NewBucket : a \in f.vvNew[b]})]
         /\ r.fInTried = [a \in Addr |-> a \in f.tried]
         /\ r.vvTried = [k \in TriedBucket |-> {a \in f.tried : GetTriedBucket[a] = k}]
         /\ r.nRandomPos = pos /\ r.vRandom = order
         /\ r.nNew = Cardinality(f.new) /\ r.nTried = Cardinality(f.tried)
         /\ r = [mapInfo |-> r.mapInfo, source |-> r.source, nRefCount |-> r.nRefCount,
                 fInTried |-> r.fInTried, nRandomPos |-> r.nRandomPos, vRandom |-> r.vRandom,
                 vvNew |-> r.vvNew, vvTried |-> r.vvTried, nNew |-> r.nNew, nTried |-> r.nTried]
    <2>. HIDE DEF f
    <2>. QED
      BY <1>5 DEF Unserialize, Rebuild
  <1>. HIDE DEF pos, f
  <1>12. r.mapInfo = am.mapInfo /\ r.source = am.source /\ r.vvNew = am.vvNew
    BY <1>2, <1>3, <1>11
  <1>13. r.nNew = am.nNew /\ r.nTried = am.nTried
    BY <1>0, <1>2, <1>3, <1>11 DEF CountersExact
  <1>14. r.nRefCount = am.nRefCount
    <2>1. \A a \in Addr : am.nRefCount[a] = Cardinality({b \in NewBucket : a \in am.vvNew[b]})
      BY <1>0 DEF ReferencesExact
    <2>2. r.nRefCount = [a \in Addr |-> Cardinality({b \in NewBucket : a \in am.vvNew[b]})]
      BY <1>2, <1>11
    <2>. QED
      BY <1>1, <2>1, <2>2
  <1>15. r.fInTried = am.fInTried
    <2>1. r.fInTried = [a \in Addr |-> a \in T]
      BY <1>2, <1>11
    <2>2. \A a \in Addr : am.fInTried[a] \in BOOLEAN
      BY <1>1
    <2>3. \A a \in Addr : am.fInTried[a] <=> a \in T
      BY <1>0 DEF EntriesOnly
    <2>4. \A a \in Addr : am.fInTried[a] = (a \in T)
      BY <2>2, <2>3
    <2>5. am.fInTried = [a \in Addr |-> am.fInTried[a]]
      BY <1>1
    <2>. HIDE DEF T
    <2>. QED
      BY <2>1, <2>4, <2>5
  <1>16. r.vvTried = am.vvTried
    <2>1. \A k \in TriedBucket : am.vvTried[k] = {a \in T : GetTriedBucket[a] = k}
      BY <1>0 DEF ReferencesExact
    <2>2. r.vvTried = [k \in TriedBucket |-> {a \in T : GetTriedBucket[a] = k}]
      BY <1>2, <1>11
    <2>. HIDE DEF T
    <2>. QED
      BY <1>1, <2>1, <2>2
  <1>17. SameTables(am, am')
    BY <1>12, <1>13, <1>14, <1>15, <1>16 DEF SameTables
  <1>. HIDE DEF r, N, T
  <1>18. r \in AddrManType
    <2>1. /\ r.mapInfo \in SUBSET Addr /\ r.source \in [Addr -> Source \cup {NoSource}]
          /\ r.nRefCount \in [Addr -> Nat] /\ r.fInTried \in [Addr -> BOOLEAN]
          /\ r.nRandomPos \in [Addr -> Nat] /\ r.vRandom \in Seq(Addr)
          /\ r.vvNew \in [NewBucket -> SUBSET Addr] /\ r.vvTried \in [TriedBucket -> SUBSET Addr]
          /\ r.nNew \in Nat /\ r.nTried \in Nat
      BY <1>1, <1>9, <1>10, <1>11, <1>12, <1>13, <1>14, <1>15, <1>16
    <2>2. r = [mapInfo |-> r.mapInfo, source |-> r.source, nRefCount |-> r.nRefCount,
               fInTried |-> r.fInTried, nRandomPos |-> r.nRandomPos, vRandom |-> r.vRandom,
               vvNew |-> r.vvNew, vvTried |-> r.vvTried, nNew |-> r.nNew, nTried |-> r.nTried]
      BY <1>11
    <2>. QED
      BY <2>1, <2>2 DEF AddrManType
  <1>19. PlacesExact(r)
    <2>1. r.vRandom = order /\ r.nRandomPos = pos /\ r.mapInfo = am.mapInfo
      BY <1>11, <1>12
    <2>2. \A i \in 1 .. n : order[i] \in am.mapInfo /\ pos[order[i]] = i
      BY <1>5, <1>10
    <2>3. \A a \in am.mapInfo : pos[a] \in 1 .. n /\ order[pos[a]] = a
      BY <1>8, <1>10
    <2>. QED
      BY <1>9, <2>1, <2>2, <2>3 DEF PlacesExact
  <1>20. Len(r.vRandom) = r.nNew + r.nTried
    <2>1. IsFiniteSet(N) /\ IsFiniteSet(T)
      BY <1>1, FiniteParts DEF N, T
    <2>2. Cardinality(N \cup T) = Cardinality(N) + Cardinality(T) - Cardinality(N \cap T)
      BY <2>1, FS_Union
    <2>3. Cardinality(N) \in Nat /\ Cardinality(T) \in Nat /\ Cardinality(N \cap T) = 0
      BY <1>4, <2>1, FS_EmptySet, FS_CardinalityType
    <2>4. n = Cardinality(N) + Cardinality(T)
      <3>1. Cardinality(N \cup T) = Cardinality(N) + Cardinality(T)
        BY <2>2, <2>3
      <3>2. n = Cardinality(N \cup T)
        BY <1>4, Zenon DEF n
      <3>. QED
        BY <3>1, <3>2
    <2>5. r.nNew = Cardinality(N) /\ r.nTried = Cardinality(T) /\ r.vRandom = order
      BY <1>2, <1>3, <1>11
    <2>. QED
      BY <1>9, <2>4, <2>5
  <1>21. ReferencesExact(r) /\ EntriesOnly(r)
    BY <1>0, <1>12, <1>14, <1>15, <1>16 DEF ReferencesExact, EntriesOnly
  <1>22. CountersExact(r)
    BY <1>0, <1>12, <1>13, <1>15, <1>20 DEF CountersExact
  <1>23. Bounded(r) /\ Referenced(r, r.mapInfo)
    BY <1>0, <1>12, <1>14, <1>15, <1>16 DEF Bounded, Referenced
  <1>24. Sound(r) /\ r.mapInfo = am.mapInfo
    BY <1>12, <1>18, <1>19, <1>21, <1>22, <1>23 DEF Sound, Coherent
  <1>. QED
    BY <1>17, <1>24 DEF r

-----------------------------------------------------------------------------
\* The tables of a new CAddrMan.
LEMMA AddrManInitSound == AddrManInit => Sound(am)
  <1>. SUFFICES ASSUME AddrManInit
                PROVE  Sound(am)
    OBVIOUS
  <1>1. /\ am.mapInfo = {} /\ am.vRandom = <<>> /\ am.nNew = 0 /\ am.nTried = 0
        /\ am.nRefCount = [a \in Addr |-> 0] /\ am.fInTried = [a \in Addr |-> FALSE]
        /\ am.vvNew = [b \in NewBucket |-> {}] /\ am.vvTried = [b \in TriedBucket |-> {}]
    BY DEF AddrManInit
  <1>2. am \in AddrManType
    <2>1. <<>> \in Seq(Addr)
      BY EmptySeq
    <2>2. /\ {} \in SUBSET Addr /\ 0 \in Nat
          /\ [a \in Addr |-> NoSource] \in [Addr -> Source \cup {NoSource}]
          /\ [a \in Addr |-> 0] \in [Addr -> Nat]
          /\ [a \in Addr |-> FALSE] \in [Addr -> BOOLEAN]
          /\ [b \in NewBucket |-> {}] \in [NewBucket -> SUBSET Addr]
          /\ [b \in TriedBucket |-> {}] \in [TriedBucket -> SUBSET Addr]
      OBVIOUS
    <2>. QED
      BY <2>1, <2>2 DEF AddrManInit, AddrManType
  <1>3. PlacesExact(am) /\ EntriesOnly(am) /\ Referenced(am, am.mapInfo)
    <2>1. DOMAIN am.vRandom = {}
      BY <1>1
    <2>. QED
      BY <1>1, <2>1 DEF PlacesExact, EntriesOnly, Referenced
  <1>4. ReferencesExact(am)
    <2>1. \A a \in Addr : {b \in NewBucket : a \in am.vvNew[b]} = {}
      BY <1>1
    <2>2. \A a \in Addr : am.nRefCount[a] = Cardinality({b \in NewBucket : a \in am.vvNew[b]})
      BY <1>1, <2>1, FS_EmptySet
    <2>. QED
      BY <1>1, <2>2 DEF ReferencesExact
  <1>5. CountersExact(am)
    <2>1. {a \in am.mapInfo : am.fInTried[a]} = {} /\ {a \in am.mapInfo : ~ am.fInTried[a]} = {}
      BY <1>1
    <2>2. Len(am.vRandom) = 0
      BY <1>1, EmptySeq
    <2>. QED
      BY <1>1, <2>1, <2>2, FS_EmptySet DEF CountersExact
  <1>6. Bounded(am)
    <2>1. 0 <= NEW_BUCKET_SIZE /\ 0 <= TRIED_BUCKET_SIZE
      BY AddrManAssumption
    <2>. QED
      BY <1>1, <2>1, FS_EmptySet DEF Bounded
  <1>. QED
    BY <1>2, <1>3, <1>4, <1>5, <1>6 DEF Sound, Coherent

\* Every operation of CAddrMan keeps the tables sound and the tried entries.
LEMMA AddrManStep ==
    Sound(am) /\ [AddrManNext]_am
      => Sound(am') /\ \A y \in am.mapInfo : am.fInTried[y] => y \in am'.mapInfo
  <1>. SUFFICES ASSUME Sound(am), [AddrManNext]_am
                PROVE  Sound(am') /\ \A y \in am.mapInfo : am.fInTried[y] => y \in am'.mapInfo
    OBVIOUS
  <1>1. ASSUME NEW a \in Addr, NEW s \in Source, AddFirst(a, s)
        PROVE  Sound(am') /\ \A y \in am.mapInfo : am.fInTried[y] => y \in am'.mapInfo
    BY <1>1, AddFirstCorrect
  <1>2. ASSUME NEW a \in Addr, NEW s \in Source, AddAgain(a, s)
        PROVE  Sound(am') /\ \A y \in am.mapInfo : am.fInTried[y] => y \in am'.mapInfo
    BY <1>2, AddAgainCorrect
  <1>3. ASSUME NEW a \in Addr, Good(a)
        PROVE  Sound(am') /\ \A y \in am.mapInfo : am.fInTried[y] => y \in am'.mapInfo
    BY <1>3, GoodCorrect
  <1>4. ASSUME NEW n, NEW nRndPos, GetAddr(n, nRndPos)
        PROVE  Sound(am') /\ \A y \in am.mapInfo : am.fInTried[y] => y \in am'.mapInfo
    BY <1>4, GetAddrCorrect
  <1>5. CASE Restart
    BY <1>5, RestartCorrect
  <1>6. CASE UNCHANGED am
    BY <1>6
  <1>. QED
    BY <1>1, <1>2, <1>3, <1>4, <1>5, <1>6 DEF AddrManNext

\* The inductive invariant of the tables.
THEOREM AddrManInvariance == AddrManSpec => []AddrManInv
  <1>1. Sound(am) <=> AddrManInv
    BY DEF Sound, Coherent, AddrManInv, Check, BucketsBounded
  <1>2. AddrManInit => Sound(am)
    BY AddrManInitSound
  <1>3. Sound(am) /\ [AddrManNext]_am => Sound(am)'
    BY AddrManStep
  <1>. QED
    BY <1>1, <1>2, <1>3, PTL DEF AddrManSpec

(***************************************************************************)
(* What Check_ asserts in the debug build holds after every operation and   *)
(* every start: vRandom, the buckets, the reference counts and the counters *)
(* agree, for any hash and any sizes.                                       *)
(***************************************************************************)
THEOREM CheckCorrect == AddrManSpec => []Check
  <1>1. AddrManInv => Check
    BY DEF AddrManInv
  <1>. QED
    BY <1>1, AddrManInvariance, PTL

\* No bucket outgrows its size, the new bucket that MakeTried evicts into too.
THEOREM BucketsBoundedCorrect == AddrManSpec => []BucketsBounded
  <1>1. AddrManInv => BucketsBounded
    BY DEF AddrManInv
  <1>. QED
    BY <1>1, AddrManInvariance, PTL

\* No operation and no start deletes a tried entry.
THEOREM TriedKept == AddrManSpec => TriedNotDeleted
  <1>1. AddrManInv => Sound(am)
    BY DEF Sound, Coherent, AddrManInv, Check, BucketsBounded
  <1>2. AddrManInv /\ [AddrManNext]_am
          => [\A a \in am.mapInfo : am.fInTried[a] => a \in am'.mapInfo]_am
    BY <1>1, AddrManStep
  <1>. QED
    BY <1>2, AddrManInvariance, PTL DEF AddrManSpec, TriedNotDeleted

\* A start builds the tables that were saved, up to the order of vRandom.
THEOREM RestartCorrectly == AddrManSpec => RestartRestores
  <1>1. AddrManInv /\ [AddrManNext]_am => [Restart => Unordered(am') = Unordered(am)]_am
    <2>. SUFFICES ASSUME AddrManInv, Restart
                  PROVE  Unordered(am') = Unordered(am)
      OBVIOUS
    <2>1. Sound(am) /\ am \in AddrManType
      BY DEF Sound, Coherent, AddrManInv, Check, BucketsBounded
    <2>2. am'.mapInfo = am.mapInfo /\ SameTables(am, am') /\ am' \in AddrManType
      BY <2>1, RestartCorrect DEF Sound, Coherent
    <2>3. ASSUME NEW m \in AddrManType
          PROVE  Unordered(m) =
             [mapInfo |-> m.mapInfo, source |-> m.source, nRefCount |-> m.nRefCount,
              fInTried |-> m.fInTried, nRandomPos |-> <<>>, vRandom |-> <<>>,
              vvNew |-> m.vvNew, vvTried |-> m.vvTried, nNew |-> m.nNew, nTried |-> m.nTried]
      <3>. DEFINE u == Unordered(m)
      <3>1. m = [mapInfo |-> m.mapInfo, source |-> m.source, nRefCount |-> m.nRefCount,
                 fInTried |-> m.fInTried, nRandomPos |-> m.nRandomPos, vRandom |-> m.vRandom,
                 vvNew |-> m.vvNew, vvTried |-> m.vvTried, nNew |-> m.nNew, nTried |-> m.nTried]
        BY DEF AddrManType
      <3>2. DOMAIN m = {"mapInfo", "source", "nRefCount", "fInTried", "nRandomPos", "vRandom",
                        "vvNew", "vvTried", "nNew", "nTried"}
        BY <3>1
      <3>3. u = [k \in DOMAIN m |-> IF k = "nRandomPos" \/ k = "vRandom" THEN <<>> ELSE m[k]]
        BY <3>2 DEF Unordered
      <3>. HIDE DEF u
      <3>4. /\ u.mapInfo = m.mapInfo /\ u.source = m.source /\ u.nRefCount = m.nRefCount
            /\ u.fInTried = m.fInTried /\ u.nRandomPos = <<>> /\ u.vRandom = <<>>
            /\ u.vvNew = m.vvNew /\ u.vvTried = m.vvTried /\ u.nNew = m.nNew /\ u.nTried = m.nTried
        BY <3>2, <3>3
      <3>5. u = [mapInfo |-> u.mapInfo, source |-> u.source, nRefCount |-> u.nRefCount,
                 fInTried |-> u.fInTried, nRandomPos |-> u.nRandomPos, vRandom |-> u.vRandom,
                 vvNew |-> u.vvNew, vvTried |-> u.vvTried, nNew |-> u.nNew, nTried |-> u.nTried]
        BY <3>2, <3>3
      <3>6. u = [mapInfo |-> m.mapInfo, source |-> m.source, nRefCount |-> m.nRefCount,
                 fInTried |-> m.fInTried, nRandomPos |-> <<>>, vRandom |-> <<>>,
                 vvNew |-> m.vvNew, vvTried |-> m.vvTried, nNew |-> m.nNew, nTried |-> m.nTried]
        BY <3>4, <3>5
      <3>. QED
        BY <3>6 DEF u
    <2>. QED
      BY <2>1, <2>2, <2>3 DEF SameTables
  <1>. QED
    BY <1>1, AddrManInvariance, PTL DEF AddrManSpec, RestartRestores

=============================================================================

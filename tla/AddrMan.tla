------------------------------- MODULE AddrMan -------------------------------
(***************************************************************************)
(* CAddrMan, the tables of peer addresses: an address is in up to           *)
(* ADDRMAN_NEW_BUCKETS_PER_ADDRESS "new" buckets or in one "tried" bucket,  *)
(* and once in vRandom.  Every operation holds the lock, so each is one     *)
(* step.  Which buckets an address belongs to is a constant (a hash with a  *)
(* secret key); which entry is evicted, and whether an announcement is      *)
(* recent enough to count, depends on times and random numbers and is a     *)
(* nondeterministic choice.                                                 *)
(*                                                                          *)
(* An entry is named by its address, which mapAddr maps to its nId.         *)
(***************************************************************************)
EXTENDS Naturals, Sequences, FiniteSets

CONSTANTS
    Addr, Source, NoSource,
    NewBucket, TriedBucket,
    GetNewBucket,       \* per address and source
    GetTriedBucket,     \* per address
    NEW_BUCKET_SIZE, TRIED_BUCKET_SIZE, NEW_BUCKETS_PER_ADDRESS

ASSUME AddrManAssumption ==
    /\ IsFiniteSet(Addr) /\ IsFiniteSet(NewBucket)
    /\ GetNewBucket \in [Addr \X Source -> NewBucket]
    /\ GetTriedBucket \in [Addr -> TriedBucket]
    /\ NEW_BUCKET_SIZE \in Nat \ {0}
    /\ TRIED_BUCKET_SIZE \in Nat \ {0}
    /\ NEW_BUCKETS_PER_ADDRESS \in Nat \ {0}

VARIABLE am         \* the CAddrMan

(***************************************************************************)
(* mapInfo is the set of addresses with an entry; the members of CAddrInfo  *)
(* are functions of the address, with fixed values where there is no entry. *)
(***************************************************************************)
AddrManInit == am =
    [mapInfo    |-> {},
     source     |-> [a \in Addr |-> NoSource],
     nRefCount  |-> [a \in Addr |-> 0],
     fInTried   |-> [a \in Addr |-> FALSE],
     nRandomPos |-> [a \in Addr |-> 0],
     vRandom    |-> <<>>,
     vvNew      |-> [b \in NewBucket |-> {}],
     vvTried    |-> [b \in TriedBucket |-> {}],
     nNew       |-> 0,
     nTried     |-> 0]

AddrManType ==
    [mapInfo    : SUBSET Addr,
     source     : [Addr -> Source \cup {NoSource}],
     nRefCount  : [Addr -> Nat],
     fInTried   : [Addr -> BOOLEAN],
     nRandomPos : [Addr -> Nat],
     vRandom    : Seq(Addr),
     vvNew      : [NewBucket -> SUBSET Addr],
     vvTried    : [TriedBucket -> SUBSET Addr],
     nNew       : Nat,
     nTried     : Nat]

-----------------------------------------------------------------------------
(***************************************************************************)
(* Positions in vRandom count from 1.                                       *)
(***************************************************************************)
\* A plausible bug: only one of the two learns its new position.
SwapRandomOne(m, i, j) ==
    [m EXCEPT !.nRandomPos[m.vRandom[i]] = j,
              !.vRandom = [@ EXCEPT ![i] = m.vRandom[j], ![j] = m.vRandom[i]]]

SwapRandom(m, i, j) ==
    [m EXCEPT !.nRandomPos = [@ EXCEPT ![m.vRandom[i]] = j, ![m.vRandom[j]] = i],
              !.vRandom = [@ EXCEPT ![i] = m.vRandom[j], ![j] = m.vRandom[i]]]

Create(m, a, s) ==
    [m EXCEPT !.mapInfo = @ \cup {a},
              !.source[a] = s,
              !.nRefCount[a] = 0,
              !.fInTried[a] = FALSE,
              !.nRandomPos[a] = Len(m.vRandom) + 1,
              !.vRandom = Append(@, a),
              !.nNew = @ + 1]

\* An entry without references leaves vRandom and mapInfo.
Delete(m, x) ==
    LET sw == SwapRandom(m, m.nRandomPos[x], Len(m.vRandom))
    IN  [sw EXCEPT !.vRandom = SubSeq(@, 1, Len(@) - 1),
                   !.nRandomPos[x] = 0,
                   !.mapInfo = @ \ {x},
                   !.source[x] = NoSource,
                   !.nNew = @ - 1]

(***************************************************************************)
(* ShrinkNew takes x, a terrible entry or the oldest of four, out of the    *)
(* bucket b.                                                                *)
(***************************************************************************)
ShrinkNew(m, b, x) ==
    LET u == [m EXCEPT !.nRefCount[x] = @ - 1, !.vvNew[b] = @ \ {x}]
    IN  IF u.nRefCount[x] = 0 THEN Delete(u, x) ELSE u

\* The end of Add_: a reference in the bucket b, if need be in the place of x.
AddToBucket(m, a, b, x) ==
    LET shrunk == IF Cardinality(m.vvNew[b]) = NEW_BUCKET_SIZE
                    THEN ShrinkNew(m, b, x) ELSE m
    IN  IF a \in m.vvNew[b]
          THEN m
          ELSE [shrunk EXCEPT !.nRefCount[a] = @ + 1, !.vvNew[b] = @ \cup {a}]

(***************************************************************************)
(* MakeTried, with x for what SelectTried finds in a full bucket.  The      *)
(* evicted entry goes back to the bucket of its source, or, when that is    *)
(* full, to the one that a came from.                                       *)
(***************************************************************************)
LeaveNew(m, a) ==
    [m EXCEPT !.nRefCount[a] = @ - Cardinality({b \in NewBucket : a \in m.vvNew[b]}),
              !.vvNew = [b \in NewBucket |-> @[b] \ {a}],
              !.nNew = @ - 1]

EvictTo(m, x, u) ==
    [m EXCEPT !.fInTried[x] = FALSE,
              !.nRefCount[x] = 1,
              !.vvNew[u] = @ \cup {x},
              !.vvTried[GetTriedBucket[x]] = @ \ {x},
              !.nNew = @ + 1,
              !.nTried = @ - 1]

\* Plausible bugs: the entry goes back to its bucket even if that is full; it
\* is deleted.
EvictUnchecked(m, x, nOrigin) == EvictTo(m, x, GetNewBucket[<<x, m.source[x]>>])

EvictDelete(m, x, nOrigin) ==
    [Delete(m, x) EXCEPT !.fInTried[x] = FALSE,
                         !.vvTried[GetTriedBucket[x]] = @ \ {x},
                         !.nNew = @ + 1,
                         !.nTried = @ - 1]

EvictTried(m, x, nOrigin) ==
    LET b == GetNewBucket[<<x, m.source[x]>>]
    IN  EvictTo(m, x, IF Cardinality(m.vvNew[b]) < NEW_BUCKET_SIZE THEN b ELSE nOrigin)

\* The entry takes a place in its tried bucket.
EnterTried(m, a) ==
    [m EXCEPT !.fInTried[a] = TRUE,
              !.vvTried[GetTriedBucket[a]] = @ \cup {a},
              !.nTried = @ + 1]

MakeTried(m, a, nOrigin, x) ==
    LET left == LeaveNew(m, a)
    IN  EnterTried(IF Cardinality(m.vvTried[GetTriedBucket[a]]) < TRIED_BUCKET_SIZE
                     THEN left
                     ELSE EvictTried(left, x, nOrigin),
                   a)

-----------------------------------------------------------------------------
(***************************************************************************)
(* Add_ of an address without an entry, and of one that has some references *)
(* in new buckets and the time of the announcement and the dice allow one   *)
(* more.                                                                    *)
(***************************************************************************)
AddFirst(a, s) ==
    /\ a \notin am.mapInfo
    /\ LET b == GetNewBucket[<<a, s>>]
       IN  \/ /\ am.vvNew[b] = {}
              /\ am' = AddToBucket(Create(am, a, s), a, b, a)
           \/ \E x \in am.vvNew[b] : am' = AddToBucket(Create(am, a, s), a, b, x)

AddAgain(a, s) ==
    /\ a \in am.mapInfo /\ ~ am.fInTried[a]
    /\ am.nRefCount[a] # NEW_BUCKETS_PER_ADDRESS
    /\ LET b == GetNewBucket[<<a, s>>]
       IN  \/ am.vvNew[b] = {} /\ am' = AddToBucket(am, a, b, a)
           \/ \E x \in am.vvNew[b] : am' = AddToBucket(am, a, b, x)

(***************************************************************************)
(* Good_ of an entry in a new bucket.  One that is in no bucket is left     *)
(* alone.                                                                   *)
(***************************************************************************)
Good(a) ==
    /\ a \in am.mapInfo /\ ~ am.fInTried[a]
    /\ \E nUBucket \in NewBucket :
          /\ a \in am.vvNew[nUBucket]
          /\ \/ /\ Cardinality(am.vvTried[GetTriedBucket[a]]) < TRIED_BUCKET_SIZE
                /\ am' = MakeTried(am, a, nUBucket, a)
             \/ \E x \in am.vvTried[GetTriedBucket[a]] :
                   am' = MakeTried(am, a, nUBucket, x)

(***************************************************************************)
(* One iteration of GetAddr_, which shuffles the first elements of vRandom. *)
(***************************************************************************)
GetAddr(n, nRndPos) ==
    /\ n \in DOMAIN am.vRandom /\ nRndPos \in n .. Len(am.vRandom)
    /\ am' = SwapRandom(am, n, nRndPos)

-----------------------------------------------------------------------------
(***************************************************************************)
(* The serialized form: the new entries, the tried entries and the new      *)
(* buckets.  The rest is built again when it is read.                       *)
(***************************************************************************)
Serialize(m) ==
    [new    |-> {a \in m.mapInfo : m.nRefCount[a] > 0},
     tried  |-> {a \in m.mapInfo : m.fInTried[a]},
     vvNew  |-> m.vvNew,
     source |-> m.source]

(***************************************************************************)
(* A start of the node reads the file: the new entries in their order, then *)
(* the tried ones; a reference for every bucket that has the entry.  The    *)
(* file is a dump of the tables at some earlier time; it is enough to let   *)
(* the node restart from the tables of this moment.  The reader drops what  *)
(* does not fit a bucket; Check and BucketsBounded say that all of it fits. *)
(***************************************************************************)
Rebuild(f, order, buckets) ==
    [mapInfo    |-> f.new \cup f.tried,
     source     |-> f.source,
     nRefCount  |-> [a \in Addr |-> Cardinality({b \in NewBucket : a \in buckets[b]})],
     fInTried   |-> [a \in Addr |-> a \in f.tried],
     nRandomPos |-> [a \in Addr |-> IF \E i \in DOMAIN order : order[i] = a
                                      THEN CHOOSE i \in DOMAIN order : order[i] = a
                                      ELSE 0],
     vRandom    |-> order,
     vvNew      |-> buckets,
     vvTried    |-> [k \in TriedBucket |-> {a \in f.tried : GetTriedBucket[a] = k}],
     nNew       |-> Cardinality(f.new),
     nTried     |-> Cardinality(f.tried)]

\* A plausible bug: the buckets of the file are not used; every new entry
\* goes into the bucket of its first source.
UnserializeFirstBucket(f, order) ==
    Rebuild(f, order,
            [b \in NewBucket |-> {a \in f.new : GetNewBucket[<<a, f.source[a]>>] = b}])

Unserialize(f, order) == Rebuild(f, order, f.vvNew)

IsOrder(order, f) ==
    LET n == Cardinality(f.new)
    IN  /\ \A i \in DOMAIN order : order[i] \in IF i <= n THEN f.new ELSE f.tried
        /\ \A i, j \in DOMAIN order : i # j => order[i] # order[j]

Restart ==
    LET f == Serialize(am)
    IN  \E order \in [1 .. Cardinality(f.new \cup f.tried) -> f.new \cup f.tried] :
           /\ IsOrder(order, f)
           /\ am' = Unserialize(f, order)

AddrManNext ==
    \/ \E a \in Addr, s \in Source : AddFirst(a, s) \/ AddAgain(a, s)
    \/ \E a \in Addr : Good(a)
    \/ \E n, nRndPos \in DOMAIN am.vRandom : GetAddr(n, nRndPos)
    \/ Restart

AddrManSpec == AddrManInit /\ [][AddrManNext]_am

-----------------------------------------------------------------------------
(***************************************************************************)
(* The conditions of Check_, the consistency check of the debug build: the  *)
(* entries are those of vRandom, at the positions they remember; a tried    *)
(* entry is in its tried bucket only, any other in as many new buckets as   *)
(* its reference count says; and the counters are exact.                    *)
(***************************************************************************)
PlacesExact(m) ==
    /\ \A i \in DOMAIN m.vRandom : /\ m.vRandom[i] \in m.mapInfo
                                   /\ m.nRandomPos[m.vRandom[i]] = i
    /\ \A a \in m.mapInfo : /\ m.nRandomPos[a] \in DOMAIN m.vRandom
                            /\ m.vRandom[m.nRandomPos[a]] = a

ReferencesExact(m) ==
    /\ \A a \in Addr :
          m.nRefCount[a] = Cardinality({b \in NewBucket : a \in m.vvNew[b]})
    /\ \A b \in NewBucket : m.vvNew[b] \subseteq {a \in m.mapInfo : ~ m.fInTried[a]}
    /\ \A k \in TriedBucket :
          m.vvTried[k] = {a \in m.mapInfo : m.fInTried[a] /\ GetTriedBucket[a] = k}

Referenced(m, S) ==
    \A a \in S : m.fInTried[a] \/ m.nRefCount[a] \in 1 .. NEW_BUCKETS_PER_ADDRESS

CountersExact(m) ==
    /\ Len(m.vRandom) = m.nNew + m.nTried
    /\ m.nTried = Cardinality({a \in m.mapInfo : m.fInTried[a]})
    /\ m.nNew = Cardinality({a \in m.mapInfo : ~ m.fInTried[a]})

Check ==
    /\ am \in AddrManType
    /\ PlacesExact(am) /\ ReferencesExact(am) /\ CountersExact(am)
    /\ Referenced(am, am.mapInfo)

(***************************************************************************)
(* No bucket grows beyond its size.  For the entry that MakeTried evicts    *)
(* the code relies on it: "there is certainly place there".                 *)
(***************************************************************************)
Bounded(m) ==
    /\ \A b \in NewBucket : Cardinality(m.vvNew[b]) <= NEW_BUCKET_SIZE
    /\ \A k \in TriedBucket : Cardinality(m.vvTried[k]) <= TRIED_BUCKET_SIZE

BucketsBounded == Bounded(am)

(***************************************************************************)
(* An entry is never deleted while it is tried, "only possibly evicted back *)
(* to the new table" (addrman.h, ShrinkNew), and a restart from a fresh     *)
(* peers.dat loses none.                                                    *)
(***************************************************************************)
TriedNotDeleted ==
    [][\A a \in am.mapInfo : am.fInTried[a] => a \in am'.mapInfo]_am

(***************************************************************************)
(* What a start builds from peers.dat is what was saved, up to the order of *)
(* vRandom: the buckets of every entry, new or tried, and all counters.     *)
(***************************************************************************)
Unordered(m) == [m EXCEPT !.vRandom = <<>>, !.nRandomPos = <<>>]

RestartRestores == [][Restart => Unordered(am') = Unordered(am)]_am

(***************************************************************************)
(* What an operation needs besides: an entry knows the source that          *)
(* announced it, and what is no entry is not tried.                         *)
(***************************************************************************)
EntriesOnly(m) ==
    /\ \A a \in m.mapInfo : m.source[a] \in Source
    /\ \A a \in Addr \ m.mapInfo : ~ m.fInTried[a]

AddrManInv == Check /\ BucketsBounded /\ EntriesOnly(am)

=============================================================================

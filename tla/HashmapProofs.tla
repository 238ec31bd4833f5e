---------------------------- MODULE HashmapProofs ----------------------------
(***************************************************************************)
(* Proofs about the hash map, for any number of threads and keys, any hash *)
(* function, table size and chain length.                                  *)
(***************************************************************************)
EXTENDS Hashmap, Integers, FiniteSetTheorems, WellFoundedInduction, TLAPS

\* A non-empty set of naturals has a least element.
LEMMA Least ==
  ASSUME NEW S, S \subseteq Nat, S # {}
  PROVE  \E x \in S : \A y \in S : x <= y
<1> DEFINE R == OpToRel(<, Nat)
<1>1. IsWellFoundedOn(R, Nat)
  BY NatLessThanWellFounded
<1>2. \A x, y \in Nat : x < y => <<x, y>> \in R
  BY DEF OpToRel
<1> HIDE DEF R
<1>3. PICK x \in S : \A y \in S : ~(<<y, x>> \in R)
  BY <1>1, WFMin, Zenon
<1>4. \A y \in S : ~(y < x)
  BY <1>2, <1>3
<1> QED BY <1>4

LEMMA FirstIsLeast ==
  ASSUME NEW S, S \subseteq Nat, S # {}
  PROVE  First(S) \in S /\ \A j \in S : First(S) <= j
<1>1. \E i \in S : \A j \in S : i <= j
  BY Least
<1> QED BY <1>1 DEF First

LEMMA FirstUnique ==
  ASSUME NEW S, S \subseteq Nat, NEW p \in S, \A j \in S : p <= j
  PROVE  First(S) = p
<1>1. First(S) \in S /\ \A j \in S : First(S) <= j
  BY FirstIsLeast
<1>2. First(S) \in Nat /\ p \in Nat /\ First(S) <= p /\ p <= First(S)
  BY <1>1
<1> QED BY <1>2

LEMMA ModValue ==
  ASSUME NEW h \in Nat, NEW m \in Nat \ {0}
  PROVE  /\ h % m \in 0..(m - 1)
         /\ h \div m \in Nat
         /\ h = m * (h \div m) + (h % m)
  OBVIOUS

LEMMA MulMono ==
  ASSUME NEW m \in Nat, NEW p \in Nat, NEW q \in Nat, p < q
  PROVE  m * p + m <= m * q
<1>1. PICK d \in Nat : q = p + 1 + d
  <2>1. q - p - 1 \in Nat /\ q = p + 1 + (q - p - 1)
    OBVIOUS
  <2> QED BY <2>1
<1>2. m * q = m * p + m + m * d
  BY <1>1
<1>3. m * d \in Nat /\ m * p \in Nat
  OBVIOUS
<1> QED BY <1>2, <1>3

\* A probe sequence visits no entry twice before it wraps around.
LEMMA ModInjective ==
  ASSUME NEW h \in Nat, NEW m \in Nat \ {0}, NEW a \in 0..(m - 1),
         NEW b \in 0..(m - 1), (h + a) % m = (h + b) % m
  PROVE  a = b
<1>1. PICK x \in Nat, y \in Nat : x = h + a /\ y = h + b
  OBVIOUS
<1>a. x % m \in Nat /\ x % m = y % m
  BY <1>1, ModValue
<1>b. PICK r \in Nat : r = x % m
  BY <1>a
<1>2. PICK p \in Nat : x = m * p + r
  BY <1>b, ModValue
<1>c. PICK q \in Nat : y = m * q + (y % m)
  BY ModValue
<1>3. y = m * q + r
  BY <1>a, <1>b, <1>c
<1>4. m * p \in Nat /\ m * q \in Nat
  OBVIOUS
<1>5. CASE p = q
  BY <1>1, <1>2, <1>3, <1>4, <1>5
<1>6. CASE p < q
  BY <1>1, <1>2, <1>3, <1>4, <1>6, MulMono
<1>7. CASE q < p
  BY <1>1, <1>2, <1>3, <1>4, <1>7, MulMono
<1> QED BY <1>5, <1>6, <1>7

-----------------------------------------------------------------------------
Used == {i \in DOMAIN entries : entries[i].used = 1}

\* Where a search finds key k.
Held(k) == Probe(k, First(Matches(k)))

\* What the calls in progress carry.
CallTypes ==
  /\ tableSize \in Nat \ {0}
  /\ lock = {} => tableSize = InitialSize
  /\ key \in [Threads -> Keys]
  /\ seen \in [Threads -> SUBSET (Vals \cup {None})]
  /\ \A t \in Threads :
       /\ pc[t] = "put" => val[t] \in Vals
       /\ pc[t] \in {"get", "got", "done"} => kind = "topics"
       /\ pc[t] = "del" => kind = "clients"
       /\ pc[t] = "nested" => lock # {}

\* The table a rehash puts in place stays empty.
Emptied == lock # {} => \A i \in DOMAIN entries : entries[i].val = None

\* Nothing is deleted from the topic table: an entry in use is the one place
\* of its key, at the end of an unbroken chain.
OnePlace(i) ==
  entries[i].used = 1 =>
    LET k == entries[i].key
    IN /\ k \in Keys /\ dict[k] # None
       /\ Matches(k) # {} /\ i = Held(k)
Unbroken(k) ==
  Matches(k) # {} =>
    \A j \in 0..(First(Matches(k)) - 1) : entries[Probe(k, j)].used = 1
TopicTable ==
  kind = "topics" /\ lock = {} =>
    /\ \A i \in DOMAIN entries : OnePlace(i)
    /\ \A k \in Keys : Unbroken(k)

\* hashmap_get between the moment it finds the key and the read.
Getting ==
  lock = {} => \A t \in Threads :
    /\ pc[t] \in {"get", "got"} => dict[key[t]] \in seen[t]
    /\ pc[t] = "got" => /\ Matches(key[t]) # {}
                        /\ slot[t] = Held(key[t])

MapInv ==
  /\ TypeOK /\ CallTypes /\ Emptied
  /\ LatestFound /\ TopicTable /\ Getting /\ GetIsCurrent /\ NoEarlyBlock

LEMMA ProbeValue ==
  ASSUME NEW k \in Keys, NEW i \in Nat, tableSize \in Nat \ {0}
  PROVE  Probe(k, i) \in 0..(tableSize - 1)
<1>1. PICK h \in Nat : h = Home[k] + i
  BY HashmapAssumption
<1>2. h % tableSize \in 0..(tableSize - 1)
  BY ModValue
<1> QED BY <1>1, <1>2 DEF Probe

LEMMA MapInit == Init => MapInv
<1> SUFFICES ASSUME Init PROVE MapInv
  OBVIOUS
<1>0. /\ Free \in Entries /\ Free.used = 0
      /\ InitialSize \in Nat \ {0} /\ MaxChain \in Nat
  BY HashmapAssumption DEF Free, Entries
<1>1. Used = {}
  BY <1>0 DEF Init, Used
<1>2. TypeOK
  <2>1. size = Cardinality({i \in DOMAIN entries : entries[i].used = 1})
    BY <1>1, FS_EmptySet DEF Init, Used
  <2>2. 0 \in 0..(InitialSize - 1)
    BY <1>0
  <2> QED BY <1>0, <2>1, <2>2 DEF Init, TypeOK
<1>3. CallTypes /\ Emptied
  BY <1>0 DEF Init, CallTypes, Emptied
<1>4. LatestFound /\ Getting /\ GetIsCurrent /\ NoEarlyBlock
  BY DEF Init, LatestFound, Getting, GetIsCurrent, NoEarlyBlock
<1>5. TopicTable
  <2>1. \A k \in Keys, j \in Nat : Probe(k, j) \in 0..(InitialSize - 1)
    BY <1>0, ProbeValue DEF Init
  <2>2. \A k \in Keys : Matches(k) = {}
    BY <1>0, <2>1 DEF Init, Matches
  <2> QED BY <1>0, <2>2 DEF Init, TopicTable, OnePlace, Unbroken
<1> QED BY <1>2, <1>3, <1>4, <1>5 DEF MapInv

-----------------------------------------------------------------------------
LEMMA ProbeRange ==
  ASSUME MapInv, NEW k \in Keys, NEW i \in Nat
  PROVE  Probe(k, i) \in 0..(tableSize - 1) /\ Probe(k, i) \in DOMAIN entries
  BY ProbeValue DEF MapInv, TypeOK, CallTypes

LEMMA PositionSets ==
  ASSUME NEW k
  PROVE  /\ Matches(k) \subseteq Nat /\ Places(k) \subseteq Nat
         /\ Matches(k) \subseteq Places(k)
         /\ \A i \in Places(k) : i \in 0..(MaxChain - 1)
  BY DEF Matches, Places

LEMMA UsedFinite ==
  ASSUME TypeOK
  PROVE  IsFiniteSet(Used) /\ Cardinality(Used) = size /\ size \in Nat
<1>1. IsFiniteSet(0..(tableSize - 1)) /\ Used \in SUBSET (0..(tableSize - 1))
  BY FS_Interval DEF TypeOK, Used
<1>2. IsFiniteSet(Used)
  BY <1>1, FS_Subset
<1> QED BY <1>2, FS_CardinalityType DEF TypeOK, Used

\* The calls themselves, and steps that leave the table and the dictionary.
LEMMA MapQuiet ==
  ASSUME MapInv, UNCHANGED <<kind, tableVars, dict>>,
         key' \in [Threads -> Keys],
         seen' \in [Threads -> SUBSET (Vals \cup {None})],
         pc' \in [Threads -> {"idle", "put", "get", "got", "done", "del",
                              "nested"}],
         val' \in [Threads -> Vals \cup {None}],
         slot' \in [Threads -> 0..(tableSize - 1)],
         \A t \in Threads :
           \/ UNCHANGED <<pc[t], key[t], val[t], slot[t], seen[t]>>
           \/ pc'[t] = "idle"
           \/ pc'[t] = "put" /\ val'[t] \in Vals
           \/ pc'[t] = "del" /\ kind = "clients"
           \/ /\ pc'[t] = "get" /\ kind = "topics"
              /\ seen'[t] = {dict[key'[t]]}
           \/ /\ pc'[t] = "got" /\ kind = "topics"
              /\ dict[key[t]] \in seen'[t]
              /\ key'[t] = key[t] /\ Matches(key[t]) # {}
              /\ slot'[t] = Held(key[t])
           \/ /\ pc'[t] = "done" /\ kind = "topics"
              /\ val'[t] \in seen'[t] \/ (val'[t] = None /\ lock # {})
  PROVE  MapInv'
<1> USE DEF MapInv, tableVars
<1>1. \A k : Matches(k)' = Matches(k) /\ \A j : Probe(k, j)' = Probe(k, j)
  BY DEF Matches, Probe
<1>a. \A k : Held(k)' = Held(k)
  BY <1>1 DEF Held
<1>2. TypeOK' /\ CallTypes' /\ Emptied'
  BY DEF TypeOK, CallTypes, Emptied
<1>3. LatestFound' /\ TopicTable'
  BY <1>1, <1>a DEF LatestFound, TopicTable, OnePlace, Unbroken, Lookup
<1>5. NoEarlyBlock'
  <2> SUFFICES ASSUME NEW t \in Threads, kind' = "topics", pc'[t] = "nested"
               PROVE  LET present == {k \in Keys : dict[k] # None}
                      IN \/ Cardinality(present) >= InitialSize \div 2
                         \/ Cardinality({k \in present : Near(key'[t], k)})
                              >= MaxChain
    BY DEF NoEarlyBlock, Near
  <2>1. pc[t] = "nested" /\ key'[t] = key[t] /\ kind = "topics"
    OBVIOUS
  <2> QED BY <2>1 DEF NoEarlyBlock
<1>4. Getting' /\ GetIsCurrent'
  BY <1>1, <1>a DEF Getting, GetIsCurrent
<1> QED BY <1>2, <1>3, <1>4, <1>5

LEMMA MapCalls ==
  ASSUME MapInv, NEW t \in Threads, NEW k \in Keys,
         \/ \E v \in Vals : CallPut(t, k, v)
         \/ CallGet(t, k) \/ CallDel(t, k)
  PROVE  MapInv'
<1>1. PICK op \in {"put", "get", "del"}, v \in Vals \cup {None} :
        /\ Call(t, op, k, v)
        /\ op = "put" => v \in Vals
        /\ op = "get" => kind = "topics"
        /\ op = "del" => kind = "clients"
  BY DEF CallPut, CallGet, CallDel
<1>2. /\ pc' = [pc EXCEPT ![t] = op]
      /\ key' = [key EXCEPT ![t] = k]
      /\ val' = [val EXCEPT ![t] = v]
      /\ seen' = [seen EXCEPT ![t] = {dict[k]}]
      /\ UNCHANGED <<kind, tableVars, slot, dict>>
  BY <1>1 DEF Call
<1>3. /\ key' \in [Threads -> Keys]
      /\ seen' \in [Threads -> SUBSET (Vals \cup {None})]
      /\ pc' \in [Threads -> {"idle", "put", "get", "got", "done", "del",
                              "nested"}]
      /\ val' \in [Threads -> Vals \cup {None}]
      /\ slot' \in [Threads -> 0..(tableSize - 1)]
  BY <1>2 DEF MapInv, TypeOK, CallTypes
<1>4. \A u \in Threads : u # t =>
        UNCHANGED <<pc[u], key[u], val[u], slot[u], seen[u]>>
  BY <1>2 DEF MapInv, TypeOK, CallTypes
<1>5. pc'[t] = op /\ key'[t] = k /\ val'[t] = v /\ seen'[t] = {dict[k]}
  BY <1>2 DEF MapInv, TypeOK, CallTypes
<1> QED BY <1>1, <1>2, <1>3, <1>4, <1>5, MapQuiet

\* hashmap_put found place i for key k: the first of its chain that is free
\* or holds the key already.
LEMMA StoreFound ==
  ASSUME MapInv, lock = {}, NEW k \in Keys, NEW p, NEW i, NEW v \in Vals,
         Places(k) # {}, p = First(Places(k)), i = Probe(k, p),
         entries' = [entries EXCEPT ![i] = [used |-> 1, key |-> k, val |-> v]],
         UNCHANGED tableSize
  PROVE  /\ i \in DOMAIN entries /\ p \in 0..(MaxChain - 1) /\ p \in Places(k)
         /\ entries[i].used = 0 \/ entries[i].key = k
         /\ entries' \in [0..(tableSize - 1) -> Entries]
         /\ entries'[i] = [used |-> 1, key |-> k, val |-> v]
         /\ \A j \in DOMAIN entries : j # i => entries'[j] = entries[j]
         /\ \A a, j : Probe(a, j)' = Probe(a, j)
         /\ \A a \in Keys : a # k => Matches(a)' = Matches(a)
         /\ \A a \in Keys : a # k => Held(a)' = Held(a)
         /\ Matches(k)' # {} /\ First(Matches(k)') = p /\ Held(k)' = i
<1> USE DEF MapInv
<1>1. p \in Places(k) /\ \A j \in Places(k) : p <= j
  BY FirstIsLeast, PositionSets
<1>2. p \in 0..(MaxChain - 1) /\ i \in DOMAIN entries
  BY <1>1, PositionSets, ProbeRange
<1>3. entries[i].used = 0 \/ entries[i].key = k
  BY <1>1 DEF Places, Matches
<1>4. /\ entries' \in [0..(tableSize - 1) -> Entries]
      /\ entries'[i] = [used |-> 1, key |-> k, val |-> v]
      /\ \A j \in DOMAIN entries : j # i => entries'[j] = entries[j]
  BY <1>2 DEF TypeOK, Entries
<1>5. \A a, j : Probe(a, j)' = Probe(a, j)
  BY DEF Probe
<1>6. ASSUME NEW a \in Keys, a # k PROVE Matches(a)' = Matches(a)
  <2>1. ASSUME NEW j \in 0..(MaxChain - 1)
        PROVE  j \in Matches(a)' <=> j \in Matches(a)
    <3>1. Probe(a, j) \in DOMAIN entries
      BY ProbeRange
    <3> QED BY <1>3, <1>4, <1>5, <1>6, <3>1 DEF Matches
  <2> QED BY <2>1 DEF Matches
<1>7. Matches(k)' \subseteq Places(k)
  <2> SUFFICES ASSUME NEW j \in Matches(k)' PROVE j \in Places(k)
    OBVIOUS
  <2>1. j \in 0..(MaxChain - 1) /\ Probe(k, j) \in DOMAIN entries
    BY ProbeRange DEF Matches
  <2>2. CASE Probe(k, j) = i
    <3>1. entries[i].used = 0 \/ (entries[i].used = 1 /\ entries[i].key = k)
      BY <1>1 DEF Places, Matches
    <3> QED BY <2>1, <2>2, <3>1 DEF Places, Matches
  <2>3. CASE Probe(k, j) # i
    BY <1>4, <1>5, <2>1, <2>3 DEF Places, Matches
  <2> QED BY <2>2, <2>3
<1>8. p \in Matches(k)'
  BY <1>2, <1>4, <1>5 DEF Matches
<1>9. First(Matches(k)') = p
  <2>1. Matches(k)' \subseteq Nat /\ \A j \in Matches(k)' : p <= j
    BY <1>1, <1>7, PositionSets
  <2> QED BY <1>8, <2>1, FirstUnique
<1>10. Held(k)' = i /\ \A a \in Keys : a # k => Held(a)' = Held(a)
  BY <1>5, <1>6, <1>9 DEF Held
<1> QED BY <1>1, <1>2, <1>3, <1>4, <1>5, <1>6, <1>8, <1>9, <1>10

LEMMA MapStore == ASSUME MapInv, NEW t \in Threads, PutStore(t) PROVE MapInv'
<1> USE DEF MapInv
<1>1. PICK k \in Keys : k = key[t]
  BY DEF CallTypes
<1>2. PICK p, i : p = First(Places(k)) /\ i = Probe(k, p)
  OBVIOUS
<1>3. PICK v \in Vals : v = val[t] /\ pc[t] = "put"
  BY DEF PutStore, Locks, CallTypes
<1>4. /\ lock = {} /\ Places(k) # {}
      /\ entries' = [entries EXCEPT ![i] = [used |-> 1, key |-> k, val |-> v]]
      /\ size' = Counted(i)
      /\ dict' = [dict EXCEPT ![k] = v]
      /\ seen' = [u \in Threads |-> IF key[u] = k /\ pc[u] \in {"get", "got"}
                                    THEN seen[u] \cup {v} ELSE seen[u]]
      /\ pc' = [pc EXCEPT ![t] = "idle"]
      /\ UNCHANGED <<kind, tableSize, lock, key, val, slot, calls>>
  BY <1>1, <1>2, <1>3 DEF PutStore, Locks, Full, Record, Returns
<1>5. /\ i \in DOMAIN entries /\ p \in 0..(MaxChain - 1) /\ p \in Places(k)
      /\ entries[i].used = 0 \/ entries[i].key = k
      /\ entries' \in [0..(tableSize - 1) -> Entries]
      /\ entries'[i] = [used |-> 1, key |-> k, val |-> v]
      /\ \A j \in DOMAIN entries : j # i => entries'[j] = entries[j]
      /\ \A a, j : Probe(a, j)' = Probe(a, j)
      /\ \A a \in Keys : a # k => Matches(a)' = Matches(a)
      /\ \A a \in Keys : a # k => Held(a)' = Held(a)
      /\ Matches(k)' # {} /\ First(Matches(k)') = p /\ Held(k)' = i
  BY <1>2, <1>4, StoreFound
<1>6. /\ \A a \in Keys : dict'[a] = IF a = k THEN v ELSE dict[a]
      /\ DOMAIN entries' = DOMAIN entries
      /\ entries'[i].used = 1 /\ entries'[i].key = k /\ entries'[i].val = v
  BY <1>4, <1>5 DEF TypeOK
<1>7. TypeOK'
  <2>1. IsFiniteSet(Used) /\ Cardinality(Used) = size /\ size \in Nat
    BY UsedFinite
  <2>2. Used' = Used \cup {i}
    BY <1>5, <1>6 DEF Used
  <2>3. i \in Used <=> entries[i].used # 0
    BY <1>5 DEF Used, TypeOK, Entries
  <2>4. size' = Cardinality(Used')
    BY <1>4, <2>1, <2>2, <2>3, FS_AddElement DEF Counted
  <2> QED BY <1>4, <1>5, <2>4 DEF TypeOK, Used
<1>8. CallTypes'
  BY <1>4 DEF CallTypes, TypeOK
<1>9. ASSUME NEW a \in Keys, a # k, Matches(a) # {}
      PROVE  Held(a) \in DOMAIN entries /\ Held(a) # i
  <2>1. /\ First(Matches(a)) \in Matches(a)
        /\ First(Matches(a)) \in 0..(MaxChain - 1)
    BY <1>9, FirstIsLeast, PositionSets
  <2>2. entries[Held(a)].used = 1 /\ entries[Held(a)].key = a
    BY <2>1 DEF Matches, Held
  <2>3. Held(a) \in DOMAIN entries
    BY <2>1, ProbeRange DEF Held
  <2> QED BY <1>5, <1>9, <2>2, <2>3
<1>10. LatestFound'
  <2> SUFFICES ASSUME NEW a \in Keys, dict'[a] # None
               PROVE  Lookup(a)' = dict'[a]
    BY DEF LatestFound
  <2>1. CASE a = k
    BY <1>2, <1>5, <1>6, <2>1 DEF Lookup, Held
  <2>2. CASE a # k
    <3>1. dict[a] # None /\ Lookup(a) = dict[a] /\ dict'[a] = dict[a]
      BY <1>4, <1>6, <2>2 DEF LatestFound
    <3>2. Matches(a) # {} /\ Matches(a)' = Matches(a)
      BY <1>5, <2>2, <3>1 DEF Lookup
    <3>3. entries'[Held(a)] = entries[Held(a)]
      BY <1>5, <1>9, <2>2, <3>2
    <3> QED BY <1>5, <2>2, <3>1, <3>2, <3>3 DEF Lookup, Held
  <2> QED BY <2>1, <2>2
\* In the topic table a key that is there is overwritten where it is.
<1>11. ASSUME kind = "topics", Matches(k) # {}
       PROVE  p = First(Matches(k)) /\ i = Held(k)
  <2>1. /\ First(Matches(k)) \in Matches(k) /\ p <= First(Matches(k))
        /\ p \in Nat /\ First(Matches(k)) \in Nat
    BY <1>2, <1>4, <1>11, FirstIsLeast, PositionSets
  <2>2. \A j \in 0..(First(Matches(k)) - 1) : entries[Probe(k, j)].used = 1
    BY <1>4, <1>11 DEF TopicTable, Unbroken
  <2>3. p \notin Matches(k) => entries[Probe(k, p)].used = 0
    BY <1>5 DEF Places
  <2>4. p \in Matches(k) => First(Matches(k)) <= p
    BY <1>11, FirstIsLeast, PositionSets
  <2> QED BY <1>2, <2>1, <2>2, <2>3, <2>4 DEF Held
<1>12. TopicTable'
  <2> SUFFICES ASSUME kind = "topics"
               PROVE  /\ \A j \in DOMAIN entries : OnePlace(j)'
                      /\ \A a \in Keys : Unbroken(a)'
    BY <1>4, <1>6 DEF TopicTable
  <2>0. v # None
    BY HashmapAssumption
  <2>1. ASSUME NEW j \in DOMAIN entries PROVE OnePlace(j)'
    <3> SUFFICES ASSUME entries'[j].used = 1, NEW a, a = entries'[j].key
                 PROVE  /\ a \in Keys /\ dict'[a] # None /\ Matches(a)' # {}
                        /\ j = Held(a)'
      BY DEF OnePlace
    <3>1. CASE j = i
      BY <1>2, <1>5, <1>6, <2>0, <2>1, <3>1
    <3>2. CASE j # i
      <4>1. /\ a \in Keys /\ dict[a] # None /\ Matches(a) # {}
            /\ j = Held(a)
        BY <1>4, <1>5, <2>1, <3>2 DEF TopicTable, OnePlace
      <4>2. a # k
        BY <1>2, <1>11, <3>2, <4>1
      <4> QED BY <1>5, <1>6, <4>1, <4>2
    <3> QED BY <3>1, <3>2
  <2>2. ASSUME NEW a \in Keys PROVE Unbroken(a)'
    <3> SUFFICES ASSUME Matches(a)' # {},
                        NEW j \in 0..(First(Matches(a)') - 1)
                 PROVE  entries'[Probe(a, j)].used = 1
      BY <1>5 DEF Unbroken
    <3>0. /\ First(Matches(a)') \in Nat /\ j \in Nat
          /\ First(Matches(a)') \in 0..(MaxChain - 1)
          /\ Probe(a, j) \in DOMAIN entries
      <4>1. Matches(a)' \subseteq 0..(MaxChain - 1)
        BY DEF Matches
      <4>2. First(Matches(a)') \in Matches(a)'
        BY <2>2, <4>1, FirstIsLeast
      <4>3. First(Matches(a)') \in 0..(MaxChain - 1)
        BY <4>1, <4>2
      <4>4. First(Matches(a)') \in Nat /\ j \in Nat
        BY <4>3, HashmapAssumption
      <4>5. Probe(a, j) \in DOMAIN entries
        BY <4>4, ProbeRange
      <4> QED BY <4>3, <4>4, <4>5
    <3>1. CASE a = k
      <4>a. First(Matches(a)') = p
        BY <1>5, <3>1
      <4>0. j \in 0..(MaxChain - 1) /\ j < p /\ p \in Nat
        BY <3>0, <4>a, HashmapAssumption
      <4>1. j \in 0..(MaxChain - 1) /\ j \notin Places(k)
        BY <1>2, <1>4, <4>0, FirstIsLeast, PositionSets
      <4>2. entries[Probe(k, j)].used = 1
        BY <3>0, <3>1, <4>1 DEF Places, TypeOK, Entries
      <4> QED BY <1>5, <1>6, <3>0, <3>1, <4>2
    <3>2. CASE a # k
      <4>1. entries[Probe(a, j)].used = 1
        BY <1>4, <1>5, <2>2, <3>2 DEF TopicTable, Unbroken
      <4> QED BY <1>5, <1>6, <3>0, <4>1
    <3> QED BY <3>1, <3>2
  <2> QED BY <2>1, <2>2
<1>13. Getting' /\ GetIsCurrent'
  <2>1. ASSUME NEW u \in Threads, pc'[u] \in {"get", "got"}
        PROVE  /\ pc[u] = pc'[u] /\ dict[key[u]] \in seen[u]
               /\ kind = "topics" /\ key[u] \in Keys
    BY <1>4, <2>1 DEF TypeOK, Getting, CallTypes
  <2>2. ASSUME NEW u \in Threads, pc'[u] \in {"get", "got"}
        PROVE  dict'[key'[u]] \in seen'[u]
    BY <1>4, <1>6, <2>1, <2>2
  <2>3. ASSUME NEW u \in Threads, pc'[u] = "got"
        PROVE  /\ Matches(key[u])' # {}
               /\ slot'[u] = Held(key[u])'
    <3>1. /\ Matches(key[u]) # {} /\ key[u] \in Keys /\ kind = "topics"
          /\ slot[u] = Held(key[u])
      BY <1>4, <2>1, <2>3 DEF Getting
    <3>2. CASE key[u] = k
      BY <1>4, <1>5, <1>11, <3>1, <3>2
    <3>3. CASE key[u] # k
      BY <1>4, <1>5, <3>1, <3>3
    <3> QED BY <3>2, <3>3
  <2>4. ASSUME NEW u \in Threads, pc'[u] = "done" PROVE val'[u] \in seen'[u]
    BY <1>4, <2>4 DEF TypeOK, GetIsCurrent
  <2> QED BY <1>4, <2>2, <2>3, <2>4 DEF Getting, GetIsCurrent, First
<1>14. NoEarlyBlock' /\ Emptied'
  BY <1>4 DEF NoEarlyBlock, Emptied, CallTypes, TypeOK
<1> QED BY <1>7, <1>8, <1>10, <1>12, <1>13, <1>14

\* hashmap_del clears the first match; only its key can tell.
LEMMA MapDelete == ASSUME MapInv, NEW t \in Threads, DelFind(t) PROVE MapInv'
<1> USE DEF MapInv
<1>1. PICK k \in Keys : k = key[t]
  BY DEF CallTypes
<1>2. PICK i : i = Held(k)
  OBVIOUS
<1>3. /\ lock = {} /\ pc[t] = "del" /\ Matches(k) # {}
      /\ entries' = [entries EXCEPT ![i].used = 0]
      /\ size' = size - 1
      /\ dict' = [dict EXCEPT ![k] = None]
      /\ seen' = [u \in Threads |-> IF key[u] = k /\ pc[u] \in {"get", "got"}
                                    THEN seen[u] \cup {None} ELSE seen[u]]
      /\ pc' = [pc EXCEPT ![t] = "idle"]
      /\ UNCHANGED <<kind, tableSize, lock, key, val, slot, calls>>
  BY <1>1, <1>2 DEF DelFind, Locks, Record, Returns, Held
<1>4. kind = "clients"
  BY <1>3 DEF CallTypes
<1>5. /\ i \in DOMAIN entries
      /\ entries[i].used = 1 /\ entries[i].key = k
  <2>1. First(Matches(k)) \in Matches(k) /\ First(Matches(k)) \in Nat
    BY <1>3, FirstIsLeast, PositionSets
  <2> QED BY <1>2, <2>1, ProbeRange DEF Held, Matches
<1>6. /\ entries' \in [0..(tableSize - 1) -> Entries]
      /\ DOMAIN entries' = DOMAIN entries
      /\ entries'[i].used = 0
      /\ \A j \in DOMAIN entries : j # i => entries'[j] = entries[j]
  BY <1>3, <1>5 DEF TypeOK, Entries
<1>7. TypeOK'
  <2>1. IsFiniteSet(Used) /\ Cardinality(Used) = size
    BY UsedFinite
  <2>2. Used' = Used \ {i} /\ i \in Used
    BY <1>5, <1>6 DEF Used
  <2>3. size' = Cardinality(Used')
    BY <1>3, <2>1, <2>2, FS_RemoveElement
  <2> QED BY <1>3, <1>6, <2>3 DEF TypeOK, Used
<1>8. CallTypes'
  BY <1>3 DEF CallTypes, TypeOK
<1>9. LatestFound'
  <2> SUFFICES ASSUME NEW a \in Keys, dict'[a] # None
               PROVE  Lookup(a)' = dict'[a]
    BY DEF LatestFound
  <2>1. a # k /\ dict'[a] = dict[a] /\ Lookup(a) = dict[a]
    BY <1>3 DEF TypeOK, LatestFound
  <2>2. \A j : Probe(a, j)' = Probe(a, j)
    BY <1>3 DEF Probe
  <2>3. Matches(a)' = Matches(a)
    <3>1. ASSUME NEW j \in 0..(MaxChain - 1)
          PROVE  j \in Matches(a)' <=> j \in Matches(a)
      <4>1. Probe(a, j) \in DOMAIN entries
        BY ProbeRange
      <4> QED BY <1>5, <1>6, <2>1, <2>2, <4>1 DEF Matches
    <3> QED BY <3>1 DEF Matches
  <2>4. Matches(a) # {}
    BY <2>1 DEF Lookup
  <2>5. First(Matches(a)) \in Matches(a) /\ First(Matches(a)) \in Nat
    BY <2>4, FirstIsLeast, PositionSets
  <2>6. Held(a) \in DOMAIN entries /\ entries[Held(a)].key = a
    BY <2>5, ProbeRange DEF Held, Matches
  <2>7. Held(a)' = Held(a) /\ entries'[Held(a)] = entries[Held(a)]
    BY <1>5, <1>6, <2>1, <2>2, <2>3, <2>6 DEF Held
  <2> QED BY <2>1, <2>3, <2>4, <2>7 DEF Lookup, Held
<1>10. TopicTable' /\ NoEarlyBlock' /\ Emptied'
  BY <1>3, <1>4 DEF TopicTable, NoEarlyBlock, Emptied
<1>11. Getting' /\ GetIsCurrent'
  <2>1. \A u \in Threads : pc'[u] \notin {"get", "got", "done"}
    BY <1>3, <1>4 DEF CallTypes, TypeOK
  <2> QED BY <2>1 DEF Getting, GetIsCurrent
<1> QED BY <1>7, <1>8, <1>9, <1>10, <1>11

-----------------------------------------------------------------------------
\* In the topic table an entry in use stands for a key that was put.
LEMMA KeysAreEntries ==
  ASSUME MapInv, kind = "topics", lock = {}
  PROVE  /\ IsFiniteSet({k \in Keys : dict[k] # None})
         /\ Cardinality({k \in Keys : dict[k] # None}) = size
<1> DEFINE D == {k \in Keys : dict[k] # None}
<1> DEFINE f == [i \in Used |-> entries[i].key]
<1>1. \A i \in Used : /\ entries[i].key \in D
                      /\ i = Held(entries[i].key)
  BY DEF MapInv, TopicTable, OnePlace, Used
<1>2. f \in [Used -> D]
  BY <1>1
<1>3. \A i, j \in Used : f[i] = f[j] => i = j
  BY <1>1
<1>4. ASSUME NEW k \in D PROVE \E i \in Used : f[i] = k
  <2>1. Matches(k) # {}
    BY DEF MapInv, LatestFound, Lookup
  <2>2. First(Matches(k)) \in Matches(k) /\ First(Matches(k)) \in Nat
    BY <2>1, FirstIsLeast, PositionSets
  <2>3. Held(k) \in Used /\ entries[Held(k)].key = k
    BY <2>2, ProbeRange DEF Matches, Held, Used
  <2> QED BY <2>3
<1> HIDE DEF f, D
<1>5. f \in Bijection(Used, D)
  BY <1>2, <1>3, <1>4 DEF Bijection, Injection, Surjection, IsInjective
<1>6. ExistsBijection(Used, D)
  BY <1>5 DEF ExistsBijection
<1>7. IsFiniteSet(D) /\ Cardinality(D) = Cardinality(Used)
  BY <1>6, UsedFinite, FS_Bijection DEF MapInv
<1> QED BY <1>7, UsedFinite DEF MapInv, D

\* n positions of a probe sequence that are all in use are n entries.
LEMMA ChainIsCounted ==
  ASSUME MapInv, NEW k \in Keys, NEW n \in Nat, n <= tableSize,
         \A j \in 0..(n - 1) : entries[Probe(k, j)].used = 1
  PROVE  n <= size
<1> DEFINE f == [j \in 0..(n - 1) |-> Probe(k, j)]
<1>0. tableSize \in Nat \ {0} /\ Home[k] \in Nat
  BY HashmapAssumption DEF MapInv, CallTypes
<1>1. \A j \in 0..(n - 1) : Probe(k, j) \in Used
  <2> TAKE j \in 0..(n - 1)
  <2>1. Probe(k, j) \in DOMAIN entries
    BY ProbeRange
  <2> QED BY <2>1 DEF Used
<1>2. f \in [0..(n - 1) -> Used]
  BY <1>1
<1>3. ASSUME NEW a \in 0..(n - 1), NEW b \in 0..(n - 1), f[a] = f[b]
      PROVE  a = b
  <2>1. a \in 0..(tableSize - 1) /\ b \in 0..(tableSize - 1)
    BY <1>0
  <2>2. (Home[k] + a) % tableSize = (Home[k] + b) % tableSize
    BY <1>3 DEF Probe
  <2> QED BY <1>0, <2>1, <2>2, ModInjective
<1> HIDE DEF f
<1>4. f \in Injection(0..(n - 1), Used)
  BY <1>2, <1>3 DEF Injection, IsInjective
<1>5. Cardinality(0..(n - 1)) <= Cardinality(Used)
  BY <1>4, UsedFinite, FS_Injection DEF MapInv
<1>6. Cardinality(0..(n - 1)) = n
  <2>1. Cardinality(0..(n - 1)) = IF 0 > n - 1 THEN 0 ELSE (n - 1) - 0 + 1
    <3>1. 0 \in Int /\ n - 1 \in Int
      OBVIOUS
    <3> QED BY <3>1, FS_Interval, Zenon
  <2> QED BY <2>1
<1> QED BY <1>5, <1>6, UsedFinite DEF MapInv

\* A probe sequence that is all in use by other keys has as many of them, and
\* their probe sequences meet it.
LEMMA ChainIsNear ==
  ASSUME MapInv, kind = "topics", lock = {}, NEW k \in Keys,
         MaxChain <= tableSize,
         \A j \in 0..(MaxChain - 1) : entries[Probe(k, j)].used = 1
  PROVE  Cardinality({e \in {a \in Keys : dict[a] # None} : Near(k, e)})
           >= MaxChain
<1> DEFINE D == {a \in Keys : dict[a] # None}
<1> DEFINE N == {e \in D : Near(k, e)}
<1> DEFINE f == [j \in 0..(MaxChain - 1) |-> entries[Probe(k, j)].key]
<1>0. /\ tableSize \in Nat \ {0} /\ tableSize = InitialSize
      /\ Home[k] \in Nat /\ MaxChain \in Nat
  BY HashmapAssumption DEF MapInv, CallTypes
<1>1. ASSUME NEW j \in 0..(MaxChain - 1)
      PROVE  /\ f[j] \in N /\ Probe(k, j) = Held(f[j])
  <2>1. j \in Nat /\ Probe(k, j) \in DOMAIN entries
    BY <1>0, ProbeRange
  <2>2. /\ f[j] \in D /\ Matches(f[j]) # {} /\ Probe(k, j) = Held(f[j])
    BY <1>1, <2>1 DEF MapInv, TopicTable, OnePlace
  <2>3. First(Matches(f[j])) \in 0..(MaxChain - 1)
    BY <2>2, FirstIsLeast, PositionSets
  <2>4. Near(k, f[j])
    BY <1>0, <2>2, <2>3 DEF Near, Held, Probe
  <2> QED BY <2>2, <2>4
<1>2. ASSUME NEW x \in 0..(MaxChain - 1), NEW y \in 0..(MaxChain - 1),
             f[x] = f[y]
      PROVE  x = y
  <2>1. Probe(k, x) = Probe(k, y)
    BY <1>1, <1>2
  <2>2. x \in 0..(tableSize - 1) /\ y \in 0..(tableSize - 1)
    BY <1>0
  <2> QED BY <1>0, <2>1, <2>2, ModInjective DEF Probe
<1>3. f \in [0..(MaxChain - 1) -> N]
  BY <1>1
<1>4. IsFiniteSet(N)
  BY KeysAreEntries, FS_Subset
<1> HIDE DEF f, N
<1>5. f \in Injection(0..(MaxChain - 1), N)
  BY <1>2, <1>3 DEF Injection, IsInjective
<1>6. Cardinality(0..(MaxChain - 1)) <= Cardinality(N)
  BY <1>4, <1>5, FS_Injection
<1>7. Cardinality(0..(MaxChain - 1)) = MaxChain
  <2>1. Cardinality(0..(MaxChain - 1))
          = IF 0 > MaxChain - 1 THEN 0 ELSE (MaxChain - 1) - 0 + 1
    <3>1. 0 \in Int /\ MaxChain - 1 \in Int
      BY <1>0
    <3> QED BY <3>1, FS_Interval, Zenon
  <2> QED BY <1>0, <2>1
<1>8. Cardinality(N) \in Nat
  BY <1>4, FS_CardinalityType
<1> QED BY <1>0, <1>6, <1>7, <1>8 DEF N

LEMMA MapRehash == ASSUME MapInv, NEW t \in Threads, PutRehash(t) PROVE MapInv'
<1> USE DEF MapInv
<1>1. PICK k \in Keys : k = key[t]
  BY DEF CallTypes
<1>2. /\ lock = {} /\ Full(k)
      /\ tableSize' = 2 * tableSize
      /\ entries' = [i \in 0..(2 * tableSize - 1) |-> Free]
      /\ size' = 0
      /\ lock' = {t}
      /\ pc' = [pc EXCEPT ![t] = "nested"]
      /\ UNCHANGED <<kind, key, val, slot, calls, dict, seen>>
  BY <1>1 DEF PutRehash, Locks
<1>3. Free \in Entries /\ Free.used = 0 /\ tableSize \in Nat \ {0}
  BY DEF Free, Entries, CallTypes
<1>4. TypeOK'
  <2>1. {i \in DOMAIN entries' : entries'[i].used = 1} = {}
    BY <1>2, <1>3
  <2>2. size' = Cardinality({i \in DOMAIN entries' : entries'[i].used = 1})
    BY <1>2, <2>1, FS_EmptySet
  <2>3. slot' \in [Threads -> 0..(tableSize' - 1)]
    BY <1>2, <1>3 DEF TypeOK
  <2> QED BY <1>2, <1>3, <2>2, <2>3 DEF TypeOK
<1>5. CallTypes' /\ Emptied'
  BY <1>2, <1>3 DEF CallTypes, Emptied, Free, TypeOK
<1>6. LatestFound' /\ TopicTable' /\ Getting' /\ GetIsCurrent'
  BY <1>2 DEF LatestFound, TopicTable, Getting, GetIsCurrent
<1>7. NoEarlyBlock'
  <2> SUFFICES ASSUME kind = "topics"
               PROVE  \/ size >= InitialSize \div 2
                      \/ Cardinality({e \in {a \in Keys : dict[a] # None} :
                                       Near(k, e)}) >= MaxChain
    <3>1. \A u \in Threads : pc'[u] = "nested" => u = t
      BY <1>2 DEF CallTypes, TypeOK
    <3> QED BY <1>1, <1>2, <3>1, KeysAreEntries DEF NoEarlyBlock, Near
  <2>0. /\ tableSize = InitialSize /\ size \in Nat /\ MaxChain \in Nat
        /\ InitialSize \in Nat
    BY <1>2, UsedFinite, HashmapAssumption DEF CallTypes
  <2>1. CASE Places(k) # {}
    BY <1>2, <2>0, <2>1 DEF Full
  <2>2. CASE Places(k) = {}
    <3>1. \A j \in 0..(MaxChain - 1) : entries[Probe(k, j)].used = 1
      <4> TAKE j \in 0..(MaxChain - 1)
      <4>1. Probe(k, j) \in DOMAIN entries /\ entries[Probe(k, j)].used # 0
        BY <2>2, ProbeRange DEF Places
      <4> QED BY <4>1 DEF TypeOK, Entries
    <3>2. CASE MaxChain <= tableSize
      BY <1>2, <3>1, <3>2, ChainIsNear
    <3>3. CASE MaxChain > tableSize
      <4>1. \A j \in 0..(tableSize - 1) : entries[Probe(k, j)].used = 1
        BY <2>0, <3>1, <3>3
      <4>2. tableSize <= size
        BY <2>0, <4>1, ChainIsCounted
      <4> QED BY <2>0, <4>2
    <3> QED BY <2>0, <3>2, <3>3
  <2> QED BY <2>1, <2>2
<1> QED BY <1>4, <1>5, <1>6, <1>7

LEMMA MapGet ==
  ASSUME MapInv, NEW t \in Threads, GetMiss(t) \/ GetFind(t) \/ GetRead(t)
  PROVE  MapInv'
<1>0. /\ UNCHANGED <<kind, tableVars, dict, key, seen>>
      /\ key \in [Threads -> Keys]
      /\ seen \in [Threads -> SUBSET (Vals \cup {None})]
      /\ key[t] \in Keys
  BY DEF GetMiss, GetFind, GetRead, MapInv, CallTypes
<1>a. pc[t] \in {"get", "got"} /\ kind = "topics"
  BY DEF GetMiss, GetFind, GetRead, Locks, MapInv, CallTypes
<1>b. lock = {} => dict[key[t]] \in seen[t]
  BY <1>a DEF MapInv, Getting
<1>1. CASE GetMiss(t)
  <2>1. /\ pc' = [pc EXCEPT ![t] = "done"]
        /\ val' = [val EXCEPT ![t] = None]
        /\ UNCHANGED slot /\ lock = {} /\ Matches(key[t]) = {}
    BY <1>1 DEF GetMiss, GetReturns, Locks
  <2>2. dict[key[t]] = None
    BY <1>0, <2>1 DEF MapInv, LatestFound, Lookup
  <2>3. None \in seen[t]
    BY <1>b, <2>1, <2>2
  <2> QED BY <1>0, <1>a, <2>1, <2>3, MapQuiet DEF MapInv, TypeOK
<1>2. CASE GetFind(t)
  <2>1. /\ pc' = [pc EXCEPT ![t] = "got"]
        /\ slot' = [slot EXCEPT ![t] = Held(key[t])]
        /\ UNCHANGED val /\ lock = {} /\ Matches(key[t]) # {}
    BY <1>2 DEF GetFind, Locks, Held
  <2>2. Held(key[t]) \in 0..(tableSize - 1)
    <3>1. First(Matches(key[t])) \in Nat
      BY <2>1, FirstIsLeast, PositionSets
    <3> QED BY <1>0, <3>1, ProbeRange DEF Held
  <2> QED BY <1>0, <1>a, <1>b, <2>1, <2>2, MapQuiet DEF MapInv, TypeOK
<1>3. CASE GetRead(t)
  <2>1. /\ pc' = [pc EXCEPT ![t] = "done"]
        /\ val' = [val EXCEPT ![t] = entries[slot[t]].val]
        /\ UNCHANGED slot /\ pc[t] = "got"
    BY <1>3 DEF GetRead, GetReturns
  <2>2. entries[slot[t]].val \in Vals \cup {None}
    BY DEF MapInv, TypeOK, Entries
  <2>3. ASSUME lock = {} PROVE entries[slot[t]].val \in seen[t]
    <3>1. Matches(key[t]) # {} /\ slot[t] = Held(key[t])
      BY <2>1, <2>3 DEF MapInv, Getting
    <3>2. First(Matches(key[t])) \in Matches(key[t])
      BY <3>1, FirstIsLeast, PositionSets
    <3>3. entries[slot[t]].used = 1 /\ entries[slot[t]].key = key[t]
      BY <3>1, <3>2 DEF Matches, Held
    <3>4. dict[key[t]] # None
      BY <1>a, <2>3, <3>3 DEF MapInv, TypeOK, TopicTable, OnePlace
    <3>5. entries[slot[t]].val = dict[key[t]]
      BY <1>0, <2>3, <3>1, <3>4 DEF MapInv, LatestFound, Lookup, Held
    <3> QED BY <1>b, <2>3, <3>5
  <2>4. lock # {} => entries[slot[t]].val = None
    BY DEF MapInv, TypeOK, Emptied
  <2> QED BY <1>0, <1>a, <2>1, <2>2, <2>3, <2>4, MapQuiet DEF MapInv, TypeOK
<1> QED BY <1>1, <1>2, <1>3

LEMMA MapReturns ==
  ASSUME MapInv, NEW t \in Threads, PutFails(t) \/ DelMiss(t)
  PROVE  MapInv'
<1>1. /\ pc' = [pc EXCEPT ![t] = "idle"]
      /\ UNCHANGED <<kind, tableVars, key, val, slot, dict, seen>>
  BY DEF PutFails, DelMiss, Returns
<1> QED BY <1>1, MapQuiet DEF MapInv, TypeOK, CallTypes

LEMMA MapNext == MapInv /\ [Next]_vars => MapInv'
<1> SUFFICES ASSUME MapInv, [Next]_vars PROVE MapInv'
  OBVIOUS
<1>1. CASE Next
  BY <1>1, MapCalls, MapStore, MapRehash, MapReturns, MapGet, MapDelete
  DEF Next, Step
<1>2. CASE UNCHANGED vars
  BY <1>2, MapQuiet DEF vars, MapInv, TypeOK, CallTypes
<1> QED BY <1>1, <1>2

LEMMA MapHolds == Spec => []MapInv
  BY MapInit, MapNext, PTL DEF Spec

-----------------------------------------------------------------------------
(* The size hashmap_put compares with half of the table is the number of   *)
(* entries in use, through every put, replacement, deletion and rehash.    *)
THEOREM HashmapTypeCorrect == Spec => []TypeOK
<1>1. MapInv => TypeOK
  BY DEF MapInv
<1> QED BY <1>1, MapHolds, PTL

(* Holes that hashmap_del leaves in a chain hide no live entry, and a      *)
(* stale duplicate behind a hole is never what a search finds.             *)
THEOREM LatestFoundHolds == Spec => []LatestFound
<1>1. MapInv => LatestFound
  BY DEF MapInv
<1> QED BY <1>1, MapHolds, PTL

(* hashmap_get may read the entry after it released the mutex: on a table  *)
(* nothing is deleted from, the entry stays where the key was found, until *)
(* a rehash puts an empty table in its place; then the read yields NULL.   *)
THEOREM GetIsCurrentHolds == Spec => []GetIsCurrent
<1>1. MapInv => GetIsCurrent
  BY DEF MapInv
<1> QED BY <1>1, MapHolds, PTL

(* A put to the topic table runs into hashmap_rehash, which blocks on its  *)
(* own mutex, only when topics fill half of the table, or when             *)
(* MAX_CHAIN_LENGTH of them have probe sequences that meet that of its key.*)
THEOREM NoEarlyBlockHolds == Spec => []NoEarlyBlock
<1>1. MapInv => NoEarlyBlock
  BY DEF MapInv
<1> QED BY <1>1, MapHolds, PTL
=============================================================================

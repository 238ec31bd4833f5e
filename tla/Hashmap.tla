------------------------------ MODULE Hashmap -------------------------------
(***************************************************************************)
(* src/src/hashmap.c: an open-addressing table with linear probing and one *)
(* mutex.  The broker has two of them and uses them differently: the topic *)
(* table is put to and read (hashmap_put, hashmap_get), the client table   *)
(* is put to and deleted from (hashmap_put, hashmap_del).  What a call     *)
(* does under the mutex is one action; hashmap_get reads the value it      *)
(* found after it released the mutex, which is a second one.               *)
(***************************************************************************)
EXTENDS Naturals, FiniteSets

CONSTANTS
  Threads,      \* the worker threads
  Keys,         \* keys, compared by strcmp
  Vals,         \* the pointers stored
  None,         \* NULL
  Home,         \* hashmap_hash_int before the reduction modulo table_size
  InitialSize,  \* INITIAL_SIZE, 256 in the code
  MaxChain,     \* MAX_CHAIN_LENGTH, 8 in the code
  Kinds,        \* the tables: "topics", "clients"
  MaxCalls,     \* how many calls the threads make
  Faults        \* "oom": calloc fails

ASSUME HashmapAssumption ==
  /\ Home \in [Keys -> Nat]
  /\ InitialSize \in Nat \ {0, 1} /\ MaxChain \in Nat \ {0}
  /\ None \notin Vals
  /\ MaxCalls \in Nat

VARIABLES
  kind,         \* which of the two tables this is
  entries,      \* m->entries
  tableSize,    \* m->table_size
  size,         \* m->size
  lock,         \* the threads that hold the mutex between two actions
  pc,           \* "idle", "put", "get", "got", "del", "nested", and
                \* "done" when hashmap_get has returned
  key,          \* the call's key
  val,          \* the value to put, or the value hashmap_get returned
  slot,         \* where hashmap_get found the key
  calls,        \* how many calls were made
  dict,         \* history: the last value put under a key and not deleted
  seen          \* history: the values dict[key] had since the call

tableVars == <<entries, tableSize, size, lock>>
vars == <<kind, tableVars, pc, key, val, slot, calls, dict, seen>>

Free == [used |-> 0, key |-> None, val |-> None]
Entries == [used : {0, 1}, key : Keys \cup {None}, val : Vals \cup {None}]

Init ==
  /\ kind \in Kinds
  /\ entries = [i \in 0..(InitialSize - 1) |-> Free]
  /\ tableSize = InitialSize
  /\ size = 0
  /\ lock = {}
  /\ pc = [t \in Threads |-> "idle"]
  /\ key \in [Threads -> Keys]
  /\ val = [t \in Threads |-> None]
  /\ slot = [t \in Threads |-> 0]
  /\ calls = 0
  /\ dict = [k \in Keys |-> None]
  /\ seen = [t \in Threads |-> {None}]

-----------------------------------------------------------------------------
\* The probe sequence of a key.
Probe(k, i) == (Home[k] + i) % tableSize

\* The first position of the probe sequence that is in S.
First(S) == CHOOSE i \in S : \A j \in S : i <= j

\* Mutants: the scan stops at a hole; the keys are not compared.
Matches_UpToHole(k) ==
  {i \in 0..(MaxChain - 1) :
     /\ entries[Probe(k, i)].used = 1
     /\ entries[Probe(k, i)].key = k
     /\ \A j \in 0..i : entries[Probe(k, j)].used = 1}
Matches_AnyKey(k) ==
  {i \in 0..(MaxChain - 1) : entries[Probe(k, i)].used = 1}

\* The positions hashmap_get and hashmap_del accept.
Matches(k) ==
  {i \in 0..(MaxChain - 1) :
     entries[Probe(k, i)].used = 1 /\ entries[Probe(k, i)].key = k}

\* The positions hashmap_hash accepts.
Places(k) ==
  Matches(k) \cup {i \in 0..(MaxChain - 1) : entries[Probe(k, i)].used = 0}

\* Mutant: the load limit is a quarter of the table.
Full_Quarter(k) == size >= tableSize \div 4 \/ Places(k) = {}

\* hashmap_hash gives HASHMAP_FULL.
Full(k) == size >= tableSize \div 2 \/ Places(k) = {}

-----------------------------------------------------------------------------
Call(t, op, k, v) ==
  /\ pc[t] \in {"idle", "done"}
  /\ calls < MaxCalls
  /\ calls' = calls + 1
  /\ pc' = [pc EXCEPT ![t] = op]
  /\ key' = [key EXCEPT ![t] = k]
  /\ val' = [val EXCEPT ![t] = v]
  /\ seen' = [seen EXCEPT ![t] = {dict[k]}]
  /\ UNCHANGED <<kind, tableVars, slot, dict>>

CallPut(t, k, v) == Call(t, "put", k, v)
CallGet(t, k) == kind = "topics" /\ Call(t, "get", k, None)
CallDel(t, k) == kind = "clients" /\ Call(t, "del", k, None)

\* A thread gets the mutex for a call.
Locks(t, op) == pc[t] = op /\ lock = {}
Returns(t) == pc' = [pc EXCEPT ![t] = "idle"]
GetReturns(t, v) ==
  /\ pc' = [pc EXCEPT ![t] = "done"]
  /\ val' = [val EXCEPT ![t] = v]
Record(k, v) ==
  /\ dict' = [dict EXCEPT ![k] = v]
  /\ seen' = [t \in Threads |-> IF key[t] = k /\ pc[t] \in {"get", "got"}
                                THEN seen[t] \cup {v} ELSE seen[t]]

\* Mutant: a replaced value counts as a new entry.
Counted_Always(i) == size + 1

\* m->size once entry i is written.
Counted(i) == IF entries[i].used = 0 THEN size + 1 ELSE size

PutStore(t) ==
  LET k == key[t]
      i == Probe(k, First(Places(k)))
  IN /\ Locks(t, "put")
     /\ ~Full(k)
     /\ entries' = [entries EXCEPT ![i] =
                      [used |-> 1, key |-> k, val |-> val[t]]]
     /\ size' = Counted(i)
     /\ Record(k, val[t])
     /\ Returns(t)
     /\ UNCHANGED <<kind, tableSize, lock, key, val, slot, calls>>

\* hashmap_rehash: the new table is in place when hashmap_put is called for
\* the first old entry (a full table has one), and that call asks for the
\* mutex its caller holds.
PutRehash(t) ==
  /\ Locks(t, "put")
  /\ Full(key[t])
  /\ tableSize' = 2 * tableSize
  /\ entries' = [i \in 0..(2 * tableSize - 1) |-> Free]
  /\ size' = 0
  /\ lock' = {t}
  /\ pc' = [pc EXCEPT ![t] = "nested"]
  /\ UNCHANGED <<kind, key, val, slot, calls, dict, seen>>

\* calloc fails: HASHMAP_ERR.
PutFails(t) ==
  /\ "oom" \in Faults
  /\ Locks(t, "put")
  /\ Full(key[t])
  /\ Returns(t)
  /\ UNCHANGED <<kind, tableVars, key, val, slot, calls, dict, seen>>

GetMiss(t) ==
  /\ Locks(t, "get")
  /\ Matches(key[t]) = {}
  /\ GetReturns(t, None)
  /\ UNCHANGED <<kind, tableVars, key, slot, calls, dict, seen>>

GetFind(t) ==
  /\ Locks(t, "get")
  /\ Matches(key[t]) # {}
  /\ slot' = [slot EXCEPT ![t] = Probe(key[t], First(Matches(key[t])))]
  /\ pc' = [pc EXCEPT ![t] = "got"]
  /\ UNCHANGED <<kind, tableVars, key, val, calls, dict, seen>>

\* The read after the mutex is released.
GetRead(t) ==
  /\ pc[t] = "got"
  /\ GetReturns(t, entries[slot[t]].val)
  /\ UNCHANGED <<kind, tableVars, key, slot, calls, dict, seen>>

DelMiss(t) ==
  /\ Locks(t, "del")
  /\ Matches(key[t]) = {}
  /\ Returns(t)
  /\ UNCHANGED <<kind, tableVars, key, val, slot, calls, dict, seen>>

\* Only in_use is cleared; the key and the value stay where they are.
DelFind(t) ==
  /\ Locks(t, "del")
  /\ Matches(key[t]) # {}
  /\ entries' = [entries EXCEPT
                   ![Probe(key[t], First(Matches(key[t])))].used = 0]
  /\ size' = size - 1
  /\ Record(key[t], None)
  /\ Returns(t)
  /\ UNCHANGED <<kind, tableSize, lock, key, val, slot, calls>>

Step(t) ==
  \/ PutStore(t) \/ PutRehash(t) \/ PutFails(t)
  \/ GetMiss(t) \/ GetFind(t) \/ GetRead(t)
  \/ DelMiss(t) \/ DelFind(t)

Next ==
  \/ \E t \in Threads, k \in Keys, v \in Vals : CallPut(t, k, v)
  \/ \E t \in Threads, k \in Keys : CallGet(t, k)
  \/ \E t \in Threads, k \in Keys : CallDel(t, k)
  \/ \E t \in Threads : Step(t)

Spec == Init /\ [][Next]_vars

\* The threads run, and a mutex that is free is handed to who waits for it.
FairSpec == Spec /\ \A t \in Threads : WF_vars(Step(t))

-----------------------------------------------------------------------------
(* The fields of the table have their types, and m->size, which decides    *)
(* when the table counts as full, is the number of entries in use.         *)
TypeOK ==
  /\ tableSize \in Nat
  /\ entries \in [0..(tableSize - 1) -> Entries]
  /\ size = Cardinality({i \in DOMAIN entries : entries[i].used = 1})
  /\ lock \subseteq Threads
  /\ pc \in [Threads -> {"idle", "put", "get", "got", "done", "del", "nested"}]
  /\ val \in [Threads -> Vals \cup {None}]
  /\ slot \in [Threads -> 0..(tableSize - 1)]
  /\ dict \in [Keys -> Vals \cup {None}]

Lookup(k) == IF Matches(k) = {} THEN None
             ELSE entries[Probe(k, First(Matches(k)))].val

(* What was put last under a key and not deleted is what a search finds,   *)
(* in spite of the holes deletions leave in the probe sequences, until a   *)
(* rehash is attempted.                                                    *)
LatestFound ==
  lock = {} => \A k \in Keys : dict[k] # None => Lookup(k) = dict[k]

(* hashmap_get returns a value the key had at some moment of the call, and *)
(* NULL if it had none then, although it reads the entry without the       *)
(* mutex: nothing is deleted from the topic table.  The one exception is a *)
(* rehash that swaps m->entries between the search and the read: then, and *)
(* only then, a key that is present yields NULL, and never another value.  *)
GetIsCurrent ==
  \A t \in Threads :
    pc[t] = "done" => val[t] \in seen[t] \/ (val[t] = None /\ lock # {})

\* The probe sequences of two keys share an entry of the initial table.
Near(k, j) ==
  \E x, y \in 0..(MaxChain - 1) :
    (Home[k] + x) % InitialSize = (Home[j] + y) % InitialSize

(* hashmap_put runs into the rehash, and so into its own mutex, only when  *)
(* the topics put before are half as many as the table has entries, or     *)
(* when as many of them as a probe sequence is long compete for the        *)
(* entries of the probe sequence of its key.                               *)
NoEarlyBlock ==
  \A t \in Threads : kind = "topics" /\ pc[t] = "nested" =>
    LET present == {k \in Keys : dict[k] # None}
    IN \/ Cardinality(present) >= InitialSize \div 2
       \/ Cardinality({k \in present : Near(key[t], k)}) >= MaxChain

(* "Doubles the size of the hashmap, and rehashes all the elements": a put *)
(* returns, into a larger table if need be.                                *)
PutReturns == \A t \in Threads : pc[t] = "put" ~> pc[t] = "idle"
=============================================================================

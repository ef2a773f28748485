------------------------ MODULE SwapRegistryProofs ------------------------
(***************************************************************************)
(* Proofs about SwapRegistry, for every set of threads, paths and device   *)
(* footprints and every value of the bounds.                               *)
(*                                                                         *)
(* The argument rests on one inductive invariant.  Its heart is Protected: *)
(* a thread between evict()'s look at the reference count and its removals *)
(* holds the lock, and the mapping it is about to remove has exactly one   *)
(* reference, the table's.  Handles are only made from handles or under    *)
(* the lock, so none can appear there.                                     *)
(***************************************************************************)
EXTENDS SwapRegistry, FiniteSetTheorems, TLAPS

(* Only the holder of the lock is inside an operation.                     *)
Locked == \A t \in Thread : call[t] # Idle => lock = t

(* Ids in the table were issued before next_id.                            *)
Issued == \A id \in DOMAIN tables.resident : id \in Nat /\ id < tables.next_id

(* The live mappings are exactly the resident ones.                        *)
Accounted ==
    /\ DOMAIN arc = DOMAIN tables.resident
    /\ \A id \in DOMAIN arc : arc[id].path = tables.resident[id]

(* What a thread learnt in the first half of an operation still holds when *)
(* it runs the second.                                                     *)
Protected ==
    \A t \in Thread :
        /\ call[t].op \in {"load", "insert"} => call[t].path \in Path
        /\ call[t].op = "insert" => call[t].path \notin DOMAIN tables.by_path
        /\ call[t].op = "remove" => /\ call[t].id \in DOMAIN tables.resident
                                    /\ arc[call[t].id].strong = 1

IInv == TypeOK /\ Locked /\ Issued /\ TablesAgree /\ Accounted /\ Protected

---------------------------------------------------------------------------
(* An empty registry satisfies the invariant.                              *)
LEMMA InitIInv == Init => IInv
BY DEF Init, IInv, TypeOK, Locked, Issued, TablesAgree, Accounted, Protected,
       Idle, EmptyTables, EmptyTable, Ops

---------------------------------------------------------------------------
(* Instants                                                                *)

(* The rank of an Instant among others is a number.                        *)
LEMMA RankIsNatural ==
    ASSUME NEW instants \in SUBSET Nat, NEW t \in Nat
    PROVE  Rank(instants, t) \in Nat
<1> DEFINE earlier == {s \in instants : s < t}
<1>1. IsFiniteSet(0..t)
  BY FS_Interval
<1>2. ASSUME NEW s \in earlier PROVE s \in 0..t
  <2>1. s \in Nat /\ s < t
    BY <1>2
  <2>2. QED
    BY <2>1
<1>3. QED
  BY <1>1, <1>2, FS_Subset, FS_CardinalityType DEF Rank

(* Numbering the Instants anew touches nothing else.                       *)
LEMMA RenumberedKeeps ==
    ASSUME NEW T, T.last_accessed \in [DOMAIN T.last_accessed -> Nat], T.clock \in Nat
    PROVE  LET R == Renumbered(T) IN
           /\ R.next_id = T.next_id /\ R.resident = T.resident /\ R.by_path = T.by_path
           /\ DOMAIN R.last_accessed = DOMAIN T.last_accessed
           /\ R.last_accessed \in [DOMAIN T.last_accessed -> Nat]
           /\ R.clock \in Nat
<1> DEFINE instants == Range(T.last_accessed) \cup {T.clock}
<1>1. instants \in SUBSET Nat
  BY DEF Range
<1> HIDE DEF instants
<1>2. /\ \A id \in DOMAIN T.last_accessed : Rank(instants, T.last_accessed[id]) \in Nat
      /\ Rank(instants, T.clock) \in Nat
  BY <1>1, RankIsNatural
<1>3. QED
  BY <1>2 DEF Renumbered, instants

(* So the three operations on the tables do to the maps what the code does *)
(* to them, and to the Instants nothing that changes their type.           *)
LEMMA AccessedKeeps ==
    ASSUME IInv, NEW path \in DOMAIN tables.by_path, NEW now \in Now(tables),
           tables' = Accessed(tables, path, now)
    PROVE  /\ tables'.next_id = tables.next_id
           /\ tables'.resident = tables.resident
           /\ tables'.by_path = tables.by_path
           /\ DOMAIN tables'.last_accessed = DOMAIN tables.last_accessed
           /\ tables'.last_accessed \in [DOMAIN tables'.last_accessed -> Nat]
           /\ tables'.clock \in Nat
<1> DEFINE id == tables.by_path[path]
           T == [next_id       |-> tables.next_id,
                 resident      |-> tables.resident,
                 by_path       |-> tables.by_path,
                 last_accessed |-> Put(tables.last_accessed, id, now),
                 clock         |-> now]
<1>1. id \in DOMAIN tables.last_accessed /\ now \in Nat
  BY DEF IInv, TypeOK, TablesAgree, Now
<1>2. /\ DOMAIN T.last_accessed = DOMAIN tables.last_accessed
      /\ T.last_accessed \in [DOMAIN T.last_accessed -> Nat] /\ T.clock \in Nat
  BY <1>1 DEF IInv, TypeOK, Put
<1>3. tables' = Renumbered(T)
  BY DEF Accessed
<1>4. QED
  BY <1>2, <1>3, RenumberedKeeps

(* load() inserts under the next id.                                       *)
LEMMA InsertedKeeps ==
    ASSUME IInv, NEW path, NEW now \in Now(tables),
           tables' = Inserted(tables, path, now)
    PROVE  /\ tables'.next_id = tables.next_id + 1
           /\ tables'.resident = Put(tables.resident, tables.next_id, path)
           /\ tables'.by_path = Put(tables.by_path, path, tables.next_id)
           /\ DOMAIN tables'.last_accessed = DOMAIN tables.last_accessed \cup {tables.next_id}
           /\ tables'.last_accessed \in [DOMAIN tables'.last_accessed -> Nat]
           /\ tables'.clock \in Nat
<1> DEFINE T == [next_id       |-> tables.next_id + 1,
                 resident      |-> Put(tables.resident, tables.next_id, path),
                 by_path       |-> Put(tables.by_path, path, tables.next_id),
                 last_accessed |-> Put(tables.last_accessed, tables.next_id, now),
                 clock         |-> now]
<1>1. now \in Nat
  BY DEF IInv, TypeOK, Now
<1>2. /\ DOMAIN T.last_accessed = DOMAIN tables.last_accessed \cup {tables.next_id}
      /\ T.last_accessed \in [DOMAIN T.last_accessed -> Nat] /\ T.clock \in Nat
  BY <1>1 DEF IInv, TypeOK, Put
<1>3. tables' = Renumbered(T)
  BY DEF Inserted
<1>4. QED
  BY <1>2, <1>3, RenumberedKeeps

(* evict() takes one id out of every map.                                  *)
LEMMA RemovedKeeps ==
    ASSUME IInv, NEW id, tables' = Removed(tables, id)
    PROVE  /\ tables'.next_id = tables.next_id
           /\ tables'.resident = Without(tables.resident, id)
           /\ tables'.by_path = Without(tables.by_path, tables.resident[id])
           /\ DOMAIN tables'.last_accessed = DOMAIN tables.last_accessed \ {id}
           /\ tables'.last_accessed \in [DOMAIN tables'.last_accessed -> Nat]
           /\ tables'.clock \in Nat
<1> DEFINE T == [next_id       |-> tables.next_id,
                 resident      |-> Without(tables.resident, id),
                 by_path       |-> Without(tables.by_path, tables.resident[id]),
                 last_accessed |-> Without(tables.last_accessed, id),
                 clock         |-> tables.clock]
<1>1. /\ DOMAIN T.last_accessed = DOMAIN tables.last_accessed \ {id}
      /\ T.last_accessed \in [DOMAIN T.last_accessed -> Nat] /\ T.clock \in Nat
  BY DEF IInv, TypeOK, Without, Restrict
<1>2. tables' = Renumbered(T)
  BY DEF Removed
<1>3. QED
  BY <1>1, <1>2, RenumberedKeeps

---------------------------------------------------------------------------
(* The first and the last step of an operation                             *)

(* A thread that enters waited for the lock, so nobody else is inside.     *)
LEMMA EnterPreserves ==
    ASSUME IInv, NEW t \in Thread, NEW op \in {"load", "evict", "record"},
           NEW path \in Path \cup {None}, NEW id \in Nat,
           op = "load" => path \in Path,
           Enter(t, op, path, id)
    PROVE  IInv'
<1>1. TypeOK'
  BY DEF IInv, TypeOK, Enter, Ops
<1>2. Locked'
  BY NoneAssumption DEF IInv, TypeOK, Locked, Enter
<1>3. Issued' /\ TablesAgree' /\ Accounted'
  BY DEF IInv, Issued, TablesAgree, Accounted, Enter
<1>4. Protected'
  BY DEF IInv, TypeOK, Protected, Enter
<1>5. QED
  BY <1>1, <1>2, <1>3, <1>4 DEF IInv

(* When an operation returns nobody is inside any more.                    *)
LEMMA LeaveFacts ==
    ASSUME IInv, NEW t \in Thread, call[t].op # "idle", Leave(t)
    PROVE  /\ lock' \in Thread \cup {None}
           /\ call' \in [Thread -> [op : Ops, path : Path \cup {None}, id : Nat]]
           /\ Locked'
           /\ Protected'
<1>1. \A u \in Thread : call'[u] = Idle
  <2>1. TAKE u \in Thread
  <2>2. CASE u = t
    BY <2>2 DEF IInv, TypeOK, Leave
  <2>3. CASE u # t
    <3>1. call[t] # Idle
      BY DEF Idle
    <3>2. call[u] = Idle
      BY <2>3, <3>1 DEF IInv, Locked
    <3>3. QED
      BY <2>3, <3>2 DEF IInv, TypeOK, Leave
  <2>4. QED
    BY <2>2, <2>3
<1>2. lock' \in Thread \cup {None}
  BY DEF Leave
<1>3. call' \in [Thread -> [op : Ops, path : Path \cup {None}, id : Nat]]
  BY DEF IInv, TypeOK, Leave, Idle, Ops
<1>4. Locked'
  BY <1>1 DEF Locked
<1>5. Protected'
  BY <1>1 DEF Protected, Idle
<1>6. QED
  BY <1>2, <1>3, <1>4, <1>5

(* An operation that returns without touching the tables.                  *)
LEMMA LeaveUnchanged ==
    ASSUME IInv, NEW t \in Thread, call[t].op # "idle", Leave(t),
           UNCHANGED <<tables, arc>>
    PROVE  IInv'
<1>1. TypeOK' /\ Locked' /\ Protected'
  BY LeaveFacts DEF IInv, TypeOK
<1>2. Issued' /\ TablesAgree' /\ Accounted'
  BY DEF IInv, Issued, TablesAgree, Accounted
<1>3. QED
  BY <1>1, <1>2 DEF IInv

---------------------------------------------------------------------------
(* load()                                                                  *)

(* Another handle to a mapped path; its removal was not under way, since   *)
(* whoever removes holds the lock.                                         *)
LEMMA LoadHitPreserves ==
    ASSUME IInv, NEW t \in Thread, LoadHit(t)
    PROVE  IInv'
<1> DEFINE id == tables.by_path[call[t].path]
<1>1. /\ id \in DOMAIN tables.resident
      /\ id \in DOMAIN arc
      /\ id \in DOMAIN tables.last_accessed
  BY DEF IInv, TablesAgree, Accounted, LoadHit
<1>2. arc' = [arc EXCEPT ![id].strong = @ + 1]
  BY DEF LoadHit, Shared
<1>3. /\ tables'.next_id = tables.next_id
      /\ tables'.resident = tables.resident
      /\ tables'.by_path = tables.by_path
      /\ DOMAIN tables'.last_accessed = DOMAIN tables.last_accessed
      /\ tables'.last_accessed \in [DOMAIN tables'.last_accessed -> Nat]
      /\ tables'.clock \in Nat
  BY AccessedKeeps DEF LoadHit
<1>4. /\ lock' \in Thread \cup {None}
      /\ call' \in [Thread -> [op : Ops, path : Path \cup {None}, id : Nat]]
      /\ Locked' /\ Protected'
  BY LeaveFacts DEF LoadHit
<1> HIDE DEF id
<1>5. /\ DOMAIN arc' = DOMAIN arc
      /\ arc' \in [DOMAIN arc -> [path : Path, device_bytes : DeviceBytes \cup {None},
                                  strong : Nat \ {0}]]
      /\ \A i \in DOMAIN arc : arc'[i].path = arc[i].path
  BY <1>1, <1>2 DEF IInv, TypeOK
<1>6. TypeOK'
  BY <1>3, <1>4, <1>5 DEF IInv, TypeOK
<1>7. Issued' /\ TablesAgree'
  BY <1>3 DEF IInv, Issued, TablesAgree
<1>8. Accounted'
  BY <1>3, <1>5 DEF IInv, Accounted
<1>9. QED
  BY <1>4, <1>6, <1>7, <1>8 DEF IInv

(* Between load()'s lookup and its insertions the path stays unmapped.     *)
LEMMA LoadMapPreserves ==
    ASSUME IInv, NEW t \in Thread, LoadMap(t)
    PROVE  IInv'
<1>1. TypeOK'
  BY DEF IInv, TypeOK, LoadMap, Continue, Ops
<1>2. Locked'
  BY DEF IInv, TypeOK, Locked, LoadMap, Continue, Idle
<1>3. Issued' /\ TablesAgree' /\ Accounted'
  BY DEF IInv, Issued, TablesAgree, Accounted, LoadMap, Continue
<1>4. Protected'
  BY DEF IInv, TypeOK, Protected, LoadMap, Continue
<1>5. QED
  BY <1>1, <1>2, <1>3, <1>4 DEF IInv

(* The three insertions under a fresh id keep the tables in agreement.     *)
LEMMA LoadInsertPreserves ==
    ASSUME IInv, NEW t \in Thread, LoadInsert(t)
    PROVE  IInv'
<1> DEFINE path == call[t].path
           id == tables.next_id
<1>1. path \in Path /\ path \notin DOMAIN tables.by_path
  BY DEF IInv, Protected, LoadInsert
<1>2. /\ id = tables.next_id /\ id \in Nat
      /\ id \notin DOMAIN tables.resident
      /\ id \notin DOMAIN arc
      /\ id \notin DOMAIN tables.last_accessed
  BY DEF IInv, TypeOK, Issued, TablesAgree, Accounted
<1>3. /\ tables'.next_id = id + 1
      /\ tables'.resident = Put(tables.resident, id, path)
      /\ tables'.by_path = Put(tables.by_path, path, id)
      /\ DOMAIN tables'.last_accessed = DOMAIN tables.last_accessed \cup {id}
      /\ tables'.last_accessed \in [DOMAIN tables'.last_accessed -> Nat]
      /\ tables'.clock \in Nat
  BY InsertedKeeps DEF LoadInsert
<1>4. arc' = Put(arc, id, [path |-> path, device_bytes |-> None, strong |-> 2])
  BY DEF LoadInsert
<1>5. /\ lock' \in Thread \cup {None}
      /\ call' \in [Thread -> [op : Ops, path : Path \cup {None}, id : Nat]]
      /\ Locked' /\ Protected'
  BY LeaveFacts DEF LoadInsert
<1> HIDE DEF path, id
<1>6. TypeOK'
  <2>1. tables'.next_id \in Nat
    BY <1>2, <1>3
  <2>2. tables'.resident \in [DOMAIN tables'.resident -> Path]
    BY <1>1, <1>3 DEF IInv, TypeOK, Put
  <2>3. tables'.by_path \in [DOMAIN tables'.by_path -> Nat]
    BY <1>2, <1>3 DEF IInv, TypeOK, Put
  <2>4. arc' \in [DOMAIN arc' -> [path : Path, device_bytes : DeviceBytes \cup {None},
                                  strong : Nat \ {0}]]
    BY <1>1, <1>4 DEF IInv, TypeOK, Put
  <2>5. QED
    BY <1>3, <1>5, <2>1, <2>2, <2>3, <2>4 DEF TypeOK
<1>7. Issued'
  <2>1. DOMAIN tables'.resident = DOMAIN tables.resident \cup {id}
    BY <1>3 DEF Put
  <2>2. QED
    BY <1>2, <1>3, <2>1 DEF IInv, TypeOK, Issued
<1>8. TablesAgree'
  BY <1>1, <1>2, <1>3 DEF IInv, TablesAgree, Put
<1>9. Accounted'
  BY <1>2, <1>3, <1>4 DEF IInv, Accounted, Put
<1>10. QED
  BY <1>5, <1>6, <1>7, <1>8, <1>9 DEF IInv

---------------------------------------------------------------------------
(* evict() and record_device_bytes()                                       *)

(* The check and the removals are one critical section.                    *)
LEMMA EvictAllowedPreserves ==
    ASSUME IInv, NEW t \in Thread, EvictAllowed(t)
    PROVE  IInv'
<1>1. TypeOK'
  BY DEF IInv, TypeOK, EvictAllowed, Continue, Ops
<1>2. Locked'
  BY DEF IInv, TypeOK, Locked, EvictAllowed, Continue, Idle
<1>3. Issued' /\ TablesAgree' /\ Accounted'
  BY DEF IInv, Issued, TablesAgree, Accounted, EvictAllowed, Continue
<1>4. arc[call[t].id].strong = 1
  <2>1. call[t].id \in DOMAIN arc
    BY DEF IInv, Accounted, EvictAllowed
  <2>2. arc[call[t].id].strong \in Nat \ {0}
    BY <2>1 DEF IInv, TypeOK
  <2>3. arc[call[t].id].strong - 1 <= 0
    BY DEF EvictAllowed, Outstanding
  <2>4. QED
    BY <2>2, <2>3
<1>5. Protected'
  BY <1>4 DEF IInv, TypeOK, Protected, EvictAllowed, Continue
<1>6. QED
  BY <1>1, <1>2, <1>3, <1>5 DEF IInv

(* The table's reference is the last one: the file is unmapped with it.    *)
LEMMA EvictRemovePreserves ==
    ASSUME IInv, NEW t \in Thread, EvictRemove(t)
    PROVE  IInv'
<1> DEFINE id == call[t].id
           path == tables.resident[id]
<1>1. /\ id \in DOMAIN tables.resident
      /\ arc[id].strong = 1
      /\ id \in DOMAIN tables.last_accessed
      /\ path \in DOMAIN tables.by_path
      /\ tables.by_path[path] = id
  BY DEF IInv, Protected, TablesAgree, EvictRemove
<1>2. /\ tables'.next_id = tables.next_id
      /\ tables'.resident = Without(tables.resident, id)
      /\ tables'.by_path = Without(tables.by_path, path)
      /\ DOMAIN tables'.last_accessed = DOMAIN tables.last_accessed \ {id}
      /\ tables'.last_accessed \in [DOMAIN tables'.last_accessed -> Nat]
      /\ tables'.clock \in Nat
  BY RemovedKeeps DEF EvictRemove
<1>3. arc' = Without(arc, id)
  BY <1>1 DEF EvictRemove, Released
<1>4. /\ lock' \in Thread \cup {None}
      /\ call' \in [Thread -> [op : Ops, path : Path \cup {None}, id : Nat]]
      /\ Locked' /\ Protected'
  BY LeaveFacts DEF EvictRemove
<1>5. \A i \in DOMAIN tables.resident : tables.resident[i] = path => i = id
  BY <1>1 DEF IInv, TablesAgree
<1> HIDE DEF path, id
<1>6. TypeOK'
  <2>1. tables'.next_id \in Nat
    BY <1>2 DEF IInv, TypeOK
  <2>2. tables'.resident \in [DOMAIN tables'.resident -> Path]
    BY <1>2 DEF IInv, TypeOK, Without, Restrict
  <2>3. tables'.by_path \in [DOMAIN tables'.by_path -> Nat]
    BY <1>2 DEF IInv, TypeOK, Without, Restrict
  <2>4. arc' \in [DOMAIN arc' -> [path : Path, device_bytes : DeviceBytes \cup {None},
                                  strong : Nat \ {0}]]
    BY <1>3 DEF IInv, TypeOK, Without, Restrict
  <2>5. QED
    BY <1>2, <1>4, <2>1, <2>2, <2>3, <2>4 DEF TypeOK
<1>7. Issued'
  BY <1>2 DEF IInv, Issued, Without, Restrict
<1>8. TablesAgree'
  BY <1>1, <1>2, <1>5 DEF IInv, TablesAgree, Without, Restrict
<1>9. Accounted'
  BY <1>2, <1>3 DEF IInv, Accounted, Without, Restrict
<1>10. QED
  BY <1>4, <1>6, <1>7, <1>8, <1>9 DEF IInv

(* record_device_bytes touches nothing but the one model's footprint.      *)
LEMMA RecordDonePreserves ==
    ASSUME IInv, NEW t \in Thread, RecordDone(t)
    PROVE  IInv'
<1>1. /\ lock' \in Thread \cup {None}
      /\ call' \in [Thread -> [op : Ops, path : Path \cup {None}, id : Nat]]
      /\ Locked' /\ Protected'
  BY LeaveFacts DEF RecordDone
<1>2. /\ DOMAIN arc' = DOMAIN arc
      /\ arc' \in [DOMAIN arc -> [path : Path, device_bytes : DeviceBytes \cup {None},
                                  strong : Nat \ {0}]]
      /\ \A i \in DOMAIN arc : arc'[i].path = arc[i].path
  <2>1. CASE call[t].id \in DOMAIN tables.resident
    <3>1. PICK bytes \in DeviceBytes :
            arc' = [arc EXCEPT ![call[t].id].device_bytes = bytes]
      BY <2>1 DEF RecordDone
    <3>2. call[t].id \in DOMAIN arc
      BY <2>1 DEF IInv, Accounted
    <3>3. QED
      BY <3>1, <3>2 DEF IInv, TypeOK
  <2>2. CASE call[t].id \notin DOMAIN tables.resident
    BY <2>2 DEF IInv, TypeOK, RecordDone
  <2>3. QED
    BY <2>1, <2>2
<1>3. TypeOK' /\ Issued' /\ TablesAgree' /\ Accounted'
  BY <1>1, <1>2 DEF IInv, TypeOK, Issued, TablesAgree, Accounted, RecordDone
<1>4. QED
  BY <1>1, <1>3 DEF IInv

---------------------------------------------------------------------------
(* Handles                                                                 *)

(* A clone needs a handle, and a mapping about to be removed has none.     *)
LEMMA HandleClonePreserves ==
    ASSUME IInv, NEW id \in DOMAIN arc, HandleClone(id)
    PROVE  IInv'
<1>1. arc[id].strong > 1
  BY DEF IInv, TypeOK, Accounted, HandleClone, Handles
<1>2. /\ DOMAIN arc' = DOMAIN arc
      /\ arc' \in [DOMAIN arc -> [path : Path, device_bytes : DeviceBytes \cup {None},
                                  strong : Nat \ {0}]]
      /\ \A i \in DOMAIN arc : arc'[i].path = arc[i].path
      /\ \A i \in DOMAIN arc : i # id => arc'[i].strong = arc[i].strong
  BY DEF IInv, TypeOK, HandleClone, Shared
<1>3. TypeOK' /\ Locked' /\ Issued' /\ TablesAgree' /\ Accounted'
  BY <1>2 DEF IInv, TypeOK, Locked, Issued, TablesAgree, Accounted, HandleClone
<1>4. Protected'
  BY <1>1, <1>2 DEF IInv, Accounted, Protected, HandleClone
<1>5. QED
  BY <1>3, <1>4 DEF IInv

(* The table's own reference keeps the count above zero.                   *)
LEMMA HandleDropPreserves ==
    ASSUME IInv, NEW id \in DOMAIN arc, HandleDrop(id)
    PROVE  IInv'
<1>1. arc[id].strong > 1
  BY DEF IInv, TypeOK, Accounted, HandleDrop, Handles
<1>2. arc' = [arc EXCEPT ![id].strong = @ - 1]
  BY <1>1 DEF HandleDrop, Released
<1>3. /\ DOMAIN arc' = DOMAIN arc
      /\ arc' \in [DOMAIN arc -> [path : Path, device_bytes : DeviceBytes \cup {None},
                                  strong : Nat \ {0}]]
      /\ \A i \in DOMAIN arc : arc'[i].path = arc[i].path
      /\ \A i \in DOMAIN arc : i # id => arc'[i].strong = arc[i].strong
  BY <1>1, <1>2 DEF IInv, TypeOK
<1>4. TypeOK' /\ Locked' /\ Issued' /\ TablesAgree' /\ Accounted'
  BY <1>3 DEF IInv, TypeOK, Locked, Issued, TablesAgree, Accounted, HandleDrop
<1>5. Protected'
  BY <1>1, <1>3 DEF IInv, Accounted, Protected, HandleDrop
<1>6. QED
  BY <1>4, <1>5 DEF IInv

---------------------------------------------------------------------------
(* The invariant                                                           *)

(* Every step of every thread preserves the invariant.                     *)
LEMMA NextIInv == IInv /\ [Next]_vars => IInv'
<1> SUFFICES ASSUME IInv, [Next]_vars
             PROVE  IInv'
  OBVIOUS
<1>1. ASSUME NEW t \in Thread, NEW p \in Path, Load(t, p)
      PROVE  IInv'
  BY <1>1, EnterPreserves DEF Load
<1>2. ASSUME NEW t \in Thread, LoadHit(t)
      PROVE  IInv'
  BY <1>2, LoadHitPreserves
<1>3. ASSUME NEW t \in Thread, LoadFail(t) \/ EvictUnknown(t) \/ EvictRefused(t)
      PROVE  IInv'
  BY <1>3, LeaveUnchanged DEF LoadFail, EvictUnknown, EvictRefused
<1>4. ASSUME NEW t \in Thread, LoadMap(t)
      PROVE  IInv'
  BY <1>4, LoadMapPreserves
<1>5. ASSUME NEW t \in Thread, LoadInsert(t)
      PROVE  IInv'
  BY <1>5, LoadInsertPreserves
<1>6. ASSUME NEW t \in Thread, NEW id \in IssuedId, Evict(t, id) \/ Record(t, id)
      PROVE  IInv'
  <2>1. id \in Nat
    BY DEF IssuedId, IInv, TypeOK
  <2>2. QED
    BY <1>6, <2>1, EnterPreserves DEF Evict, Record
<1>7. ASSUME NEW t \in Thread, EvictAllowed(t)
      PROVE  IInv'
  BY <1>7, EvictAllowedPreserves
<1>8. ASSUME NEW t \in Thread, EvictRemove(t)
      PROVE  IInv'
  BY <1>8, EvictRemovePreserves
<1>9. ASSUME NEW t \in Thread, RecordDone(t)
      PROVE  IInv'
  BY <1>9, RecordDonePreserves
<1>10. ASSUME NEW id \in DOMAIN arc, HandleClone(id) \/ HandleDrop(id)
       PROVE  IInv'
  BY <1>10, HandleClonePreserves, HandleDropPreserves
<1>11. CASE UNCHANGED vars
  BY <1>11 DEF vars, IInv, TypeOK, Locked, Issued, TablesAgree, Accounted, Protected
<1>12. QED
  BY <1>1, <1>2, <1>3, <1>4, <1>5, <1>6, <1>7, <1>8, <1>9, <1>10, <1>11 DEF Next

(* The inductive invariant holds in every reachable state: the registry's  *)
(* tables, its mappings and its lock stay consistent (load, evict,         *)
(* record_device_bytes, ModelHandle's clone and drop).                     *)
THEOREM Invariance == Spec => []IInv
BY InitIInv, NextIInv, PTL DEF Spec

(* Every variable keeps its type.                                          *)
THEOREM TypeCorrect == Spec => []TypeOK
BY Invariance, PTL DEF IInv

(* The expect("by_path/resident desync") in load() can never fire, and the *)
(* LRU list names exactly the resident models.                             *)
THEOREM TablesAlwaysAgree == Spec => []TablesAgree
BY Invariance, PTL DEF IInv

(* A live handle's mapping is always the one in the registry's table.      *)
THEOREM MappingsAlwaysAccounted == Spec => []MappingsAccounted
<1>1. IInv => MappingsAccounted
  BY DEF IInv, Accounted, MappingsAccounted
<1>2. QED
  BY <1>1, Invariance, PTL

(* No handle appears between evict()'s check and its removals.             *)
THEOREM EvictionNeverContended == Spec => []EvictionUncontended
<1>1. IInv => EvictionUncontended
  BY DEF IInv, Accounted, Protected, EvictionUncontended, Handles
<1>2. QED
  BY <1>1, Invariance, PTL

---------------------------------------------------------------------------
(* Ids                                                                     *)

(* An id that has been evicted never names a model again.                  *)
THEOREM IdsNeverComeBack == Spec => IdsNeverReused
<1> DEFINE Kept == \A id \in IssuedId : id \in DOMAIN tables'.resident =>
                      /\ id \in DOMAIN tables.resident
                      /\ tables'.resident[id] = tables.resident[id]
<1>1. IInv /\ [Next]_vars => [Kept]_vars
  <2> SUFFICES ASSUME IInv, Next
               PROVE  Kept
    BY DEF vars
  <2>1. ASSUME NEW t \in Thread, LoadInsert(t)
        PROVE  Kept
    <3>1. tables'.resident = Put(tables.resident, tables.next_id, call[t].path)
      BY <2>1, InsertedKeeps DEF LoadInsert
    <3>2. tables.next_id \in Nat
      BY DEF IInv, TypeOK
    <3>3. QED
      BY <3>1, <3>2 DEF Put, IssuedId
  <2>2. ASSUME NEW t \in Thread, EvictRemove(t)
        PROVE  Kept
    <3>1. tables'.resident = Without(tables.resident, call[t].id)
      BY <2>2, RemovedKeeps DEF EvictRemove
    <3>2. QED
      BY <3>1 DEF Without, Restrict
  <2>3. ASSUME NEW t \in Thread, LoadHit(t)
        PROVE  Kept
    BY <2>3, AccessedKeeps DEF LoadHit
  <2>4. ASSUME UNCHANGED tables
        PROVE  Kept
    BY <2>4
  <2>5. QED
    BY <2>1, <2>2, <2>3, <2>4
    DEF Next, Load, Evict, Record, Enter, LoadFail, LoadMap, Continue,
        EvictUnknown, EvictRefused, EvictAllowed, RecordDone, HandleClone, HandleDrop
<1>2. QED
  BY <1>1, Invariance, PTL DEF Spec, IdsNeverReused

---------------------------------------------------------------------------
(* Refinement                                                              *)

(* The users of a mapped path are the handles beyond the table's own.      *)
LEMMA UsersAt ==
    ASSUME IInv, NEW p \in DOMAIN tables.by_path
    PROVE  /\ p \in Path
           /\ tables.by_path[p] \in DOMAIN arc
           /\ arc[tables.by_path[p]].strong \in Nat \ {0}
           /\ users[p] = arc[tables.by_path[p]].strong - 1
BY DEF IInv, TypeOK, TablesAgree, Accounted, users

(* load() on a mapped path, like clone(), is one more user of it.          *)
LEMMA LoadHitShares ==
    ASSUME IInv, NEW t \in Thread, LoadHit(t)
    PROVE  Abstract!Share(call[t].path)
<1> DEFINE path == call[t].path
           id == tables.by_path[path]
<1>1. /\ path \in DOMAIN tables.by_path
      /\ id \in DOMAIN arc
      /\ arc[id].strong \in Nat
      /\ arc' = [arc EXCEPT ![id].strong = @ + 1]
      /\ tables'.by_path = tables.by_path
  BY UsersAt, AccessedKeeps DEF LoadHit, Shared
<1>2. \A q \in DOMAIN tables.by_path :
        q # path => tables.by_path[q] # id
  BY <1>1 DEF IInv, TablesAgree
<1> HIDE DEF path, id
<1>3. \A q \in DOMAIN tables.by_path : tables.by_path[q] \in DOMAIN arc
  BY UsersAt
<1>4. id = tables.by_path[path]
  BY DEF id
<1>5. users' = [users EXCEPT ![path] = @ + 1]
  BY <1>1, <1>2, <1>3, <1>4 DEF users, IInv, TypeOK
<1>6. QED
  BY <1>1, <1>5 DEF Abstract!Share, users, path

(* The insertions make the path mapped, with the caller as its one user.   *)
LEMMA LoadInsertMaps ==
    ASSUME IInv, NEW t \in Thread, LoadInsert(t)
    PROVE  call[t].path \in Path /\ Abstract!Map(call[t].path)
<1> DEFINE path == call[t].path
           id == tables.next_id
<1>1. path \in Path /\ path \notin DOMAIN tables.by_path
  BY DEF IInv, Protected, LoadInsert
<1>2. id \notin DOMAIN arc
  BY DEF IInv, TypeOK, Issued, Accounted
<1>3. /\ tables'.by_path = Put(tables.by_path, path, id)
      /\ arc' = Put(arc, id, [path |-> path, device_bytes |-> None, strong |-> 2])
  BY InsertedKeeps DEF LoadInsert
<1>4. \A q \in DOMAIN tables.by_path : tables.by_path[q] \in DOMAIN arc
  BY UsersAt
<1> HIDE DEF path, id
<1>5. /\ DOMAIN tables'.by_path = DOMAIN tables.by_path \cup {path}
      /\ tables'.by_path[path] = id
      /\ \A q \in DOMAIN tables.by_path : tables'.by_path[q] = tables.by_path[q]
  BY <1>1, <1>3 DEF Put
<1>6. /\ arc'[id].strong = 2
      /\ \A i \in DOMAIN arc : arc'[i] = arc[i]
  BY <1>2, <1>3 DEF Put
<1>7. \A q \in DOMAIN tables.by_path : q # path
  BY <1>1
<1>8. users' = [q \in DOMAIN users \cup {path} |-> IF q = path THEN 1 ELSE users[q]]
  BY <1>4, <1>5, <1>6, <1>7 DEF users
<1>9. QED
  BY <1>1, <1>8 DEF Abstract!Map, users, path

(* The removals unmap a path that nobody uses.                             *)
LEMMA EvictRemoveUnmaps ==
    ASSUME IInv, NEW t \in Thread, EvictRemove(t)
    PROVE  \E p \in Path : Abstract!Unmap(p)
<1> DEFINE id == call[t].id
           path == tables.resident[id]
<1>1. /\ id \in DOMAIN tables.resident
      /\ arc[id].strong = 1
      /\ path \in DOMAIN tables.by_path
      /\ tables.by_path[path] = id
  BY DEF IInv, Protected, TablesAgree, EvictRemove
<1>2. /\ tables'.by_path = Without(tables.by_path, path)
      /\ arc' = Without(arc, id)
  BY <1>1, RemovedKeeps DEF EvictRemove, Released
<1>3. \A q \in DOMAIN tables.by_path :
        /\ tables.by_path[q] \in DOMAIN arc
        /\ q # path => tables.by_path[q] # id
  BY <1>1, UsersAt DEF IInv, TablesAgree
<1>4. path \in Path /\ users[path] = 0
  BY <1>1, UsersAt
<1> HIDE DEF path, id
<1>5. users' = Restrict(users, DOMAIN users \ {path})
  BY <1>1, <1>2, <1>3 DEF users, Without, Restrict
<1>6. Abstract!Unmap(path)
  BY <1>1, <1>4, <1>5 DEF Abstract!Unmap, Abstract!Restrict, Restrict, users
<1>7. QED
  BY <1>4, <1>6

(* Clones and drops, and the path they act on.                             *)
LEMMA HandleStepShares ==
    ASSUME IInv, NEW id \in DOMAIN arc, HandleClone(id)
    PROVE  \E p \in Path : Abstract!Share(p)
<1> DEFINE path == tables.resident[id]
<1>1. path \in DOMAIN tables.by_path /\ tables.by_path[path] = id
  BY DEF IInv, TablesAgree, Accounted
<1>2. path \in Path /\ arc[id].strong \in Nat /\ users[path] = arc[id].strong - 1
  BY <1>1, UsersAt
<1>3. arc' = [arc EXCEPT ![id].strong = @ + 1] /\ tables' = tables
  BY DEF HandleClone, Shared
<1>4. \A q \in DOMAIN tables.by_path :
        /\ tables.by_path[q] \in DOMAIN arc
        /\ q # path => tables.by_path[q] # id
  BY <1>1, UsersAt DEF IInv, TablesAgree
<1> HIDE DEF path
<1>5. users' = [users EXCEPT ![path] = @ + 1]
  BY <1>1, <1>2, <1>3, <1>4 DEF users, IInv, TypeOK
<1>6. Abstract!Share(path)
  BY <1>1, <1>5 DEF Abstract!Share, users
<1>7. QED
  BY <1>2, <1>6

(* Dropping a handle is one user less; the table's own reference is not a  *)
(* user, so the count stays a natural number.                              *)
LEMMA HandleStepReleases ==
    ASSUME IInv, NEW id \in DOMAIN arc, HandleDrop(id)
    PROVE  \E p \in Path : Abstract!Release(p)
<1> DEFINE path == tables.resident[id]
<1>1. path \in DOMAIN tables.by_path /\ tables.by_path[path] = id
  BY DEF IInv, TablesAgree, Accounted
<1>2. path \in Path /\ arc[id].strong \in Nat /\ arc[id].strong > 1
      /\ users[path] = arc[id].strong - 1
  BY <1>1, UsersAt DEF HandleDrop, Handles, IInv, Accounted
<1>3. arc' = [arc EXCEPT ![id].strong = @ - 1] /\ tables' = tables
  BY <1>2 DEF HandleDrop, Released
<1>4. \A q \in DOMAIN tables.by_path :
        /\ tables.by_path[q] \in DOMAIN arc
        /\ q # path => tables.by_path[q] # id
  BY <1>1, UsersAt DEF IInv, TablesAgree
<1> HIDE DEF path
<1>5. users' = [users EXCEPT ![path] = @ - 1]
  BY <1>1, <1>2, <1>3, <1>4 DEF users, IInv, TypeOK
<1>6. Abstract!Release(path)
  BY <1>1, <1>2, <1>5 DEF Abstract!Release, users
<1>7. QED
  BY <1>2, <1>6

(* A report of device bytes changes nobody's reference count.              *)
LEMMA RecordStutters ==
    ASSUME IInv, NEW t \in Thread, RecordDone(t)
    PROVE  UNCHANGED users
<1>1. tables' = tables
  BY DEF RecordDone
<1>2. \A i \in DOMAIN arc : arc'[i].strong = arc[i].strong
  <2>1. CASE call[t].id \in DOMAIN tables.resident
    <3>1. PICK bytes \in DeviceBytes :
            arc' = [arc EXCEPT ![call[t].id].device_bytes = bytes]
      BY <2>1 DEF RecordDone
    <3>2. QED
      BY <3>1 DEF IInv, TypeOK
  <2>2. CASE call[t].id \notin DOMAIN tables.resident
    BY <2>2 DEF RecordDone
  <2>3. QED
    BY <2>1, <2>2
<1>3. QED
  BY <1>1, <1>2, UsersAt DEF users

(* The registry implements ResidentModels.                                 *)
THEOREM Refinement == Spec => ImplementsResidentModels
<1>1. Init => Abstract!Init
  BY DEF Init, Abstract!Init, users, EmptyTables, EmptyTable
<1>2. IInv /\ [Next]_vars => [Abstract!Next]_users
  <2> SUFFICES ASSUME IInv, [Next]_vars
               PROVE  Abstract!Next \/ UNCHANGED users
    OBVIOUS
  <2>1. ASSUME NEW t \in Thread, LoadHit(t)
        PROVE  Abstract!Next
    <3>1. call[t].path \in Path
      BY <2>1, UsersAt DEF LoadHit
    <3>2. QED
      BY <2>1, <3>1, LoadHitShares DEF Abstract!Next
  <2>2. ASSUME NEW t \in Thread, LoadInsert(t)
        PROVE  Abstract!Next
    BY <2>2, LoadInsertMaps DEF Abstract!Next
  <2>3. ASSUME NEW t \in Thread, EvictRemove(t)
        PROVE  Abstract!Next
    BY <2>3, EvictRemoveUnmaps DEF Abstract!Next
  <2>4. ASSUME NEW id \in DOMAIN arc, HandleClone(id) \/ HandleDrop(id)
        PROVE  Abstract!Next
    BY <2>4, HandleStepShares, HandleStepReleases DEF Abstract!Next
  <2>5. ASSUME NEW t \in Thread, RecordDone(t)
        PROVE  UNCHANGED users
    BY <2>5, RecordStutters
  <2>6. ASSUME UNCHANGED <<tables, arc>>
        PROVE  UNCHANGED users
    BY <2>6 DEF users
  <2>7. QED
    BY <2>1, <2>2, <2>3, <2>4, <2>5, <2>6
    DEF Next, vars, Load, Evict, Record, Enter, LoadFail, LoadMap, Continue,
        EvictUnknown, EvictRefused, EvictAllowed
<1>3. QED
  BY <1>1, <1>2, Invariance, PTL DEF Spec, Abstract!Spec, ImplementsResidentModels

===========================================================================

--------------------------- MODULE SwapRegistry ---------------------------
(***************************************************************************)
(* SwapRegistry of rampipe (src/src/lib.rs): the tables of the models that *)
(* are mapped, behind one Mutex, and the Arc<Resident> objects they share  *)
(* with the ModelHandles callers hold.                                     *)
(*                                                                         *)
(* load(), evict() and record_device_bytes() run under the registry's      *)
(* lock.  ModelHandle::clone and drop do not take it, so they may happen   *)
(* between any two steps of an operation, in particular between evict()'s  *)
(* look at Arc::strong_count and the removals it decides on.               *)
(***************************************************************************)
EXTENDS Integers, RegistryTables

CONSTANTS
    Thread,        \* the threads that call the registry
    Path,          \* the files they name
    DeviceBytes,   \* the device footprints they report
    None,          \* Option::None
    MaxId,         \* bound: fresh mappings over a behaviour
    MaxStrong      \* bound: strong references to one mapping

ASSUME NoneAssumption ==
    /\ None \notin Thread
    /\ None \notin DeviceBytes
    /\ None \notin Path
ASSUME BoundsAssumption == MaxId \in Nat /\ MaxStrong \in Nat

VARIABLES
    lock,     \* holder of SwapRegistry::state's Mutex, or None
    call,     \* what each thread is doing inside the registry
    tables,   \* RegistryState, see RegistryTables
    arc       \* the live Resident objects: id |-> path, device_bytes, strong

vars == <<lock, call, tables, arc>>

Idle == [op |-> "idle", path |-> None, id |-> 0]

Init ==
    /\ lock = None
    /\ call = [t \in Thread |-> Idle]
    /\ tables = EmptyTables
    /\ arc = EmptyTable

---------------------------------------------------------------------------
(* Mutexes and reference counts                                            *)

(* As Enter, but without waiting for the Mutex.                            *)
EnterUnlocked(t, op, path, id) ==
    /\ call[t] = Idle
    /\ lock' = t
    /\ call' = [call EXCEPT ![t] = [op |-> op, path |-> path, id |-> id]]
    /\ UNCHANGED <<tables, arc>>

(* state.lock() at the head of an operation.                               *)
Enter(t, op, path, id) ==
    /\ call[t] = Idle
    /\ lock = None
    /\ lock' = t
    /\ call' = [call EXCEPT ![t] = [op |-> op, path |-> path, id |-> id]]
    /\ UNCHANGED <<tables, arc>>

(* Goes on to the operation's next step, still locked.                     *)
Continue(t, op) ==
    /\ call' = [call EXCEPT ![t].op = op]
    /\ UNCHANGED <<lock, tables, arc>>

(* The guard goes out of scope and the operation returns.                  *)
Leave(t) ==
    /\ lock' = None
    /\ call' = [call EXCEPT ![t] = Idle]

(* As Released, but the last reference does not free the mapping.          *)
ReleasedLeaking(id) == [arc EXCEPT ![id].strong = @ - 1]

(* Dropping one Arc: the last one unmaps the file.                         *)
Released(id) ==
    IF arc[id].strong = 1 THEN Without(arc, id)
                          ELSE [arc EXCEPT ![id].strong = @ - 1]

(* Cloning an Arc.                                                         *)
Shared(id) == [arc EXCEPT ![id].strong = @ + 1]

(* The ModelHandles alive for a mapping: all but the table's own Arc.      *)
Handles(id) == arc[id].strong - (IF id \in DOMAIN tables.resident THEN 1 ELSE 0)

---------------------------------------------------------------------------
(* load()                                                                  *)

Load(t, path) == Enter(t, "load", path, 0)

(* Already mapped: another handle to the same mapping, and a newer access. *)
LoadHit(t) ==
    LET id == tables.by_path[call[t].path] IN
    /\ call[t].op = "load"
    /\ call[t].path \in DOMAIN tables.by_path
    /\ arc[id].strong < MaxStrong
    /\ arc' = Shared(id)
    /\ \E now \in Now(tables) : tables' = Accessed(tables, call[t].path, now)
    /\ Leave(t)

(* The file cannot be opened or mapped, is empty, or has the wrong magic:  *)
(* LoadError, and nothing was inserted.                                    *)
LoadFail(t) ==
    /\ call[t].op = "load"
    /\ call[t].path \notin DOMAIN tables.by_path
    /\ Leave(t)
    /\ UNCHANGED <<tables, arc>>

(* The file is mapped, validated and brought in as `residency` says.       *)
LoadMap(t) ==
    /\ call[t].op = "load"
    /\ call[t].path \notin DOMAIN tables.by_path
    /\ tables.next_id < MaxId
    /\ Continue(t, "insert")

(* As LoadInsert, but the id is the lowest that is free.                   *)
LoadInsertLowestId(t) ==
    LET id == CHOOSE i \in 0..tables.next_id :
                /\ i \notin DOMAIN tables.resident
                /\ \A j \in 0..i - 1 : j \in DOMAIN tables.resident
    IN
    /\ call[t].op = "insert"
    /\ \E now \in Now(tables) :
         tables' = [Inserted([tables EXCEPT !.next_id = id], call[t].path, now)
                      EXCEPT !.next_id = tables.next_id + 1]
    /\ arc' = Put(arc, id, [path |-> call[t].path, device_bytes |-> None, strong |-> 2])
    /\ Leave(t)

(* The three insertions; the caller's handle is the second reference.      *)
LoadInsert(t) ==
    /\ call[t].op = "insert"
    /\ \E now \in Now(tables) : tables' = Inserted(tables, call[t].path, now)
    /\ arc' = Put(arc, tables.next_id, [path |-> call[t].path,
                                        device_bytes |-> None, strong |-> 2])
    /\ Leave(t)

---------------------------------------------------------------------------
(* evict(), for an id the registry issued at some time                     *)

Evict(t, id) == Enter(t, "evict", None, id)

EvictUnknown(t) ==
    /\ call[t].op = "evict"
    /\ call[t].id \notin DOMAIN tables.resident
    /\ Leave(t)
    /\ UNCHANGED <<tables, arc>>

(* As Outstanding, but one handle is not counted.                          *)
OutstandingOffByOne(id) == arc[id].strong - 2

(* Arc::strong_count(inner) - 1.                                           *)
Outstanding(id) == arc[id].strong - 1

EvictRefused(t) ==
    /\ call[t].op = "evict"
    /\ call[t].id \in DOMAIN tables.resident
    /\ Outstanding(call[t].id) > 0
    /\ Leave(t)
    /\ UNCHANGED <<tables, arc>>

EvictAllowed(t) ==
    /\ call[t].op = "evict"
    /\ call[t].id \in DOMAIN tables.resident
    /\ Outstanding(call[t].id) <= 0
    /\ Continue(t, "remove")

EvictRemove(t) ==
    /\ call[t].op = "remove"
    /\ tables' = Removed(tables, call[t].id)
    /\ arc' = Released(call[t].id)
    /\ Leave(t)

---------------------------------------------------------------------------
(* record_device_bytes()                                                   *)

Record(t, id) == Enter(t, "record", None, id)

RecordDone(t) ==
    /\ call[t].op = "record"
    /\ IF call[t].id \in DOMAIN tables.resident
         THEN \E bytes \in DeviceBytes :
                arc' = [arc EXCEPT ![call[t].id].device_bytes = bytes]
         ELSE arc' = arc
    /\ Leave(t)
    /\ UNCHANGED tables

---------------------------------------------------------------------------
(* ModelHandle: clone and drop, by any thread and without the lock         *)

HandleClone(id) ==
    /\ Handles(id) > 0
    /\ arc[id].strong < MaxStrong
    /\ arc' = Shared(id)
    /\ UNCHANGED <<lock, call, tables>>

HandleDrop(id) ==
    /\ Handles(id) > 0
    /\ arc' = Released(id)
    /\ UNCHANGED <<lock, call, tables>>

---------------------------------------------------------------------------
IssuedId == 0 .. tables.next_id - 1

Next ==
    \/ \E t \in Thread :
        \/ \E p \in Path : Load(t, p)
        \/ LoadHit(t) \/ LoadFail(t) \/ LoadMap(t) \/ LoadInsert(t)
        \/ \E id \in IssuedId : Evict(t, id) \/ Record(t, id)
        \/ EvictUnknown(t) \/ EvictRefused(t) \/ EvictAllowed(t) \/ EvictRemove(t)
        \/ RecordDone(t)
    \/ \E id \in DOMAIN arc : HandleClone(id) \/ HandleDrop(id)

Spec == Init /\ [][Next]_vars

---------------------------------------------------------------------------
(* Properties                                                              *)

Ops == {"idle", "load", "insert", "evict", "remove", "record"}

(* Every variable has its type; a live mapping has at least one reference. *)
TypeOK ==
    /\ lock \in Thread \cup {None}
    /\ call \in [Thread -> [op : Ops, path : Path \cup {None}, id : Nat]]
    /\ tables.next_id \in Nat
    /\ tables.resident \in [DOMAIN tables.resident -> Path]
    /\ tables.by_path \in [DOMAIN tables.by_path -> Nat]
    /\ tables.last_accessed \in [DOMAIN tables.last_accessed -> Nat]
    /\ tables.clock \in Nat
    /\ arc \in [DOMAIN arc -> [path : Path,
                               device_bytes : DeviceBytes \cup {None},
                               strong : Nat \ {0}]]

(* The three maps of RegistryState describe the same set of models, so the *)
(* .expect("by_path/resident desync") of load() can never panic and        *)
(* resident_ids_by_lru() lists every model that is mapped, and no other.   *)
TablesAgree ==
    /\ \A p \in DOMAIN tables.by_path :
        /\ tables.by_path[p] \in DOMAIN tables.resident
        /\ tables.resident[tables.by_path[p]] = p
    /\ \A id \in DOMAIN tables.resident :
        /\ tables.resident[id] \in DOMAIN tables.by_path
        /\ tables.by_path[tables.resident[id]] = id
    /\ DOMAIN tables.last_accessed = DOMAIN tables.resident

(* Whatever a handle keeps mapped is still in the table, under the path it *)
(* was loaded from: mapped_bytes() counts every mapping, and no file is    *)
(* ever mapped twice because its entry went away under a live handle.      *)
MappingsAccounted ==
    \A id \in DOMAIN arc :
        /\ id \in DOMAIN tables.resident
        /\ tables.resident[id] = arc[id].path

(* Between evict()'s look at the reference count and its removals, no      *)
(* handle to that model can appear, although clones and drops do not take  *)
(* the registry's lock.                                                    *)
EvictionUncontended ==
    \A t \in Thread : call[t].op = "remove" =>
        call[t].id \in DOMAIN arc /\ Handles(call[t].id) = 0

(* A ModelId that was evicted never names a model again, so an id kept by  *)
(* a caller can only give UnknownId, never evict somebody else's model.    *)
IdsNeverReused ==
    [][\A id \in IssuedId : id \in DOMAIN tables'.resident =>
          /\ id \in DOMAIN tables.resident
          /\ tables'.resident[id] = tables.resident[id]]_vars

(* The refinement mapping: a mapped path and the handles beyond the        *)
(* table's own reference.                                                  *)
users == [p \in DOMAIN tables.by_path |-> arc[tables.by_path[p]].strong - 1]

Abstract == INSTANCE ResidentModels WITH Path <- Path, users <- users

(* The registry implements the promise of ResidentModels: one mapping per  *)
(* path, shared by all who load it, unmapped only when nobody uses it.     *)
ImplementsResidentModels == Abstract!Spec

===========================================================================

-------------------------- MODULE RegistryTables --------------------------
(***************************************************************************)
(* The tables of rampipe's SwapRegistry (src/src/lib.rs, RegistryState) as *)
(* values, and what one locked operation does to them.  They are shared by *)
(* SwapRegistry, which runs the operations from several threads, and by    *)
(* Rampiped, whose daemon calls them under its own lock.                   *)
(*                                                                         *)
(*   next_id        the id the next fresh mapping gets                     *)
(*   resident       id |-> path of the mapping                             *)
(*   by_path        path |-> id                                            *)
(*   last_accessed  id |-> the Instant at which it was last handed out     *)
(*   clock          the latest Instant the registry has read               *)
(*                                                                         *)
(* Instant::now() never goes back, but two readings may be equal, and so   *)
(* may two entries of last_accessed.  Instants are only ever compared, so  *)
(* they are numbered by their order, from 0 and without gaps: the tables   *)
(* forget by how much, and which Instants nobody refers to any more.       *)
(***************************************************************************)
EXTENDS Integers, FiniteSets, Functions

(* HashMap::insert: adds the key or overwrites its value.                  *)
Put(f, x, v) == [y \in DOMAIN f \cup {x} |-> IF y = x THEN v ELSE f[y]]

(* HashMap::remove.                                                        *)
Without(f, x) == Restrict(f, DOMAIN f \ {x})

EmptyTable == [x \in {} |-> x]

EmptyTables == [next_id       |-> 0,
                resident      |-> EmptyTable,
                by_path       |-> EmptyTable,
                last_accessed |-> EmptyTable,
                clock         |-> 0]

(* What Instant::now() may return: the latest reading again or a later one. *)
Now(tables) == {tables.clock, tables.clock + 1}

Rank(instants, t) == Cardinality({s \in instants : s < t})

(* The tables with their Instants numbered anew.                           *)
Renumbered(tables) ==
    LET instants == Range(tables.last_accessed) \cup {tables.clock} IN
    [next_id       |-> tables.next_id,
     resident      |-> tables.resident,
     by_path       |-> tables.by_path,
     last_accessed |-> [id \in DOMAIN tables.last_accessed |->
                            Rank(instants, tables.last_accessed[id])],
     clock         |-> Rank(instants, tables.clock)]

(* load() on a path that is not mapped yet, after the file was validated.  *)
Inserted(tables, path, now) ==
    Renumbered([next_id       |-> tables.next_id + 1,
                resident      |-> Put(tables.resident, tables.next_id, path),
                by_path       |-> Put(tables.by_path, path, tables.next_id),
                last_accessed |-> Put(tables.last_accessed, tables.next_id, now),
                clock         |-> now])

(* load() on a path that is already mapped.                                *)
Accessed(tables, path, now) ==
    Renumbered([next_id       |-> tables.next_id,
                resident      |-> tables.resident,
                by_path       |-> tables.by_path,
                last_accessed |-> Put(tables.last_accessed, tables.by_path[path], now),
                clock         |-> now])

(* As Removed, but evict forgets to clear by_path.                         *)
RemovedKeepingPath(tables, id) ==
    Renumbered([next_id       |-> tables.next_id,
                resident      |-> Without(tables.resident, id),
                by_path       |-> tables.by_path,
                last_accessed |-> Without(tables.last_accessed, id),
                clock         |-> tables.clock])

(* The tail of evict(): the three removals.                                *)
Removed(tables, id) ==
    Renumbered([next_id       |-> tables.next_id,
                resident      |-> Without(tables.resident, id),
                by_path       |-> Without(tables.by_path, tables.resident[id]),
                last_accessed |-> Without(tables.last_accessed, id),
                clock         |-> tables.clock])

(* The candidates that resident_ids_by_lru() may list first: it sorts by   *)
(* the Instant what it collected in the arbitrary order of a HashMap.      *)
LeastRecent(tables, candidates) ==
    {id \in candidates :
        \A j \in candidates : tables.last_accessed[id] <= tables.last_accessed[j]}

===========================================================================

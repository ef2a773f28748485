-------------------------- MODULE RampipedProofs --------------------------
(***************************************************************************)
(* Proofs about Rampiped, for every finite set of connections, every set   *)
(* of models, sizes and devices, and every number of turns.                *)
(*                                                                         *)
(* One inductive invariant carries them, in three parts.  Threads says     *)
(* where each thread is and what it holds: who is inside the lock, what it *)
(* was asked, whose context is allocated.  Models relates the registry,    *)
(* the sessions, the Arc counts and the conversations.  Counted relates    *)
(* the counters to the replies still due.                                  *)
(*                                                                         *)
(* The heart of Models is InHand together with LiveCounted: a victim an    *)
(* eviction loop chose has Arc count 1, so no conversation holds it, and   *)
(* until it is gone nobody can begin to, because a conversation clones its *)
(* Arc only under the lock that the evicting thread holds.  Threads that   *)
(* end a conversation take no lock at all, but the count they lower is at  *)
(* least 2, so it is never the victim's.                                   *)
(***************************************************************************)
EXTENDS Rampiped, FiniteSetTheorems, TLAPS

---------------------------------------------------------------------------
(* Where the threads are and what they hold                                *)

(* Where a thread is while it holds the lock.                              *)
Inside == {"ensure", "room", "evict", "map", "weights", "measure",
           "context_room", "context_evict", "ready", "decoding"}

(* Where a thread is only if it serves a conversation.                     *)
Talking == {"opening", "idle", "turn", "saving", "saved", "closing", "unpin"}

(* Where a conversation passes through as well as a single request.        *)
Answering == {"decoding", "record", "reply"}

(* The shape of the variables indexed by connection.                       *)
Shape ==
    /\ pc \in [Conn -> PCs]
    /\ DOMAIN req = Conn /\ DOMAIN ctx = Conn /\ DOMAIN pinned = Conn
    /\ hibernated \subseteq Conn

(* Only the holder of the lock is inside it.                               *)
Locked == \A c \in Conn : pc[c] \in Inside => lock = c

(* What a thread was asked, as far as its place tells.                     *)
Requested ==
    \A c \in Conn :
        /\ pc[c] \in Inside \cup {"wait"} => kind(c) \in {"generate", "embed", "open"}
        /\ pc[c] \in Talking => kind(c) = "open"
        /\ pc[c] = "record" => kind(c) # "embed"

(* Only a decode or an open conversation owns a context.                   *)
Freed ==
    \A c \in Conn :
        /\ ctx[c] # 0 => pc[c] \in {"decoding", "idle", "turn", "record", "reply",
                                    "saving", "closing"}
        /\ ctx[c] # 0 /\ pc[c] \in {"record", "reply"} => kind(c) = "open"

(* Who has read Snapshotted has no context and gets none any more.         *)
Asleep ==
    \A c \in Conn : c \in hibernated =>
        pc[c] \in {"closing", "unpin", "closed"} /\ ctx[c] = 0

Threads == Shape /\ Locked /\ Requested /\ Freed /\ Asleep

---------------------------------------------------------------------------
(* The registry, the sessions and the conversations                        *)

(* The conversations that hold a session's Arc.                            *)
Users(id) == {c \in Conn : pinned[c] = id}

(* resident and by_path are inverse to each other; ids come from next_id.  *)
TablesSound ==
    /\ tables.next_id \in Nat
    /\ \A id \in DOMAIN tables.resident :
        /\ id \in Nat /\ id < tables.next_id
        /\ tables.resident[id] \in DOMAIN tables.by_path
        /\ tables.by_path[tables.resident[id]] = id
    /\ \A p \in DOMAIN tables.by_path :
        /\ tables.by_path[p] \in DOMAIN tables.resident
        /\ tables.resident[tables.by_path[p]] = p
    /\ DOMAIN tables.last_accessed = DOMAIN tables.resident

(* A session object has one Arc in the map (or in the hands of the thread  *)
(* that loads it) and one for every conversation that holds it.            *)
LiveCounted ==
    \A id \in DOMAIN live :
        /\ "arcs" \in DOMAIN live[id]
        /\ live[id].arcs = 1 + Cardinality(Users(id))

(* A thread holds an Arc exactly from Pin to Unpin.                        *)
Talker(c) ==
    pinned[c] # None <=> \/ pc[c] \in Talking
                         \/ pc[c] \in Answering /\ kind(c) = "open"

(* What the lock holder looked up or decided still holds when it acts.     *)
InHand(c) ==
    /\ pc[c] \in {"room", "evict", "map", "weights", "measure"} =>
        path(c) \notin DOMAIN sessions
    /\ pc[c] \in {"weights", "measure"} => path(c) \in DOMAIN tables.by_path
    /\ pc[c] = "measure" => tables.by_path[path(c)] \in DOMAIN live
    /\ pc[c] \in {"context_room", "context_evict", "ready", "decoding"} =>
        path(c) \in DOMAIN sessions
    /\ pc[c] \in {"evict", "context_evict"} =>
        /\ \E p \in DOMAIN sessions : sessions[p] = local
        /\ live[local].arcs = 1
    /\ pc[c] = "context_evict" => sessions[path(c)] # local

(* The registry, the sessions and the conversations agree.                 *)
Models ==
    /\ TablesSound
    /\ SessionsAreResident
    /\ LiveCounted
    /\ ConversationKeepsModel
    /\ \A c \in Conn : Talker(c) /\ InHand(c)

(* The counters, and what is counted and not yet replied.                  *)
Counted == CountedBeforeReply /\ served \in Nat /\ failed \in Nat /\ replied \in Nat

(* The inductive invariant.                                                *)
IInv == Threads /\ Models /\ Counted

---------------------------------------------------------------------------
(* The first state                                                         *)

(* A daemon that has served nobody satisfies the invariant.                *)
LEMMA InitIInv == Init => IInv
<1> SUFFICES ASSUME Init PROVE IInv
  OBVIOUS
<1>1. Threads
  BY DEF Init, Threads, Shape, PCs, Locked, Inside, Talking, Requested,
      Freed, Asleep
<1>2. TablesSound /\ SessionsAreResident /\ LiveCounted
  BY DEF Init, EmptyTables, EmptyTable, TablesSound,
      SessionsAreResident, LiveCounted
<1>3. ConversationKeepsModel /\ \A c \in Conn : Talker(c) /\ InHand(c)
  BY DEF Init, ConversationKeepsModel, Talker, InHand, Talking, Answering
<1>4. Counted
  <2>1. {c \in Conn : pc[c] = "reply" /\ kind(c) # "embed"} = {}
    BY DEF Init
  <2>2. QED
    BY <2>1, FS_EmptySet DEF Init, Counted, CountedBeforeReply
<1>5. QED
  BY <1>1, <1>2, <1>3, <1>4 DEF IInv, Models

---------------------------------------------------------------------------
(* Threads and replies                                                     *)

(* Every step keeps Threads.                                               *)
LEMMA ThreadsStep ==
    ASSUME Threads, NEW c \in Conn, Client(c) \/ Serve(c)
    PROVE  Threads'
<1> USE NoneAssumption, KindsAssumption
    DEF Threads, Shape, PCs, Locked, Inside, Talking, Requested, Freed, Asleep,
        Goto, kind, Acquire, Release, Momentary, registry, memory, counters, history
<1>1. CASE ReadRequest(c)
  <2>1. PICK k \in Kinds \ {"status"}, p \in Path :
              req' = [req EXCEPT ![c] = [kind |-> k, path |-> p]]
    BY <1>1 DEF ReadRequest
  <2>2. kind(c)' \in {"generate", "embed", "open"} /\ \A d \in Conn \ {c} : kind(d)' = kind(d)
    BY <2>1
  <2>3. QED
    BY <1>1, <2>2 DEF ReadRequest
<1>2. CASE Status(c)
  BY <1>2 DEF Status
<1>3. CASE Unreadable(c)
  BY <1>3 DEF Unreadable
<1>4. CASE SendTurn(c)
  BY <1>4 DEF SendTurn
<1>5. CASE SendSnapshot(c)
  BY <1>5 DEF SendSnapshot
<1>6. CASE HangUp(c)
  BY <1>6 DEF HangUp
<1>7. CASE Enter(c)
  BY <1>7 DEF Enter
<1>8. CASE EnsureHit(c)
  BY <1>8 DEF EnsureHit
<1>9. CASE EnsureMiss(c)
  BY <1>9 DEF EnsureMiss
<1>10. CASE RoomFor(c)
  BY <1>10 DEF RoomFor, PickOr
<1>11. CASE Evict(c, "evict", "room")
  BY <1>11 DEF Evict, EnsureFailed, EvictVictim
<1>12. CASE DeviceRoomBesides(c)
  <2>1. pc[c] = "context_room" /\ \E to \in {"ready", "context_evict"} : Goto(c, "context_room", to)
    BY <1>12 DEF DeviceRoomBesides, PickOr
  <2>2. UNCHANGED <<lock, req, ctx, pinned, hibernated>>
    BY <1>12 DEF DeviceRoomBesides
  <2>3. QED
    BY <2>1, <2>2
<1>13. CASE Evict(c, "context_evict", "context_room")
  BY <1>13 DEF Evict, EnsureFailed, EvictVictim
<1>14. CASE MapModel(c)
  BY <1>14 DEF MapModel
<1>15. CASE MapFails(c)
  BY <1>15 DEF MapFails, EnsureFailed
<1>16. CASE LoadWeights(c)
  BY <1>16 DEF LoadWeights
<1>17. CASE LoadFails(c)
  BY <1>17 DEF LoadFails, EnsureFailed
<1>18. CASE RecordDevice(c)
  BY <1>18 DEF RecordDevice
<1>19. CASE StartDecode(c)
  BY <1>19 DEF StartDecode
<1>20. CASE StartFails(c)
  BY <1>20 DEF StartFails, FinishDecode
<1>21. CASE EndDecode(c)
  BY <1>21 DEF EndDecode, FinishDecode
<1>22. CASE Record(c)
  BY <1>22 DEF Record
<1>23. CASE Reply(c)
  BY <1>23 DEF Reply
<1>24. CASE Pin(c)
  BY <1>24 DEF Pin, PinSession
<1>25. CASE OpenContext(c)
  BY <1>25 DEF OpenContext
<1>26. CASE OpenFails(c)
  BY <1>26 DEF OpenFails
<1>27. CASE StartTurn(c)
  BY <1>27 DEF StartTurn
<1>28. CASE Save(c)
  BY <1>28 DEF Save, SaveState
<1>29. CASE SaveFails(c)
  BY <1>29 DEF SaveFails
<1>30. CASE ReplySnapshotted(c)
  BY <1>30 DEF ReplySnapshotted
<1>31. CASE DropConversation(c)
  BY <1>31 DEF DropConversation
<1>32. CASE Unpin(c)
  BY <1>32 DEF Unpin
<1>33. QED
  BY <1>1, <1>2, <1>3, <1>4, <1>5, <1>6, <1>7, <1>8, <1>9, <1>10, <1>11,
      <1>12, <1>13, <1>14, <1>15, <1>16, <1>17, <1>18, <1>19, <1>20, <1>21,
      <1>22, <1>23, <1>24, <1>25, <1>26, <1>27, <1>28, <1>29, <1>30, <1>31,
      <1>32 DEF Client, Serve

(* A step for one connection leaves the other threads where they are.      *)
LEMMA OneThreadMoves ==
    ASSUME Threads, NEW c \in Conn, Client(c) \/ Serve(c)
    PROVE  \A d \in Conn \ {c} : pc'[d] = pc[d] /\ req'[d] = req[d] /\ pinned'[d] = pinned[d]
<1> USE DEF Threads, Shape, Goto
<1>1. CASE Client(c)
  BY <1>1 DEF Client, ReadRequest, Status, Unreadable, SendTurn,
      SendSnapshot, HangUp
<1>2. CASE \/ Evict(c, "evict", "room") \/ Evict(c, "context_evict", "context_room")
           \/ MapFails(c) \/ LoadFails(c)
  BY <1>2 DEF Evict, EnsureFailed, MapFails, LoadFails
<1>3. CASE RoomFor(c) \/ DeviceRoomBesides(c)
  BY <1>3 DEF RoomFor, DeviceRoomBesides, PickOr
<1>4. CASE StartDecode(c) \/ StartFails(c) \/ EndDecode(c) \/ Record(c) \/ Reply(c)
  BY <1>4 DEF StartDecode, StartFails, EndDecode, FinishDecode, Record, Reply
<1>5. CASE \/ Enter(c) \/ EnsureHit(c) \/ EnsureMiss(c)
           \/ MapModel(c) \/ LoadWeights(c) \/ RecordDevice(c)
  BY <1>5 DEF Enter, EnsureHit, EnsureMiss, MapModel, LoadWeights, RecordDevice
<1>6. CASE \/ Pin(c) \/ OpenContext(c) \/ OpenFails(c) \/ StartTurn(c) \/ Save(c)
           \/ SaveFails(c) \/ ReplySnapshotted(c) \/ DropConversation(c) \/ Unpin(c)
  BY <1>6 DEF Pin, PinSession, OpenContext, OpenFails, StartTurn, Save,
      SaveState, SaveFails,
      ReplySnapshotted, DropConversation, Unpin
<1>7. QED
  BY <1>1, <1>2, <1>3, <1>4, <1>5, <1>6 DEF Serve

(* The replies to generations and turns that are counted and not written.  *)
Due == {c \in Conn : pc[c] = "reply" /\ kind(c) # "embed"}

(* Every step keeps Counted: Record counts one more and one more is due,   *)
(* Reply writes one that was due, and no other step touches either side.   *)
LEMMA CountedStep ==
    ASSUME Threads, Counted, NEW c \in Conn, Client(c) \/ Serve(c)
    PROVE  Counted'
<1>1. IsFiniteSet(Due) /\ Cardinality(Due) \in Nat
  BY ConnAssumption, FS_Subset, FS_CardinalityType DEF Due
<1>2. /\ served + failed = replied + Cardinality(Due)
      /\ CountedBeforeReply' <=> served' + failed' = replied' + Cardinality(Due')
  BY DEF Counted, CountedBeforeReply, Due
<1>3. CASE Record(c)
  <2>1. pc[c] = "record" /\ pc' = [pc EXCEPT ![c] = "reply"] /\ req' = req
    BY <1>3 DEF Record, Goto
  <2>2. kind(c) # "embed" /\ c \in DOMAIN pc
    BY <2>1 DEF Threads, Shape, Requested
  <2>3. Due' = Due \cup {c} /\ c \notin Due
    BY <2>1, <2>2 DEF Due, kind
  <2>4. Cardinality(Due') = Cardinality(Due) + 1
    BY <1>1, <2>3, FS_AddElement
  <2>5. /\ served' \in Nat /\ failed' \in Nat /\ replied' = replied
        /\ served' + failed' = served + failed + 1
    BY <1>3 DEF Record, RecordOutcome, history, Counted
  <2>6. served' + failed' = replied' + Cardinality(Due')
    <3>1. PICK n \in Nat : n = Cardinality(Due)
      BY <1>1
    <3>2. served + failed = replied + n
      BY <1>2, <3>1
    <3>3. served \in Nat /\ failed \in Nat /\ replied \in Nat
      BY DEF Counted
    <3>4. served + failed + 1 = replied + (n + 1)
      BY <3>2, <3>3
    <3>5. QED
      BY <2>4, <2>5, <3>1, <3>4
  <2>7. QED
    BY <1>2, <2>5, <2>6 DEF Counted
<1>4. CASE Reply(c)
  <2>1. PICK to \in {"idle", "closing", "closed"} :
            pc[c] = "reply" /\ pc' = [pc EXCEPT ![c] = to] /\ req' = req
    BY <1>4 DEF Reply
  <2>2. c \in DOMAIN pc
    BY DEF Threads, Shape
  <2>3. UNCHANGED <<served, failed>>
    BY <1>4 DEF Reply, counters
  <2>4. CASE kind(c) = "embed"
    <3>1. Due' = Due
      BY <2>1, <2>2, <2>4 DEF Due, kind
    <3>2. replied' = replied
      BY <1>4, <2>4 DEF Reply
    <3>3. QED
      BY <1>2, <2>3, <3>1, <3>2 DEF Counted
  <2>5. CASE kind(c) # "embed"
    <3>1. Due' = Due \ {c} /\ c \in Due
      BY <2>1, <2>2, <2>5 DEF Due, kind
    <3>2. Cardinality(Due') = Cardinality(Due) - 1
      BY <1>1, <3>1, FS_RemoveElement
    <3>3. replied' = replied + 1
      BY <1>4, <2>5 DEF Reply
    <3>4. QED
      BY <1>1, <1>2, <2>3, <3>2, <3>3 DEF Counted
  <2>6. QED
    BY <2>4, <2>5
<1>5. CASE ~Record(c) /\ ~Reply(c)
  <2>1. UNCHANGED <<served, failed, replied>>
    BY <1>5 DEF Client, Serve, ReadRequest, Status, Unreadable, SendTurn,
        SendSnapshot,
        HangUp, Enter, EnsureHit, EnsureMiss, RoomFor, Evict, DeviceRoomBesides,
        MapModel, MapFails, LoadWeights, LoadFails, RecordDevice, StartDecode,
        StartFails, EndDecode, Pin, OpenContext, OpenFails, StartTurn, Save,
        SaveFails, ReplySnapshotted, DropConversation, Unpin, counters, history
  <2>2. pc[c] # "reply" /\ (pc'[c] = "reply" => kind(c)' = "embed")
    <3> USE KindsAssumption DEF Threads, Shape, Requested, Inside, Talking, Goto, kind
    <3>1. CASE Client(c)
      BY <3>1 DEF Client, ReadRequest, Status, Unreadable, SendTurn,
          SendSnapshot, HangUp
    <3>2. CASE \/ Evict(c, "evict", "room") \/ Evict(c, "context_evict", "context_room")
               \/ MapFails(c) \/ LoadFails(c)
      BY <3>2 DEF Evict, EnsureFailed, MapFails, LoadFails
    <3>3. CASE RoomFor(c) \/ DeviceRoomBesides(c)
      BY <3>3 DEF RoomFor, DeviceRoomBesides, PickOr
    <3>4. CASE StartDecode(c) \/ StartFails(c) \/ EndDecode(c)
      BY <3>4 DEF StartDecode, StartFails, EndDecode, FinishDecode
    <3>5. CASE \/ Enter(c) \/ EnsureHit(c) \/ EnsureMiss(c)
               \/ MapModel(c) \/ LoadWeights(c) \/ RecordDevice(c)
      BY <3>5 DEF Enter, EnsureHit, EnsureMiss, MapModel, LoadWeights,
          RecordDevice
    <3>6. CASE \/ Pin(c) \/ OpenContext(c) \/ OpenFails(c) \/ StartTurn(c) \/ Save(c)
               \/ SaveFails(c) \/ ReplySnapshotted(c) \/ DropConversation(c) \/ Unpin(c)
      BY <3>6 DEF Pin, OpenContext, OpenFails, StartTurn, Save, SaveState,
          SaveFails,
          ReplySnapshotted, DropConversation, Unpin
    <3>7. QED
      BY <1>5, <3>1, <3>2, <3>3, <3>4, <3>5, <3>6 DEF Serve
  <2>3. Due' = Due
    BY <2>2, OneThreadMoves DEF Due, kind
  <2>4. QED
    BY <1>2, <2>1, <2>3 DEF Counted
<1>6. QED
  BY <1>3, <1>4, <1>5

---------------------------------------------------------------------------
(* Operations on the tables                                                *)

(* Numbering the Instants anew touches nothing else.                       *)
LEMMA RenumberedKeeps ==
    ASSUME NEW T
    PROVE  LET R == Renumbered(T) IN
           /\ R.next_id = T.next_id /\ R.resident = T.resident /\ R.by_path = T.by_path
           /\ DOMAIN R.last_accessed = DOMAIN T.last_accessed
BY DEF Renumbered

(* A touch changes the Instants only.                                      *)
LEMMA AccessedSound ==
    ASSUME TablesSound, NEW p \in DOMAIN tables.by_path, NEW now,
           tables' = Accessed(tables, p, now)
    PROVE  /\ TablesSound'
           /\ tables'.resident = tables.resident /\ tables'.by_path = tables.by_path
<1>1. /\ tables'.next_id = tables.next_id
      /\ tables'.resident = tables.resident
      /\ tables'.by_path = tables.by_path
      /\ DOMAIN tables'.last_accessed =
            DOMAIN Put(tables.last_accessed, tables.by_path[p], now)
  BY RenumberedKeeps DEF Accessed
<1>2. DOMAIN tables'.last_accessed = DOMAIN tables.last_accessed
  BY <1>1 DEF TablesSound, Put
<1>3. QED
  BY <1>1, <1>2 DEF TablesSound

(* A fresh mapping gets a fresh id and leaves the others alone.            *)
LEMMA InsertedSound ==
    ASSUME TablesSound, NEW p, p \notin DOMAIN tables.by_path, NEW now,
           tables' = Inserted(tables, p, now)
    PROVE  /\ TablesSound'
           /\ DOMAIN tables'.resident = DOMAIN tables.resident \cup {tables.next_id}
           /\ DOMAIN tables'.by_path = DOMAIN tables.by_path \cup {p}
           /\ \A q \in DOMAIN tables.by_path : tables'.by_path[q] = tables.by_path[q]
<1>1. /\ tables'.next_id = tables.next_id + 1
      /\ tables'.resident = Put(tables.resident, tables.next_id, p)
      /\ tables'.by_path = Put(tables.by_path, p, tables.next_id)
      /\ DOMAIN tables'.last_accessed =
            DOMAIN Put(tables.last_accessed, tables.next_id, now)
  BY RenumberedKeeps DEF Inserted
<1>2. DOMAIN tables'.last_accessed = DOMAIN tables.last_accessed \cup {tables.next_id}
  BY <1>1 DEF Put
<1>3. TablesSound'
  BY <1>1, <1>2 DEF TablesSound, Put
<1>4. QED
  BY <1>1, <1>3 DEF Put

(* An eviction takes one model and leaves the others alone.                *)
LEMMA RemovedSound ==
    ASSUME TablesSound, NEW id \in DOMAIN tables.resident,
           tables' = Removed(tables, id)
    PROVE  /\ TablesSound'
           /\ \A q \in DOMAIN tables.by_path : tables.by_path[q] # id =>
                q \in DOMAIN tables'.by_path /\ tables'.by_path[q] = tables.by_path[q]
<1>1. /\ tables'.next_id = tables.next_id
      /\ tables'.resident = Without(tables.resident, id)
      /\ tables'.by_path = Without(tables.by_path, tables.resident[id])
      /\ DOMAIN tables'.last_accessed = DOMAIN Without(tables.last_accessed, id)
  BY RenumberedKeeps DEF Removed
<1>2. DOMAIN tables'.last_accessed = DOMAIN tables.last_accessed \ {id}
  BY <1>1 DEF Without, Restrict
<1>3. TablesSound'
  BY <1>1, <1>2 DEF TablesSound, Without, Restrict
<1>4. QED
  BY <1>1, <1>3 DEF Without, Restrict, TablesSound

---------------------------------------------------------------------------
(* Steps that leave the registry, the sessions and the Arcs alone          *)

(* No two paths share a session.                                           *)
LEMMA SessionsDistinct ==
    ASSUME TablesSound, SessionsAreResident, NEW p \in DOMAIN sessions,
           NEW q \in DOMAIN sessions, sessions[p] = sessions[q]
    PROVE  p = q
BY DEF TablesSound, SessionsAreResident

(* Such a step keeps Models if it does for its own thread.                 *)
LEMMA QuietStep ==
    ASSUME IInv, NEW c \in Conn, Client(c) \/ Serve(c),
           UNCHANGED <<tables, sessions, live, pinned>>,
           local' = local \/ pc[c] \in Inside,
           pinned[c] # None => req' = req,
           pc[c] # "measure",
           Talker(c)', InHand(c)'
    PROVE  Models'
<1> USE DEF IInv, Threads, Models
<1>1. TablesSound'
  BY DEF TablesSound
<1>2. SessionsAreResident'
  BY OneThreadMoves DEF SessionsAreResident, path
<1>3. LiveCounted'
  BY DEF LiveCounted, Users
<1>4. ConversationKeepsModel'
  BY OneThreadMoves DEF ConversationKeepsModel, path
<1>5. ASSUME NEW d \in Conn \ {c}
      PROVE  Talker(d)' /\ InHand(d)'
  <2>1. Talker(d)'
    BY OneThreadMoves DEF Talker, kind
  <2>2. pc[d] \in {"evict", "context_evict"} => local' = local
    BY DEF Locked, Inside
  <2>3. InHand(d)'
    BY <2>2, OneThreadMoves DEF InHand, path
  <2>4. QED
    BY <2>1, <2>3
<1>6. QED
  BY <1>1, <1>2, <1>3, <1>4, <1>5

(* What a client does.                                                     *)
LEMMA ClientModels ==
    ASSUME IInv, NEW c \in Conn, Client(c)
    PROVE  Models'
<1>1. /\ UNCHANGED <<tables, sessions, live, pinned, local>>
      /\ pc[c] \in {"new", "idle"}
      /\ pc[c] = "idle" => req' = req
      /\ pc'[c] \in IF pc[c] = "new" THEN {"wait", "closed"} ELSE {"turn", "saving", "closing"}
  BY DEF Client, ReadRequest, Status, Unreadable, SendTurn, SendSnapshot,
      HangUp,
      Goto, registry, memory, IInv, Threads, Shape
<1>2. Talker(c)'
  BY <1>1 DEF IInv, Models, Talker, Talking, Answering, kind
<1>3. InHand(c)'
  BY <1>1 DEF InHand
<1>4. pinned[c] # None => req' = req
  BY <1>1 DEF IInv, Models, Talker, Talking, Answering
<1>5. QED
  BY <1>1, <1>2, <1>3, <1>4, QuietStep

(* A load that fails.                                                      *)
LEMMA FailureModels ==
    ASSUME IInv, NEW c \in Conn, MapFails(c) \/ LoadFails(c)
    PROVE  Models'
<1>1. /\ UNCHANGED <<tables, sessions, live, pinned, req>>
      /\ pc[c] \in {"map", "weights"} /\ EnsureFailed(c)
  BY DEF MapFails, LoadFails, registry, memory
<1>2. /\ kind(c) = "open" => pc'[c] = "closed"
      /\ pc'[c] \in {"record", "reply", "closed"}
  BY <1>1 DEF EnsureFailed, IInv, Threads, Shape, Requested, Inside
<1>3. Talker(c)' /\ InHand(c)'
  BY <1>1, <1>2 DEF IInv, Models, Talker, InHand, Talking, Answering, kind
<1>4. QED
  BY <1>1, <1>3, QuietStep DEF Serve, Inside

(* An iteration of an eviction loop: the victim it picks is nobody's.      *)
LEMMA RoomModels ==
    ASSUME IInv, NEW c \in Conn, RoomFor(c) \/ DeviceRoomBesides(c)
    PROVE  Models'
<1>1. UNCHANGED <<tables, sessions, live, pinned, req>> /\ pc[c] \in {"room", "context_room"}
  BY DEF RoomFor, DeviceRoomBesides, registry, memory
<1>2. /\ ~(pc'[c] \in {"evict", "context_evict"}) =>
            pc'[c] = IF pc[c] = "room" THEN "map" ELSE "ready"
      /\ pc'[c] \in {"evict", "context_evict"} =>
            \E onDevice \in BOOLEAN, keep \in {{}, {path(c)}} :
                /\ local' \in LeastRecent(tables, Evictable(onDevice, keep))
                /\ IF pc[c] = "room" THEN pc'[c] = "evict"
                                     ELSE pc'[c] = "context_evict" /\ keep = {path(c)}
  <2>1. CASE RoomFor(c)
    BY <2>1 DEF RoomFor, PickOr, Goto, IInv, Threads, Shape
  <2>2. CASE DeviceRoomBesides(c)
    BY <2>2 DEF DeviceRoomBesides, PickOr, Goto, IInv, Threads, Shape
  <2>3. QED
    BY <2>1, <2>2
<1>3. pc'[c] \in {"evict", "context_evict"} =>
        /\ local' \in DOMAIN tables.resident /\ live[local'].arcs = 1
        /\ \E p \in DOMAIN sessions : sessions[p] = local'
        /\ pc'[c] = "context_evict" => \E p \in DOMAIN sessions \ {path(c)} : sessions[p] = local'
  <2>1. SUFFICES ASSUME NEW onDevice \in BOOLEAN, NEW keep \in {{}, {path(c)}},
                        local' \in LeastRecent(tables, Evictable(onDevice, keep)),
                        pc'[c] = "context_evict" => keep = {path(c)}
                 PROVE  /\ local' \in DOMAIN tables.resident /\ live[local'].arcs = 1
                        /\ \E p \in DOMAIN sessions \ keep : sessions[p] = local'
    BY <1>2
  <2>2. local' \in Evictable(onDevice, keep)
    BY <2>1 DEF LeastRecent
  <2>3. QED
    BY <2>2 DEF Evictable
<1>4. Talker(c)'
  BY <1>1, <1>2 DEF IInv, Models, Talker, Talking, Answering, kind
<1>5. InHand(c)'
  <2>1. pc'[c] = "context_evict" => sessions[path(c)] # local'
    BY <1>1, <1>2, <1>3, SessionsDistinct DEF IInv, Models, InHand
  <2>2. QED
    BY <1>1, <1>2, <1>3, <2>1 DEF IInv, Models, InHand, path
<1>6. QED
  BY <1>1, <1>4, <1>5, QuietStep DEF Serve, Inside

(* Everything else a thread does on its own account.                       *)
LEMMA ThreadModels ==
    ASSUME IInv, NEW c \in Conn,
           \/ Enter(c) \/ EnsureMiss(c) \/ StartDecode(c) \/ StartFails(c) \/ EndDecode(c)
           \/ Record(c) \/ Reply(c) \/ OpenContext(c) \/ OpenFails(c) \/ StartTurn(c)
           \/ Save(c) \/ SaveFails(c) \/ ReplySnapshotted(c) \/ DropConversation(c)
    PROVE  Models'
<1> USE DEF IInv, Threads, Shape, Goto, registry, memory
<1>1. UNCHANGED <<tables, sessions, live, pinned, req, local>> /\ pc[c] # "measure"
  BY DEF Enter, EnsureMiss, StartDecode, StartFails, EndDecode, FinishDecode,
      Record, Reply,
      OpenContext, OpenFails, StartTurn, Save, SaveState, SaveFails, ReplySnapshotted,
      DropConversation
<1>2. Talker(c)' /\ InHand(c)'
  <2> USE <1>1 DEF Models, Talker, InHand, Talking, Answering, Requested, Inside, kind, path
  <2>1. CASE Enter(c) \/ EnsureMiss(c) \/ StartDecode(c)
    BY <2>1 DEF Enter, EnsureMiss, StartDecode
  <2>2. CASE StartFails(c) \/ EndDecode(c)
    BY <2>2 DEF StartFails, EndDecode, FinishDecode
  <2>3. CASE Record(c) \/ Reply(c)
    BY <2>3 DEF Record, Reply
  <2>4. CASE StartTurn(c)
    BY <2>4 DEF StartTurn, ConversationKeepsModel
  <2>5. CASE \/ OpenContext(c) \/ OpenFails(c) \/ Save(c) \/ SaveFails(c)
             \/ ReplySnapshotted(c) \/ DropConversation(c)
    BY <2>5 DEF OpenContext, OpenFails, Save, SaveState, SaveFails,
        ReplySnapshotted,
        DropConversation
  <2>6. QED
    BY <2>1, <2>2, <2>3, <2>4, <2>5
<1>3. QED
  BY <1>1, <1>2, QuietStep DEF Serve

---------------------------------------------------------------------------
(* Steps that change the registry, the sessions or the Arcs                *)

(* A cached model is touched.                                              *)
LEMMA EnsureHitModels ==
    ASSUME IInv, NEW c \in Conn, EnsureHit(c)
    PROVE  Models'
<1> USE DEF IInv, Threads, Shape, Models
<1>1. /\ pc[c] = "ensure" /\ pc' = [pc EXCEPT ![c] = "context_room"]
      /\ path(c) \in DOMAIN sessions /\ path(c) \in DOMAIN tables.by_path
      /\ \E now \in Now(tables) : tables' = Accessed(tables, path(c), now)
      /\ UNCHANGED <<sessions, live, pinned, req, local>>
  BY DEF EnsureHit, Goto, memory, SessionsAreResident
<1>2. /\ TablesSound'
      /\ tables'.resident = tables.resident /\ tables'.by_path = tables.by_path
  BY <1>1, AccessedSound
<1>3. SessionsAreResident'
  BY <1>1, <1>2 DEF SessionsAreResident, path
<1>4. LiveCounted'
  BY <1>1 DEF LiveCounted, Users
<1>5. ConversationKeepsModel'
  BY <1>1 DEF ConversationKeepsModel, path
<1>6. ASSUME NEW d \in Conn PROVE Talker(d)' /\ InHand(d)'
  BY <1>1, <1>2 DEF Talker, InHand, Talking, Answering, kind, path
<1>7. QED
  BY <1>2, <1>3, <1>4, <1>5, <1>6

(* A model is mapped, or its mapping of an earlier failure is reused.      *)
LEMMA MapModelModels ==
    ASSUME IInv, NEW c \in Conn, MapModel(c)
    PROVE  Models'
<1> USE DEF IInv, Threads, Shape, Models
<1>1. /\ pc[c] = "map" /\ pc' = [pc EXCEPT ![c] = "weights"]
      /\ UNCHANGED <<sessions, live, pinned, req>>
  BY DEF MapModel, Goto, memory
<1>2. /\ TablesSound'
      /\ path(c) \in DOMAIN tables'.by_path
      /\ \A q \in DOMAIN tables.by_path :
            q \in DOMAIN tables'.by_path /\ tables'.by_path[q] = tables.by_path[q]
  <2>1. CASE path(c) \in DOMAIN tables.by_path
    BY <2>1, AccessedSound DEF MapModel
  <2>2. CASE path(c) \notin DOMAIN tables.by_path
    BY <2>2, InsertedSound DEF MapModel
  <2>3. QED
    BY <2>1, <2>2
<1>3. \A d \in Conn \ {c} : pc[d] \notin Inside
  BY <1>1 DEF Locked, Inside
<1>4. SessionsAreResident'
  BY <1>1, <1>2, <1>3 DEF SessionsAreResident, Inside
<1>5. LiveCounted'
  BY <1>1 DEF LiveCounted, Users
<1>6. ConversationKeepsModel'
  BY <1>1 DEF ConversationKeepsModel, path
<1>7. Talker(c)' /\ InHand(c)'
  BY <1>1, <1>2 DEF Talker, InHand, Talking, Answering, kind, path
<1>8. ASSUME NEW d \in Conn \ {c} PROVE Talker(d)' /\ InHand(d)'
  BY <1>1, <1>3 DEF Talker, InHand, Inside, kind, path
<1>9. QED
  BY <1>2, <1>4, <1>5, <1>6, <1>7, <1>8

(* A session object is made; nobody can hold it yet.                       *)
LEMMA LoadWeightsModels ==
    ASSUME IInv, NEW c \in Conn, LoadWeights(c)
    PROVE  Models'
<1> USE DEF IInv, Threads, Shape, Models
<1> DEFINE id == tables.by_path[path(c)]
<1>1. PICK w : /\ pc[c] = "weights" /\ pc' = [pc EXCEPT ![c] = "measure"]
               /\ live' = Put(live, id, [arcs |-> 1, weights |-> w])
               /\ UNCHANGED <<tables, sessions, pinned, req, local>>
  BY DEF LoadWeights, Goto, registry
<1>2. \A d \in Conn \ {c} : pc[d] \notin Inside
  BY <1>1 DEF Locked, Inside
<1>3. /\ path(c) \in DOMAIN tables.by_path /\ path(c) \notin DOMAIN sessions
      /\ id \in DOMAIN tables.resident /\ tables.resident[id] = path(c)
  BY <1>1 DEF InHand, TablesSound
<1>4. \A p \in DOMAIN sessions : sessions[p] # id
  BY <1>3 DEF SessionsAreResident, TablesSound
<1>5. TablesSound'
  BY <1>1 DEF TablesSound
<1>6. SessionsAreResident'
  BY <1>1, <1>2 DEF SessionsAreResident, Put, path, Inside
<1>7. LiveCounted'
  <2>1. Users(id) = {}
    BY <1>3, <1>4, NoneAssumption DEF Users, ConversationKeepsModel,
        TablesSound
  <2>2. Cardinality(Users(id)) = 0
    BY <2>1, FS_EmptySet
  <2>3. \A i : Users(i)' = Users(i)
    BY <1>1 DEF Users
  <2>4. QED
    BY <1>1, <2>2, <2>3 DEF LiveCounted, Put
<1>8. ConversationKeepsModel'
  BY <1>1 DEF ConversationKeepsModel, Put, path
<1>9. Talker(c)' /\ InHand(c)'
  BY <1>1, <1>3 DEF Talker, InHand, Talking, Answering, Put, kind, path
<1>10. ASSUME NEW d \in Conn \ {c} PROVE Talker(d)' /\ InHand(d)'
  BY <1>1, <1>2 DEF Talker, InHand, Inside, kind, path
<1>11. QED
  BY <1>5, <1>6, <1>7, <1>8, <1>9, <1>10

(* The new session enters the map.                                         *)
LEMMA RecordDeviceModels ==
    ASSUME IInv, NEW c \in Conn, RecordDevice(c)
    PROVE  Models'
<1> USE DEF IInv, Threads, Shape, Models
<1> DEFINE id == tables.by_path[path(c)]
<1>1. /\ pc[c] = "measure" /\ pc' = [pc EXCEPT ![c] = "ready"]
      /\ sessions' = Put(sessions, path(c), id)
      /\ UNCHANGED <<tables, live, pinned, req>>
  BY DEF RecordDevice, Goto, memory
<1>2. \A d \in Conn \ {c} : pc[d] \notin Inside
  BY <1>1 DEF Locked, Inside
<1>3. /\ path(c) \in DOMAIN tables.by_path /\ path(c) \notin DOMAIN sessions
      /\ id \in DOMAIN live
  BY <1>1 DEF InHand
<1>4. TablesSound'
  BY <1>1 DEF TablesSound
<1>5. SessionsAreResident'
  BY <1>1, <1>2, <1>3 DEF SessionsAreResident, Put, Inside
<1>6. LiveCounted'
  BY <1>1 DEF LiveCounted, Users
<1>7. ConversationKeepsModel'
  BY <1>1, <1>3 DEF ConversationKeepsModel, Put, path
<1>8. Talker(c)' /\ InHand(c)'
  BY <1>1 DEF Talker, InHand, Talking, Answering, Put, kind, path
<1>9. ASSUME NEW d \in Conn \ {c} PROVE Talker(d)' /\ InHand(d)'
  BY <1>1, <1>2 DEF Talker, InHand, Inside, kind, path
<1>10. QED
  BY <1>4, <1>5, <1>6, <1>7, <1>8, <1>9

(* The victim goes from the map, from memory and from the registry: its    *)
(* last Arc was the map's, so SwapRegistry::evict does not refuse.         *)
LEMMA EvictModels ==
    ASSUME IInv, NEW c \in Conn, NEW from, NEW again,
           \/ from = "evict" /\ again = "room"
           \/ from = "context_evict" /\ again = "context_room",
           Evict(c, from, again)
    PROVE  Models'
<1> USE DEF IInv, Threads, Shape, Models
<1>1. pc[c] = from /\ UNCHANGED <<req, pinned>>
  BY DEF Evict
<1>2. \A d \in Conn \ {c} : pc[d] \notin Inside
  BY <1>1 DEF Locked, Inside
<1>3. PICK p \in DOMAIN sessions :
          p = (CHOOSE q \in DOMAIN sessions : sessions[q] = local) /\ sessions[p] = local
  BY <1>1 DEF InHand
<1>4. /\ local \in DOMAIN live /\ live[local].arcs = 1
      /\ p \in DOMAIN tables.by_path /\ tables.by_path[p] = local
      /\ local \in DOMAIN tables.resident
  BY <1>1, <1>3 DEF InHand, SessionsAreResident, TablesSound
<1>5. /\ sessions' = Without(sessions, p)
      /\ live' = Without(live, local)
  BY <1>3, <1>4 DEF Evict, EvictVictim, DropArc
<1>6. /\ tables' = Removed(tables, local)
      /\ pc' = [pc EXCEPT ![c] = again]
  BY <1>5 DEF Evict, Goto, Without, Restrict
<1>7. /\ TablesSound'
      /\ \A q \in DOMAIN tables.by_path : tables.by_path[q] # local =>
            q \in DOMAIN tables'.by_path /\ tables'.by_path[q] = tables.by_path[q]
  BY <1>4, <1>6, RemovedSound
<1>8. \A q \in DOMAIN sessions \ {p} : sessions[q] # local
  BY <1>3, SessionsDistinct
<1>9. SessionsAreResident'
  <2>1. \A q \in DOMAIN sessions' :
            /\ q \in DOMAIN tables'.by_path
            /\ tables'.by_path[q] = sessions'[q]
            /\ sessions'[q] \in DOMAIN live'
    BY <1>5, <1>7, <1>8 DEF SessionsAreResident, Without, Restrict
  <2>2. \A id \in DOMAIN live' : \E q \in DOMAIN sessions' : sessions'[q] = id
    BY <1>1, <1>2, <1>3, <1>5 DEF SessionsAreResident, Without, Restrict,
        Inside
  <2>3. QED
    BY <2>1, <2>2 DEF SessionsAreResident
<1>10. LiveCounted'
  <2>1. \A i : Users(i)' = Users(i)
    BY <1>1 DEF Users
  <2>2. QED
    BY <1>5, <2>1 DEF LiveCounted, Without, Restrict
<1>11. \A d \in Conn : pinned[d] # local
  <2>1. PICK n \in Nat : n = Cardinality(Users(local))
    BY ConnAssumption, FS_Subset, FS_CardinalityType DEF Users
  <2>2. Cardinality(Users(local)) = 0
    BY <1>4, <2>1 DEF LiveCounted
  <2>3. Users(local) = {}
    BY <2>2, ConnAssumption, FS_Subset, FS_EmptySet DEF Users
  <2>4. QED
    BY <2>3 DEF Users
<1>12. ConversationKeepsModel'
  BY <1>1, <1>3, <1>5, <1>11 DEF ConversationKeepsModel, Without, Restrict,
      path
<1>13. Talker(c)' /\ InHand(c)'
  BY <1>1, <1>3, <1>5, <1>6 DEF Talker, InHand, Talking, Answering, Without,
      Restrict, kind, path
<1>14. ASSUME NEW d \in Conn \ {c} PROVE Talker(d)' /\ InHand(d)'
  BY <1>1, <1>2, <1>6 DEF Talker, InHand, Inside, kind, path
<1>15. QED
  BY <1>7, <1>9, <1>10, <1>12, <1>13, <1>14

(* A conversation takes its Arc before the lock is released.               *)
LEMMA PinModels ==
    ASSUME IInv, NEW c \in Conn, Pin(c)
    PROVE  Models'
<1> USE DEF IInv, Threads, Shape, Models
<1>0. PICK id : id = sessions[path(c)]
  OBVIOUS
<1>1. /\ pc[c] = "ready" /\ pc' = [pc EXCEPT ![c] = "opening"] /\ kind(c) = "open"
      /\ pinned' = [pinned EXCEPT ![c] = id]
      /\ live' = [live EXCEPT ![id].arcs = @ + 1]
      /\ UNCHANGED <<tables, sessions, req, local>>
  BY <1>0 DEF Pin, PinSession, Goto, registry
<1>2. path(c) \in DOMAIN sessions /\ id \in DOMAIN live /\ id \in Nat
  BY <1>0, <1>1 DEF InHand, SessionsAreResident, TablesSound
<1>3. pinned[c] = None
  BY <1>1 DEF Talker, Talking, Answering
<1>4. TablesSound'
  BY <1>1 DEF TablesSound
<1>5. SessionsAreResident'
  BY <1>1 DEF SessionsAreResident, path
<1>6. LiveCounted'
  <2>1. PICK n \in Nat : n = Cardinality(Users(id))
    BY ConnAssumption, FS_Subset, FS_CardinalityType DEF Users
  <2>2. Users(id)' = Users(id) \cup {c} /\ c \notin Users(id) /\ IsFiniteSet(Users(id))
    BY <1>1, <1>2, <1>3, NoneAssumption, ConnAssumption, FS_Subset DEF Users
  <2>3. Cardinality(Users(id)') = n + 1
    BY <2>1, <2>2, FS_AddElement
  <2>4. ASSUME NEW i \in DOMAIN live \ {id} PROVE Users(i)' = Users(i)
    <3>1. i # None
      BY NoneAssumption DEF SessionsAreResident, InHand, TablesSound
    <3>2. QED
      BY <1>1, <1>3, <3>1 DEF Users
  <2>5. QED
    BY <1>1, <2>1, <2>3, <2>4 DEF LiveCounted
<1>7. ConversationKeepsModel'
  BY <1>0, <1>1, <1>2 DEF ConversationKeepsModel, path
<1>8. Talker(c)' /\ InHand(c)'
  BY <1>1, <1>2, NoneAssumption DEF Talker, InHand, Talking, Answering, kind,
      path
<1>9. ASSUME NEW d \in Conn \ {c} PROVE Talker(d)' /\ InHand(d)'
  BY <1>1 DEF Talker, InHand, Locked, Inside, kind, path
<1>10. QED
  BY <1>4, <1>5, <1>6, <1>7, <1>8, <1>9

(* A conversation gives its Arc back; the map still has one.               *)
LEMMA UnpinModels ==
    ASSUME IInv, NEW c \in Conn, Unpin(c)
    PROVE  Models'
<1> USE DEF IInv, Threads, Shape, Models
<1>0. PICK id : id = pinned[c]
  OBVIOUS
<1>1. /\ pc[c] = "unpin" /\ pc' = [pc EXCEPT ![c] = "closed"]
      /\ pinned' = [pinned EXCEPT ![c] = None]
      /\ live' = DropArc(id)
      /\ UNCHANGED <<tables, sessions, req, local>>
  BY <1>0 DEF Unpin, Goto, registry
<1>2. /\ id # None /\ id \in DOMAIN live /\ id \in Nat
      /\ path(c) \in DOMAIN sessions /\ sessions[path(c)] = id
  BY <1>0, <1>1 DEF Talker, Talking, ConversationKeepsModel,
      SessionsAreResident, TablesSound
<1>3. PICK n \in Nat : n = Cardinality(Users(id))
  BY ConnAssumption, FS_Subset, FS_CardinalityType DEF Users
<1>4. Users(id)' = Users(id) \ {c} /\ c \in Users(id) /\ IsFiniteSet(Users(id))
  BY <1>0, <1>1, <1>2, ConnAssumption, FS_Subset DEF Users
<1>5. Cardinality(Users(id)') = n - 1 /\ n # 0
  BY <1>3, <1>4, FS_RemoveElement, FS_EmptySet
<1>6. live' = [live EXCEPT ![id].arcs = @ - 1]
  BY <1>1, <1>2, <1>3, <1>5 DEF DropArc, LiveCounted
<1>7. TablesSound'
  BY <1>1 DEF TablesSound
<1>8. SessionsAreResident'
  BY <1>1, <1>6 DEF SessionsAreResident, path
<1>9. LiveCounted'
  <2>1. ASSUME NEW i \in DOMAIN live \ {id} PROVE Users(i)' = Users(i)
    <3>1. i # None
      BY NoneAssumption DEF SessionsAreResident, InHand, TablesSound
    <3>2. QED
      BY <1>0, <1>1, <3>1 DEF Users
  <2>2. QED
    BY <1>3, <1>5, <1>6, <2>1 DEF LiveCounted
<1>10. ConversationKeepsModel'
  BY <1>1, <1>6 DEF ConversationKeepsModel, path
<1>11. Talker(c)' /\ InHand(c)'
  BY <1>1 DEF Talker, InHand, Talking, Answering
<1>12. ASSUME NEW d \in Conn \ {c} PROVE Talker(d)' /\ InHand(d)'
  <2>1. pc[d] \in {"evict", "context_evict"} => local # id
    BY <1>2, <1>3, <1>5 DEF InHand, LiveCounted
  <2>2. QED
    BY <1>1, <1>6, <2>1 DEF Talker, InHand, kind, path
<1>13. QED
  BY <1>7, <1>8, <1>9, <1>10, <1>11, <1>12

(* Every step keeps Models.                                                *)
LEMMA ModelsStep ==
    ASSUME IInv, NEW c \in Conn, Client(c) \/ Serve(c)
    PROVE  Models'
<1>1. CASE Evict(c, "evict", "room") \/ Evict(c, "context_evict", "context_room")
  BY <1>1, EvictModels
<1>2. CASE ~(Evict(c, "evict", "room") \/ Evict(c, "context_evict", "context_room"))
  BY <1>2, ClientModels, FailureModels, RoomModels, ThreadModels,
      EnsureHitModels,
     MapModelModels, LoadWeightsModels, RecordDeviceModels, PinModels, UnpinModels
     DEF Serve
<1>3. QED
  BY <1>1, <1>2

---------------------------------------------------------------------------
(* The theorems                                                            *)

(* Every step keeps the invariant.                                         *)
LEMMA NextIInv == IInv /\ [Next]_vars => IInv'
<1> SUFFICES ASSUME IInv, [Next]_vars PROVE IInv'
  OBVIOUS
<1>1. ASSUME NEW c \in Conn, Client(c) \/ Serve(c) PROVE IInv'
  BY <1>1, ThreadsStep, ModelsStep, CountedStep DEF IInv
<1>2. CASE UNCHANGED vars
  <2> USE <1>2 DEF IInv, vars, registry, memory, counters, history
  <2>1. Threads'
    BY DEF Threads, Shape, Locked, Requested, Freed, Asleep, kind
  <2>2. Models'
    BY DEF Models, TablesSound, SessionsAreResident,
        LiveCounted, Users,
        ConversationKeepsModel, Talker, InHand, kind, path
  <2>3. Counted'
    BY DEF Counted, CountedBeforeReply, kind
  <2>4. QED
    BY <2>1, <2>2, <2>3
<1>3. QED
  BY <1>1, <1>2 DEF Next, Listening

(* What holds of every reachable state, together.                          *)
THEOREM Invariance == Spec => []IInv
BY InitIInv, NextIInv, PTL DEF Spec

(* A victim that an eviction loop chose is still the loop's to evict when  *)
(* the registry is asked: a conversation on one model never makes a        *)
(* request for another fail (make_room_for, make_device_room_besides).     *)
THEOREM EvictionAlwaysGranted == Spec => []EvictionNeverRefused
<1>1. IInv => EvictionNeverRefused
  BY DEF IInv, Models, InHand, SessionsAreResident, TablesSound,
      EvictionNeverRefused
<1>2. QED
  BY <1>1, Invariance, PTL

(* The model of a conversation is neither evicted nor loaded a second time *)
(* next to it while the conversation lasts (handle_conversation's Arc).    *)
THEOREM ConversationsAlwaysKeepModel == Spec => []ConversationKeepsModel
<1>1. IInv => ConversationKeepsModel
  BY DEF IInv, Models
<1>2. QED
  BY <1>1, Invariance, PTL

(* Every session in the map is a resident model's, under the same path,    *)
(* and every session object is in the map or on its way there.             *)
THEOREM SessionsAlwaysResident == Spec => []SessionsAreResident
<1>1. IInv => SessionsAreResident
  BY DEF IInv, Models
<1>2. QED
  BY <1>1, Invariance, PTL

(* Arc::strong_count counts the map and the open conversations, no others: *)
(* no path out of a conversation forgets its Arc.                          *)
THEOREM ArcsAlwaysCount == Spec => []ArcsCountConversations
<1>1. IInv => ArcsCountConversations
  BY DEF IInv, Models, LiveCounted, SessionsAreResident, Users,
      ArcsCountConversations
<1>2. QED
  BY <1>1, Invariance, PTL

(* A decode has the device to itself, and its model is resident under it.  *)
THEOREM DecodeAlwaysAlone == Spec => []DecodeIsAlone
<1>1. IInv => DecodeIsAlone
  BY NoneAssumption DEF IInv, Threads, Locked, Inside, Models, InHand,
      SessionsAreResident,
      TablesSound, DecodeIsAlone
<1>2. QED
  BY <1>1, Invariance, PTL

(* A client that has read Snapshotted finds the context's memory freed.    *)
THEOREM SnapshottedAlwaysFreed == Spec => []SnapshottedMeansFreed
<1>1. IInv => SnapshottedMeansFreed
  BY DEF IInv, Threads, Shape, Asleep, SnapshottedMeansFreed
<1>2. QED
  BY <1>1, Invariance, PTL

(* No context outlives its request or its conversation.                    *)
THEOREM ContextsNeverLeak == Spec => []NoContextLeaks
<1>1. IInv => NoContextLeaks
  BY DEF IInv, Threads, Freed, NoContextLeaks
<1>2. QED
  BY <1>1, Invariance, PTL

(* Whatever was replied to a generation or a turn was counted before.      *)
THEOREM RepliesAlwaysCounted == Spec => []CountedBeforeReply
<1>1. IInv => CountedBeforeReply
  BY DEF IInv, Counted
<1>2. QED
  BY <1>1, Invariance, PTL

===========================================================================

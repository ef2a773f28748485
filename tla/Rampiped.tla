----------------------------- MODULE Rampiped -----------------------------
(***************************************************************************)
(* The daemon (src/src/bin/rampiped.rs): one thread per connection, one    *)
(* Mutex around SharedState (registry, sessions, counters), and the device *)
(* memory that sessions and contexts share.                                *)
(*                                                                         *)
(* A thread holds the lock from ensure_loaded to the end of a generation   *)
(* or an embedding, and over one turn of a conversation.  It does not hold *)
(* it while it opens, saves or drops a conversation's context, nor between *)
(* the end of a generation and record_outcome, which locks again.  Those   *)
(* unlocked steps interleave with every step of the lock holder.           *)
(***************************************************************************)
EXTENDS Integers, FiniteSets, RegistryTables

CONSTANTS
    Conn,        \* connections, each served by a thread of its own
    Path,        \* model files
    Size,        \* Size[p]: length of the file, host and device estimate alike
    HostFree,    \* what system_free_bytes() may measure; None: it cannot
    GpuTotal,    \* device memory; 0: no device
    Context,     \* device bytes of one context of an offloaded model
    Num, Den,    \* budget_fraction = Num / Den
    Kinds,       \* the requests clients send: generate, embed, open, status
    MaxTurns,    \* bound: turns of one conversation
    None

ASSUME ConnAssumption == IsFiniteSet(Conn)
ASSUME NoneAssumption == None \notin Conn /\ None \notin Nat
ASSUME SizeAssumption == Size \in [Path -> Nat] /\ GpuTotal \in Nat /\ Context \in Nat
ASSUME BudgetAssumption == Num \in Nat /\ Den \in Nat \ {0}
ASSUME KindsAssumption == Kinds \subseteq {"generate", "embed", "open", "status"}

VARIABLES
    lock,         \* holder of SharedState's Mutex, or None
    pc,           \* where each connection's thread is
    req,          \* the request its client sent first: kind and model path
    tables,       \* SharedState.registry, see RegistryTables
    device,       \* Resident.device_bytes of every resident id
    sessions,     \* SharedState.sessions: path |-> id of its session
    live,         \* the LlamaSession objects: id |-> Arc count, device weights
    pinned,       \* the session whose Arc a conversation thread holds, or None
    ctx,          \* device bytes of the context each thread owns
    local,        \* the lock holder's local: free_before, or the id to evict
    response,     \* the outcome a thread has computed and not yet replied
    turns,        \* turns a conversation has had
    stats,        \* SharedState.model_stats: path |-> requests_served
    served,       \* SharedState.requests_served
    failed,       \* SharedState.requests_failed
    replied,      \* history: replies written to generate requests and turns
    hibernated    \* history: the clients that have read Snapshotted

registry == <<tables, device>>
memory == <<live, ctx>>
counters == <<stats, served, failed>>
history == <<replied, hibernated>>
vars == <<lock, pc, req, registry, sessions, memory, pinned, local, response,
          turns, counters, history>>

Init ==
    /\ lock = None
    /\ pc = [c \in Conn |-> "new"]
    /\ req = [c \in Conn |-> None]
    /\ tables = EmptyTables
    /\ device = EmptyTable
    /\ sessions = EmptyTable
    /\ live = EmptyTable
    /\ pinned = [c \in Conn |-> None]
    /\ ctx = [c \in Conn |-> 0]
    /\ local = None
    /\ response = [c \in Conn |-> None]
    /\ turns = [c \in Conn |-> 0]
    /\ stats = EmptyTable
    /\ served = 0
    /\ failed = 0
    /\ replied = 0
    /\ hibernated = {}

---------------------------------------------------------------------------
(* Threads and the lock                                                    *)

Goto(c, from, to) == pc[c] = from /\ pc' = [pc EXCEPT ![c] = to]

Acquire(c) == lock = None /\ lock' = c
Release(c) == lock' = None
Momentary == lock = None /\ lock' = None    \* lock, one statement, unlock

path(c) == req[c].path
kind(c) == req[c].kind

---------------------------------------------------------------------------
(* Memory                                                                  *)

Total(f) == FoldFunction(+, 0, f)

GpuFree == GpuTotal - Total([id \in DOMAIN live |-> live[id].weights]) - Total(ctx)

Mapped == Total([id \in DOMAIN tables.resident |-> Size[tables.resident[id]]])

Recorded(id) == IF device[id] = None THEN 0 ELSE device[id]
DeviceResident == Total([id \in DOMAIN tables.resident |-> Recorded(id)])

(* SwapRegistry::fits_within_budget; an unmeasurable host always fits.     *)
HostFits(free, new) ==
    free = None \/ (Mapped + new) * Den <= Num * (free + Mapped)

(* SwapRegistry::fits_within_device_budget; no device, nothing to violate. *)
DeviceFits(new) ==
    \/ GpuTotal = 0
    \/ (DeviceResident + new) * Den <= Num * (GpuFree + DeviceResident)

(* A context of a model that has no weights on the device takes none.      *)
ContextBytes(id) == IF live[id].weights > 0 THEN Context ELSE 0

(* As DropArc, but the last reference does not free the session.           *)
DropArcLeaking(id) == [live EXCEPT ![id].arcs = @ - 1]

(* Dropping an Arc<LlamaSession>; the last one frees weights and handle.   *)
DropArc(id) ==
    IF live[id].arcs = 1 THEN Without(live, id)
                         ELSE [live EXCEPT ![id].arcs = @ - 1]

---------------------------------------------------------------------------
(* handle_connection: the first line                                       *)

ReadRequest(c) ==
    /\ \E k \in Kinds \ {"status"}, p \in Path :
         req' = [req EXCEPT ![c] = [kind |-> k, path |-> p]]
    /\ Goto(c, "new", "wait")
    /\ UNCHANGED <<lock, registry, sessions, memory, pinned, local, response,
                   turns, counters, history>>

(* handle_status reads under the lock and changes nothing.                 *)
Status(c) ==
    /\ "status" \in Kinds
    /\ Goto(c, "new", "closed")
    /\ Momentary
    /\ UNCHANGED <<req, registry, sessions, memory, pinned, local, response,
                   turns, counters, history>>

(* End of file or a line that does not decode: no reply.                   *)
Unreadable(c) ==
    /\ Goto(c, "new", "closed")
    /\ UNCHANGED <<lock, req, registry, sessions, memory, pinned, local, response,
                   turns, counters, history>>

---------------------------------------------------------------------------
(* ensure_loaded                                                           *)

(* handle_request, handle_embed and handle_conversation all start so.      *)
Enter(c) ==
    /\ Goto(c, "wait", "ensure")
    /\ Acquire(c)
    /\ UNCHANGED <<req, registry, sessions, memory, pinned, local, response,
                   turns, counters, history>>

(* A cached model is touched, then memory is made for its context.         *)
EnsureHit(c) ==
    /\ Goto(c, "ensure", "context_room")
    /\ path(c) \in DOMAIN sessions
    /\ \E now \in Now(tables) : tables' = Accessed(tables, path(c), now)
    /\ UNCHANGED <<lock, req, device, sessions, memory, pinned, local, response,
                   turns, counters, history>>

EnsureMiss(c) ==
    /\ Goto(c, "ensure", "room")
    /\ path(c) \notin DOMAIN sessions
    /\ UNCHANGED <<lock, req, registry, sessions, memory, pinned, local, response,
                   turns, counters, history>>

(* ensure_loaded failed: a generation goes on to record_outcome, the       *)
(* others reply Err (a conversation's connection then ends).               *)
EnsureFailed(c) ==
    /\ Release(c)
    /\ pc' = [pc EXCEPT ![c] = CASE kind(c) = "generate" -> "record"
                                 [] kind(c) = "embed"    -> "reply"
                                 [] kind(c) = "open"     -> "closed"]
    /\ response' = [response EXCEPT ![c] = IF kind(c) = "open" THEN None ELSE "err"]

(* As Evictable, but whoever holds the session's Arc does not matter.      *)
EvictableEvenPinned(onDevice, keep) ==
    {id \in DOMAIN tables.resident :
        \E p \in DOMAIN sessions \ keep :
            /\ sessions[p] = id
            /\ onDevice => device[id] # None}

(* The models the eviction loops may choose: they have a session, nobody   *)
(* else holds its Arc and, where only device memory matters, they have     *)
(* recorded device bytes.                                                  *)
Evictable(onDevice, keep) ==
    {id \in DOMAIN tables.resident :
        \E p \in DOMAIN sessions \ keep :
            /\ sessions[p] = id
            /\ live[id].arcs = 1
            /\ onDevice => device[id] # None}

(* The end of a loop iteration: pick the oldest candidate, or give up and  *)
(* go ahead over budget.                                                   *)
PickOr(c, from, candidates, evict, proceed) ==
    IF candidates = {}
      THEN Goto(c, from, proceed) /\ local' = None
      ELSE Goto(c, from, evict) /\ local' \in LeastRecent(tables, candidates)

(* make_room_for: one iteration up to the choice of a victim.              *)
RoomFor(c) ==
    /\ pc[c] = "room"
    /\ \E free \in HostFree :
         LET new == Size[path(c)]
             hostFits == HostFits(free, new)
             deviceFits == DeviceFits(new)
         IN  IF hostFits /\ deviceFits
               THEN Goto(c, "room", "map") /\ local' = None
               ELSE PickOr(c, "room", Evictable(hostFits /\ ~deviceFits, {}),
                           "evict", "map")
    /\ UNCHANGED <<lock, req, registry, sessions, memory, pinned, response,
                   turns, counters, history>>

(* make_device_room_besides: one iteration up to the choice of a victim.   *)
DeviceRoomBesides(c) ==
    /\ pc[c] = "context_room"
    /\ IF DeviceFits(0)
         THEN Goto(c, "context_room", "ready") /\ local' = None
         ELSE PickOr(c, "context_room", Evictable(TRUE, {path(c)}),
                     "context_evict", "ready")
    /\ UNCHANGED <<lock, req, registry, sessions, memory, pinned, response,
                   turns, counters, history>>

(* As EvictVictim, but the map keeps an entry for the dropped session.     *)
EvictVictimKeepingEntry(id) ==
    LET p == CHOOSE q \in DOMAIN sessions : sessions[q] = id IN
    /\ live' = DropArc(id)
    /\ stats' = Without(stats, p)
    /\ UNCHANGED sessions

(* sessions.remove and model_stats.remove for the victim.                  *)
EvictVictim(id) ==
    LET p == CHOOSE q \in DOMAIN sessions : sessions[q] = id IN
    /\ sessions' = Without(sessions, p)
    /\ live' = DropArc(id)
    /\ stats' = Without(stats, p)

(* The end of an iteration: the session goes, then SwapRegistry::evict.    *)
(* It refuses (and the request fails) while a session, and with it its     *)
(* ModelHandle, is alive.                                                  *)
Evict(c, from, again) ==
    /\ pc[c] = from
    /\ EvictVictim(local)
    /\ local' = None
    /\ IF local \in DOMAIN live'
         THEN EnsureFailed(c) /\ UNCHANGED registry
         ELSE /\ tables' = Removed(tables, local)
              /\ device' = Without(device, local)
              /\ Goto(c, from, again)
              /\ UNCHANGED <<lock, response>>
    /\ UNCHANGED <<req, ctx, pinned, turns, served, failed, history>>

---------------------------------------------------------------------------
(* LlamaSession::load_with_gpu_layers                                      *)

(* registry.load: a fresh mapping, or the entry an earlier failed load     *)
(* left behind; then the free device memory is measured.                   *)
MapModel(c) ==
    /\ Goto(c, "map", "weights")
    /\ IF path(c) \in DOMAIN tables.by_path
         THEN /\ \E now \in Now(tables) : tables' = Accessed(tables, path(c), now)
              /\ UNCHANGED device
         ELSE /\ \E now \in Now(tables) : tables' = Inserted(tables, path(c), now)
              /\ device' = Put(device, tables.next_id, None)
    /\ local' = GpuFree
    /\ UNCHANGED <<lock, req, sessions, memory, pinned, response, turns,
                   counters, history>>

(* The file is missing, empty or not GGUF.                                 *)
MapFails(c) ==
    /\ pc[c] = "map"
    /\ path(c) \notin DOMAIN tables.by_path
    /\ EnsureFailed(c)
    /\ UNCHANGED <<req, registry, sessions, memory, pinned, local, turns,
                   counters, history>>

(* load_from_file: auto-fitting puts as many layers on the device as fit,  *)
(* or none.                                                                *)
LoadWeights(c) ==
    LET id == tables.by_path[path(c)] IN
    /\ Goto(c, "weights", "measure")
    /\ \E w \in {0, IF Size[path(c)] <= GpuFree THEN Size[path(c)] ELSE GpuFree} :
         live' = Put(live, id, [arcs |-> 1, weights |-> w])
    /\ UNCHANGED <<lock, req, registry, sessions, ctx, pinned, local, response,
                   turns, counters, history>>

(* Fitting the parameters or reading the weights failed: the handle is     *)
(* dropped, the registry's entry stays.                                    *)
LoadFails(c) ==
    /\ pc[c] = "weights"
    /\ EnsureFailed(c)
    /\ local' = None
    /\ UNCHANGED <<req, registry, sessions, memory, pinned, turns, counters, history>>

(* record_device_bytes(free_before.saturating_sub(free_after)), and the    *)
(* session enters the map.                                                 *)
RecordDevice(c) ==
    LET id == tables.by_path[path(c)]
        used == IF local > GpuFree THEN local - GpuFree ELSE 0
    IN
    /\ Goto(c, "measure", "ready")
    /\ device' = IF GpuTotal = 0 THEN device ELSE [device EXCEPT ![id] = used]
    /\ sessions' = Put(sessions, path(c), id)
    /\ local' = None
    /\ UNCHANGED <<lock, req, tables, memory, pinned, response, turns, counters,
                   history>>

---------------------------------------------------------------------------
(* handle_request and handle_embed: one context for one decode             *)

(* As FinishDecode, but an error returns without unlocking.                *)
FinishDecodeKeepingLock(c, result) ==
    /\ ctx' = [ctx EXCEPT ![c] = IF kind(c) = "open" THEN @ ELSE 0]
    /\ response' = [response EXCEPT ![c] = result]
    /\ lock' = IF result = "err" THEN lock ELSE None
    /\ pc' = [pc EXCEPT ![c] = IF kind(c) = "embed" THEN "reply" ELSE "record"]

(* As FinishDecode, but an error is answered without record_outcome.       *)
FinishDecodeUncounted(c, result) ==
    /\ ctx' = [ctx EXCEPT ![c] = IF kind(c) = "open" THEN @ ELSE 0]
    /\ response' = [response EXCEPT ![c] = result]
    /\ Release(c)
    /\ pc' = [pc EXCEPT ![c] = IF kind(c) = "embed" \/ result = "err"
                                 THEN "reply" ELSE "record"]

(* As FinishDecode, but the one-shot context is not dropped.               *)
FinishDecodeKeepingContext(c, result) ==
    /\ response' = [response EXCEPT ![c] = result]
    /\ Release(c)
    /\ pc' = [pc EXCEPT ![c] = IF kind(c) = "embed" THEN "reply" ELSE "record"]
    /\ UNCHANGED ctx

(* The guard goes out of scope; a one-shot context was dropped before it.  *)
FinishDecode(c, result) ==
    /\ ctx' = [ctx EXCEPT ![c] = IF kind(c) = "open" THEN @ ELSE 0]
    /\ response' = [response EXCEPT ![c] = result]
    /\ Release(c)
    /\ pc' = [pc EXCEPT ![c] = IF kind(c) = "embed" THEN "reply" ELSE "record"]

StartDecode(c) ==
    LET id == sessions[path(c)] IN
    /\ Goto(c, "ready", "decoding")
    /\ kind(c) # "open"
    /\ ContextBytes(id) <= GpuFree
    /\ ctx' = [ctx EXCEPT ![c] = ContextBytes(id)]
    /\ UNCHANGED <<lock, req, registry, sessions, live, pinned, local, response,
                   turns, counters, history>>

(* The prompt is too long, or the context cannot be allocated.             *)
StartFails(c) ==
    /\ pc[c] = "ready"
    /\ kind(c) # "open"
    /\ FinishDecode(c, "err")
    /\ UNCHANGED <<req, registry, sessions, live, pinned, local, turns, counters,
                   history>>

(* The end of a generation, an embedding or a conversation's turn.         *)
EndDecode(c) ==
    /\ pc[c] = "decoding"
    /\ \E result \in {"ok", "err"} : FinishDecode(c, result)
    /\ UNCHANGED <<req, registry, sessions, live, pinned, local, turns, counters,
                   history>>

(* As RecordOutcome, but a failure also counts against the model.          *)
RecordOutcomeBoth(c) ==
    LET p == path(c) IN
    /\ stats' = Put(stats, p, (IF p \in DOMAIN stats THEN stats[p] ELSE 0) + 1)
    /\ IF response[c] = "ok"
         THEN served' = served + 1 /\ UNCHANGED failed
         ELSE failed' = failed + 1 /\ UNCHANGED served

(* SharedState::record_outcome: entry(path).or_default() on success.       *)
RecordOutcome(c) ==
    LET p == path(c) IN
    IF response[c] = "ok"
      THEN /\ served' = served + 1
           /\ stats' = Put(stats, p, (IF p \in DOMAIN stats THEN stats[p] ELSE 0) + 1)
           /\ UNCHANGED failed
      ELSE failed' = failed + 1 /\ UNCHANGED <<served, stats>>

(* The second locking, after the generation or turn has unlocked.          *)
Record(c) ==
    /\ Goto(c, "record", "reply")
    /\ Momentary
    /\ RecordOutcome(c)
    /\ UNCHANGED <<req, registry, sessions, memory, pinned, local, response,
                   turns, history>>

(* The reply is written, or the write fails and the connection ends.       *)
Reply(c) ==
    /\ pc[c] = "reply"
    /\ \E next \in IF kind(c) = "open" THEN {"idle", "closing"} ELSE {"closed"} :
         pc' = [pc EXCEPT ![c] = next]
    /\ response' = [response EXCEPT ![c] = None]
    /\ replied' = IF kind(c) = "embed" THEN replied ELSE replied + 1
    /\ UNCHANGED <<lock, req, registry, sessions, memory, pinned, local, turns,
                   counters, hibernated>>

---------------------------------------------------------------------------
(* handle_conversation                                                     *)

(* As PinSession, but the Arc is not cloned before the lock is released.   *)
PinSessionUncounted(c) ==
    /\ pinned' = [pinned EXCEPT ![c] = sessions[path(c)]]
    /\ UNCHANGED live

(* Arc::clone of the map's session.                                        *)
PinSession(c) ==
    /\ pinned' = [pinned EXCEPT ![c] = sessions[path(c)]]
    /\ live' = [live EXCEPT ![sessions[path(c)]].arcs = @ + 1]

Pin(c) ==
    /\ Goto(c, "ready", "opening")
    /\ kind(c) = "open"
    /\ Release(c)
    /\ PinSession(c)
    /\ UNCHANGED <<req, registry, sessions, ctx, local, response, turns,
                   counters, history>>

(* open_conversation or open_conversation_from_state, without the lock.    *)
OpenContext(c) ==
    /\ Goto(c, "opening", "idle")
    /\ ContextBytes(pinned[c]) <= GpuFree
    /\ ctx' = [ctx EXCEPT ![c] = ContextBytes(pinned[c])]
    /\ UNCHANGED <<lock, req, registry, sessions, live, pinned, local, response,
                   turns, counters, history>>

(* No device memory, n_ctx = 0, a snapshot of another model, a bad file;   *)
(* or the context opened but Opened could not be written.                  *)
OpenFails(c) ==
    /\ Goto(c, "opening", "closing")
    /\ UNCHANGED <<lock, req, registry, sessions, memory, pinned, local, response,
                   turns, counters, history>>

(* The client sends a turn.                                                *)
SendTurn(c) ==
    /\ turns[c] < MaxTurns
    /\ Goto(c, "idle", "turn")
    /\ turns' = [turns EXCEPT ![c] = @ + 1]
    /\ UNCHANGED <<lock, req, registry, sessions, memory, pinned, local, response,
                   counters, history>>

(* As StartTurn, but the turn does not wait for the lock.                  *)
StartTurnUnlocked(c) ==
    /\ Goto(c, "turn", "decoding")
    /\ UNCHANGED <<lock, req, registry, sessions, memory, pinned, local, response,
                   turns, counters, history>>

(* run_conversation_turn locks; EndDecode ends it.                         *)
StartTurn(c) ==
    /\ Goto(c, "turn", "decoding")
    /\ Acquire(c)
    /\ UNCHANGED <<req, registry, sessions, memory, pinned, local, response,
                   turns, counters, history>>

(* The client asks for a snapshot.                                         *)
SendSnapshot(c) ==
    /\ Goto(c, "idle", "saving")
    /\ UNCHANGED <<lock, req, registry, sessions, memory, pinned, local, response,
                   turns, counters, history>>

(* As SaveState, but the context is kept until the function returns.       *)
SaveStateKeepingContext(c) ==
    /\ Goto(c, "saving", "saved")
    /\ UNCHANGED ctx

(* save_state succeeded: conversation = None frees the context at once.    *)
SaveState(c) ==
    /\ Goto(c, "saving", "saved")
    /\ ctx' = [ctx EXCEPT ![c] = 0]

Save(c) ==
    /\ SaveState(c)
    /\ UNCHANGED <<lock, req, registry, sessions, live, pinned, local, response,
                   turns, counters, history>>

(* A failed snapshot is answered Err and leaves the conversation open      *)
(* (unless that answer cannot be written).                                 *)
SaveFails(c) ==
    /\ \E next \in {"idle", "closing"} : Goto(c, "saving", next)
    /\ UNCHANGED <<lock, req, registry, sessions, memory, pinned, local, response,
                   turns, counters, history>>

(* Snapshotted is written or not, and the function returns.                *)
ReplySnapshotted(c) ==
    /\ Goto(c, "saved", "closing")
    /\ hibernated' \in {hibernated, hibernated \cup {c}}
    /\ UNCHANGED <<lock, req, registry, sessions, memory, pinned, local, response,
                   turns, counters, replied>>

(* End of file: the client hung up.                                        *)
HangUp(c) ==
    /\ Goto(c, "idle", "closing")
    /\ UNCHANGED <<lock, req, registry, sessions, memory, pinned, local, response,
                   turns, counters, history>>

(* The thread's locals go: the conversation first, then the session's Arc. *)
DropConversation(c) ==
    /\ Goto(c, "closing", "unpin")
    /\ ctx' = [ctx EXCEPT ![c] = 0]
    /\ UNCHANGED <<lock, req, registry, sessions, live, pinned, local, response,
                   turns, counters, history>>

(* As Unpin, but the Arc is forgotten rather than dropped.                 *)
UnpinKeepingArc(c) ==
    /\ Goto(c, "unpin", "closed")
    /\ pinned' = [pinned EXCEPT ![c] = None]
    /\ UNCHANGED <<lock, req, registry, sessions, memory, local, response, turns,
                   counters, history>>

Unpin(c) ==
    /\ Goto(c, "unpin", "closed")
    /\ live' = DropArc(pinned[c])
    /\ pinned' = [pinned EXCEPT ![c] = None]
    /\ UNCHANGED <<lock, req, registry, sessions, ctx, local, response, turns,
                   counters, history>>

---------------------------------------------------------------------------
(* Whatever the client does on its side of the socket.                     *)
Client(c) ==
    \/ ReadRequest(c) \/ Status(c) \/ Unreadable(c)
    \/ SendTurn(c) \/ SendSnapshot(c) \/ HangUp(c)

(* The daemon's own steps for a connection.                                *)
Serve(c) ==
    \/ Enter(c) \/ EnsureHit(c) \/ EnsureMiss(c)
    \/ RoomFor(c) \/ Evict(c, "evict", "room")
    \/ DeviceRoomBesides(c) \/ Evict(c, "context_evict", "context_room")
    \/ MapModel(c) \/ MapFails(c) \/ LoadWeights(c) \/ LoadFails(c) \/ RecordDevice(c)
    \/ StartDecode(c) \/ StartFails(c) \/ EndDecode(c) \/ Record(c) \/ Reply(c)
    \/ Pin(c) \/ OpenContext(c) \/ OpenFails(c) \/ StartTurn(c)
    \/ Save(c) \/ SaveFails(c) \/ ReplySnapshotted(c)
    \/ DropConversation(c) \/ Unpin(c)

(* Nothing is left to do but to accept connections.                        *)
Listening == (\A c \in Conn : pc[c] = "closed") /\ UNCHANGED vars

Next == (\E c \in Conn : Client(c) \/ Serve(c)) \/ Listening

Spec == Init /\ [][Next]_vars

(* The operating system runs every thread; clients may do nothing for ever.*)
FairSpec == Spec /\ \A c \in Conn : WF_vars(Serve(c))

---------------------------------------------------------------------------
(* Properties                                                              *)

PCs == {"new", "wait", "ensure", "room", "evict", "map", "weights", "measure",
        "context_room", "context_evict", "ready", "decoding", "record", "reply",
        "opening", "idle", "turn", "saving", "saved", "closing", "unpin", "closed"}

(* Every variable has its type; a session object has at least one Arc, and *)
(* weights and contexts together fit the device.                           *)
TypeOK ==
    /\ lock \in Conn \cup {None}
    /\ pc \in [Conn -> PCs]
    /\ \A c \in Conn : req[c] # None => kind(c) \in Kinds /\ path(c) \in Path
    /\ \A id \in DOMAIN device : device[id] = None \/ device[id] \in Nat
    /\ \A id \in DOMAIN live : live[id].arcs \in Nat \ {0} /\ live[id].weights \in Nat
    /\ ctx \in [Conn -> {0, Context}]
    /\ GpuFree \in Nat
    /\ served \in Nat /\ failed \in Nat /\ replied \in Nat

(* A victim the eviction loops chose is still theirs to evict when the     *)
(* registry is asked: SwapRegistry::evict never answers HandleOutstanding, *)
(* so a conversation on one model cannot make a request for another fail.  *)
EvictionNeverRefused ==
    \A c \in Conn : pc[c] \in {"evict", "context_evict"} =>
        /\ local \in DOMAIN tables.resident
        /\ local \in DOMAIN live /\ live[local].arcs = 1

(* A conversation's model stays the one the daemon serves under that path: *)
(* it is neither evicted nor loaded a second time next to it.              *)
ConversationKeepsModel ==
    \A c \in Conn : pinned[c] # None =>
        /\ pinned[c] \in DOMAIN live
        /\ path(c) \in DOMAIN sessions
        /\ sessions[path(c)] = pinned[c]

(* Arc::strong_count(session) > 1 means what the eviction loops take it    *)
(* for: a conversation holds the model, and never one that has ended.      *)
ArcsCountConversations ==
    \A p \in DOMAIN sessions :
        live[sessions[p]].arcs = 1 + Cardinality({c \in Conn : pinned[c] = sessions[p]})

(* A decode runs alone, on a model that is loaded and still resident.      *)
DecodeIsAlone ==
    \A c \in Conn : pc[c] = "decoding" =>
        /\ path(c) \in DOMAIN sessions
        /\ sessions[path(c)] \in DOMAIN tables.resident
        /\ \A d \in Conn \ {c} : pc[d] \notin {"decoding", "evict", "context_evict",
                                               "weights", "measure"}

(* sessions is a view of the registry: every session's model is resident   *)
(* under the same path, and every session object is in the map.            *)
SessionsAreResident ==
    /\ \A p \in DOMAIN sessions :
        /\ p \in DOMAIN tables.by_path
        /\ tables.by_path[p] = sessions[p]
        /\ sessions[p] \in DOMAIN live
    /\ \A id \in DOMAIN live :
        \/ \E p \in DOMAIN sessions : sessions[p] = id
        \/ \E c \in Conn : pc[c] = "measure" /\ tables.by_path[path(c)] = id

(* A client that has read Snapshotted can rely on its context's device     *)
(* memory being free already.                                              *)
SnapshottedMeansFreed == \A c \in hibernated : ctx[c] = 0

(* An idle daemon's device holds exactly the weights of its sessions: no   *)
(* context outlives its request or conversation.                           *)
NoContextLeaks ==
    \A c \in Conn : ctx[c] # 0 =>
        pc[c] \in {"decoding", "idle", "turn", "record", "reply", "saving", "closing"}

(* Every generation and turn is counted once, and before its reply: a      *)
(* client that has its answer finds it in the next Status.                 *)
CountedBeforeReply ==
    served + failed =
        replied + Cardinality({c \in Conn : pc[c] = "reply" /\ kind(c) # "embed"})

(* What Status reports per model never adds up to more than the total.     *)
ModelsWithinTotal == Total(stats) <= served

(* Whatever a client asked of the daemon is answered or the connection is  *)
(* closed, even if other clients keep idle conversations open for ever.    *)
EveryRequestEnds ==
    \A c \in Conn : (pc[c] \in {"wait", "turn", "saving"}) ~> (pc[c] \in {"idle", "closed"})

---------------------------------------------------------------------------
(* What the comments promise and the code does not do                      *)

(* SharedState.model_stats: "keyed the same way `sessions` is and with the *)
(* same lifetime ... these describe the model's *current* residency".      *)
StatsOnlyOfSessions == DOMAIN stats \subseteq DOMAIN sessions

(* make_room_for, where it gives up under host pressure: "either nothing's *)
(* resident, everything resident is pinned by a live conversation".        *)
GivesUpOnlyIfPinned ==
    \A c \in Conn, free \in HostFree :
        (pc[c] = "room" /\ ~HostFits(free, Size[path(c)]) /\ Evictable(FALSE, {}) = {})
          => \A id \in DOMAIN tables.resident : id \in DOMAIN live /\ live[id].arcs > 1

===========================================================================

------------------------ MODULE RampipedMemoryProofs ------------------------
(***************************************************************************)
(* Proofs about the sums of Rampiped: what is allocated on the device, and *)
(* what was served per model.  They hold for every device, every size of   *)
(* model and of context, and every finite set of connections.              *)
(*                                                                         *)
(* The device's free memory is what its total leaves after the weights of  *)
(* every session object and the contexts of every thread.  Whoever takes   *)
(* some looks at what is free before (a context is only opened if it fits, *)
(* auto-fitting puts only as much weight on the device as fits), and       *)
(* between the look and the taking nobody else takes any, since both are   *)
(* one step: that is the allocator, not rampiped.  What the proof adds is  *)
(* that everybody else's steps give back no more than was taken: a session *)
(* object goes with the weights it was loaded with, no session is loaded   *)
(* over another one without its weights being counted, and an Arc that is  *)
(* cloned or dropped changes no sum.  It rests on IInv of RampipedProofs,  *)
(* which says that the session a loop evicts is there and has one Arc.     *)
(***************************************************************************)
EXTENDS RampipedProofs, FiniteSums

(* The weights every session object has on the device.                     *)
Weights == [id \in DOMAIN live |-> live[id].weights]

(* What is allocated on the device is finite and fits.                     *)
Allocated ==
    /\ IsFiniteSet(DOMAIN live)
    /\ \A id \in DOMAIN live : "weights" \in DOMAIN live[id] /\ live[id].weights \in Nat
    /\ ctx \in [Conn -> {0, Context}]
    /\ GpuFree \in Nat

(* The registry's device bytes are numbers, and so is what the thread that *)
(* loads a model measured before it did.                                   *)
Measured ==
    /\ \A id \in DOMAIN device : device[id] = None \/ device[id] \in Nat
    /\ \A c \in Conn : pc[c] \in {"weights", "measure"} => local \in Nat

(* A thread that was asked for something was asked for a model.            *)
Asked ==
    /\ lock \in Conn \cup {None}
    /\ \A c \in Conn :
        /\ req[c] # None => kind(c) \in Kinds /\ path(c) \in Path
        /\ pc[c] \notin {"new", "closed"} => path(c) \in Path

(* The counters per model.                                                 *)
PerModel ==
    /\ IsFiniteSet(DOMAIN stats)
    /\ \A p \in DOMAIN stats : stats[p] \in Nat
    /\ ModelsWithinTotal

(* What IInv leaves out.                                                   *)
SumsHold == Allocated /\ Measured /\ Asked /\ PerModel

---------------------------------------------------------------------------
(* How each kind of step changes the sums                                  *)

(* The model's folds are the sums the lemmas of FiniteSums are about.      *)
LEMMA FreeIs ==
    /\ GpuFree = GpuTotal - SumOf(Weights) - SumOf(ctx)
    /\ GpuFree' = GpuTotal - SumOf(Weights') - SumOf(ctx')
<1>1. \A f : Total(f) = SumOf(f)
  BY FoldIsSum DEF Total
<1>2. GpuFree = GpuTotal - Total(Weights) - Total(ctx)
  BY DEF GpuFree, Weights
<1>3. GpuFree' = GpuTotal - Total(Weights') - Total(ctx')
  BY DEF GpuFree, Weights
<1> QED BY <1>1, <1>2, <1>3

(* What is allocated are numbers.                                          *)
LEMMA AllocatedAre ==
    ASSUME Allocated
    PROVE  /\ GpuTotal \in Nat /\ Context \in Nat /\ GpuFree \in Nat
           /\ IsFiniteSet(DOMAIN Weights) /\ DOMAIN Weights = DOMAIN live
           /\ \A id \in DOMAIN Weights : Weights[id] \in Nat /\ Weights[id] = live[id].weights
           /\ DOMAIN ctx = Conn /\ IsFiniteSet(DOMAIN ctx)
           /\ \A c \in DOMAIN ctx : ctx[c] \in Nat
           /\ SumOf(Weights) \in Nat /\ SumOf(ctx) \in Nat
<1>1. /\ GpuTotal \in Nat /\ Context \in Nat /\ GpuFree \in Nat
      /\ DOMAIN ctx = Conn /\ IsFiniteSet(DOMAIN ctx)
      /\ \A c \in DOMAIN ctx : ctx[c] \in Nat
  BY SizeAssumption, ConnAssumption DEF Allocated
<1>2. /\ IsFiniteSet(DOMAIN Weights) /\ DOMAIN Weights = DOMAIN live
      /\ \A id \in DOMAIN Weights : Weights[id] \in Nat /\ Weights[id] = live[id].weights
  BY DEF Allocated, Weights
<1>3. SumOf(Weights) \in Nat
  BY <1>2, SumIsNat
<1>4. SumOf(ctx) \in Nat
  BY <1>1, SumIsNat
<1> QED BY <1>1, <1>2, <1>3, <1>4

(* Nothing is taken or given back.                                         *)
LEMMA NothingTaken ==
    ASSUME Allocated, UNCHANGED <<live, ctx>>
    PROVE  Allocated' /\ GpuFree' = GpuFree
<1>1. Weights' = Weights
  BY DEF Weights
<1>2. GpuFree' = GpuFree
  BY <1>1, FreeIs
<1> QED BY <1>2 DEF Allocated

(* A context is opened where it fits, or freed.                            *)
LEMMA ContextChanges ==
    ASSUME Allocated, NEW c \in Conn, NEW v \in {0, Context}, v <= GpuFree,
           ctx' = [ctx EXCEPT ![c] = v], UNCHANGED live
    PROVE  Allocated'
<1>1. Weights' = Weights
  BY DEF Weights
<1>2. /\ ctx' \in [Conn -> {0, Context}] /\ ctx'[c] = v /\ v \in Nat
      /\ DOMAIN ctx' = DOMAIN ctx \cup {c} /\ c \in DOMAIN ctx
      /\ \A d \in DOMAIN ctx \ {c} : ctx'[d] = ctx[d]
  <2>1. ctx \in [Conn -> {0, Context}] /\ Context \in Nat
    BY AllocatedAre DEF Allocated
  <2> QED BY <2>1
<1>3. SumOf(ctx') \in Nat /\ SumOf(ctx') + ctx[c] = SumOf(ctx) + v
  BY <1>2, AllocatedAre, SumPut
<1>4. GpuFree' \in Nat
  BY <1>1, <1>2, <1>3, FreeIs, AllocatedAre
<1> QED BY <1>2, <1>4 DEF Allocated

(* An Arc is cloned, or one of several is dropped.                         *)
LEMMA ArcsChange ==
    ASSUME Allocated, NEW id, NEW n, live' = [live EXCEPT ![id].arcs = n], UNCHANGED ctx
    PROVE  Allocated'
<1>1. /\ DOMAIN live' = DOMAIN live
      /\ \A i \in DOMAIN live : /\ "weights" \in DOMAIN live'[i]
                                /\ live'[i].weights = live[i].weights
  BY DEF Allocated
<1>2. Weights' = Weights
  BY <1>1 DEF Weights
<1>3. GpuFree' = GpuFree
  BY <1>2, FreeIs
<1> QED BY <1>1, <1>3 DEF Allocated

(* A session is loaded with as much on the device as fits, or with less;   *)
(* had it replaced another under its id, that one's weights would go.      *)
LEMMA SessionLoaded ==
    ASSUME Allocated, NEW id, NEW w \in Nat, w <= GpuFree,
           live' = Put(live, id, [arcs |-> 1, weights |-> w]), UNCHANGED ctx
    PROVE  Allocated'
<1>1. /\ DOMAIN live' = DOMAIN live \cup {id} /\ live'[id] = [arcs |-> 1, weights |-> w]
      /\ \A i \in DOMAIN live \ {id} : live'[i] = live[i]
  BY DEF Put
<1>2. \A i \in DOMAIN live' : "weights" \in DOMAIN live'[i] /\ live'[i].weights \in Nat
  BY <1>1 DEF Allocated
<1>3. /\ DOMAIN Weights' = DOMAIN Weights \cup {id} /\ Weights'[id] = w
      /\ \A i \in DOMAIN Weights \ {id} : Weights'[i] = Weights[i]
  BY <1>1 DEF Weights
<1>4. /\ IsFiniteSet(DOMAIN Weights') /\ SumOf(Weights') \in Nat
      /\ SumOf(Weights') + (IF id \in DOMAIN Weights THEN Weights[id] ELSE 0)
           = SumOf(Weights) + w
  BY <1>3, AllocatedAre, SumPut
<1>5. SumOf(Weights') <= SumOf(Weights) + w
  BY <1>4, AllocatedAre
<1>6. GpuFree' \in Nat
  BY <1>4, <1>5, FreeIs, AllocatedAre
<1>7. IsFiniteSet(DOMAIN live')
  BY <1>4 DEF Weights
<1> QED BY <1>2, <1>6, <1>7 DEF Allocated

(* The last Arc of a session is dropped, and its weights with it.          *)
LEMMA SessionDropped ==
    ASSUME Allocated, NEW id, live' = Without(live, id), UNCHANGED ctx
    PROVE  Allocated'
<1>1. /\ DOMAIN live' = DOMAIN live \ {id}
      /\ \A i \in DOMAIN live' : live'[i] = live[i]
  BY DEF Without, Restrict
<1>2. \A i \in DOMAIN live' : "weights" \in DOMAIN live'[i] /\ live'[i].weights \in Nat
  BY <1>1 DEF Allocated
<1>3. /\ DOMAIN Weights' = DOMAIN Weights \ {id}
      /\ \A i \in DOMAIN Weights' : Weights'[i] = Weights[i]
  BY <1>1 DEF Weights
<1>4. /\ IsFiniteSet(DOMAIN Weights') /\ SumOf(Weights') \in Nat
      /\ SumOf(Weights) = SumOf(Weights') + (IF id \in DOMAIN Weights THEN Weights[id] ELSE 0)
  BY <1>3, AllocatedAre, SumRemoved
<1>5. SumOf(Weights') <= SumOf(Weights)
  BY <1>4, AllocatedAre
<1>6. GpuFree' \in Nat
  BY <1>4, <1>5, FreeIs, AllocatedAre
<1>7. IsFiniteSet(DOMAIN live')
  BY <1>4 DEF Weights
<1> QED BY <1>2, <1>6, <1>7 DEF Allocated

---------------------------------------------------------------------------
(* The device's memory                                                     *)

(* The session that an eviction loop drops is there and has one Arc, so    *)
(* dropping that Arc frees its weights.                                    *)
LEMMA VictimIsFreed ==
    ASSUME IInv, NEW c \in Conn, pc[c] \in {"evict", "context_evict"}, EvictVictim(local)
    PROVE  live' = Without(live, local) /\ \E p : stats' = Without(stats, p)
<1>1. PICK p \in DOMAIN sessions : sessions[p] = local
  BY DEF IInv, Models, InHand
<1>2. local \in DOMAIN live /\ live[local].arcs = 1
  BY <1>1 DEF IInv, Models, InHand, SessionsAreResident
<1>3. live' = DropArc(local) /\ \E q : stats' = Without(stats, q)
  BY DEF EvictVictim
<1> QED BY <1>2, <1>3 DEF DropArc

(* Every step keeps what is allocated within the device.                   *)
LEMMA AllocatedStep ==
    ASSUME IInv, SumsHold, NEW c \in Conn, Client(c) \/ Serve(c)
    PROVE  Allocated'
<1>0. Allocated
  BY DEF SumsHold
<1>1. CASE \/ Client(c) \/ Enter(c) \/ EnsureHit(c) \/ EnsureMiss(c) \/ RoomFor(c)
           \/ DeviceRoomBesides(c) \/ MapModel(c) \/ MapFails(c) \/ LoadFails(c)
           \/ RecordDevice(c)
  <2>1. UNCHANGED <<live, ctx>>
    BY <1>1 DEF Client, ReadRequest, Status, Unreadable, SendTurn, SendSnapshot, HangUp,
                Enter, EnsureHit, EnsureMiss, RoomFor, DeviceRoomBesides, MapModel,
                MapFails, LoadFails, RecordDevice, memory
  <2> QED BY <1>0, <2>1, NothingTaken
<1>2. CASE \/ Record(c) \/ Reply(c) \/ OpenFails(c) \/ StartTurn(c) \/ SaveFails(c)
           \/ ReplySnapshotted(c)
  <2>1. UNCHANGED <<live, ctx>>
    BY <1>2 DEF Record, Reply, OpenFails, StartTurn, SaveFails, ReplySnapshotted, memory
  <2> QED BY <1>0, <2>1, NothingTaken
<1>3. CASE StartDecode(c) \/ OpenContext(c)
  <2>1. PICK id : /\ ContextBytes(id) <= GpuFree /\ live' = live
                  /\ ctx' = [ctx EXCEPT ![c] = ContextBytes(id)]
    BY <1>3 DEF StartDecode, OpenContext
  <2>2. ContextBytes(id) \in {0, Context}
    BY DEF ContextBytes
  <2> QED BY <1>0, <2>1, <2>2, ContextChanges
<1>4. CASE StartFails(c) \/ EndDecode(c) \/ Save(c) \/ DropConversation(c)
  <2>1. live' = live /\ (ctx' = ctx \/ ctx' = [ctx EXCEPT ![c] = 0])
    <3>1. CASE StartFails(c) \/ EndDecode(c)
      <4>1. /\ live' = live
            /\ ctx' = [ctx EXCEPT ![c] = IF kind(c) = "open" THEN ctx[c] ELSE 0]
        BY <3>1 DEF StartFails, EndDecode, FinishDecode
      <4>2. [ctx EXCEPT ![c] = ctx[c]] = ctx
        BY <1>0 DEF Allocated
      <4> QED BY <4>1, <4>2
    <3>2. CASE Save(c) \/ DropConversation(c)
      BY <3>2 DEF Save, SaveState, DropConversation
    <3> QED BY <1>4, <3>1, <3>2
  <2>2. 0 <= GpuFree
    BY <1>0 DEF Allocated
  <2> QED BY <1>0, <2>1, <2>2, NothingTaken, ContextChanges
<1>5. CASE LoadWeights(c)
  <2>1. PICK w \in {0, IF Size[path(c)] <= GpuFree THEN Size[path(c)] ELSE GpuFree} :
              live' = Put(live, tables.by_path[path(c)], [arcs |-> 1, weights |-> w])
    BY <1>5 DEF LoadWeights
  <2>2. ctx' = ctx /\ path(c) \in Path
    BY <1>5 DEF LoadWeights, Goto, SumsHold, Asked
  <2>3. Size[path(c)] \in Nat /\ GpuFree \in Nat
    BY <1>0, <2>2, SizeAssumption DEF Allocated
  <2>4. w \in Nat /\ w <= GpuFree
    BY <2>1, <2>3
  <2> QED BY <1>0, <2>1, <2>2, <2>4, SessionLoaded
<1>6. CASE Evict(c, "evict", "room") \/ Evict(c, "context_evict", "context_room")
  <2>1. pc[c] \in {"evict", "context_evict"} /\ EvictVictim(local) /\ ctx' = ctx
    BY <1>6 DEF Evict
  <2>2. live' = Without(live, local)
    BY <2>1, VictimIsFreed
  <2> QED BY <1>0, <2>1, <2>2, SessionDropped
<1>7. CASE Pin(c)
  <2>1. /\ ctx' = ctx
        /\ live' = [live EXCEPT ![sessions[path(c)]].arcs = live[sessions[path(c)]].arcs + 1]
    BY <1>7 DEF Pin, PinSession
  <2> QED BY <1>0, <2>1, ArcsChange
<1>8. CASE Unpin(c)
  <2>1. ctx' = ctx /\ live' = DropArc(pinned[c])
    BY <1>8 DEF Unpin
  <2>2. \/ live' = Without(live, pinned[c])
        \/ live' = [live EXCEPT ![pinned[c]].arcs = live[pinned[c]].arcs - 1]
    BY <2>1 DEF DropArc
  <2> QED BY <1>0, <2>1, <2>2, SessionDropped, ArcsChange
<1> QED BY <1>1, <1>2, <1>3, <1>4, <1>5, <1>6, <1>7, <1>8 DEF Serve

---------------------------------------------------------------------------
(* What was measured and what was asked for                                *)

(* Every step keeps Measured: only the thread that holds the lock changes  *)
(* local, and it sets it to what it measures before it loads.              *)
LEMMA MeasuredStep ==
    ASSUME IInv, SumsHold, NEW c \in Conn, Client(c) \/ Serve(c)
    PROVE  Measured'
<1> USE DEF SumsHold, Measured
<1>0. /\ GpuFree \in Nat /\ pc \in [Conn -> PCs]
      /\ \A d \in Conn \ {c} : pc'[d] = pc[d]
      /\ pc[c] \in Inside => \A d \in Conn \ {c} : pc[d] \notin Inside
  BY OneThreadMoves DEF Allocated, IInv, Threads, Shape, Locked
<1>a. pc[c] \in Inside /\ EnsureFailed(c) => pc'[c] \in {"record", "reply", "closed"}
  BY DEF EnsureFailed, IInv, Threads, Shape, Requested
<1>1. CASE MapModel(c)
  <2>1. local' = GpuFree /\ pc[c] \in Inside
    BY <1>1 DEF MapModel, Goto, Inside
  <2>2. \A id \in DOMAIN device' : device'[id] = None \/ device'[id] \in Nat
    BY <1>1 DEF MapModel, Put
  <2> QED BY <1>0, <2>1, <2>2
<1>2. CASE RecordDevice(c)
  <2>1. /\ pc[c] = "measure" /\ pc[c] \in Inside /\ pc'[c] = "ready"
    BY <1>0, <1>2 DEF RecordDevice, Goto, Inside
  <2>2. local \in Nat
    BY <2>1
  <2> DEFINE used == IF local > GpuFree THEN local - GpuFree ELSE 0
  <2>3. used \in Nat
    BY <1>0, <2>2
  <2> HIDE DEF used
  <2>4. device' = device \/ \E id : device' = [device EXCEPT ![id] = used]
    BY <1>2 DEF RecordDevice, used
  <2>5. \A id \in DOMAIN device' : device'[id] = None \/ device'[id] \in Nat
    BY <2>3, <2>4
  <2> QED BY <1>0, <2>1, <2>5 DEF Inside
<1>3. CASE Evict(c, "evict", "room") \/ Evict(c, "context_evict", "context_room")
  <2>1. /\ pc[c] \in Inside /\ pc'[c] \notin {"weights", "measure"}
        /\ device' = device \/ device' = Without(device, local)
    <3>1. pc[c] \in {"evict", "context_evict"} /\ pc[c] \in Inside
      BY <1>3 DEF Evict, Inside
    <3>2. CASE local \in DOMAIN live'
      BY <1>3, <1>a, <3>1, <3>2 DEF Evict, registry
    <3>3. CASE local \notin DOMAIN live'
      BY <1>0, <1>3, <3>1, <3>3 DEF Evict, Goto
    <3> QED BY <3>1, <3>2, <3>3
  <2>2. \A id \in DOMAIN device' : device'[id] = None \/ device'[id] \in Nat
    BY <2>1 DEF Without, Restrict
  <2> QED BY <1>0, <2>1, <2>2 DEF Inside
<1>4. CASE LoadWeights(c)
  BY <1>0, <1>4 DEF LoadWeights, Goto, registry
<1>5. CASE RoomFor(c) \/ DeviceRoomBesides(c)
  <2>1. pc[c] \in Inside /\ pc'[c] \notin {"weights", "measure"} /\ device' = device
    BY <1>0, <1>5 DEF RoomFor, DeviceRoomBesides, PickOr, Goto, Inside, registry
  <2> QED BY <1>0, <2>1 DEF Inside
<1>6. CASE MapFails(c) \/ LoadFails(c)
  <2>1. pc[c] \in Inside /\ pc'[c] \notin {"weights", "measure"} /\ device' = device
    <3>1. pc[c] \in {"map", "weights"} /\ EnsureFailed(c) /\ device' = device
      BY <1>6 DEF MapFails, LoadFails, registry
    <3> QED BY <1>a, <3>1 DEF Inside
  <2> QED BY <1>0, <2>1 DEF Inside
<1>7. CASE Client(c)
  <2>1. UNCHANGED <<device, local>> /\ pc'[c] \notin {"weights", "measure"}
    BY <1>0, <1>7 DEF Client, ReadRequest, Status, Unreadable, SendTurn, SendSnapshot,
                      HangUp, Goto, registry
  <2> QED BY <1>0, <2>1
<1>8. CASE \/ Enter(c) \/ EnsureHit(c) \/ EnsureMiss(c) \/ StartDecode(c) \/ StartFails(c)
           \/ EndDecode(c) \/ Record(c) \/ Reply(c)
  <2>1. UNCHANGED <<device, local>> /\ pc'[c] \notin {"weights", "measure"}
    BY <1>0, <1>8 DEF Enter, EnsureHit, EnsureMiss, StartDecode, StartFails, EndDecode,
                      FinishDecode, Record, Reply, Goto, registry
  <2> QED BY <1>0, <2>1
<1>9. CASE \/ Pin(c) \/ OpenContext(c) \/ OpenFails(c) \/ StartTurn(c) \/ Save(c)
           \/ SaveFails(c) \/ ReplySnapshotted(c) \/ DropConversation(c) \/ Unpin(c)
  <2>1. UNCHANGED <<device, local>> /\ pc'[c] \notin {"weights", "measure"}
    BY <1>0, <1>9 DEF Pin, OpenContext, OpenFails, StartTurn, Save, SaveState, SaveFails,
                      ReplySnapshotted, DropConversation, Unpin, Goto, registry
  <2> QED BY <1>0, <2>1
<1> QED BY <1>1, <1>2, <1>3, <1>4, <1>5, <1>6, <1>7, <1>8, <1>9 DEF Serve

(* Every step keeps Asked.                                                 *)
LEMMA AskedStep ==
    ASSUME IInv, SumsHold, NEW c \in Conn, Client(c) \/ Serve(c)
    PROVE  Asked'
<1> USE DEF SumsHold, Asked
<1>0. /\ pc \in [Conn -> PCs] /\ DOMAIN req = Conn
      /\ \A d \in Conn \ {c} : pc'[d] = pc[d] /\ req'[d] = req[d]
  BY OneThreadMoves DEF IInv, Threads, Shape
<1>1. CASE ReadRequest(c)
  <2>1. PICK k \in Kinds, p \in Path : req' = [req EXCEPT ![c] = [kind |-> k, path |-> p]]
    BY <1>1 DEF ReadRequest
  <2>2. lock' = lock
    BY <1>1 DEF ReadRequest
  <2>3. req'[c].kind = k /\ req'[c].path = p
    BY <1>0, <2>1
  <2> QED BY <1>0, <2>2, <2>3 DEF kind, path
<1>2. CASE ~ReadRequest(c)
  <2>1. req' = req /\ lock' \in {lock, None, c}
    <3>1. CASE Client(c)
      BY <1>2, <3>1 DEF Client, Status, Unreadable, SendTurn, SendSnapshot, HangUp, Momentary
    <3>2. CASE \/ Evict(c, "evict", "room") \/ Evict(c, "context_evict", "context_room")
               \/ MapFails(c) \/ LoadFails(c) \/ RoomFor(c) \/ DeviceRoomBesides(c)
      BY <3>2 DEF Evict, MapFails, LoadFails, EnsureFailed, RoomFor, DeviceRoomBesides,
                  Release
    <3>3. CASE \/ Enter(c) \/ EnsureHit(c) \/ EnsureMiss(c) \/ MapModel(c) \/ LoadWeights(c)
               \/ RecordDevice(c) \/ StartDecode(c) \/ StartFails(c) \/ EndDecode(c)
               \/ Record(c) \/ Reply(c)
      BY <3>3 DEF Enter, Acquire, EnsureHit, EnsureMiss, MapModel, LoadWeights,
                  RecordDevice, StartDecode, StartFails, EndDecode, FinishDecode, Release,
                  Record, Momentary, Reply
    <3>4. CASE \/ Pin(c) \/ OpenContext(c) \/ OpenFails(c) \/ StartTurn(c) \/ Save(c)
               \/ SaveFails(c) \/ ReplySnapshotted(c) \/ DropConversation(c) \/ Unpin(c)
      BY <3>4 DEF Pin, Release, OpenContext, OpenFails, StartTurn, Acquire, Save, SaveFails,
                  ReplySnapshotted, DropConversation, Unpin
    <3> QED BY <3>1, <3>2, <3>3, <3>4 DEF Serve
  <2>2. pc[c] \in {"new", "closed"} => pc'[c] \in {"new", "closed"}
    <3>1. CASE Client(c)
      BY <1>0, <1>2, <3>1 DEF Client, Status, Unreadable, SendTurn, SendSnapshot, HangUp, Goto
    <3>2. CASE \/ Evict(c, "evict", "room") \/ Evict(c, "context_evict", "context_room")
               \/ MapFails(c) \/ LoadFails(c) \/ RoomFor(c) \/ DeviceRoomBesides(c)
      BY <3>2 DEF Evict, MapFails, LoadFails, RoomFor, DeviceRoomBesides
    <3>3. CASE \/ Enter(c) \/ EnsureHit(c) \/ EnsureMiss(c) \/ MapModel(c) \/ LoadWeights(c)
               \/ RecordDevice(c) \/ StartDecode(c) \/ StartFails(c) \/ EndDecode(c)
               \/ Record(c) \/ Reply(c)
      BY <3>3 DEF Enter, EnsureHit, EnsureMiss, MapModel, LoadWeights, RecordDevice,
                  StartDecode, StartFails, EndDecode, Record, Reply, Goto
    <3>4. CASE \/ Pin(c) \/ OpenContext(c) \/ OpenFails(c) \/ StartTurn(c) \/ Save(c)
               \/ SaveFails(c) \/ ReplySnapshotted(c) \/ DropConversation(c) \/ Unpin(c)
      BY <3>4 DEF Pin, OpenContext, OpenFails, StartTurn, Save, SaveState, SaveFails,
                  ReplySnapshotted, DropConversation, Unpin, Goto
    <3> QED BY <3>1, <3>2, <3>3, <3>4 DEF Serve
  <2> QED BY <1>0, <2>1, <2>2 DEF kind, path
<1> QED BY <1>1, <1>2

---------------------------------------------------------------------------
(* The counters per model                                                  *)

(* The sum over the models, as a sum of FiniteSums, before and after.      *)
LEMMA StatsAre ==
    ASSUME PerModel, served \in Nat
    PROVE  /\ SumOf(stats) \in Nat /\ SumOf(stats) <= served
           /\ SumOf(stats') <= served' => ModelsWithinTotal'
<1>1. Total(stats) = SumOf(stats) /\ Total(stats') = SumOf(stats')
  BY FoldIsSum DEF Total
<1>2. SumOf(stats) \in Nat
  BY SumIsNat DEF PerModel
<1> QED BY <1>1, <1>2 DEF PerModel, ModelsWithinTotal

(* Every step keeps PerModel: a success adds one to the total and to one   *)
(* model's counter, and a counter that goes takes its share with it.       *)
LEMMA PerModelStep ==
    ASSUME IInv, SumsHold, NEW c \in Conn, Client(c) \/ Serve(c)
    PROVE  PerModel'
<1>0. /\ PerModel /\ served \in Nat /\ IsFiniteSet(DOMAIN stats)
      /\ \A p \in DOMAIN stats : stats[p] \in Nat
  BY DEF SumsHold, PerModel, IInv, Counted
<1>1. CASE UNCHANGED <<stats, served>>
  BY <1>0, <1>1 DEF PerModel, ModelsWithinTotal
<1>2. CASE Evict(c, "evict", "room") \/ Evict(c, "context_evict", "context_room")
  <2>1. /\ pc[c] \in {"evict", "context_evict"} /\ EvictVictim(local) /\ served' = served
    BY <1>2 DEF Evict
  <2>2. PICK p : stats' = Without(stats, p)
    BY <2>1, VictimIsFreed
  <2>3. /\ DOMAIN stats' = DOMAIN stats \ {p}
        /\ \A q \in DOMAIN stats' : stats'[q] = stats[q]
    BY <2>2 DEF Without, Restrict
  <2>4. /\ IsFiniteSet(DOMAIN stats') /\ SumOf(stats') \in Nat /\ SumOf(stats) \in Nat
        /\ SumOf(stats) = SumOf(stats') + (IF p \in DOMAIN stats THEN stats[p] ELSE 0)
    BY <1>0, <2>3, SumRemoved
  <2>5. SumOf(stats') <= SumOf(stats)
    BY <1>0, <2>4
  <2>6. SumOf(stats') <= served'
    BY <1>0, <2>1, <2>4, <2>5, StatsAre
  <2>7. \A q \in DOMAIN stats' : stats'[q] \in Nat
    BY <1>0, <2>3
  <2> QED BY <1>0, <2>4, <2>6, <2>7, StatsAre DEF PerModel
<1>3. CASE Record(c) /\ response[c] = "ok"
  <2> DEFINE p == path(c)
             old == IF p \in DOMAIN stats THEN stats[p] ELSE 0
  <2>1. served' = served + 1 /\ stats' = Put(stats, p, old + 1)
    BY <1>3 DEF Record, RecordOutcome
  <2>2. old \in Nat
    BY <1>0
  <2> HIDE DEF p
  <2>3. /\ DOMAIN stats' = DOMAIN stats \cup {p} /\ stats'[p] = old + 1
        /\ \A q \in DOMAIN stats \ {p} : stats'[q] = stats[q]
    BY <2>1 DEF Put
  <2>4. /\ IsFiniteSet(DOMAIN stats') /\ SumOf(stats') \in Nat /\ SumOf(stats) \in Nat
        /\ SumOf(stats') + old = SumOf(stats) + (old + 1)
    <3>1. stats'[p] \in Nat
      BY <2>2, <2>3
    <3> QED BY <1>0, <2>3, <3>1, SumPut
  <2>5. SumOf(stats') = SumOf(stats) + 1
    <3> HIDE DEF old
    <3> QED BY <2>2, <2>4
  <2>6. SumOf(stats') <= served'
    BY <1>0, <2>1, <2>4, <2>5, StatsAre
  <2>7. \A q \in DOMAIN stats' : stats'[q] \in Nat
    <3> HIDE DEF old
    <3> QED BY <1>0, <2>2, <2>3
  <2> QED BY <1>0, <2>4, <2>6, <2>7, StatsAre DEF PerModel
<1>4. CASE Record(c) /\ response[c] # "ok"
  BY <1>1, <1>4 DEF Record, RecordOutcome
<1>5. CASE Client(c)
  BY <1>1, <1>5 DEF Client, ReadRequest, Status, Unreadable, SendTurn, SendSnapshot, HangUp,
                    counters
<1>6. CASE \/ Enter(c) \/ EnsureHit(c) \/ EnsureMiss(c) \/ RoomFor(c) \/ DeviceRoomBesides(c)
           \/ MapModel(c) \/ MapFails(c) \/ LoadWeights(c) \/ LoadFails(c) \/ RecordDevice(c)
  BY <1>1, <1>6 DEF Enter, EnsureHit, EnsureMiss, RoomFor, DeviceRoomBesides, MapModel,
                    MapFails, LoadWeights, LoadFails, RecordDevice, counters
<1>7. CASE \/ StartDecode(c) \/ StartFails(c) \/ EndDecode(c) \/ Reply(c)
           \/ Pin(c) \/ OpenContext(c) \/ OpenFails(c) \/ StartTurn(c) \/ Save(c)
           \/ SaveFails(c) \/ ReplySnapshotted(c) \/ DropConversation(c) \/ Unpin(c)
  BY <1>1, <1>7 DEF StartDecode, StartFails, EndDecode, Reply, Pin, OpenContext, OpenFails,
                    StartTurn, Save, SaveFails, ReplySnapshotted, DropConversation, Unpin,
                    counters
<1> QED BY <1>2, <1>3, <1>4, <1>5, <1>6, <1>7 DEF Serve

---------------------------------------------------------------------------
(* The theorems                                                            *)

(* At the start nothing is allocated, measured, asked for or counted.      *)
LEMMA InitSums == Init => SumsHold
<1> SUFFICES ASSUME Init PROVE SumsHold
  OBVIOUS
<1>1. /\ DOMAIN live = {} /\ DOMAIN stats = {} /\ DOMAIN device = {}
      /\ ctx = [c \in Conn |-> 0] /\ served = 0
  BY DEF Init, EmptyTable
<1>2. SumOf(stats) = 0 /\ SumOf(Weights) = 0
  BY <1>1, SumOfNothing DEF Weights
<1>3. SumOf(ctx) = 0
  BY <1>1, ConnAssumption, SumOfZeros
<1>4. Allocated
  BY <1>1, <1>2, <1>3, FS_EmptySet, FreeIs, SizeAssumption DEF Allocated
<1>5. Measured /\ Asked
  BY <1>1 DEF Init, Measured, Asked
<1>6. Total(stats) = 0
  BY <1>2, FoldIsSum DEF Total
<1>7. PerModel
  BY <1>1, <1>6, FS_EmptySet DEF PerModel, ModelsWithinTotal
<1> QED BY <1>4, <1>5, <1>7 DEF SumsHold

(* Every step keeps the sums.                                              *)
LEMMA NextSums == IInv /\ SumsHold /\ [Next]_vars => SumsHold'
<1> SUFFICES ASSUME IInv, SumsHold, [Next]_vars PROVE SumsHold'
  OBVIOUS
<1>1. ASSUME NEW c \in Conn, Client(c) \/ Serve(c) PROVE SumsHold'
  BY <1>1, AllocatedStep, MeasuredStep, AskedStep, PerModelStep DEF SumsHold
<1>2. CASE UNCHANGED vars
  <2>1. Allocated'
    BY <1>2, NothingTaken DEF vars, memory, SumsHold
  <2>2. Measured' /\ Asked'
    BY <1>2 DEF vars, registry, SumsHold, Measured, Asked, kind, path
  <2>3. PerModel'
    BY <1>2 DEF vars, counters, SumsHold, PerModel, ModelsWithinTotal
  <2> QED BY <2>1, <2>2, <2>3 DEF SumsHold
<1> QED BY <1>1, <1>2 DEF Next, Listening

(* What holds of every reachable state's sums.                             *)
THEOREM SumsInvariance == Spec => []SumsHold
BY InitSums, NextSums, Invariance, PTL DEF Spec

(* Every variable has its type, and whatever is loaded, opened, evicted    *)
(* and dropped in whatever order, the weights and contexts on the device   *)
(* never add up to more than it has (ensure_loaded, make_room_for,         *)
(* handle_conversation).                                                   *)
THEOREM TypeCorrect == Spec => []TypeOK
<1>1. IInv /\ SumsHold => TypeOK
  <2> SUFFICES ASSUME IInv, SumsHold PROVE TypeOK
    OBVIOUS
  <2>1. /\ lock \in Conn \cup {None} /\ pc \in [Conn -> PCs]
        /\ \A c \in Conn : req[c] # None => kind(c) \in Kinds /\ path(c) \in Path
        /\ \A id \in DOMAIN device : device[id] = None \/ device[id] \in Nat
        /\ ctx \in [Conn -> {0, Context}] /\ GpuFree \in Nat
        /\ served \in Nat /\ failed \in Nat /\ replied \in Nat
    BY DEF IInv, Threads, Shape, Counted, SumsHold, Allocated, Measured, Asked
  <2>2. ASSUME NEW id \in DOMAIN live
        PROVE  live[id].arcs \in Nat \ {0} /\ live[id].weights \in Nat
    <3>1. Cardinality(Users(id)) \in Nat
      BY ConnAssumption, FS_Subset, FS_CardinalityType DEF Users
    <3>2. live[id].arcs = 1 + Cardinality(Users(id))
      BY DEF IInv, Models, LiveCounted
    <3> QED BY <3>1, <3>2 DEF SumsHold, Allocated
  <2> QED BY <2>1, <2>2 DEF TypeOK
<1> QED BY <1>1, Invariance, SumsInvariance, PTL

(* What Status reports per model never adds up to more than the total it   *)
(* reports: a counter that goes with its evicted model takes its share of  *)
(* the sum with it, and a success counts once in each (record_outcome).    *)
THEOREM ModelsAlwaysWithinTotal == Spec => []ModelsWithinTotal
<1>1. SumsHold => ModelsWithinTotal
  BY DEF SumsHold, PerModel
<1> QED BY <1>1, SumsInvariance, PTL

=============================================================================

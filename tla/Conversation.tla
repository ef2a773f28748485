--------------------------- MODULE Conversation ---------------------------
(***************************************************************************)
(* One Conversation (src/src/llama.rs): its ledger (committed_pos, turns,  *)
(* tokens) and the KV cache it keeps books about.  A send renders a turn,  *)
(* makes room for it, decodes it and samples a reply; each of these can    *)
(* fail half-way and leave the conversation open.  A conversation can be   *)
(* saved to two files and reopened from them.                              *)
(*                                                                         *)
(* Text is abstracted to counts: a token is the part of the conversation   *)
(* it belongs to and the number of the send that brought it.               *)
(***************************************************************************)
EXTENDS Integers, FiniteSets, Sequences

CONSTANTS
    NCtx,         \* size of the context, in tokens
    OpeningLen,   \* tokens of the rendered opening
    Chunk,        \* tokens of one decode: 512 in the code
    PromptSizes,  \* tokens a message (or tool results) may take
    Budgets,      \* max_new_tokens a client may ask for
    Faults,       \* what may fail: "prefill", "decode", "sample", "save"
    MaxSends,     \* bound: sends of one conversation
    None

ASSUME SizesAssumption ==
    /\ NCtx \in Nat \ {0} /\ OpeningLen \in Nat /\ Chunk \in Nat \ {0}
    /\ PromptSizes \subseteq Nat \ {0} /\ Budgets \subseteq Nat /\ MaxSends \in Nat
ASSUME FaultsAssumption == Faults \subseteq {"prefill", "decode", "sample", "save"}

VARIABLES
    phase,       \* what the daemon does with the conversation
    overflow,    \* OverflowPolicy: "fail" or "drop"
    seam,        \* does the opening tokenise as a prefix of the first turn?
    committed,   \* committed_pos
    turns,       \* TurnBoundary records: role, start, end (exclusive)
    tokens,      \* every token processed, in order
    opening,     \* tokens in the opening; a reopened conversation has none
    protected,   \* protected_prefix
    kv,          \* the cells of the KV cache: <<position, token>>
    job,         \* the send in progress: its prompt and max_new_tokens
    freed,       \* drop_oldest_turns_for's local of that name
    reply,       \* run_generation_loop's locals: tokens fed, budget, <think>
    asked,       \* did the last reply end in tool calls?
    files,       \* the snapshot on disk: state and meta file, or None
    sends,       \* history: sends so far
    faulted      \* history: has a Fault hit this conversation?

ledger == <<committed, turns, tokens, kv>>
shape == <<overflow, seam, opening, protected>>
vars == <<phase, ledger, shape, job, freed, reply, asked, files, sends, faulted>>

NoJob == [prompt |-> <<>>, max |-> 0]
NoReply == [fed |-> <<>>, budget |-> 0, think |-> "before"]
NoFiles == [state |-> None, meta |-> None]

(* open_conversation: a model whose positions cannot be shifted gets the   *)
(* policy "fail" whatever the client asked for.                            *)
Init ==
    /\ phase = "idle"
    /\ \E requested \in {"fail", "drop"}, shiftable \in BOOLEAN :
         overflow = IF shiftable THEN requested ELSE "fail"
    /\ seam \in BOOLEAN
    /\ committed = 0 /\ turns = <<>> /\ tokens = <<>> /\ kv = {}
    /\ opening = OpeningLen /\ protected = 0
    /\ job = NoJob /\ freed = 0 /\ reply = NoReply
    /\ asked = FALSE
    /\ files = NoFiles
    /\ sends = 0
    /\ faulted = FALSE

---------------------------------------------------------------------------
(* The KV cache                                                            *)

Copies(part, count) == [i \in 1..count |-> <<part, sends + 1>>]

First(run, count) == SubSeq(run, 1, IF count < Len(run) THEN count ELSE Len(run))

Cells(position, run) == {<<position + i - 1, run[i]>> : i \in 1..Len(run)}

Fits(count) == Cardinality(kv) + count <= NCtx

(* A failed prefill leaves cells past committed_pos that nobody removes;   *)
(* decoding over them may be refused.                                      *)
Stale == \E cell \in kv : cell[1] >= committed

(* As Compacted, but the span is shifted away instead of removed.          *)
CompactedUnremoved(cells, from, to) ==
    {cell \in cells : cell[1] < from} \cup
    {<<cell[1] - (to - from), cell[2]>> : cell \in {d \in cells : d[1] >= from}}

(* kv_cache_seq_rm of [from, to), then kv_cache_seq_add closes the gap.    *)
Compacted(cells, from, to) ==
    {cell \in cells : cell[1] < from} \cup
    {<<cell[1] - (to - from), cell[2]>> : cell \in {d \in cells : d[1] >= to}}

---------------------------------------------------------------------------
(* send and send_tool_results                                              *)

(* The first turn carries the opening and fixes how much of it to protect. *)
Send(size, max) ==
    LET first == turns = <<>>
        head == IF first THEN Copies("opening", opening) ELSE <<>>
    IN
    /\ phase = "idle" /\ sends < MaxSends
    /\ phase' = "room"
    /\ job' = [prompt |-> head \o Copies("prompt", size), max |-> max]
    /\ protected' = IF first /\ opening > 0 /\ seam THEN opening ELSE protected
    /\ freed' = 0
    /\ sends' = sends + 1
    /\ UNCHANGED <<ledger, overflow, seam, opening, reply, asked, files, faulted>>

(* A model with result markers: no opening, no BOS.  The client answers    *)
(* tool calls only.                                                        *)
SendToolResults(size, max) ==
    /\ phase = "idle" /\ sends < MaxSends
    /\ asked
    /\ phase' = "room"
    /\ job' = [prompt |-> Copies("prompt", size), max |-> max]
    /\ freed' = 0
    /\ sends' = sends + 1
    /\ UNCHANGED <<ledger, shape, reply, asked, files, faulted>>

(* A send that fails is answered Err; the conversation stays open.         *)
Fail == phase' = "idle" /\ job' = NoJob /\ reply' = NoReply

---------------------------------------------------------------------------
(* ensure_room_for and drop_oldest_turns_for                               *)

(* As Needed, but without room for the reply.                              *)
NeededForPrompt(prompt, max) == Len(prompt)

Needed(prompt, max) == Len(prompt) + max

RoomFound == committed + Needed(job.prompt, job.max) - freed < NCtx

HaveRoom ==
    /\ phase = "room" /\ RoomFound
    /\ phase' = "prefill"
    /\ UNCHANGED <<ledger, shape, job, freed, reply, asked, files, sends, faulted>>

ContextFull ==
    /\ phase = "room" /\ ~RoomFound /\ overflow = "fail"
    /\ Fail
    /\ UNCHANGED <<ledger, shape, freed, asked, files, sends, faulted>>

(* As TooLargeToTrim, but the loop goes round with nothing left to drop.   *)
TooLargeToTrimSpins ==
    /\ phase = "room" /\ ~RoomFound /\ overflow = "drop"
    /\ Len(turns) < 2
    /\ UNCHANGED vars

TooLargeToTrim ==
    /\ phase = "room" /\ ~RoomFound /\ overflow = "drop"
    /\ Len(turns) < 2
    /\ Fail
    /\ UNCHANGED <<ledger, shape, freed, asked, files, sends, faulted>>

(* As DropStart, but the opening goes with the first exchange.             *)
DropStartUnprotected(user) == user.start

DropStart(user) == IF user.start > protected THEN user.start ELSE protected

(* As Drained, but the span is taken from the front.                       *)
DrainedFromFront(run, from, to) == SubSeq(run, to - from + 1, Len(run))

(* tokens.drain(from..to)                                                  *)
Drained(run, from, to) == SubSeq(run, 1, from) \o SubSeq(run, to + 1, Len(run))

(* As ShiftedTurns, but only the starts move.                              *)
ShiftedTurnStarts(rest, by) ==
    [i \in DOMAIN rest |-> [rest[i] EXCEPT !.start = @ - by]]

ShiftedTurns(rest, by) ==
    [i \in DOMAIN rest |-> [rest[i] EXCEPT !.start = @ - by, !.end = @ - by]]

(* One iteration of the loop: the oldest two turns go, with the cells from *)
(* start to the second one's end.  drain panics when the tokens are fewer  *)
(* than the positions.                                                     *)
DropOldestTurns ==
    LET end == turns[2].end
        start == DropStart(turns[1])
        removed == end - start
        rest == SubSeq(turns, 3, Len(turns))
    IN
    /\ phase = "room" /\ ~RoomFound /\ overflow = "drop"
    /\ Len(turns) >= 2
    /\ IF removed <= 0
         THEN /\ turns' = rest
              /\ Fail
              /\ UNCHANGED <<committed, tokens, kv, freed>>
         ELSE /\ turns' = ShiftedTurns(rest, removed)
              /\ kv' = Compacted(kv, start, end)
              /\ committed' = committed - removed
              /\ IF end > Len(tokens)
                   THEN phase' = "panicked" /\ UNCHANGED <<tokens, freed>>
                   ELSE /\ tokens' = Drained(tokens, start, end)
                        /\ freed' = freed + removed
                        /\ UNCHANGED phase
              /\ UNCHANGED <<job, reply>>
    /\ UNCHANGED <<shape, asked, files, sends, faulted>>

---------------------------------------------------------------------------
(* decode_chunked                                                          *)

Prefill ==
    /\ phase = "prefill" /\ Fits(Len(job.prompt))
    /\ phase' = "generate"
    /\ kv' = kv \cup Cells(committed, job.prompt)
    /\ committed' = committed + Len(job.prompt)
    /\ turns' = Append(turns, [role |-> "user", start |-> committed, end |-> committed'])
    /\ tokens' = tokens \o job.prompt
    /\ UNCHANGED <<shape, job, freed, reply, asked, files, sends, faulted>>

(* The decode of a chunk fails, after `before` chunks that did not:        *)
(* committed_pos has not moved, their cells stay.                          *)
PrefillFails ==
    /\ phase = "prefill"
    /\ \E before \in 0..(Len(job.prompt) - 1) \div Chunk :
         LET decoded == First(job.prompt, before * Chunk)
             next == First(job.prompt, (before + 1) * Chunk)
         IN
         /\ Fits(Len(decoded))
         /\ ~Fits(Len(next)) \/ Stale \/ "prefill" \in Faults
         /\ kv' = kv \cup Cells(committed, decoded)
         /\ faulted' = (faulted \/ Fits(Len(job.prompt)) \/ before > 0)
    /\ Fail
    /\ UNCHANGED <<committed, turns, tokens, shape, freed, asked, files, sends>>

---------------------------------------------------------------------------
(* run_generation_loop                                                     *)

MayContinue == committed < NCtx /\ reply.budget < job.max

(* The reply ends: its boundary and its tokens go into the ledger.         *)
EndReply ==
    /\ phase' = "idle"
    /\ turns' = Append(turns, [role |-> "assistant", start |-> turns[Len(turns)].end,
                               end |-> committed])
    /\ tokens' = tokens \o reply.fed
    /\ asked' \in BOOLEAN
    /\ job' = NoJob
    /\ reply' = NoReply
    /\ UNCHANGED <<committed, kv, shape, freed, files, sends, faulted>>

StopAtLimit == phase = "generate" /\ ~MayContinue /\ EndReply

(* End of generation, a complete grammar, or the model's own tool call is  *)
(* over: the token sampled last is not fed back.                           *)
StopEarly == phase = "generate" /\ MayContinue /\ EndReply

(* What <think> and </think> in the sampled piece do; a block opens once.  *)
ThinkAfter(think) ==
    CASE think = "before" -> {"before", "open", "after"}
      [] think = "open"   -> {"open", "after"}
      [] think = "after"  -> {"after"}

(* The token is decoded: text, or an end of generation inside <think>.     *)
(* Only text outside an open block counts against max_new_tokens.          *)
Feed ==
    /\ phase = "generate" /\ MayContinue /\ Fits(1)
    /\ kv' = kv \cup Cells(committed, <<<<"reply", sends>>>>)
    /\ committed' = committed + 1
    /\ \E think \in ThinkAfter(reply.think) :
         reply' = [fed |-> Append(reply.fed, <<"reply", sends>>),
                   budget |-> IF reply.think = "open" THEN reply.budget
                                                      ELSE reply.budget + 1,
                   think |-> think]
    /\ UNCHANGED <<phase, turns, tokens, shape, job, freed, asked, files, sends, faulted>>

(* The decode fails, after n_cur was advanced; the reply's tokens are lost *)
(* with the locals of the loop, and no assistant turn is recorded.         *)
DecodeFails ==
    /\ phase = "generate" /\ MayContinue
    /\ ~Fits(1) \/ Stale \/ "decode" \in Faults
    /\ committed' = committed + 1
    /\ faulted' = TRUE
    /\ Fail
    /\ UNCHANGED <<turns, tokens, kv, shape, freed, asked, files, sends>>

(* The sampler cannot be built (a grammar that does not parse), or the     *)
(* token has no text.                                                      *)
SampleFails ==
    /\ phase = "generate" /\ MayContinue
    /\ "sample" \in Faults
    /\ faulted' = TRUE
    /\ Fail
    /\ UNCHANGED <<ledger, shape, freed, asked, files, sends>>

---------------------------------------------------------------------------
(* save_state, the end of a connection, open_conversation_from_state       *)

StateFile == [kv |-> kv, tokens |-> tokens]
MetaFile == [turns |-> turns, overflow |-> overflow]

End == phase' = "closed" /\ committed' = 0 /\ turns' = <<>> /\ tokens' = <<>> /\ kv' = {}

(* Both files are written; the daemon then drops the conversation.         *)
Snapshot ==
    /\ phase = "idle" /\ sends < MaxSends
    /\ files' = [state |-> StateFile, meta |-> MetaFile]
    /\ End
    /\ UNCHANGED <<shape, job, freed, reply, asked, sends, faulted>>

(* The state file is written and the sidecar is not; the client is told so *)
(* and the conversation stays open.                                        *)
SnapshotFails ==
    /\ phase = "idle" /\ sends < MaxSends
    /\ "save" \in Faults
    /\ files' = [files EXCEPT !.state = StateFile]
    /\ faulted' = TRUE
    /\ UNCHANGED <<phase, ledger, shape, job, freed, reply, asked, sends>>

HangUp ==
    /\ phase = "idle"
    /\ End
    /\ UNCHANGED <<shape, job, freed, reply, asked, files, sends, faulted>>

(* A reopened conversation continues after the tokens of the state file.   *)
CommittedOf(run) == Len(run)

Reopen ==
    /\ phase = "closed"
    /\ files.state # None /\ files.meta # None
    /\ phase' = "idle"
    /\ kv' = files.state.kv
    /\ tokens' = files.state.tokens
    /\ committed' = CommittedOf(files.state.tokens)
    /\ turns' = files.meta.turns
    /\ overflow' = files.meta.overflow
    /\ opening' = 0
    /\ protected' = 0
    /\ UNCHANGED <<seam, job, freed, reply, asked, files, sends, faulted>>

---------------------------------------------------------------------------
Client ==
    \/ \E size \in PromptSizes, max \in Budgets : Send(size, max) \/ SendToolResults(size, max)
    \/ Snapshot \/ SnapshotFails \/ HangUp \/ Reopen

Daemon ==
    \/ HaveRoom \/ ContextFull \/ TooLargeToTrim \/ DropOldestTurns
    \/ Prefill \/ PrefillFails
    \/ StopAtLimit \/ StopEarly \/ Feed \/ DecodeFails \/ SampleFails

(* Nobody reopens a conversation that was not saved, and a thread that     *)
(* panicked is gone.                                                       *)
Over == phase \in {"closed", "panicked"} /\ UNCHANGED vars

Next == Client \/ Daemon \/ Over

Spec == Init /\ [][Next]_vars

(* Once a send has been read, the thread that serves it runs.              *)
FairSpec == Spec /\ WF_vars(Daemon)

---------------------------------------------------------------------------
(* Properties                                                              *)

Tokens == {"opening", "prompt", "reply"} \X (1..MaxSends)
Turns == [role : {"user", "assistant"}, start : 0..NCtx, end : 0..NCtx]

(* Every variable has its type; as long as nothing failed under the        *)
(* conversation, no position lies outside the context.                     *)
TypeOK ==
    /\ phase \in {"idle", "room", "prefill", "generate", "closed", "panicked"}
    /\ overflow \in {"fail", "drop"} /\ seam \in BOOLEAN /\ asked \in BOOLEAN
    /\ committed \in Int
    /\ ~faulted => /\ committed \in 0..NCtx
                   /\ turns \in Seq(Turns)
                   /\ \A cell \in kv : cell[1] \in 0..NCtx - 1
    /\ tokens \in Seq(Tokens)
    /\ opening \in {0, OpeningLen} /\ protected \in {0, OpeningLen}
    /\ \A cell \in kv : cell[1] \in Nat /\ cell[2] \in Tokens
    /\ Cardinality(kv) <= NCtx
    /\ freed \in Nat /\ sends \in 0..MaxSends /\ faulted \in BOOLEAN

(* Conversation.tokens: as long as nothing failed under it, the ledger is  *)
(* the cache, position by position, through every drop and every reopening *)
(* (so a snapshot pairs the cache with the tokens that made it).  While a  *)
(* reply is generated its tokens are still the loop's own.                 *)
LedgerMatchesCache ==
    ~faulted =>
        LET all == tokens \o reply.fed IN
        /\ kv = Cells(0, all)
        /\ committed = Len(all)

(* The turns tile what is committed, alternating from a user turn, without *)
(* a gap or an overlap: what a drop takes is whole exchanges.              *)
TurnsTile ==
    ~faulted /\ phase \in {"idle", "room", "prefill"} =>
        LET n == Len(turns) IN
        /\ \A i \in 1..n : turns[i].role = IF i % 2 = 1 THEN "user" ELSE "assistant"
        /\ \A i \in 1..n - 1 : turns[i].end = turns[i + 1].start
        /\ n > 0 => turns[1].start \in {0, OpeningLen} /\ turns[n].end = committed
        /\ n % 2 = 0

(* drop_oldest_turns_for: "protected_prefix tokens at the front are never  *)
(* reclaimed", whatever fails.                                             *)
OpeningProtected ==
    turns # <<>> =>
        \A p \in 0..protected - 1 : \E cell \in kv : cell[1] = p /\ cell[2][1] = "opening"

(* ensure_room_for counts max_new_tokens, so that a reply is not cut short *)
(* because the conversation was merely tight: one that does not think can  *)
(* use all of its budget.  (Not so after a drop: see RoomAfterTrim.)       *)
ReplyHasItsBudget ==
    (~faulted /\ overflow = "fail" /\ phase = "generate" /\ reply.think = "before")
        => committed + (job.max - reply.budget) < NCtx

(* A send ends, even if the model never stops thinking.                    *)
EverySendEnds == (phase \in {"room", "prefill", "generate"}) ~> (phase \in {"idle", "panicked"})

---------------------------------------------------------------------------
(* What the comments promise and the code does not do                      *)

(* drop_oldest_turns_for drops "until `needed` more tokens fit".           *)
RoomAfterTrim ==
    phase = "prefill" => committed + Len(job.prompt) + job.max < NCtx

(* "`turns` must strictly alternate User/Assistant starting with User --   *)
(* every push site above maintains that".                                  *)
TurnsAlternate ==
    \A i \in DOMAIN turns : turns[i].role = IF i % 2 = 1 THEN "user" ELSE "assistant"

(* "the opening is decoded into the KV cache exactly once".                *)
OpeningDecodedOnce ==
    Cardinality({cell \in kv : cell[2][1] = "opening"}) <= OpeningLen

===========================================================================

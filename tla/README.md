# rampipe in TLA+

Specifications of rampipe, a scheduler that keeps several GGUF models in
memory, and of `rampiped`, the daemon that serves them over a Unix socket:
what is modelled, what TLC checks on small instances, and what TLAPS proves for
every instance. Paths are relative to the repository's root.

## The system

| component | where | state it keeps | operations |
|---|---|---|---|
| swap registry | `src/lib.rs` | `resident`, `by_path`, `last_accessed`, `next_id` behind a Mutex; one `Arc<Resident>` per mapping, shared with the callers' handles | `load`, `evict`, `record_device_bytes`, clone and drop of a handle, the budgets and the LRU order |
| daemon | `src/bin/rampiped.rs` | `SharedState` behind one Mutex (registry, `sessions`, `model_stats`, counters); per connection the session it pins and its conversation | one-shot `Generate`, `Embed`, `Status`, `OpenConversation`, turns, snapshots; loading with eviction |
| session | `src/llama.rs` | the weights, a handle | load (with a device measurement), generate, embed, open and restore a conversation |
| conversation | `src/llama.rs` | a context with its KV cache, `committed_pos`, `turns`, `tokens`, `protected_prefix` | `send`, `send_tool_results`, `ensure_room_for` / `drop_oldest_turns_for`, the generation loop, `save_state` |
| templates | `src/llama.rs`, `src/chat_template.rs` | none | derive the spans a conversation is composed of |
| tool formats | `src/tool_format.rs` | none | derive a model's call format; parse calls; find the end of a turn |
| protocol, client | `src/protocol.rs`, `src/client.rs` | a connection and a count of turns | one request and one reply per line |
| scripted daemon | `src/scripted.rs`, `src/bin/rampiped-script.rs` | a script, a transcript, a count of replies, a shutdown flag | a serial stand-in for the daemon in tests |
| model settings | `src/model_settings.rs` | a table read at start | the longest matching key, or the default |

How they interact. Every connection has a thread. A request takes the daemon's
lock, asks for its model (`ensure_loaded`), which may evict others and load it,
and then a one-shot generation or an embedding runs to its end under that same
lock. A conversation takes the lock to load, clones the session's `Arc`
("pins" the model), and releases it: it opens, saves and drops its context
without the lock, and takes the lock once per turn. When a generation or a turn
is over its outcome is recorded under a *second* locking. The registry refuses
to evict a mapping that has handles; the daemon avoids asking by skipping
sessions whose `Arc` count is not 1.

What is hard about it: reference counts that move without a lock next to
decisions taken under it; a decision spread over two lockings; device memory
shared by weights (loaded under the lock) and contexts (allocated and freed
without it); many exits from a conversation, each with something to give back;
and a ledger that shifts four descriptions of one KV cache by hand.
`PROJECT.json` lists each such point at its line under "hazards".

## Modules

| module | models |
|---|---|
| `RegistryTables` | the registry's tables as values, and what one locked operation does to them |
| `SwapRegistry` | the registry, called by several threads, with reference counts that change without its lock |
| `ResidentModels` | the abstract promise: a path is mapped once, shared by its users, unmapped when there are none |
| `SwapRegistryProofs` | theorems about `SwapRegistry` |
| `Rampiped` | the daemon: connections, lock, sessions, device memory, counters |
| `RampipedProofs` | theorems about `Rampiped`: its lock, sessions, conversations and replies |
| `FiniteSums` | lemmas: sums over the entries of a finite map |
| `RampipedMemoryProofs` | theorems about `Rampiped`'s sums: device memory, counters per model |
| `Conversation` | one conversation: ledger, KV cache, failures, snapshot and reopening |
| `ConversationProofs` | theorems about `Conversation` |
| `ScriptedDaemon` | the scripted daemon, its clients (`src/client.rs`) and its owner |
| `ScriptedDaemonProofs` | theorems about `ScriptedDaemon` |
| `Texts` | text as the template code slices it: `find`, `rfind`, `strip_prefix`, `trim`, `Option` |
| `ChatTemplate` | messages, chat templates as records, and their rendering (`src/chat_template.rs`) |
| `ToolFormat` | `src/tool_format.rs`: the probes, the formats, reading calls, where a reply ends |
| `ConversationTemplate` | what `llama.rs` derives from a template: the spans of a turn, system text, tools, prompts |
| `LlamaSession` | a session in text: conversations, turns, replies, one-shot generation, embedding |
| `TextProofs` | theorems about `ConversationTemplate`: what probing a chat template finds, and what is composed of it |
| `LlamaSessionProofs` | theorems about `LlamaSession`: embedding, and the context of a conversation |
| `MCSwapRegistry`, `MCRampiped`, `MCConversation`, `MCScriptedDaemon`, `MCLlamaSession` | instances for TLC |

Definitions named "As X, but ..." stand before X. Each is X with one plausible
mistake; no specification uses them. They are substituted for X to see that a
property notices.

### SwapRegistry

`tables` is `RegistryState`. `last_accessed` maps an id to the `Instant` of its
last `load`, and `clock` is the latest reading. `Instant::now()` never goes
back but may return the same value twice, so `Now` is the latest reading again
or a later one, and two models may tie. Instants are only compared:
`Renumbered` keeps their order and forgets the distances, which makes the
tables finite. `LeastRecent` is every candidate with the earliest Instant, and
the eviction loops take any of them, since `resident_ids_by_lru` sorts what a
`HashMap` iterates in no particular order.

`arc` holds the live `Resident` objects with their strong counts; an object goes
with its last reference. `call[t]` says what thread `t` is doing.
An operation is the steps the code takes between points where something else
can happen: `Load`/`Evict`/`Record` take the lock; `LoadMap` maps and validates
and `LoadInsert` does the three insertions; `EvictAllowed` reads the count and
`EvictRemove` does the removals. `HandleClone` and `HandleDrop` need no lock
and are possible at any time, also between those two. A handle can only be
cloned from one that exists. File I/O is the choice between `LoadMap` and
`LoadFail`; residency and metrics change no decision and are left out.

### Rampiped

`pc[c]` is where connection `c`'s thread is. From `Enter` to `FinishDecode` or
`Pin` the thread holds `lock`:

- `ensure` → (`EnsureHit`) `context_room` ⇄ `context_evict`, that is
  `make_device_room_besides`; or (`EnsureMiss`) `room` ⇄ `evict`, that is
  `make_room_for`, then `map`, `weights`, `measure`
  (`LlamaSession::load_with_gpu_layers`) → `ready`.
- A one-shot request goes on to `decoding`, without the lock to `record` (not
  for an embedding), and to `reply`.
- A conversation pins its session and releases the lock; then `opening`,
  `idle`, and from there `turn` (which locks, decodes, unlocks, records and
  replies), `saving` → `saved`, or the end of the connection: `closing` drops
  the context and `unpin` the session's `Arc`.

An eviction is two steps, as in the code: the loop chooses a victim, then
removes its session and asks the registry. All threads are free to open, save
and drop contexts in between.

The two budgets are the code's: `mapped + new <= fraction * (free + mapped)`,
as integers with `fraction = Num/Den`, and the same for the device. Device
memory is counted: weights and contexts are subtracted from `GpuTotal`, and
`measure` computes a model's footprint as the difference of two readings, so
that a context opened or dropped in between falsifies it as it does in the
code. Host memory is the environment's: every reading may give any value of
`HostFree`, `None` where it cannot be measured. A file's size is at once its
mapped size and the estimate of its footprint. A file without metadata counts 0
bytes in the code and then fails to map; here it counts its size and may fail
to map, which evicts no less. Errors are choices: an action that can fail has
another one beside it that fails. A context the code allocates and drops again
within one failing open is not shown. A line in a conversation that does not
decode is answered and changes nothing, so it has no action.

### Conversation

`kv` is the set of the cache's cells, each a position and a token; `tokens`,
`turns` and `committed` are the code's own books about it. A token is the part
of the conversation it belongs to and the number of the send it came with;
messages are token counts. Each fallible step of a send is an action with a
failing twin: the prefill may stop after any number of chunks, the reply after
any number of tokens, by a decode error (position already advanced) or by the
sampler (a grammar that does not parse); a snapshot after the first of its two
files. All of them leave the conversation open, because the daemon answers
`Err` and reads the next line. `drop_oldest_turns_for` is one action per
iteration and, as in the code, takes turns from the ledger before it knows
whether that helps. A `drain` past the end of the tokens panics. `faulted`
remembers that something failed in a way that leaves partial state; several
invariants are claimed only without it, and the ones that are claimed with it
say so by not mentioning it.

External behaviour assumed of llama.cpp: a decode fails when there are not
enough free cells, and may fail when it would decode over positions that are
already there. A client sends tool results only after a reply with tool calls
(`src/llama.rs`, comment in `send_tool_results`).

### ScriptedDaemon

`pc` is where the daemon's one thread is: `check` and `accept` are the accept
loop, `opening`, `turns`, `count`, `answer` and `ending` are `serve` with
connection `conn`. `transcript` and `served` are the two shared books, each
written under its own lock; `given` is history and says who asked when the
cursor passed each turn of the script. `harness[c]` is what client `c` is doing; a client
has one connection and blocks in each call, so `line[c]` and `reply[c]` hold at
most one line each way, and `open[c]` says which ends of the socket are open. A
line written while the daemon is about to close is lost (`ending`). `owner` is
the test that drops the daemon: `SetShutdown`, then `Join`. A client may hang
up at any moment, which also stands for a process that dies. What a line says
beyond its kind is left out, so empty lines and lines that do not decode have
no action; `RampipedClient::connect` is a connection that is hung up at once.

### Texts, ChatTemplate, ToolFormat and ConversationTemplate

A text is a sequence of atoms: words, the punctuation markers are made of, and
white space. Byte comparisons in the code cut markers between characters; here
they cut between atoms (`<`, `tool_call`, `>`), which is fine enough to sever a
marker, to share a beginning between two closers (`</`), and to leave a
`TurnEnd` undecided. An `Option` is a set of at most one element, so `?` and
`and_then` become set comprehensions and `UNION`.

`ToolFormat` follows `src/tool_format.rs` function by function, with the one
renderer the code passes in: `DeriveCapabilities`,
`DeriveToolCallFormat` with its three families, `ParseToolCalls` with a reader
for each family, `Reached` (`TurnEnd`), `EndsMidCall`, `RenderOpening`,
`DeriveToolResultSpans`. `serde_json` is modelled as far as calls need it:
objects of strings, with quotes, nesting and the commas inside strings.

A chat template is data, so `ChatTemplate` describes one by what it does: how it
treats a system message, whether it lists tools, how it writes calls, how it
carries results, what it puts before a completed assistant turn, and a quirk
that the probes exist to find (it treats the last turn apart, escapes content,
or cannot be rendered by minijinja). `Render` is `render_json` of such a
template. `DeriveConversationTemplate` and `PrepareTools` in
`ConversationTemplate` are the code's, over `Render`.

### LlamaSession

A session is asked for one thing: a conversation, a one-shot generation or an
embedding. `cache` is the text in the context's KV cache, in the order it was
decoded; `conv` what `Conversation` remembers of its template; `transcript`
the turns as messages, which is history and not program state. The model
writes a `script`, made of prose, calls, and sometimes what the harness should have
answered and a call made up on top; `Sample` takes it a piece at a time through
`run_generation_loop`, and `Stop` may end the reply anywhere, as
end-of-generation, the budget and the end of the context do. `Finish` is the
rest of `send`: the prefill put back, calls parsed, the severed call reported.
`Snapshot` and `Reopen` are `save_state` and `open_conversation_from_state`,
after which the format has been derived again and the system text is taken to
be in the cache. Dropping old turns, failures of a decode and thinking are
`Conversation`'s subject and not repeated; pieces are atoms or, where a model
has its markers as single tokens (`whole`), markers.

Two limits of what is claimed. A value that contains its own call's closer ends
the call, in the code as in the model, and is not among the arguments tried.
And where a model's closers are *not* single tokens, `TurnEnd` can cut a reply
of the Qwen3-Coder family between `</function>` and `</tool_call>`: after
`</function>` and a line break, a lone `</` is no beginning of `<tool_call>`,
so the reply ends before a second call. Such models are in the instance only
with single-token markers, which the real ones have.

## What TLC checks

| run | instance | shows |
|---|---|---|
| `swap_registry` | 2 threads, 2 files, 3 fresh mappings, 3 references | the registry's invariants, ids never reused, and that it implements `ResidentModels` |
| `daemon_requests` | 2 connections, 2 models, all kinds of request, 2 turns | decodes are alone, contexts are not leaked, a snapshot's memory is free before its reply, counters are exact, eviction never picks a model in use and never fails a request, `Arc` counts mean what the loops think, every request ends |
| `conversation` | 7 cells, opening of 2, messages of 1, 3 or 9, chunks of 2, 3 sends, all faults | the ledger describes the cache through drops, failures and reopening; the opening is never dropped; every send ends |
| `scripted_daemon` | 2 clients, a script of 2 turns, 2 turns each | the script is played once, the transcript is complete, replies fit requests, Drop and every call return |
| `llama_session` | 11 models, with and without system text and tools, 2 turns, 3 scripts, every place to stop | the composed context is what the template renders; system text is told once; calls are read as written and severed ones reported; nothing invented is kept; embeddings are separate |

Why these bounds are enough. Two threads and two files give every pair of
registry operations on the same and on different models; three fresh mappings
let a path be evicted and come back under another id; three references are the
table's, a handle's and a clone's. The daemon's device holds 5 units, the
models need 2 and 4 and a context 1: either model fits with a context, both do
not, so every load of one with the other present evicts, whether the other
connection holds a conversation on it, ends one without the lock meanwhile, or
has only used it. Two conversations on one model beside a third connection that
evicts are out of these bounds: that eviction stays right among any number of
connections is what `RampipedProofs` shows. Two turns let a conversation interleave its second locking with others twice.
The conversation's context overflows at the second or third message whatever
their sizes, 9 never fits, and a prompt of 3 with its opening takes three
chunks, so a prefill can fail before, between and after its chunks. Two clients
of the scripted daemon together ask for more than the script has; while one is
served the other waits in the backlog, is accepted late, or is cut off with the
listener.

The eleven models of `llama_session` have a template for each answer the code
can get: the three families of calls, none with a format configured by the
host, results by role, native and none, a system block, one that is dropped and
one that raises, a preamble of the template's own, something before a
completed assistant turn, the three quirks (with and without llama.cpp's own engine or
a configured wrap to fall back on), and no template. Two turns contain every
composition: the first, a later one, one answered with results, one with a
prefill, one after a reopening (`MaxSends`; a conversation is saved before its
last turn). The plans are prose; prose and a call with two arguments, one of
which contains the separator and one of which Gemma writes bare, followed by
invented results in the same piece; and two calls without arguments, followed
by inventions after a line break. `MaxCalling` lets the model call in either
turn, but not in answer to a call, which would repeat the first turn's cases.
A reply may stop at any piece; the client goes on after a severed call when at
most `MaxSevered` pieces of it were written, since where exactly a call is cut
makes no difference to the turns after it.
A prompt of `OneShotCtx` atoms is reached by a template and a prefill, and
`EmbedMax` is below one text's length, above another's, and below or
above the context the model was trained for. The run stops when the request is
answered, so deadlock is not checked there.

Seven more runs check what a comment or an assertion of the source says and find
that the code does otherwise; each is a "finding" in `PROJECT.json`:

- `daemon_stats`: `model_stats` does not have the lifetime of `sessions`.
- `daemon_gives_up`: a failed load leaves a mapping that nobody pins and no
  loop can evict.
- `conversation_trim`: dropping turns stops before there is room, since freed
  tokens are subtracted twice.
- `conversation_alternate`: turns do not alternate after a send that failed
  while replying.
- `conversation_opening`: the opening is decoded a second time after a drop
  that emptied the ledger and still failed.
- `scripted_served`: `turns_served` is documented as "How many script turns were
  actually consumed" (`src/scripted.rs:343`), but `serve` raises the counter
  (462) before it looks whether the script has the turn (465), so it also counts
  the requests that found the script run out. `given`, the history of who asked
  when the cursor passed each turn, is what was consumed.
- `llama_session_results`: a template with results native to the assistant
  message (the repository's Gemma fixture) has result markers that
  `derive_tool_result_spans` finds, but `prepare_tools` does not ask, because
  `probe_tool_results` only knows `tool` messages; its results arrive as plain
  user text. The test of the fixture calls the derivation directly.

Fairness. `Rampiped!FairSpec` is weak fairness of each connection's `Serve`:
the operating system runs every thread; nothing is assumed of clients, which
may leave a conversation idle for ever. `EveryRequestEnds` holds because a
thread takes the lock a bounded number of times, so a waiting one is not
passed over for ever; with an endless supply of competing requests it would need
a fair Mutex, which `std::sync::Mutex` does not promise, and it is not claimed.
`Conversation!FairSpec` is weak fairness of the daemon's steps once a send was
read. `ScriptedDaemon!FairSpec` is weak fairness of the daemon's thread, of a
Drop that has begun and of clients that are in a call. It does not make a
client that is *not* in a call do anything, so one that keeps its connection
open and idle blocks the daemon, and with it Drop and everybody in the backlog,
for ever: the code has no timeout. `DropReturns` and `EveryCallReturns` say
that this is the only way to hang; their premise `[]<>~Held` excludes it. The
comment "stops when dropped" (`src/scripted.rs:257`) should be read with that
condition.

Deadlock is checked in every run but the two of `MCLlamaSession`. Where the
system comes to rest, the module has an explicit idle step (`Listening`, `Over`).

## What is proved

Every safety invariant and action property the passing runs check of
`SwapRegistry`, `Rampiped`, `Conversation` and `ScriptedDaemon` is a theorem
for all values of their constants; of `LlamaSession`, those that do not speak of
how a reply is read are. TLC finds each inductive invariant below to hold on the
instances of the runs.

`SwapRegistryProofs` proves, for any sets of threads and files and any bounds:

- `TypeCorrect`: `Spec => []TypeOK`.
- `TablesAlwaysAgree`: the three maps describe the same models, so the
  `expect("by_path/resident desync")` cannot fail.
- `MappingsAlwaysAccounted`: what a handle keeps mapped is in the table.
- `EvictionNeverContended`: no handle appears while an eviction is under way.
- `IdsNeverComeBack`: an evicted id never names a model again.
- `Refinement`: the registry implements `ResidentModels`.

The assumptions are those in `SwapRegistry` (`None` is none of the other
constants; the bounds are naturals). The argument is one inductive invariant,
`IInv`. The wanted properties are not inductive: that no handle appears during
an eviction needs to know that a thread between the two steps holds the lock
(`Locked`), that the model it removes has exactly the table's reference
(`Protected`), and that every live mapping is in the table (`Accounted`); that
an insertion keeps the tables in step needs every id in them to be below
`next_id` (`Issued`), and that the path it inserts is not yet there
(`Protected`). There is a lemma per action, and one per operation on
the tables (`AccessedKeeps`, `InsertedKeeps`, `RemovedKeeps`), because numbering
the Instants anew has to be seen to leave the three maps alone. The refinement
uses `IInv` in both states of a step; it maps a path to
its references beyond the table's, and each step to one of `Map`, `Share`,
`Release`, `Unmap`, or to a stutter.

`RampipedProofs` proves, for any finite set of connections, any models, sizes,
budgets and device, and conversations of any length:

- `EvictionAlwaysGranted`: a victim the eviction loops chose is still theirs to
  evict when the registry is asked; it never answers `HandleOutstanding`.
- `ConversationsAlwaysKeepModel`: a conversation's model is neither evicted nor
  loaded a second time.
- `SessionsAlwaysResident`: the session map and the registry agree.
- `ArcsAlwaysCount`: a session's `Arc` count is 1 and its conversations.
- `DecodeAlwaysAlone`: one decode at a time, and no eviction or load beside it.
- `SnapshottedAlwaysFreed`, `ContextsNeverLeak`: a context is gone before its
  client reads `Snapshotted`, and never outlives its request or conversation.
- `RepliesAlwaysCounted`: every reply was counted before it was written.

The assumptions are that there are finitely many connections and that `None` is
neither a connection nor a number. The inductive invariant `IInv` has three
parts. `Threads` says who is inside the lock, what each thread was asked and
which threads may own a context. `Models` strengthens the properties of the
session map: a thread holds an `Arc` exactly from `Pin` to `Unpin` (`Talker`);
every session object, also the one still being loaded, has one `Arc` and one
more per conversation (`LiveCounted`); and what the lock holder looked up still
holds when it acts (`InHand`), above all that its victim has `Arc` count 1. The
last is what the interleaving threatens, because `Unpin` takes no lock: but it
lowers a count that is at least 2, so never the victim's. `Counted` relates the
counters to the replies that are due. None of this depends on which
of the least recently used candidates the loops take when Instants tie.

`RampipedMemoryProofs` adds the two that speak of sums:

- `TypeCorrect`: `Spec => []TypeOK`; the part of it that is not about types is
  that `GpuFree`, what the device's total leaves after every session's weights
  and every thread's context, never falls below 0.
- `ModelsAlwaysWithinTotal`: what `Status` reports per model never adds up to
  more than the total.

That nothing is taken that is not free is llama.cpp's allocator, and in the
guards of the actions that allocate. What has to be shown is the rest: that
every way of giving memory back gives back what was taken, once. A session
object must go with the weights it was loaded with, no session may be put over
another whose weights then count no longer, and a thread that opens a context
must not have one. `SumsHold` (`Allocated`, `Measured`, `Asked`, `PerModel`) is
inductive beside `IInv`, which supplies the victim that is in the map with one
`Arc` and the thread that has no context yet. `Total` is a fold of the
community modules over a map of any size, and induction over finite sets comes
in the library with an operator as its parameter, which the provers cannot
instantiate. `FiniteSums` goes around it: a smallest counterexample among the
subsets of a finite set would have a smaller one, and "smallest" is a first-order
fact about cardinalities. That gives what the sums of a map become when
an entry is added, changed or removed (`SumPut`, `SumRemoved`).

`ConversationProofs` proves, for any size of context, opening, chunk and
message and any number of sends:

- `TypeCorrect`: the cache never holds more than `NCtx` cells; until something
  fails every position of the ledger is within the context.
- `LedgerIsTheCache`: until something fails, `tokens` and `committed` are the
  KV cache, position by position, through any turns, drops and reopenings.
- `WholeExchanges`: the turns tile what is committed, in whole exchanges.
- `OpeningStays`: the opening stays in the cache, whatever fails.
- `BudgetHolds`: under the policy "fail" a reply that was begun has room for
  its budget.
- `DrainNeverPanics`: until something fails, the drain that
  `drop_oldest_turns_for` makes never ends beyond the tokens.

The assumptions are those of `Conversation`: the context, a chunk and a message
have at least one token, the opening and the budgets are naturals. `IInv` is `Sound /\ Opened /\ Room /\ (~faulted => Books)`. The last
part is the one that takes work, since one drop changes four things by hand: it
removes cells and shifts the ones behind them, drains the tokens, shifts the
turns' starts, and lowers `committed`. `LedgerMatchesCache` alone is
not preserved by that. It needs the turns, of which the dropped ones end within
the tokens and the first starts at or behind the protected prefix; the turns
need to tile (`Tiled`), so that the shifted ones meet what is left; and a
reopening needs the same of the files. `Opened` cannot rest on `Books`, because
the opening must stay also after failures. It uses only that nothing removes
cells below the protected prefix, and that a ledger with turns began with a
prompt that carried the opening. What `Sound` and `Opened` leave open after a
failure is what the three `conversation_*` findings show to go wrong.

`ScriptedDaemonProofs` proves, for any clients, script and number of sends, the
six invariants the passing run checks of `ScriptedDaemon`:

- `TypeCorrect`, including that exactly the connections in the backlog or
  being served have a daemon's end.
- `AnswersFit`: a client never reads a reply to another request than its last.
- `NothingUnwritten`: the transcript tells what clients were answered.
- `NoTurnGoesAstray`: a turn the cursor has passed was heard by its asker, is on
  its way there, or was the last thing asked by a client that hung up.
- `PlayedOnce`: each turn of the script is played to one client, in order.
- `AtMostOneLate`: what can still happen after `Drop` has begun.

The assumption is that `None` is neither a request nor a reply. The protocol has
no numbers on its lines; a reply fits its request only because both sides wait.
The invariant says so: `Links` relates the ends of the sockets to the
backlog, the thread and the clients, and `Calls` says of a waiting client that
its request is on the way, or the thread holds it, or its reply is, and never
two of these. `Written` and `Script` keep the books over that, `Handed` follows
each turn of the script from the cursor to its asker, and `Dropped` is about the
end. `Handed` is inductive only together with `Calls`: that a client asks for
the next turn only when it has heard the last is why a turn on its way is never
written over.

`TextProofs` and `LlamaSessionProofs` prove, for any models, chat templates,
messages, tools, replies and bounds:

- `ContextRendered`: what a conversation has decoded, composed turn by turn of
  spans that were found by probing, is what the model's own template renders
  for those turns, also after a prefill, an answer with tool results, a cut
  reply and a reopening.
- `SystemTold`: system text is in that context exactly once, in the opening or
  folded into the first message.
- `TypeCorrect`: every variable has its type, and a conversation or a saved one
  exists in exactly the phases that use it.
- `AlwaysEmbeddedAlone`: every vector of an answered embedding is of the
  beginning of its own text, never of nothing, and all have one pooling.

The first two rest on what the probes do, which is proved of each template by
itself. For every template whose own text has no sentinel in it:

- `ShapeIs`: `derive_conversation_template` finds the wrap of a turn, the
  transition and the opening of an answer exactly as the template has them, or
  nothing when the template treats its last turn apart, escapes, or cannot be
  rendered: two probes never agree on a shape that is not the template's.
- `SystemProbed`, `ToolsProbed`, `SpansIs`: a system message is taken to be
  rendered when it is; tools that are listed are found; the three spans around
  results of role `tool` are the template's.
- `OpeningIs`, `PreparedIs`: the opening that is sliced off a rendering is what
  precedes the first message, and `prepare_tools` puts system text into it or
  keeps it for the first message, never both and never neither.

The argument has three layers. The first is text: a sentinel is in a rendering
once, when its words are in none of the other parts, so `find` gives the place
between them, and a slice between two of them is the part between (`FindSole`).
The second is the template: what it renders for turns and one
more is what it rendered before and the turn (`GrowsIs`), though a turn's
text depends on its neighbours and on being the last; that is the fact
composing turns relies on, and the quirk that breaks it is the one the probes
reject. Together they give that the code's `first_turn_open`, `turn_transition`
and `generation_open`, put between messages, are the rendering, which is
regrouping of concatenations once each part has its name (`FirstSaid`,
`NextSaid`, `ResultsSaid`, `AnswerSaid`). The third is the session: neither
property is inductive, since between turns the closing mark of the last answer
is not decoded yet, while a turn is under way the tokens end in a part of an
answer, and after a reopening the spans are derived again. `Talks` says for each
phase what the tokens are (`Waiting`, `Answering`), what a saved conversation
must remember (`Stored`), that what was found is the template's (`Sound`), that
system text is still to come or carried (`Fresh`, `Tells`), and which phases
have a conversation (`Control`). `FlattenSeq`, which renders a transcript,
is defined with a recursive function under `LET`; `FlatExists` shows by a least
counterexample that the function exists, after which its equation can be used.

`LlamaSession`'s assumptions are two. `SessionAssumption`: a model declares one of
the poolings the code knows or none, a client asks for one the code knows, and a
text to embed is at least one token (without any, `decode` fails).
`TextAssumption` gives texts their types and says four things more. Templates and
tools have none of the sentinels' words, which is what the private-use
characters in them are for (`src/tool_format.rs`, above `NAME`), and system texts
neither; *messages and replies may have them*. System texts have words of their
own: the code compares them with nothing, so naming their words apart changes no
step, and without it "exactly once" could not be said of a text a user may repeat.
A model invents results only after a call. A client that answers calls has at
least one result (`src/llama.rs`, `send_tool_results`).

Only model-checked:

- Liveness (`EveryRequestEnds`, `EverySendEnds`, `DropReturns`,
  `EveryCallReturns`): it rests on fairness and `ENABLED`, which are out of the
  prover's reach.
- `ParsedAsWritten`, `SeveredIsReported` and `AnswerIsInContext`. They relate
  what the model wrote to what the code reads of it: `ParseToolCalls`,
  `TurnEnd` and `EndsMidCall` are recursive over the text, and what they compute
  is induction over texts. They are also false of some texts (a value that
  contains its own call's closer, see above), so a theorem would have to
  describe the calls it is about by what the parser does with them.

## Not modelled

Memory hints and measurements (`prefault`, `mincore`, RSS): numbers from the
operating system. Tokenisation and sampling: a piece is an atom or a marker.
Jinja itself: a template is a record of what it renders. Argument parsing,
socket binding, and the conversions of sampling options, which keep no state.
Model settings: a table read once, looked up for numbers on which no modelled
decision depends. A panic under the daemon's lock, which would poison it for
everyone; the conversation's own panic is reached but not composed with the
daemon. 32-bit overflow of token counts. Reopening a snapshot of a conversation
that had no turn, which loses its system text (`src/llama.rs:1242`), is reached
by `LlamaSession` and excluded from its properties by `kept`.

## Plan

1. Done: the eleven modules of the model and their runs, and the proofs of every safety
   invariant of `SwapRegistry`, `Rampiped`, `Conversation` and `ScriptedDaemon`.
2. Done: what the template code derives, for every template, and with it what
   is in the context of a conversation of `LlamaSession`.
3. `TurnEnd`: for any format and any pieces, a reply that is cut loses nothing
   but white space and the beginning of a call (the part of
   `AnswerIsInContext` that does not depend on what a model writes).
4. Composing the panic of `Conversation` (a drain past the end of the tokens)
   with `Rampiped`, where it would poison the daemon's lock.

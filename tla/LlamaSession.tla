---------------------------- MODULE LlamaSession ----------------------------
(***************************************************************************)
(* What a LlamaSession (src/src/llama.rs) makes of a request, in text: a   *)
(* conversation opened from the model's chat template, turns composed of   *)
(* the spans found in it, a reply sampled piece by piece, ended, and read  *)
(* for tool calls; a one-shot generation; an embedding.                    *)
(*                                                                         *)
(* The ledger, the room in the context, thinking and the failures of a     *)
(* send are those of module Conversation; here a reply may simply end      *)
(* anywhere, as it does at end-of-generation or at the limit.              *)
(***************************************************************************)
EXTENDS Naturals, Sequences, FiniteSets, Texts, ChatTemplate, ToolFormat,
        ConversationTemplate

LOCAL INSTANCE SequencesExt
LOCAL INSTANCE FiniteSetsExt

CONSTANTS
    Models,       \* records: template (an option), native, wrap, speaks (the
                  \* family of calls it writes), whole (are its markers single
                  \* tokens?), pools (the pooling it declares), trained
    Systems,      \* options of system text
    ToolLists,    \* lists of the tools a client offers
    Configured,   \* options of a format the host configures
    UserMessages, \* what a client may say
    Plans,        \* what a model may write: prose, calls, invents
    Options,      \* how it may ask: prefill, and constrained by a grammar?
    ResultLists,  \* what a client may answer calls with
    TextLists,    \* lists of texts to embed
    Poolings,     \* what a client may ask for: "model" or a pooling
    OneShotCtx,   \* the context of a one-shot generation: 8192 in the code
    EmbedMax,     \* EMBED_MAX_TOKENS: 512 in the code
    MaxSends,     \* bound: turns of a conversation
    MaxCalling,   \* bound: the turns in which the model may call, and never
                  \* in the answer to a call
    MaxSevered    \* bound: the pieces of a severed call after which a client
                  \* still goes on

ASSUME SessionAssumption ==
    /\ OneShotCtx \in Nat \ {0} /\ EmbedMax \in Nat \ {0}
    /\ MaxSends \in Nat /\ MaxCalling \in Nat /\ MaxSevered \in Nat
    /\ \A m \in Models : m.trained \in Nat /\ m.pools \in {"none", "mean", "cls", "last"}
    /\ Poolings \subseteq {"model", "mean", "cls", "last"}
    \* A text is the tokens that are decoded; without any, decode fails.
    /\ TextLists \subseteq Seq(Seq(STRING) \ {<<>>})

(* The words of system texts are told from those of every other text, so   *)
(* that it can be said where a system text is.                             *)
SystemWords == UNION {{s[i] : i \in DOMAIN s} : s \in UNION Systems}
OtherWords == STRING \ SystemWords

(* The atoms of what the model writes by itself, around names and values.  *)
Invention == <<"Read">>
Prose == <<"well">>

Calls == [name : Seq(OtherWords), args : Seq(Seq(OtherWords) \X Seq(OtherWords))]

ASSUME TextAssumption ==
    LET unprobed == OtherWords \ ProbeWords IN
    /\ Marks \cup {"Read", "well"} \subseteq OtherWords
    /\ SystemWords \cap ProbeWords = {}
    /\ \A s \in Systems : IsOption(s, Seq(STRING) \ {<<>>})
    /\ ToolLists \subseteq Seq(Seq(unprobed))
    /\ \A m \in Models :
        /\ IsOption(m.template, Templates(unprobed))
        /\ IsOption(m.wrap, [prefix : Seq(STRING), suffix : Seq(STRING)])
        /\ m.speaks \in {"xml", "json", "gemma", "none"} /\ m.whole \in BOOLEAN
    /\ UserMessages \subseteq Seq(OtherWords)
    /\ Options \subseteq [prefill : Seq(OtherWords), constrained : BOOLEAN]
    /\ Plans \subseteq [prose : BOOLEAN, calls : Seq(Calls), invents : {"no", "glued", "after"}]
    \* What it invents comes after a call.
    /\ \A p \in Plans : p.calls = <<>> => p.invents = "no"
    \* A client that answers calls has at least one answer.
    /\ ResultLists \subseteq Seq(Seq(OtherWords)) \ {<<>>}

VARIABLES
    model,       \* the model of the session
    phase,       \* what the session does for its client
    conv,        \* the Conversation, or None before it is opened
    cache,       \* the text in the KV cache of the context in use
    transcript,  \* the turns so far: what was said, as messages
    job,         \* the request: kind, prompt, prefill, constrained
    script,      \* what the model would write in this reply, in segments
    at,          \* how far it got: segments and pieces of the next one
    reply,       \* run_generation_loop's text, and what of it was decoded
    result,      \* GenerationResult: text, tool_calls, truncated_tool_call
    saved,       \* a snapshot, or None
    vectors      \* what embed pooled so far

talk == <<conv, transcript, saved>>
writing == <<script, at, reply>>
vars == <<model, phase, talk, cache, job, writing, result, vectors>>

NoJob == [kind |-> "none", prompt |-> <<>>, prefill |-> <<>>, constrained |-> FALSE,
          results |-> <<>>, marked |-> FALSE, texts |-> <<>>, pooling |-> "model"]
NoReply == [text |-> <<>>, fed |-> <<>>]
Start == [segment |-> 1, piece |-> 0]
NoResult == [text |-> <<>>, tool_calls |-> <<>>, truncated_tool_call |-> FALSE]

Init ==
    /\ model \in Models
    /\ phase = "loaded"
    /\ conv = None /\ transcript = <<>> /\ saved = None
    /\ cache = <<>> /\ job = NoJob
    /\ script = <<>> /\ at = Start /\ reply = NoReply
    /\ result = NoResult
    /\ vectors = <<>>

Template == The(model.template)
Conv == The(conv)
Told == Len(SelectSeq(transcript, LAMBDA m : m.role = "assistant"))

(* A client may go on with its conversation.                               *)
GoesOn ==
    /\ phase = "idle" /\ Told < MaxSends
    /\ result.truncated_tool_call => at.piece <= MaxSevered

---------------------------------------------------------------------------
(* What the model writes (external)                                        *)

SpecialWords == {"tool_call", "/tool_call", "|tool_call", "tool_call|", "|tool_response"}

(* text as the tokens' pieces: an atom each, or a whole marker of three.   *)
Pieces(text) ==
    LET whole == {i \in 1..(Len(text) - 2) : model.whole /\ text[i + 1] \in SpecialWords}
        piece(i) == IF i \in whole THEN <<SubSeq(text, i, i + 2)>>
                    ELSE IF i - 1 \in whole \/ i - 2 \in whole THEN <<>>
                    ELSE <<<<text[i]>>>>
    IN FlattenSeq([i \in DOMAIN text |-> piece(i)])

(* The pieces after which nothing is missing but closing framing.          *)
Enough(pieces) ==
    LET done == {n \in 1..Len(pieces) :
                    Has(FlattenSeq(SubSeq(pieces, 1, n)), Tag("/function"))}
    IN IF done = {} THEN Len(pieces) ELSE Min(done)

Segment(pieces, call, invented) ==
    [pieces |-> pieces, call |-> call, enough |-> Enough(pieces), invented |-> invented]

(* Prose, calls a line apart, and then perhaps what the harness should     *)
(* have answered, and a call made up on top of it.  "glued": the prose     *)
(* comes in the piece that ends the call.                                  *)
ScriptOf(plan) ==
    LET written(call) == Pieces(Written(model.speaks, call))
        joined(pieces, word) == Front(pieces) \o <<Last(pieces) \o word>>
        glued(i) == plan.invents = "glued" /\ i = Len(plan.calls)
        gap == Segment(<<<<"nl">>>>, None, FALSE)
        calls == FlattenSeq([i \in DOMAIN plan.calls |->
            (IF i = 1 THEN <<>> ELSE <<gap>>) \o
            <<Segment(IF glued(i) THEN joined(written(plan.calls[i]), Invention)
                      ELSE written(plan.calls[i]), Some(plan.calls[i]), FALSE)>>])
    IN (IF plan.prose THEN <<Segment(<<Prose>>, None, FALSE)>> ELSE <<>>) \o
       calls \o
       (CASE plan.invents = "no" -> <<>>
          [] plan.invents = "glued" -> <<Segment(written(Head(plan.calls)),
                                                 Some(Head(plan.calls)), TRUE)>>
          [] plan.invents = "after" ->
               <<gap, Segment(<<Invention>>, None, TRUE),
                 Segment(written(Head(plan.calls)), Some(Head(plan.calls)), TRUE)>>)

(* A model calls tools only when it knows a way to and they were offered,  *)
(* in a format known to both sides.                                        *)
MayWrite(plan) ==
    /\ plan.calls # <<>> => /\ model.speaks # "none" /\ conv # None /\ Conv.tool_format # None
                            /\ job.kind # "generate" /\ ~job.constrained
                            /\ Told < MaxCalling /\ result.tool_calls = <<>>

Begin(plan) ==
    /\ phase = "begin"
    /\ MayWrite(plan)
    /\ phase' = "reply"
    /\ script' = ScriptOf(plan) /\ at' = Start /\ reply' = NoReply
    /\ UNCHANGED <<model, talk, cache, job, result, vectors>>

---------------------------------------------------------------------------
(* Opening a conversation                                                  *)

NewConversation(shape, system, tools, configured) ==
    LET setup == PrepareTools(Template, shape, system, tools, configured)
    IN [shape |-> shape, opening |-> setup.opening,
        system_for_first_turn |-> setup.system_for_first_turn,
        tool_format |-> setup.tool_format,
        tool_result_spans |-> setup.tool_result_spans,
        tools |-> tools, configured |-> configured,
        system |-> system, kept |-> TRUE]

Shapes == UNION {DeriveConversationTemplate(t) : t \in model.template}

OpenConversation(system, tools, configured) ==
    /\ phase = "loaded" /\ Shapes # None
    /\ phase' = "idle"
    /\ conv' = Some(NewConversation(The(Shapes), system, tools, configured))
    /\ UNCHANGED <<model, transcript, saved, cache, job, writing, result, vectors>>

(* ConversationTemplateUnavailable                                         *)
RefuseConversation ==
    /\ phase = "loaded" /\ Shapes = None
    /\ phase' = "refused"
    /\ UNCHANGED <<model, talk, cache, job, writing, result, vectors>>

(* As Snapshot, but the conversation stays open.                           *)
SnapshotKeepsConversation ==
    /\ GoesOn
    /\ phase' = "snapshotted"
    /\ saved' = Some([tokens |-> cache, turns |-> transcript, tools |-> Conv.tools,
                      configured |-> Conv.configured, system |-> Conv.system,
                      kept |-> Conv.kept /\ transcript # <<>>])
    /\ UNCHANGED <<model, conv, cache, transcript, job, writing, result, vectors>>

(* save_state, after which the daemon drops the conversation.              *)
Snapshot ==
    /\ GoesOn
    /\ phase' = "snapshotted"
    /\ saved' = Some([tokens |-> cache, turns |-> transcript, tools |-> Conv.tools,
                      configured |-> Conv.configured, system |-> Conv.system,
                      kept |-> Conv.kept /\ transcript # <<>>])
    /\ conv' = None /\ cache' = <<>> /\ transcript' = <<>>
    /\ UNCHANGED <<model, job, writing, result, vectors>>

(* open_conversation_from_state: system text and opening are taken to be   *)
(* in the cache; the format is derived again.  system and kept are history *)
(* (what the client asked for, and whether any turn carried it).           *)
Reopen ==
    /\ phase = "snapshotted"
    /\ phase' = "idle"
    /\ LET meta == The(saved)
           setup == NewConversation(The(Shapes), None, meta.tools, meta.configured)
       IN /\ conv' = Some([setup EXCEPT !.opening = <<>>, !.system_for_first_turn = None,
                              !.system = meta.system, !.kept = meta.kept])
          /\ cache' = meta.tokens /\ transcript' = meta.turns
    /\ saved' = None
    /\ UNCHANGED <<model, job, writing, result, vectors>>

---------------------------------------------------------------------------
(* send and send_tool_results                                              *)

Say(kind, message, prefill, constrained) ==
    LET first == transcript = <<>>
        folded == IF first /\ Conv.system_for_first_turn # None
                  THEN The(Conv.system_for_first_turn) \o <<"nl", "nl">> \o message
                  ELSE message
        text == (IF first THEN Conv.opening ELSE Conv.shape.turn_transition) \o
                folded \o Conv.shape.generation_open \o prefill
    IN /\ GoesOn
       /\ phase' = "begin"
       /\ job' = [NoJob EXCEPT !.kind = kind, !.prompt = text, !.prefill = prefill,
                               !.constrained = constrained]
       /\ cache' = cache \o text
       /\ transcript' = Append(transcript, Message("user", folded))
       /\ UNCHANGED <<model, conv, saved, writing, result, vectors>>

Send(message, prefill, constrained) == Say("send", message, prefill, constrained)

(* A client answers the calls it was given; a model without result markers *)
(* hears of the results as ordinary text.                                  *)
SendToolResults(results) ==
    /\ GoesOn
    /\ result.tool_calls # <<>>
    /\ IF Conv.tool_result_spans = None
       THEN Say("results", Join(results, <<"nl">>), <<>>, FALSE)
       ELSE LET text == RenderResults(The(Conv.tool_result_spans), results)
            IN /\ phase' = "begin"
               /\ job' = [NoJob EXCEPT !.kind = "results", !.prompt = text, !.marked = TRUE]
               /\ cache' = cache \o text
               /\ transcript' = transcript \o
                    [i \in DOMAIN results |-> Message("tool", results[i])]
               /\ UNCHANGED <<model, conv, saved, writing, result, vectors>>

---------------------------------------------------------------------------
(* generate: one prompt, one reply, a context of its own                   *)

Generate(prompt, prefill, constrained) ==
    LET text == FormattedPrompt(model.template, model.native, model.wrap, prompt) \o prefill
    IN /\ phase = "loaded"
       /\ job' = [NoJob EXCEPT !.kind = "generate", !.prompt = text, !.prefill = prefill,
                               !.constrained = constrained]
       /\ IF Len(text) >= OneShotCtx
          THEN phase' = "refused" /\ UNCHANGED cache    \* PromptTooLong
          ELSE phase' = "begin" /\ cache' = text
       /\ UNCHANGED <<model, talk, writing, result, vectors>>

---------------------------------------------------------------------------
(* run_generation_loop                                                     *)

Format == IF conv = None THEN None ELSE Conv.tool_format

Remaining == at.segment <= Len(script)
Piece == script[at.segment].pieces[at.piece + 1]
Advanced ==
    IF at.piece + 1 < Len(script[at.segment].pieces)
    THEN [at EXCEPT !.piece = @ + 1]
    ELSE [segment |-> at.segment + 1, piece |-> 0]

(* The loop is over: what the caller gets, and the assistant turn.         *)
Finish(text, fed) ==
    LET whole == job.prefill \o text
    IN /\ phase' = IF job.kind = "generate" THEN "answered" ELSE "idle"
       /\ result' = [text |-> whole,
                     tool_calls |-> IF Format = None THEN <<>>
                                    ELSE ParseToolCalls(whole, The(Format)),
                     truncated_tool_call |-> Format # None /\ EndsMidCall(whole, The(Format))]
       /\ reply' = [text |-> text, fed |-> fed]
       /\ transcript' = IF job.kind = "generate" THEN transcript
                        ELSE Append(transcript, Message("assistant", job.prefill \o fed))
       /\ UNCHANGED <<model, conv, saved, job, script, vectors>>

(* As Cut, but a reply runs on to the end of generation.                   *)
NeverCut(text) == None

(* TurnEnd: where the text is cut once the model has moved on.             *)
Cut(text) == IF Format = None THEN None ELSE Reached(text, The(Format))

(* A piece is sampled, and decoded unless it ends the reply.               *)
Sample ==
    LET text == reply.text \o Piece
    IN /\ phase = "reply" /\ Remaining
       /\ at' = Advanced
       /\ IF job.constrained /\ Advanced.segment > Len(script)   \* grammar_complete
          THEN Finish(text, reply.fed) /\ UNCHANGED cache
          ELSE IF Cut(text) # None
          THEN Finish(SubSeq(text, 1, The(Cut(text))), reply.fed) /\ UNCHANGED cache
          ELSE /\ reply' = [text |-> text, fed |-> reply.fed \o Piece]
               /\ cache' = cache \o Piece
               /\ UNCHANGED <<model, phase, talk, job, script, result, vectors>>

(* End-of-generation, the budget, or the end of the context.               *)
Stop ==
    /\ phase = "reply"
    /\ Finish(reply.text, reply.fed)
    /\ UNCHANGED <<cache, at>>

---------------------------------------------------------------------------
(* embed                                                                   *)

Embed(texts, pooling) ==
    /\ phase = "loaded"
    /\ phase' = IF texts = <<>> THEN "answered" ELSE "embed"
    /\ job' = [NoJob EXCEPT !.kind = "embed", !.texts = texts, !.pooling = pooling]
    /\ UNCHANGED <<model, talk, cache, writing, result, vectors>>

Capacity ==
    LET n_ctx == IF model.trained < EmbedMax THEN model.trained ELSE EmbedMax
    IN IF n_ctx > 1 THEN n_ctx ELSE 1

Resolved(pooling) == IF pooling = "model" THEN model.pools ELSE pooling

Truncated(text) == SubSeq(text, 1, IF Len(text) < Capacity THEN Len(text) ELSE Capacity)

(* As Decoded, but the context still holds the text before.                *)
DecodedOnTop(text) == cache \o Truncated(text)

(* clear_kv_cache, then decode: the context holds this text only.          *)
Decoded(text) == Truncated(text)

EmbedText ==
    LET text == job.texts[Len(vectors) + 1]
    IN /\ phase = "embed" /\ Resolved(job.pooling) # "none"
       /\ cache' = Decoded(text)
       /\ vectors' = Append(vectors, [of |-> cache', pooling |-> Resolved(job.pooling)])
       /\ phase' = IF Len(vectors') = Len(job.texts) THEN "answered" ELSE "embed"
       /\ UNCHANGED <<model, talk, job, writing, result>>

(* NonePoolType: the model declared no pooling; asked again with the mean, *)
(* in a context of its own.                                                *)
NoPooling ==
    /\ phase = "embed" /\ Resolved(job.pooling) = "none"
    /\ job' = [job EXCEPT !.pooling = "mean"]
    /\ vectors' = <<>> /\ cache' = <<>>
    /\ UNCHANGED <<model, phase, talk, writing, result>>

---------------------------------------------------------------------------

Next ==
    \/ \E s \in Systems, l \in ToolLists, c \in Configured : OpenConversation(s, l, c)
    \/ RefuseConversation
    \/ \E m \in UserMessages, o \in Options : Send(m, o.prefill, o.constrained)
    \/ \E r \in ResultLists : SendToolResults(r)
    \/ \E m \in UserMessages, o \in Options : Generate(m, o.prefill, o.constrained)
    \/ \E p \in Plans : Begin(p)
    \/ Sample \/ Stop
    \/ Snapshot \/ Reopen
    \/ \E l \in TextLists, p \in Poolings : Embed(l, p)
    \/ EmbedText \/ NoPooling

Spec == Init /\ [][Next]_vars

---------------------------------------------------------------------------
(* Properties                                                              *)

TurnMessage == [role : {"user", "assistant", "tool"}, content : Seq(STRING),
             calls : {<<>>}, responses : {<<>>}]

TypeOK ==
    /\ model \in Models
    /\ phase \in {"loaded", "refused", "idle", "begin", "reply", "snapshotted",
                  "embed", "answered"}
    /\ transcript \in Seq(TurnMessage)
    /\ cache \in Seq(STRING)
    /\ job.kind \in {"none", "send", "results", "generate", "embed"}
    /\ phase \in {"begin", "reply"} => job.kind # "none"
    /\ (conv = None) <=> (phase \in {"loaded", "refused", "snapshotted"} \/
                         job.kind \in {"generate", "embed"})
    /\ (saved # None) <=> (phase = "snapshotted")

(* The turns with the one in progress, as the template is to render them.  *)
(* Only a template with a system block is told of system text.             *)
Conversed ==
    (IF Template.system = "block"
     THEN Listed({Message("system", s) : s \in Conv.system}) ELSE <<>>) \o
    transcript \o
    (IF phase = "begin" THEN <<Message("assistant", job.prefill)>> ELSE <<>>)

(* What a conversation has decoded, turn by turn from spans found by       *)
(* probing, is what the model's own template renders for those turns       *)
(* (derive_conversation_template, render_opening, ToolResultSpans), up to  *)
(* what closes the last one.                                               *)
ContextIsTheTemplates ==
    (phase \in {"idle", "begin"} /\ conv # None /\ Conv.kept) =>
        IF transcript = <<>> THEN cache = <<>>
        ELSE cache \o Closed \in Rendered(Template, Conversed, Conv.tools)

(* System text reaches the model exactly once: in the opening or, when the *)
(* template has no place for it, folded into the first message             *)
(* (prepare_tools, send); a reopened conversation does not repeat it.      *)
SystemToldOnce ==
    (phase \in {"idle", "begin"} /\ transcript # <<>> /\ Conv.kept) =>
        \A s \in Conv.system : Cardinality(Places(cache, s)) = 1

Replied == phase = "idle" /\ Told > 0

(* The calls the model completed before it went on to invent results.      *)
Completed ==
    LET done(i) == \/ i < at.segment
                   \/ i = at.segment /\ at.piece >= script[i].enough
        calls(i) == IF done(i) /\ ~script[i].invented
                    THEN Listed({[name |-> c.name, args |-> Arguments(c.args)] :
                                      c \in script[i].call})
                    ELSE <<>>
    IN FlattenSeq([i \in DOMAIN script |-> calls(i)])

(* Every call the model completed is handed to the client as it was meant, *)
(* name and arguments, and none it invented; at most a last, severed one   *)
(* is added (parse_tool_calls, TurnEnd).  Holds however the format was     *)
(* found: by derivation, by configuration, or again after a reopening.     *)
ParsedAsWritten ==
    Replied =>
        /\ IsPrefix(Completed, result.tool_calls)
        /\ Len(result.tool_calls) <= Len(Completed) +
               (IF result.truncated_tool_call THEN 1 ELSE 0)

(* truncated_tool_call is raised exactly when the reply ended inside a     *)
(* call, be it in the middle of the opening marker (ends_mid_call).        *)
SeveredIsReported ==
    (Replied /\ Conv.tool_format # None) =>
        (result.truncated_tool_call <=>
            /\ Remaining /\ script[at.segment].call # None
            /\ at.piece > 0 /\ at.piece < script[at.segment].enough)

(* Nothing the model wrote after it had moved on is answered or stays in   *)
(* the context, and of a reply the two hold the same but for the piece     *)
(* that ended it, or white space and the beginning of a call after the cut *)
(* (run_generation_loop, TurnEnd::reached).                                *)
AnswerIsInContext ==
    (Replied \/ (phase = "answered" /\ job.kind = "generate")) =>
        /\ ~Has(cache, <<"Read">>) /\ ~Has(result.text, <<"Read">>)
        /\ \/ reply.text = reply.fed
           \/ \E rest \in StripPrefix(reply.text, reply.fed),
                 i \in DOMAIN script :
                 \E j \in DOMAIN script[i].pieces : IsPrefix(rest, script[i].pieces[j])
           \/ \E rest \in StripPrefix(reply.fed, reply.text), f \in Format :
                 IsPrefix(TrimStart(rest), f.call_open)

(* Each text is embedded by itself, whatever was embedded before it in the *)
(* same call, all with one pooling, also after the fallback to the mean    *)
(* (embed, embed_pooled).                                                  *)
EmbeddedAlone ==
    (phase = "answered" /\ job.kind = "embed") =>
        /\ Len(vectors) = Len(job.texts)
        /\ \A i \in DOMAIN vectors :
              /\ vectors[i].of # <<>> /\ IsPrefix(vectors[i].of, job.texts[i])
              /\ vectors[i].pooling = vectors[1].pooling /\ vectors[i].pooling # "none"

(* "Falls back to Conversation::send with the results joined as ordinary   *)
(* text when this model has no result markers" (send_tool_results): a      *)
(* model with markers gets results as results.                             *)
ResultsArriveAsResults ==
    job.kind = "results" /\ ~job.marked => DeriveToolResultSpans(Template) = None

===========================================================================

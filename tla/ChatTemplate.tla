---------------------------- MODULE ChatTemplate ----------------------------
(***************************************************************************)
(* A model's chat template, which is data to the program: a record of what *)
(* it does with messages, rendered by src/src/chat_template.rs.            *)
(*                                                                         *)
(* A message is a record of role, content, calls and responses; a call is  *)
(* a name and its arguments, a sequence of name and value.                 *)
(*                                                                         *)
(* A template is                                                           *)
(*   preamble : its own system text, when no system message is given;      *)
(*   system : "block", or it drops or rejects ("raise") a system message;  *)
(*   lists : does it list the tools it is given?                           *)
(*   calls : how it writes a call: "xml", "json", "gemma" or "none";       *)
(*   results : tool results by "role", "native" to it, or "none";          *)
(*   lead : what precedes the content of a completed assistant turn;       *)
(*   quirk : "none"; "last", it treats the last assistant turn apart;      *)
(*     "escape", it escapes content; "macro", minijinja cannot render it.  *)
(***************************************************************************)
EXTENDS Naturals, Sequences, Texts

LOCAL INSTANCE SequencesExt

(* The templates whose own text is of these words.                         *)
Templates(words) ==
    [preamble : Seq(words), system : {"block", "drop", "raise"}, lists : BOOLEAN,
     calls : {"xml", "json", "gemma", "none"}, results : {"role", "native", "none"},
     lead : Seq(words), quirk : {"none", "last", "escape", "macro"}]

(* The markup a template puts around the texts of a conversation.          *)
Marks ==
    {"<|im_start|>", "<|im_end|>", "nl", "<", ">", "q", ":", ",", "{", "}", "call:",
     "<|q|>", "&amp;", "system", "user", "assistant", "think", "tools", "/tools",
     "tool_call", "/tool_call", "|tool_call", "tool_call|", "function=", "/function",
     "parameter=", "/parameter", "arguments", "name", "tool_response",
     "/tool_response", "|tool_response", "tool_response|"}

Message(role, content) ==
    [role |-> role, content |-> content, calls |-> <<>>, responses |-> <<>>]

Calling(calls) == [Message("assistant", <<>>) EXCEPT !.calls = calls]

Responding(responses) ==
    [Message("assistant", <<>>) EXCEPT !.responses = responses]

Opened(role) == <<"<|im_start|>", role, "nl">>
Closed == <<"<|im_end|>", "nl">>
Tag(word) == <<"<", word, ">">>
Quoted(text) == <<"q">> \o text \o <<"q">>
Numeric(value) == value = <<"38">>

XmlCall(call) ==
    LET arg(a) == <<"<", "parameter=">> \o a[1] \o <<">", "nl">> \o a[2] \o
                  <<"nl">> \o Tag("/parameter") \o <<"nl">>
    IN Tag("tool_call") \o <<"nl", "<", "function=">> \o call.name \o <<">", "nl">> \o
       FlattenSeq([i \in DOMAIN call.args |-> arg(call.args[i])]) \o
       Tag("/function") \o <<"nl">> \o Tag("/tool_call")

(* The keys of the object come sorted.                                     *)
JsonCall(call) ==
    LET arg(a) == Quoted(a[1]) \o <<":">> \o Quoted(a[2])
        args == Join([i \in DOMAIN call.args |-> arg(call.args[i])], <<",">>)
    IN Tag("tool_call") \o <<"nl", "{">> \o Quoted(<<"arguments">>) \o <<":", "{">> \o args \o
       <<"}", ",">> \o Quoted(<<"name">>) \o <<":">> \o Quoted(call.name) \o
       <<"}", "nl">> \o Tag("/tool_call")

(* Strings are wrapped, numbers are not.                                   *)
GemmaCall(call) ==
    LET value(v) == IF Numeric(v) THEN v ELSE <<"<|q|>">> \o v \o <<"<|q|>">>
        arg(a) == a[1] \o <<":">> \o value(a[2])
    IN Tag("|tool_call") \o <<"call:">> \o call.name \o <<"{">> \o
       Join([i \in DOMAIN call.args |-> arg(call.args[i])], <<",">>) \o
       <<"}">> \o Tag("tool_call|")

(* A call as a model of the family was trained to write it.                *)
Written(family, call) ==
    CASE family = "xml" -> XmlCall(call)
      [] family = "json" -> JsonCall(call)
      [] family = "gemma" -> GemmaCall(call)
      [] family = "none" -> <<>>

WrittenCalls(family, calls) ==
    Join([i \in DOMAIN calls |-> Written(family, calls[i])],
         IF family = "gemma" THEN <<>> ELSE <<"nl">>)

Escaped(t, content) ==
    IF t.quirk = "escape" THEN ReplaceAll(content, "&", "&amp;") ELSE content

(* The turn of message i of m.  A template with native results puts them   *)
(* on the assistant message, lets the next one go on in the same turn, and *)
(* opens a response after a call that has none.                            *)
Turn(t, m, i) ==
    LET msg == m[i]
        role(j) == IF j \in DOMAIN m THEN m[j].role ELSE "none"
        native == t.results = "native"
        last == \A j \in (i + 1)..Len(m) : m[j].role # "assistant"
        content == Escaped(t, msg.content)
        response(r) == Tag("|tool_response") \o r \o Tag("tool_response|")
    IN CASE msg.role = "user" -> Opened("user") \o content \o Closed
         [] msg.role = "assistant" ->
              (IF native /\ role(i - 1) = "assistant" THEN <<>> ELSE Opened("assistant")) \o
              (IF t.quirk = "last" /\ last THEN Tag("think") ELSE <<>>) \o t.lead \o
              WrittenCalls(t.calls, msg.calls) \o
              (IF native THEN FlattenSeq([j \in DOMAIN msg.responses |->
                                             response(msg.responses[j])]) ELSE <<>>) \o
              content \o
              (IF native /\ msg.calls # <<>> /\ msg.responses = <<>>
               THEN Tag("|tool_response")
               ELSE IF native /\ role(i + 1) = "assistant" THEN <<>> ELSE Closed)
         [] msg.role = "tool" /\ t.results = "role" ->
              (IF role(i - 1) = "tool" THEN <<>> ELSE Opened("user")) \o
              Tag("tool_response") \o content \o Tag("/tool_response") \o <<"nl">> \o
              (IF role(i + 1) = "tool" THEN <<>> ELSE Closed)
         [] OTHER -> <<>>

SystemTexts(m) == {m[i].content : i \in {j \in DOMAIN m : m[j].role = "system"}}

(* What precedes the first turn: system text and the list of tools.        *)
Preface(t, m, tools) ==
    LET system == IF t.system = "block" /\ SystemTexts(m) # {}
                  THEN The(SystemTexts(m)) ELSE t.preamble
        list == IF t.lists /\ tools # <<>>
                THEN Tag("tools") \o FlattenSeq(tools) \o Tag("/tools") ELSE <<>>
    IN IF system \o list = <<>> THEN <<>>
       ELSE Opened("system") \o system \o list \o Closed

(* render_json.  A template that lists tools must see none at all when the *)
(* caller offers none: tools is then <<>>.                                 *)
Render(t, m, tools, add_generation_prompt) ==
    IF t.quirk = "macro" \/ (t.system = "raise" /\ SystemTexts(m) # {}) THEN None
    ELSE Some(Preface(t, m, tools) \o
              FlattenSeq([i \in DOMAIN m |-> Turn(t, m, i)]) \o
              (IF add_generation_prompt THEN Opened("assistant") ELSE <<>>))

(* probe_renderer                                                          *)
Rendered(t, m, tools) == Render(t, m, tools, FALSE)

===========================================================================

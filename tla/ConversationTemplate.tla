------------------------ MODULE ConversationTemplate ------------------------
(***************************************************************************)
(* What src/src/llama.rs makes of a chat template: the spans turns are     *)
(* composed of, how system text and tools reach the model, and the prompt  *)
(* of a one-shot generation.                                               *)
(***************************************************************************)
EXTENDS Naturals, Sequences, Texts, ChatTemplate, ToolFormat

(* A sentinel with a character that escaping would change.                 *)
Probe(word) == <<"pua", word, "&", "pua">>

(* The words of sentinels, of private-use characters that no template, no  *)
(* tool and no system text has.                                            *)
ProbeWords ==
    {"NAME", "ARGA", "VALA", "ARGB", "VALB", "PLAIN", "USER", "RESULT", "REPLY", "RESULTB",
     "RPA1", "RPA2", "RPA3", "RPA4", "RPB1", "RPB2", "RPB3", "RPB4"}

Gap(text, a, b) == Between(text, Find(text, a) + Len(a), Find(text, b))

(* As Steady, but the two turns are not compared.                          *)
TakenOnTrust(text, u1, a1, u2, a2) ==
    InOrder(<<Find(text, u1), Find(text, a1), Find(text, u2), Find(text, a2)>>)

(* The second turn is built as the first was.                              *)
Steady(text, u1, a1, u2, a2) ==
    /\ InOrder(<<Find(text, u1), Find(text, a1), Find(text, u2), Find(text, a2)>>)
    /\ Gap(text, u1, a1) = Gap(text, u2, a2)

DeriveFromProbe(t, u1, a1, u2, a2) ==
    LET m == <<Message("user", u1), Message("assistant", a1),
               Message("user", u2), Message("assistant", a2)>>
    IN {[first_turn_open |-> Before(text, Find(text, u1)),
         generation_open |-> Gap(text, u1, a1),
         turn_transition |-> Gap(text, a1, u2)] :
           text \in {r \in Rendered(t, m, <<>>) : Steady(r, u1, a1, u2, a2)}}

DeriveConversationTemplate(t) ==
    DeriveFromProbe(t, Probe("RPA1"), Probe("RPA2"), Probe("RPA3"), Probe("RPA4"))
    \cap
    DeriveFromProbe(t, Probe("RPB1"), Probe("RPB2"), Probe("RPB3"), Probe("RPB4"))

(* As FoldedSystem, but what the opening carries is folded, too.           *)
FoldedAnyway(system, carried) == system

(* System text the opening does not carry goes with the first user turn.   *)
FoldedSystem(system, carried) == IF carried THEN None ELSE system

(* prepare_tools: how system text and tools reach the model.  shape is the *)
(* conversation template, configured the host's fallback format.           *)
PrepareTools(t, shape, system, tools, configured) ==
    LET capabilities == DeriveCapabilities(t)
        offered == IF tools # <<>> /\ capabilities.tools THEN tools ELSE <<>>
        system_block == IF capabilities.system THEN system ELSE None
        rendered == IF system_block # None \/ offered # <<>>
                    THEN RenderOpening(system_block, offered, t) ELSE None
        carried == system_block # None /\ rendered # None
    IN [opening |-> The(OrElse(rendered, Some(shape.first_turn_open))),
        system_for_first_turn |-> FoldedSystem(system, carried),
        tool_format |-> IF offered # <<>>
                        THEN OrElse(DeriveToolCallFormat(t), configured) ELSE None,
        tool_result_spans |-> IF offered # <<>> /\ capabilities.tool_results
                              THEN DeriveToolResultSpans(t) ELSE None,
        capabilities |-> capabilities]

---------------------------------------------------------------------------
(* formatted_prompt: the prompt of a one-shot generation, from the model's *)
(* template by minijinja, by llama.cpp's own engine (native: does it       *)
(* manage?), from a wrap the host configured, or as it stands.             *)
FormattedPrompt(template, native, wrap, prompt) ==
    LET message == <<Message("user", prompt)>>
        rendered == UNION {Render(t, message, <<>>, TRUE) : t \in template}
        applied == IF native
                   THEN UNION {Render([t EXCEPT !.quirk = "none"], message, <<>>, TRUE) :
                                  t \in template}
                   ELSE None
        wrapped == {w.prefix \o prompt \o w.suffix : w \in wrap}
    IN IF template = None THEN prompt
       ELSE The(OrElse(rendered, OrElse(applied, OrElse(wrapped, Some(prompt)))))

===========================================================================

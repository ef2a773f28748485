--------------------------- MODULE MCLlamaSession ---------------------------
(* Small instances of LlamaSession: templates of the shapes the repository *)
(* has fixtures or stubs for, and short replies with every ending.         *)
EXTENDS LlamaSession, TLC

Qwen == [preamble |-> <<>>, system |-> "block", lists |-> TRUE, calls |-> "xml",
         results |-> "role", lead |-> <<>>, quirk |-> "none"]
Hermes == [Qwen EXCEPT !.preamble = <<"helpful">>, !.calls = "json"]
Gemma == [Qwen EXCEPT !.calls = "gemma", !.results = "native"]
Dropping == [Hermes EXCEPT !.system = "drop", !.preamble = <<>>]
Rejecting == [Qwen EXCEPT !.system = "raise", !.calls = "none", !.results = "none"]
Jamba == [Qwen EXCEPT !.lists = FALSE, !.calls = "none", !.results = "none",
          !.lead = <<"sp">>]
Thinking == [Qwen EXCEPT !.quirk = "last"]
Escaping == [Qwen EXCEPT !.quirk = "escape"]
Macros == [Qwen EXCEPT !.quirk = "macro"]

Of(template, speaks, whole) ==
    [template |-> template, native |-> FALSE, wrap |-> None, speaks |-> speaks,
     whole |-> whole, pools |-> "none", trained |-> 2]

Talking == {Of({Qwen}, "xml", TRUE), Of({Hermes}, "json", FALSE),
            Of({Gemma}, "gemma", FALSE), Of({Dropping}, "json", TRUE),
            Of({Rejecting}, "json", TRUE), Of({Jamba}, "none", TRUE)}
Mute == {Of({Thinking}, "xml", TRUE), Of({Escaping}, "xml", TRUE),
         [Of({Macros}, "xml", TRUE) EXCEPT !.native = TRUE, !.pools = "cls"],
         [Of({Macros}, "xml", TRUE) EXCEPT
             !.wrap = {[prefix |-> <<"[">>, suffix |-> <<"]">>]}, !.trained = 9],
         Of({}, "none", TRUE)}
AllModels == Talking \cup Mute
GemmaOnly == {Of({Gemma}, "gemma", FALSE)}

NoneOrSystem == {None, Some(<<"SYS">>)}
NoneOrRead == {<<>>, <<<<"read">>>>}
ReadOnly == {<<<<"read">>>>}
JsonFormat ==
    [family |-> "json", call_open |-> Tag("tool_call") \o <<"nl">>,
     call_close |-> <<"nl">> \o Tag("/tool_call"),
     name_key |-> <<"name">>, arguments_key |-> <<"arguments">>]
Json == {Some(JsonFormat)}
NoFormat == {None}
NoSystem == {None}

Read == [name |-> <<"read">>,
         args |-> <<<<<<"path">>, <<"a", ",", "b">>>>, <<<<"line">>, <<"38">>>>>>]
List == [name |-> <<"ls">>, args |-> <<>>]
SomePlans == {[prose |-> TRUE, calls |-> <<>>, invents |-> "no"],
              [prose |-> TRUE, calls |-> <<Read>>, invents |-> "glued"],
              [prose |-> FALSE, calls |-> <<List, List>>, invents |-> "after"]}

Hello == {<<"hello">>}
Asks == {[prefill |-> <<"Sure">>, constrained |-> FALSE],
         [prefill |-> <<>>, constrained |-> TRUE]}
Plainly == {[prefill |-> <<>>, constrained |-> FALSE]}
Two == {<<<<"one">>, <<"two">>>>}
Lists == {<<>>, <<<<"a", "b", "c">>, <<"d">>>>}
NoTexts == {<<>>}
AnyPooling == {"model", "last"}

===========================================================================

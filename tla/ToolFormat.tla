----------------------------- MODULE ToolFormat -----------------------------
(***************************************************************************)
(* src/src/tool_format.rs: what a model's template says of tool calls, and *)
(* the reading of a reply by it.  The template is probed: transcripts of   *)
(* sentinels are rendered and the spans around the sentinels read off.     *)
(*                                                                         *)
(* The code takes the renderer as a parameter (RenderFn) and is given      *)
(* probe_renderer, which is Rendered of module ChatTemplate.               *)
(***************************************************************************)
EXTENDS Naturals, Sequences, Texts, ChatTemplate

LOCAL INSTANCE FiniteSetsExt
LOCAL INSTANCE SequencesExt

(* The wrapper is of its own atoms: two sentinels begin and end alike.     *)
Sentinel(word) == <<"pua", word, "aup">>
NAME == Sentinel("NAME")
ARG1 == Sentinel("ARGA")
VAL1 == Sentinel("VALA")
ARG2 == Sentinel("ARGB")
VAL2 == Sentinel("VALB")
PLAIN == Sentinel("PLAIN")
USER == Sentinel("USER")
RESULT == Sentinel("RESULT")
REPLY == Sentinel("REPLY")
RESULT2 == Sentinel("RESULTB")

---------------------------------------------------------------------------
(* Capabilities                                                            *)

InOrder(places) ==
    /\ \A i \in DOMAIN places : places[i] # 0
    /\ \A i \in 1..(Len(places) - 1) : places[i] < places[i + 1]

ProbeSystem(t) ==
    \E text \in Rendered(t, <<Message("system", PLAIN), Message("user", USER)>>, <<>>) :
        InOrder(<<Find(text, PLAIN), Find(text, USER)>>)

ProbeTools(t) ==
    \E with \in Rendered(t, <<Message("user", USER)>>, <<NAME>>) :
    \E without \in Rendered(t, <<Message("user", USER)>>, <<>>) :
        with # without /\ Has(with, NAME)

ProbeToolResults(t) ==
    \E text \in Rendered(t, <<Message("user", USER), Message("assistant", PLAIN),
                         Message("tool", RESULT)>>, <<>>) :
        InOrder(<<Find(text, PLAIN), Find(text, RESULT)>>)

DeriveCapabilities(t) ==
    [system |-> ProbeSystem(t),
     tools |-> ProbeTools(t),
     tool_results |-> ProbeToolResults(t)]

---------------------------------------------------------------------------
(* JSON as serde_json reads it: objects of strings and of such objects.    *)
(* "q" is the quote; an escaped quote is another atom.                     *)

InString(text, i) == Cardinality({j \in 1..(i - 1) : text[j] = "q"}) % 2 = 1

Outside(text, atom, last) ==
    Cardinality({j \in 1..last : text[j] = atom /\ ~InString(text, j)})

Depth(text, i) == Outside(text, "{", i) - Outside(text, "}", i - 1)

(* The members of the object that is the whole of text.                    *)
Members(text) ==
    LET breaks == {1, Len(text)} \cup
            {i \in DOMAIN text : text[i] = "," /\ ~InString(text, i) /\ Depth(text, i) = 1}
        next(i) == Min({j \in breaks : j > i})
    IN {Between(text, i + 1, next(i)) : i \in breaks \ {Len(text)}} \ {<<>>}

KeyEnd(member) == Find(member, <<"q", ":">>)
Key(member) == Between(member, 2, KeyEnd(member))
Value(member) == From(member, KeyEnd(member) + 2)
IsString(text) ==
    Len(text) >= 2 /\ {i \in DOMAIN text : text[i] = "q"} = {1, Len(text)}
Unquoted(text) == SubSeq(text, 2, Len(text) - 1)

IsObject(text) ==
    /\ Len(text) >= 2 /\ text[1] = "{" /\ text[Len(text)] = "}"
    /\ ~InString(text, Len(text)) /\ Depth(text, Len(text)) = 1
    /\ \A i \in DOMAIN text : Outside(text, "{", i) > Outside(text, "}", i - 1)
    /\ \A m \in Members(text) : m[1] = "q" /\ KeyEnd(m) > 1 /\ Value(m) # <<>>

---------------------------------------------------------------------------
(* Recovering the format                                                   *)

(* Where calls differs from plain: the calls without the turn's framing.   *)
DivergingRegion(plain, calls) ==
    LET prefix == CommonPrefixLen(plain, calls)
        suffix == CommonSuffixLen(From(plain, prefix + 1), From(calls, prefix + 1))
    IN SubSeq(calls, prefix + 1, Len(calls) - suffix)

DeriveJsonFormat(region) ==
    LET open == Find(region, <<"{">>)
        close == RFind(region, <<"}">>)
        payload == SubSeq(region, open, close)
        named == {m \in Members(payload) : Value(m) = <<"q">> \o NAME \o <<"q">>}
        carrying == {m \in Members(payload) : IsObject(Value(m)) /\
            \E a \in Members(Value(m)) : Value(a) = <<"q">> \o VAL1 \o <<"q">>}
    IN IF /\ open # 0 /\ close > open
          /\ IsObject(payload) /\ named # {} /\ carrying # {}
       THEN Some([family |-> "json",
                  call_open |-> Before(region, open),
                  call_close |-> From(region, close + 1),
                  name_key |-> Key(The(named)),
                  arguments_key |-> Key(The(carrying))])
       ELSE None

(* The spans between the sentinels of the two renders with a call.         *)
Spans(region, no_args) ==
    LET gap(a, b) == Between(region, Find(region, a) + Len(a), Find(region, b))
    IN [call_open |-> Before(region, Find(region, NAME)),
        name_to_arg1 |-> gap(NAME, ARG1),
        arg1_to_val1 |-> gap(ARG1, VAL1),
        val1_to_arg2 |-> gap(VAL1, ARG2),
        arg2_to_val2 |-> gap(ARG2, VAL2),
        after_val2 |-> From(region, Find(region, VAL2) + Len(VAL2)),
        after_name_no_args |-> From(no_args, Find(no_args, NAME) + Len(NAME))]

SharedPrefix(a, b) == SubSeq(a, 1, CommonPrefixLen(a, b))

(* Qwen3-Coder: a block for each argument, closed like the others.         *)
DeriveDelimitedFormat(s) ==
    LET name_close == SharedPrefix(s.name_to_arg1, s.after_name_no_args)
        arg_close == SharedPrefix(s.val1_to_arg2, s.after_val2)
        arg_open == From(s.name_to_arg1, Len(name_close) + 1)
        call_close == From(s.after_val2, Len(arg_close) + 1)
    IN IF /\ <<>> \notin {name_close, arg_open, arg_close, s.arg1_to_val1}
          /\ s.val1_to_arg2 = arg_close \o arg_open
          /\ s.after_name_no_args = name_close \o call_close
          /\ s.arg2_to_val2 = s.arg1_to_val1
       THEN Some([family |-> "delimited", call_open |-> s.call_open,
                  name_close |-> name_close, arg_open |-> arg_open,
                  arg_name_close |-> s.arg1_to_val1, arg_close |-> arg_close,
                  call_close |-> call_close])
       ELSE None

(* Gemma: a separator between arguments, and a wrapper around strings.     *)
DeriveSeparatedFormat(s) ==
    UNION {
      LET closing_at == Find(s.after_val2, call_close)
          arg_close == Before(s.after_val2, closing_at)
          bare == {b \in StripSuffix(s.arg1_to_val1, arg_close) :
                      arg_close # <<>> /\ b # <<>>}
          arg_name_close == The(OrElse(bare, Some(s.arg1_to_val1)))
          value_open == IF bare # None THEN arg_close ELSE <<>>
      IN IF closing_at = 0 \/ s.arg2_to_val2 # s.arg1_to_val1 THEN None ELSE
         {[family |-> "separated", call_open |-> s.call_open,
           name_close |-> s.name_to_arg1, arg_name_close |-> arg_name_close,
           value_open |-> value_open, arg_close |-> arg_close,
           arg_sep |-> sep, call_close |-> call_close] :
             sep \in {x \in StripPrefix(s.val1_to_arg2, arg_close) :
                 /\ <<>> \notin {s.name_to_arg1, arg_name_close, x, call_close}
                 /\ ~Has(x, arg_name_close) /\ ~IsPrefix(x, call_close)}}
      : call_close \in StripPrefix(s.after_name_no_args, s.name_to_arg1)}

CallProbe(calls) == <<Message("user", USER), Calling(calls)>>

(* Three renders: plain content, a call of two arguments and one of none.  *)
DeriveToolCallFormat(t) ==
    LET formats(plain, calls, none) ==
            LET region == DivergingRegion(plain, calls)
                no_args == DivergingRegion(plain, none)
                sentinels == <<NAME, ARG1, VAL1, ARG2, VAL2>>
                places == [i \in 1..5 |-> Find(region, sentinels[i])]
                spans == Spans(region, no_args)
            IN IF \E i \in 1..5 : places[i] = 0 THEN None
               ELSE IF DeriveJsonFormat(region) # None THEN DeriveJsonFormat(region)
               ELSE IF ~InOrder(places) \/ ~Has(no_args, NAME) THEN None
               ELSE OrElse(DeriveDelimitedFormat(spans), DeriveSeparatedFormat(spans))
    IN UNION {formats(plain, calls, none) :
           plain \in Rendered(t, <<Message("user", USER), Message("assistant", PLAIN)>>, <<>>),
           calls \in Rendered(t, CallProbe(
               <<[name |-> NAME, args |-> <<<<ARG1, VAL1>>, <<ARG2, VAL2>>>>]>>), <<>>),
           none \in Rendered(t, CallProbe(<<[name |-> NAME, args |-> <<>>]>>), <<>>)}

---------------------------------------------------------------------------
(* Reading calls                                                           *)

(* A derived closer may carry framing the model never writes, so shorter   *)
(* prefixes that end a tag will do; the longest is tried first.            *)
CloseCandidates(call_close) ==
    LET ends == {i \in DOMAIN call_close : call_close[i] = ">"} \cup {Len(call_close)}
    IN {SubSeq(call_close, 1, i) : i \in ends} \ {<<>>}

(* None, or where the closer is and how much of it there is.               *)
FindClose(text, call_close) ==
    LET found == {c \in CloseCandidates(call_close) : Has(text, c)}
    IN {[at |-> Find(text, c), len |-> Len(c)] :
           c \in {d \in found : \A e \in found : Len(e) <= Len(d)}}

(* Map::insert, one pair after the other.                                  *)
Arguments(pairs) ==
    LET last(key) == Max({i \in DOMAIN pairs : pairs[i][1] = key})
    IN [key \in {pairs[i][1] : i \in DOMAIN pairs} |-> pairs[last(key)][2]]

Named(name, pairs) ==
    IF name = <<>> THEN None ELSE Some([name |-> name, args |-> Arguments(pairs)])

ReadJsonCall(body, f) ==
    LET object == Trim(body)
        member(key) == {m \in Members(object) : Key(m) = key}
        value(key) == Value(The(member(key)))
    IN IF /\ IsObject(object)
          /\ member(f.name_key) # {} /\ IsString(value(f.name_key))
          /\ Unquoted(value(f.name_key)) # <<>>
       THEN Some([name |-> Unquoted(value(f.name_key)),
                  args |-> IF member(f.arguments_key) = {} THEN Arguments(<<>>)
                           ELSE Arguments(SetToSeq(
                                  {<<Key(a), Unquoted(Value(a))>> :
                                      a \in Members(value(f.arguments_key))}))])
       ELSE None

DelimitedPairs(body, f) ==
    LET walk[i \in 1..(Len(body) + 1)] ==
          LET rest == From(body, i)
              start == Find(rest, f.arg_open)
              opened == From(rest, start + Len(f.arg_open))
              named == Find(opened, f.arg_name_close)
              value == From(opened, named + Len(f.arg_name_close))
              close == Find(value, f.arg_close)
              next == From(value, close + Len(f.arg_close))
              pair(v) == <<Trim(Before(opened, named)), v>>
          IN IF start = 0 \/ named = 0 THEN <<>>
             ELSE IF close = 0 THEN <<pair(value)>>
             ELSE <<pair(Before(value, close))>> \o
                  (IF next = <<>> THEN <<>> ELSE walk[Len(body) + 1 - Len(next)])
    IN walk[1]

ReadDelimitedCall(body, f) ==
    LET end == Find(body, f.name_close)
    IN IF end = 0 THEN None
       ELSE Named(Trim(Before(body, end)),
                  DelimitedPairs(From(body, end + Len(f.name_close)), f))

FindSep(text, f) == IF f.arg_sep = <<>> THEN 0 ELSE Find(text, f.arg_sep)

(* A wrapped value runs to its closer, a bare one to the next separator.   *)
BareValue(text, f) ==
    LET sep == FindSep(text, f)
    IN IF sep = 0 THEN [value |-> Trim(text), rest |-> <<>>]
       ELSE [value |-> Trim(Before(text, sep)), rest |-> From(text, sep)]

WrappedValue(text, f) ==
    LET close == Find(text, f.arg_close)
    IN IF close = 0 THEN [value |-> text, rest |-> <<>>]
       ELSE [value |-> Before(text, close), rest |-> From(text, close + Len(f.arg_close))]

SplitArgs(args, f) ==
    LET walk[i \in 1..(Len(args) + 1)] ==
            LET rest == From(args, i)
                at == Find(rest, f.arg_name_close)
                key == Trim(Before(rest, at))
                after == From(rest, at + Len(f.arg_name_close))
                read == IF f.value_open # <<>> /\ IsPrefix(f.value_open, after)
                        THEN WrappedValue(From(after, Len(f.value_open) + 1), f)
                        ELSE BareValue(after, f)
                sep == FindSep(read.rest, f)
            IN IF at = 0 THEN <<>> ELSE
                 (IF key = <<>> THEN <<>> ELSE <<<<key, read.value>>>>) \o
                 (IF sep = 0 THEN <<>>
                  ELSE walk[Len(args) + 1 - Len(read.rest) + sep - 1 + Len(f.arg_sep)])
    IN walk[1]

ReadSeparatedCall(body, f) ==
    LET end == Find(body, f.name_close)
    IN IF end = 0 THEN None
       ELSE Named(Trim(Before(body, end)),
                  SplitArgs(From(body, end + Len(f.name_close)), f))

ReadCall(body, f) ==
    CASE f.family = "json" -> ReadJsonCall(body, f)
      [] f.family = "delimited" -> ReadDelimitedCall(body, f)
      [] f.family = "separated" -> ReadSeparatedCall(body, f)

(* The calls of text, one after the other.                                 *)
ParseToolCalls(text, format) ==
    LET scan[i \in 1..(Len(text) + 1)] ==
          LET rest == From(text, i)
              start == Find(rest, format.call_open)
              after_open == From(rest, start + Len(format.call_open))
              close == FindClose(after_open, format.call_close)
              end == IF close = None THEN Len(after_open) + 1 ELSE The(close).at
              remainder == IF close = None THEN <<>>
                           ELSE From(after_open, end + The(close).len)
          IN IF start = 0 THEN <<>> ELSE
               Listed(ReadCall(Before(after_open, end), format)) \o
               (IF remainder = <<>> THEN <<>>
                ELSE scan[Len(text) + 1 - Len(remainder)])
    IN scan[1]

---------------------------------------------------------------------------
(* Ends                                                                    *)

(* TurnEnd::reached: where to cut a reply whose last call has closed and   *)
(* is followed by something that cannot become another call.  The number   *)
(* of atoms to keep, or None.                                              *)
Reached(text, f) ==
    LET closed == {RFind(text, c) + Len(c) - 1 :
                      c \in {d \in CloseCandidates(f.call_close) : Has(text, d)}}
        end == Max(closed)
        after == TrimStart(From(text, end + 1))
    IN IF \/ f.call_open = <<>> \/ closed = {} \/ after = <<>>
          \/ IsPrefix(f.call_open, after) \/ IsPrefix(after, f.call_open)
       THEN None ELSE Some(end)

(* As EndsMidCall, but only a whole opening marker counts.                 *)
MissesHalfMarkers(text, f) ==
    LET opened == RFind(text, f.call_open)
    IN opened # 0 /\ FindClose(From(text, opened + Len(f.call_open)), f.call_close) = None

EndsMidCall(text, f) ==
    LET trimmed == TrimEnd(text)
        opened == RFind(trimmed, f.call_open)
        after == From(trimmed, opened + Len(f.call_open))
    IN /\ f.call_open # <<>>
       /\ \/ opened # 0 /\ FindClose(after, f.call_close) = None
          \/ \E n \in 1..(Len(f.call_open) - 1) :
                IsSuffix(SubSeq(f.call_open, 1, n), trimmed)

---------------------------------------------------------------------------
(* The opening and the results                                             *)

RenderOpening(system, tools, t) ==
    LET messages == Listed({Message("system", text) : text \in system})
    IN {Before(text, Find(text, USER)) :
           text \in {r \in Rendered(t, messages \o <<Message("user", USER)>>, tools) : Has(r, USER)}}

RenderResults(spans, results) ==
    spans.open \o Join(results, spans.separator) \o spans.close

(* The spans around RESULT and RESULT2, between anchor and REPLY.          *)
ResultSpans(text, anchor) ==
    LET gap(a, b) == Between(text, Find(text, a) + Len(a), Find(text, b))
    IN IF InOrder(<<Find(text, anchor), Find(text, RESULT),
                    Find(text, RESULT2), Find(text, REPLY)>>)
       THEN Some([open |-> gap(anchor, RESULT), separator |-> gap(RESULT, RESULT2),
                  close |-> gap(RESULT2, REPLY)])
       ELSE None

DeriveToolResultSpansByRole(t) ==
    UNION {ResultSpans(text, PLAIN) : text \in Rendered(t,
        <<Message("user", USER), Message("assistant", PLAIN), Message("tool", RESULT),
          Message("tool", RESULT2), Message("assistant", REPLY)>>, <<>>)}

DeriveToolResultSpansNative(t) ==
    UNION {ResultSpans(text, USER) : text \in Rendered(t,
        <<Message("user", USER), Responding(<<RESULT, RESULT2>>),
          Message("assistant", REPLY)>>, <<>>)}

DeriveToolResultSpans(t) ==
    OrElse(DeriveToolResultSpansByRole(t), DeriveToolResultSpansNative(t))

===========================================================================

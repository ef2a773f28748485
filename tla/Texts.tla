------------------------------- MODULE Texts -------------------------------
(***************************************************************************)
(* Text, as the template code slices it (str::find, strip_prefix, trim...).*)
(* A text is a sequence of atoms: words, markers, the punctuation a marker *)
(* is made of, and the white space "nl" and "sp".  Distinct atoms share no *)
(* beginning and no end, so a comparison by bytes is one by atoms.         *)
(*                                                                         *)
(* Option<T> is a set of at most one element; a position that does not     *)
(* exist is 0.                                                             *)
(***************************************************************************)
LOCAL INSTANCE Naturals
LOCAL INSTANCE Sequences
LOCAL INSTANCE FiniteSetsExt
LOCAL INSTANCE SequencesExt

None == {}
Some(x) == {x}
The(option) == CHOOSE x \in option : TRUE
IsOption(option, S) == option \subseteq S /\ \A x, y \in option : x = y
Listed(option) == IF option = None THEN <<>> ELSE <<The(option)>>
OrElse(option, other) == IF option # None THEN option ELSE other

From(text, i) == SubSeq(text, i, Len(text))
Before(text, i) == SubSeq(text, 1, i - 1)
Between(text, i, j) == SubSeq(text, i, j - 1)

(* Where needle occurs in text.                                            *)
Places(text, needle) ==
    {i \in 1..(Len(text) + 1 - Len(needle)) :
        SubSeq(text, i, i + Len(needle) - 1) = needle}

Find(text, needle) ==
    LET places == Places(text, needle) IN IF places = {} THEN 0 ELSE Min(places)

RFind(text, needle) ==
    LET places == Places(text, needle) IN IF places = {} THEN 0 ELSE Max(places)

Has(text, needle) == Places(text, needle) # {}

StripPrefix(text, head) ==
    IF IsPrefix(head, text) THEN Some(From(text, Len(head) + 1)) ELSE None

StripSuffix(text, end) ==
    IF IsSuffix(end, text)
    THEN Some(SubSeq(text, 1, Len(text) - Len(end))) ELSE None

CommonPrefixLen(a, b) == Len(LongestCommonPrefix({a, b}))
CommonSuffixLen(a, b) == CommonPrefixLen(Reverse(a), Reverse(b))

White == {"nl", "sp"}

(* The positions of text that are not white space.                         *)
Solid(text) == {i \in DOMAIN text : text[i] \notin White}

TrimStart(text) ==
    IF Solid(text) = {} THEN <<>> ELSE From(text, Min(Solid(text)))
TrimEnd(text) ==
    IF Solid(text) = {} THEN <<>> ELSE SubSeq(text, 1, Max(Solid(text)))
Trim(text) == TrimEnd(TrimStart(text))

(* [String]::join                                                          *)
Join(texts, separator) ==
    FlattenSeq([i \in DOMAIN texts |->
        IF i = 1 THEN texts[i] ELSE separator \o texts[i]])

===========================================================================

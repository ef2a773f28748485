------------------------- MODULE LlamaSessionProofs -------------------------
(***************************************************************************)
(* Proofs about LlamaSession, for any models, chat templates, texts and    *)
(* bounds: embed (the first part), and what is in the context of a         *)
(* conversation (the second, by the lemmas of TextProofs).  What is read   *)
(* of a reply, calls and where it is cut, is left to TLC.                  *)
(***************************************************************************)
EXTENDS LlamaSession, TextProofs, TLAPS

LOCAL INSTANCE SequencesExt

(* What the client may name, and what a vector can have been pooled with.  *)
Names == {"model", "mean", "cls", "last"}
Vector == [of : Seq(STRING) \ {<<>>}, pooling : {"mean", "cls", "last"}]

(* The fields of a request.                                                *)
JobFields == {"kind", "prompt", "prefill", "constrained", "results", "marked",
              "texts", "pooling"}

(* The phases a session is in for a generation or a conversation.          *)
Talking == {"idle", "begin", "reply", "snapshotted"}

(* The vectors so far are of the request's texts, in their order, each of  *)
(* one text and all with the pooling now in use.                           *)
PooledInOrder ==
    /\ vectors \in Seq(Vector)
    /\ Len(vectors) <= Len(job.texts)
    /\ \A i \in 1..Len(vectors) :
        /\ vectors[i].of = Truncated(job.texts[i])
        /\ vectors[i].pooling = Resolved(job.pooling)

(* An embedding in progress has texts left, one that was answered has none.*)
Asked ==
    /\ job.texts \in TextLists /\ job.pooling \in Names
    /\ phase \in {"embed", "answered"}
    /\ phase = "embed" => Len(vectors) < Len(job.texts)
    /\ phase = "answered" => Len(vectors) = Len(job.texts)

(* The inductive invariant: EmbeddedAlone speaks of the last state of an   *)
(* embedding only.                                                         *)
Embedding ==
    /\ model \in Models
    /\ DOMAIN job = JobFields
    /\ phase = "loaded" => vectors = <<>>
    /\ phase \in Talking => job.kind # "embed"
    /\ phase = "embed" => job.kind = "embed"
    /\ job.kind = "embed" => Asked /\ PooledInOrder

---------------------------------------------------------------------------
(* A batch holds at least one token and no more than EMBED_MAX_TOKENS.     *)
LEMMA CapacityIs ==
    ASSUME model \in Models
    PROVE  Capacity \in Nat \ {0} /\ Capacity <= EmbedMax
BY SessionAssumption DEF Capacity

(* What is decoded of a text is its beginning, and never nothing.          *)
LEMMA TruncatedIs ==
    ASSUME model \in Models, NEW text \in Seq(STRING) \ {<<>>}
    PROVE  Truncated(text) \in Seq(STRING) \ {<<>>} /\ IsPrefix(Truncated(text), text)
<1> DEFINE n == IF Len(text) < Capacity THEN Len(text) ELSE Capacity
<1>1. n \in 1..Len(text)
  BY CapacityIs
<1>2. Truncated(text) = SubSeq(text, 1, n)
  BY DEF Truncated
<1> HIDE DEF n
<1>3. SubSeq(text, 1, n) \in Seq(STRING) /\ Len(SubSeq(text, 1, n)) = n
  BY <1>1
<1>4. \A i \in 1..n : SubSeq(text, 1, n)[i] = text[i]
  BY <1>1
<1>5. SubSeq(SubSeq(text, 1, n), 1, n) = SubSeq(text, 1, n)
  BY <1>1, <1>3
<1> QED BY <1>1, <1>2, <1>3, <1>5 DEF IsPrefix

(* The texts a client sends are texts, each of at least one token.         *)
LEMMA TextsAre ==
    ASSUME NEW texts \in TextLists
    PROVE  texts \in Seq(Seq(STRING) \ {<<>>}) /\ Len(texts) \in Nat
BY SessionAssumption

(* A request to embed begins with no vector, and is answered at once when  *)
(* it has no text.                                                         *)
LEMMA EmbedStep ==
    ASSUME Embedding, NEW texts \in TextLists, NEW pooling \in Poolings, Embed(texts, pooling)
    PROVE  Embedding'
<1>1. /\ phase = "loaded" /\ vectors = <<>> /\ vectors' = <<>> /\ model' = model
      /\ job' = [NoJob EXCEPT !.kind = "embed", !.texts = texts, !.pooling = pooling]
      /\ phase' = IF texts = <<>> THEN "answered" ELSE "embed"
  BY DEF Embed, Embedding
<1>2. /\ DOMAIN job' = JobFields /\ job'.kind = "embed"
      /\ job'.texts = texts /\ job'.pooling = pooling
  BY <1>1 DEF NoJob, JobFields
<1>3. Asked'
  <2>1. pooling \in Names
    BY SessionAssumption DEF Names
  <2>2. texts # <<>> => 0 < Len(texts)
    BY TextsAre
  <2> QED BY <1>1, <1>2, <2>1, <2>2 DEF Asked
<1>4. PooledInOrder'
  BY <1>1, <1>2, TextsAre DEF PooledInOrder
<1> QED BY <1>1, <1>2, <1>3, <1>4 DEF Embedding, Talking

(* Decoding one text adds its vector: the cache held nothing else.         *)
LEMMA EmbedTextStep ==
    ASSUME Embedding, EmbedText
    PROVE  Embedding'
<1> DEFINE n == Len(vectors) + 1  text == job.texts[n]
           v == [of |-> Decoded(text), pooling |-> Resolved(job.pooling)]
<1>1. /\ phase = "embed" /\ Resolved(job.pooling) # "none"
      /\ vectors' = Append(vectors, v) /\ model' = model /\ job' = job
      /\ phase' = IF Len(vectors') = Len(job.texts) THEN "answered" ELSE "embed"
  BY DEF EmbedText
<1>2. /\ model \in Models /\ DOMAIN job = JobFields /\ job.kind = "embed"
      /\ Asked /\ PooledInOrder
  BY <1>1 DEF Embedding
<1>3. /\ job.texts \in Seq(Seq(STRING) \ {<<>>}) /\ job.pooling \in Names
      /\ Len(job.texts) \in Nat /\ Len(vectors) < Len(job.texts)
      /\ vectors \in Seq(Vector) /\ n \in 1..Len(job.texts)
  BY <1>1, <1>2, TextsAre DEF Asked, PooledInOrder
<1>4. v \in Vector
  <2>1. Decoded(text) \in Seq(STRING) \ {<<>>}
    BY <1>2, <1>3, TruncatedIs DEF Decoded
  <2>2. Resolved(job.pooling) \in {"mean", "cls", "last"}
    BY <1>1, <1>2, <1>3, SessionAssumption DEF Resolved, Names
  <2> QED BY <2>1, <2>2 DEF Vector
<1> HIDE DEF v
<1>5. /\ vectors' \in Seq(Vector) /\ Len(vectors') = n
      /\ \A i \in 1..Len(vectors) : vectors'[i] = vectors[i]
      /\ vectors'[n] = v
  BY <1>1, <1>3, <1>4
<1>6. Resolved(job.pooling)' = Resolved(job.pooling) /\ \A t : Truncated(t)' = Truncated(t)
  BY <1>1 DEF Resolved, Truncated, Capacity
<1>7. PooledInOrder'
  <2> SUFFICES ASSUME NEW i \in 1..n
               PROVE  /\ vectors'[i].of = Truncated(job.texts[i])
                      /\ vectors'[i].pooling = Resolved(job.pooling)
    BY <1>1, <1>3, <1>5, <1>6 DEF PooledInOrder
  <2>1. CASE i = n
    BY <1>5, <2>1 DEF v, Decoded
  <2>2. CASE i # n
    <3>1. i \in 1..Len(vectors)
      BY <1>3, <2>2
    <3> QED BY <1>2, <1>5, <3>1 DEF PooledInOrder
  <2> QED BY <2>1, <2>2
<1>8. Asked'
  BY <1>1, <1>2, <1>3, <1>5 DEF Asked
<1> QED BY <1>1, <1>2, <1>7, <1>8 DEF Embedding, Talking

(* Asked again with the mean, the request starts from no vector.           *)
LEMMA NoPoolingStep ==
    ASSUME Embedding, NoPooling
    PROVE  Embedding'
<1>1. /\ phase = "embed" /\ phase' = "embed" /\ vectors' = <<>> /\ model' = model
      /\ job' = [job EXCEPT !.pooling = "mean"]
  BY DEF NoPooling
<1>2. /\ model \in Models /\ DOMAIN job = JobFields /\ job.kind = "embed" /\ Asked
      /\ Len(vectors) \in Nat
  BY <1>1 DEF Embedding, PooledInOrder
<1>3. /\ DOMAIN job' = JobFields /\ job'.kind = "embed" /\ job'.texts = job.texts
      /\ job'.pooling = "mean"
  BY <1>1, <1>2 DEF JobFields
<1>4. Asked' /\ PooledInOrder'
  <2>1. Len(job.texts) \in Nat /\ 0 < Len(job.texts)
    BY <1>1, <1>2, TextsAre DEF Asked
  <2> QED BY <1>1, <1>2, <1>3, <2>1 DEF Asked, PooledInOrder, Names
<1> QED BY <1>1, <1>2, <1>3, <1>4 DEF Embedding, Talking

(* No other step embeds anything: each leaves the vectors alone, and the   *)
(* request it is about, or the new one, is not to embed.                   *)
LEMMA OtherSteps ==
    ASSUME Embedding, Next,
           ~ \E l \in TextLists, p \in Poolings : Embed(l, p), ~EmbedText, ~NoPooling
    PROVE  Embedding'
<1>1. ASSUME model' = model, job' = job, vectors' = vectors, job.kind # "embed",
             phase' \notin {"loaded", "embed"}
      PROVE  Embedding'
  BY <1>1 DEF Embedding
<1>2. ASSUME model' = model, vectors' = vectors, DOMAIN job' = JobFields,
             job'.kind # "embed", phase' \notin {"loaded", "embed"}
      PROVE  Embedding'
  BY <1>2 DEF Embedding
<1>3. phase = "loaded" => job.kind # "embed"
  BY DEF Embedding, Asked
<1>4. phase \in Talking => job.kind # "embed"
  BY DEF Embedding
<1>5. CASE \E s \in Systems, l \in ToolLists, c \in Configured : OpenConversation(s, l, c)
  BY <1>1, <1>3, <1>5 DEF OpenConversation
<1>6. CASE RefuseConversation
  BY <1>1, <1>3, <1>6 DEF RefuseConversation
<1>7. ASSUME NEW kind \in {"send", "results"}, NEW message, NEW prefill, NEW constrained,
             Say(kind, message, prefill, constrained)
      PROVE  Embedding'
  <2>1. /\ model' = model /\ vectors' = vectors /\ phase' = "begin"
        /\ \E text : job' = [NoJob EXCEPT !.kind = kind, !.prompt = text, !.prefill = prefill,
                                          !.constrained = constrained]
    BY <1>7 DEF Say
  <2>2. DOMAIN job' = JobFields /\ job'.kind = kind
    BY <2>1 DEF NoJob, JobFields
  <2> QED BY <1>2, <2>1, <2>2, SMTT(30)
<1>8. CASE \E m \in UserMessages, o \in Options : Send(m, o.prefill, o.constrained)
  BY <1>7, <1>8 DEF Send
<1>9. CASE \E r \in ResultLists : SendToolResults(r)
  <2> PICK r \in ResultLists : SendToolResults(r)
    BY <1>9
  <2>1. CASE Conv.tool_result_spans = None
    BY <1>7, <2>1 DEF SendToolResults
  <2>2. CASE Conv.tool_result_spans # None
    <3>1. /\ model' = model /\ vectors' = vectors /\ phase' = "begin"
          /\ \E text : job' = [NoJob EXCEPT !.kind = "results", !.prompt = text,
                                            !.marked = TRUE]
      BY <2>2 DEF SendToolResults
    <3>2. DOMAIN job' = JobFields /\ job'.kind = "results"
      BY <3>1 DEF NoJob, JobFields
    <3> QED BY <1>2, <3>1, <3>2
  <2> QED BY <2>1, <2>2
<1>10. CASE \E m \in UserMessages, o \in Options : Generate(m, o.prefill, o.constrained)
  <2> PICK m \in UserMessages, o \in Options : Generate(m, o.prefill, o.constrained)
    BY <1>10
  <2>1. /\ model' = model /\ vectors' = vectors /\ phase' \in {"refused", "begin"}
        /\ \E text : job' = [NoJob EXCEPT !.kind = "generate", !.prompt = text,
                                !.prefill = o.prefill, !.constrained = o.constrained]
    BY DEF Generate
  <2>2. DOMAIN job' = JobFields /\ job'.kind = "generate"
    BY <2>1 DEF NoJob, JobFields
  <2> QED BY <1>2, <2>1, <2>2
<1>11. CASE \E p \in Plans : Begin(p)
  BY <1>1, <1>4, <1>11 DEF Begin, Talking
<1>12. ASSUME NEW text, NEW fed, phase = "reply", Finish(text, fed)
       PROVE  Embedding'
  BY <1>1, <1>4, <1>12 DEF Finish, Talking
<1>13. CASE Sample
  <2>1. CASE phase' = phase
    <3>1. phase = "reply" /\ model' = model /\ vectors' = vectors /\ job' = job
      BY <1>13 DEF Sample, Finish
    <3> QED BY <1>1, <1>4, <2>1, <3>1 DEF Talking
  <2>2. CASE phase' # phase
    BY <1>12, <1>13, <2>2 DEF Sample
  <2> QED BY <2>1, <2>2
<1>14. CASE Stop
  BY <1>12, <1>14 DEF Stop
<1>15. CASE Snapshot
  BY <1>1, <1>4, <1>15 DEF Snapshot, GoesOn, Talking
<1>16. CASE Reopen
  BY <1>1, <1>4, <1>16 DEF Reopen, Talking
<1> QED BY <1>5, <1>6, <1>8, <1>9, <1>10, <1>11, <1>13, <1>14, <1>15, <1>16 DEF Next

(* Embedding holds at first.                                               *)
LEMMA InitEmbedding == Init => Embedding
BY DEF Init, Embedding, NoJob, JobFields, Talking

(* Every step keeps Embedding.                                             *)
LEMMA NextEmbedding == Embedding /\ [Next]_vars => Embedding'
<1> SUFFICES ASSUME Embedding, [Next]_vars PROVE Embedding'
  OBVIOUS
<1>1. CASE UNCHANGED vars
  <2>1. model' = model /\ phase' = phase /\ job' = job /\ vectors' = vectors
    BY <1>1 DEF vars
  <2>2. Resolved(job.pooling)' = Resolved(job.pooling) /\ \A t : Truncated(t)' = Truncated(t)
    BY <2>1 DEF Resolved, Truncated, Capacity
  <2>3. PooledInOrder' <=> PooledInOrder
    BY <2>1, <2>2 DEF PooledInOrder
  <2> QED BY <2>1, <2>3 DEF Embedding, Asked
<1>2. CASE Next
  BY <1>2, EmbedStep, EmbedTextStep, NoPoolingStep, OtherSteps
<1> QED BY <1>1, <1>2

(* The vectors so far are always of the request's texts, in their order,   *)
(* each of its own text alone (embed_pooled).                              *)
THEOREM EmbeddingInvariance == Spec => []Embedding
BY InitEmbedding, NextEmbedding, PTL DEF Spec

(* The invariant says of a finished embedding what a client relies on.     *)
LEMMA AnsweredAlone == Embedding => EmbeddedAlone
<1> SUFFICES ASSUME Embedding, phase = "answered", job.kind = "embed"
             PROVE  /\ Len(vectors) = Len(job.texts)
                    /\ \A i \in DOMAIN vectors :
                          /\ vectors[i].of # <<>> /\ IsPrefix(vectors[i].of, job.texts[i])
                          /\ vectors[i].pooling = vectors[1].pooling
                          /\ vectors[i].pooling # "none"
  BY DEF EmbeddedAlone
<1>1. Asked /\ PooledInOrder /\ model \in Models
  BY DEF Embedding
<1>2. /\ Len(vectors) = Len(job.texts) /\ Len(vectors) \in Nat
      /\ job.texts \in Seq(Seq(STRING) \ {<<>>}) /\ DOMAIN vectors = 1..Len(vectors)
  BY <1>1, TextsAre DEF Asked, PooledInOrder
<1>3. ASSUME NEW i \in 1..Len(vectors)
      PROVE  /\ vectors[i].of # <<>> /\ IsPrefix(vectors[i].of, job.texts[i])
             /\ vectors[i].pooling = vectors[1].pooling /\ vectors[i].pooling # "none"
  <2>1. vectors[i] \in Vector /\ vectors[i].of = Truncated(job.texts[i])
    BY <1>1 DEF PooledInOrder
  <2>2. IsPrefix(vectors[i].of, job.texts[i])
    <3>1. job.texts[i] \in Seq(STRING) \ {<<>>}
      BY <1>2
    <3> QED BY <1>1, <2>1, <3>1, TruncatedIs
  <2>3. vectors[i].pooling = vectors[1].pooling
    <3>1. 1 \in 1..Len(vectors)
      BY <1>2
    <3> QED BY <1>1, <3>1 DEF PooledInOrder
  <2> QED BY <2>1, <2>2, <2>3 DEF Vector
<1> QED BY <1>2, <1>3

(* Each text is embedded by itself, whatever was embedded before it in the *)
(* same call, all with one pooling, also after the fallback to the mean.   *)
THEOREM AlwaysEmbeddedAlone == Spec => []EmbeddedAlone
BY EmbeddingInvariance, AnsweredAlone, PTL

---------------------------------------------------------------------------
(* Conversations                                                           *)

(* Pieces of a reply, and segments of them.                                *)
PieceLists == Seq(Seq(OtherWords)) \ {<<>>}

(* A reply is segments of them.                                            *)
Segments ==
    [pieces : PieceLists, call : SUBSET Calls, enough : {Enough(p) : p \in PieceLists},
     invented : BOOLEAN]

(* The pieces of a text are texts of its words, and of no text are none.   *)
LEMMA PiecesType ==
    ASSUME NEW text \in Seq(OtherWords) \ {<<>>}
    PROVE  Pieces(text) \in PieceLists
<1> DEFINE W == OtherWords  n == Len(text)
           whole == {i \in 1..(Len(text) - 2) : model.whole /\ text[i + 1] \in SpecialWords}
           piece(i) == IF i \in whole THEN <<SubSeq(text, i, i + 2)>>
                       ELSE IF i - 1 \in whole \/ i - 2 \in whole THEN <<>>
                       ELSE <<<<text[i]>>>>
           f == [i \in DOMAIN text |-> piece(i)]
<1>1. /\ text \in Seq(W) /\ n \in Nat /\ n # 0 /\ DOMAIN text = 1..n
      /\ \A i \in 1..n : text[i] \in W
  OBVIOUS
<1>2. whole \subseteq 1..(n - 2)
  OBVIOUS
<1>3. Pieces(text) = FlattenSeq(f)
  BY DEF Pieces
<1> HIDE DEF W, whole, n
<1>4. ASSUME NEW i \in 1..n PROVE piece(i) \in Seq(Seq(W))
  <2> DEFINE a == <<SubSeq(text, i, i + 2)>>  b == <<<<text[i]>>>>
  <2>1. \A A : \A x \in A : <<x>> \in Seq(A)
    OBVIOUS
  <2>2. i \in whole => a \in Seq(Seq(W))
    <3> SUFFICES ASSUME i \in whole PROVE a \in Seq(Seq(W))
      OBVIOUS
    <3>1. i \in 1..(n - 2)
      BY <1>2
    <3>2. i \in 1..n /\ i + 2 \in 1..n
      BY ONLY <3>1, <1>1
    <3>3. SubSeq(text, i, i + 2) \in Seq(W)
      <4>1. n = Len(text)
        BY DEF n
      <4> QED BY ONLY <1>1, <3>2, <4>1
    <3> QED BY ONLY <2>1, <3>3
  <2>3. b \in Seq(Seq(W))
    <3>1. text[i] \in W
      BY <1>1
    <3>2. <<text[i]>> \in Seq(W)
      BY ONLY <2>1, <3>1
    <3> QED BY ONLY <2>1, <3>2
  <2>4. <<>> \in Seq(Seq(W))
    OBVIOUS
  <2>5. piece(i) = IF i \in whole THEN a
                   ELSE IF i - 1 \in whole \/ i - 2 \in whole THEN <<>> ELSE b
    OBVIOUS
  <2> HIDE DEF a, b, piece
  <2> QED BY ONLY <2>2, <2>3, <2>4, <2>5
<1>5. piece(1) # <<>>
  <2>1. 1 - 1 \notin whole /\ 1 - 2 \notin whole
    BY <1>2
  <2>2. <<SubSeq(text, 1, 1 + 2)>> # <<>> /\ <<<<text[1]>>>> # <<>>
    OBVIOUS
  <2> QED BY ONLY <2>1, <2>2
<1>6. f \in Seq(Seq(Seq(W))) /\ Len(f) = n /\ f[1] = piece(1)
  <2> DEFINE A == Seq(Seq(W))
  <2>1. f \in [1..n -> A] /\ 1 \in 1..n /\ f[1] = piece(1)
    <3> HIDE DEF piece
    <3> QED BY <1>1, <1>4
  <2> HIDE DEF f, A
  <2>2. f \in Seq(A) /\ Len(f) = n
    BY ONLY <1>1, <2>1
  <2> QED BY ONLY <2>1, <2>2 DEF A
<1> HIDE DEF f, piece
<1>7. FlattenSeq(f) \in Seq(Seq(W)) \ {<<>>}
  <2>1. Len(f) # 0 /\ f[1] # <<>>
    BY ONLY <1>1, <1>5, <1>6
  <2> QED BY ONLY <1>6, <2>1, FlattenNonEmpty
<1> QED BY <1>3, <1>7 DEF PieceLists, W

(* A word more in the last piece.                                          *)
LEMMA JoinedType ==
    ASSUME NEW pieces \in PieceLists, NEW word \in Seq(OtherWords)
    PROVE  Front(pieces) \o <<Last(pieces) \o word>> \in PieceLists
<1> DEFINE A == Seq(OtherWords)  n == Len(pieces)
<1>1. pieces \in Seq(A) /\ n \in Nat /\ n # 0
  BY DEF PieceLists
<1> HIDE DEF A
<1>2. Front(pieces) \in Seq(A)
  <2>1. Front(pieces) = SubSeq(pieces, 1, n - 1)
    BY DEF Front
  <2> HIDE DEF n
  <2>2. SubSeq(pieces, 1, n - 1) \in Seq(A)
    <3>1. n = Len(pieces)
      BY DEF n
    <3> QED BY ONLY <1>1, <3>1
  <2> QED BY ONLY <2>1, <2>2
<1>3. Last(pieces) \in A
  BY <1>1 DEF Last
<1>4. Last(pieces) \o word \in A
  BY <1>3, ConcatProperties DEF A
<1>5. <<Last(pieces) \o word>> \in Seq(A) /\ Len(<<Last(pieces) \o word>>) = 1
  BY ONLY <1>4
<1>6. Front(pieces) \o <<Last(pieces) \o word>> \in Seq(A)
  BY ONLY <1>2, <1>5, ConcatProperties
<1>7. Front(pieces) \o <<Last(pieces) \o word>> # <<>>
  <2>1. Front(pieces) \o <<Last(pieces) \o word>> = Append(Front(pieces), Last(pieces) \o word)
    BY ONLY <1>2, <1>4, AppendOne
  <2>2. \A x \in Seq(A), y \in A : Append(x, y) # <<>>
    OBVIOUS
  <2> QED BY ONLY <1>2, <1>4, <2>1, <2>2
<1> QED BY <1>6, <1>7 DEF PieceLists, A

(* A segment of pieces is one.                                             *)
LEMMA SegmentType ==
    ASSUME NEW pieces \in PieceLists, NEW call \in SUBSET Calls, NEW invented \in BOOLEAN
    PROVE  Segment(pieces, call, invented) \in Segments
BY DEF Segment, Segments

(* The words of the model's own.                                           *)
LEMMA OwnWords ==
    /\ Marks \subseteq OtherWords /\ Invention \in Seq(OtherWords) /\ Prose \in Seq(OtherWords)
    /\ <<<<"nl">>>> \in PieceLists /\ <<Invention>> \in PieceLists /\ <<Prose>> \in PieceLists
<1>1. Marks \cup {"Read", "well"} \subseteq OtherWords
  BY TextAssumption
<1>2. \A A : \A x \in A : <<x>> \in Seq(A) /\ <<x>> # <<>>
  OBVIOUS
<1>3. "Read" \in OtherWords /\ "well" \in OtherWords /\ "nl" \in OtherWords
  BY <1>1 DEF Marks
<1>4. <<"Read">> \in Seq(OtherWords) /\ <<"well">> \in Seq(OtherWords) /\ <<"nl">> \in Seq(OtherWords)
  BY ONLY <1>2, <1>3
<1>5. \A x \in Seq(OtherWords) : <<x>> \in PieceLists
  BY ONLY <1>2 DEF PieceLists
<1> QED BY ONLY <1>1, <1>4, <1>5 DEF Invention, Prose

(* What a model writes is segments of pieces: never a text of no words.    *)
LEMMA ScriptType ==
    ASSUME model \in Models, NEW plan \in Plans, MayWrite(plan)
    PROVE  ScriptOf(plan) \in Seq(Segments)
<1> DEFINE written(call) == Pieces(Written(model.speaks, call))
           joined(pieces, word) == Front(pieces) \o <<Last(pieces) \o word>>
           glued(i) == plan.invents = "glued" /\ i = Len(plan.calls)
           gap == Segment(<<<<"nl">>>>, None, FALSE)
           piecesOf(i) == IF glued(i) THEN joined(written(plan.calls[i]), Invention)
                          ELSE written(plan.calls[i])
           told(i) == (IF i = 1 THEN <<>> ELSE <<gap>>) \o
                      <<Segment(piecesOf(i), Some(plan.calls[i]), FALSE)>>
           f == [i \in DOMAIN plan.calls |-> told(i)]
           prose == IF plan.prose THEN <<Segment(<<Prose>>, None, FALSE)>> ELSE <<>>
           made == Segment(written(Head(plan.calls)), Some(Head(plan.calls)), TRUE)
           last == CASE plan.invents = "no" -> <<>>
                     [] plan.invents = "glued" -> <<made>>
                     [] plan.invents = "after" ->
                          <<gap, Segment(<<Invention>>, None, TRUE), made>>
<1>1. ScriptOf(plan) = prose \o FlattenSeq(f) \o last
  BY DEF ScriptOf
<1>2. /\ plan.calls \in Seq(Calls) /\ plan.invents \in {"no", "glued", "after"}
      /\ plan.prose \in BOOLEAN /\ (plan.calls = <<>> => plan.invents = "no")
      /\ model.speaks \in {"xml", "json", "gemma", "none"}
  BY TextAssumption
<1>3. plan.calls # <<>> => model.speaks \in {"xml", "json", "gemma"}
  BY <1>2 DEF MayWrite
<1>4. ASSUME NEW call \in Calls, plan.calls # <<>> PROVE written(call) \in PieceLists
  <2>1. call \in CallsOf(OtherWords)
    BY DEF Calls, CallsOf
  <2>2. model.speaks \in {"xml", "json", "gemma"} /\ Marks \subseteq OtherWords
    BY <1>3, <1>4, OwnWords
  <2>3. Written(model.speaks, call) \in Seq(OtherWords) \ {<<>>}
    BY ONLY <2>1, <2>2, WrittenType
  <2> QED BY ONLY <2>3, PiecesType
<1>5. gap \in Segments
  <2>1. None \in SUBSET Calls
    BY DEF None
  <2> QED BY <2>1, OwnWords, SegmentType
<1>6. \A A : \A x, y, z \in A : <<x>> \in Seq(A) /\ <<x, y, z>> \in Seq(A) /\ <<>> \in Seq(A)
  OBVIOUS
<1> HIDE DEF gap, written
<1>7. ASSUME NEW i \in DOMAIN plan.calls PROVE told(i) \in Seq(Segments)
  <2>1. plan.calls[i] \in Calls /\ plan.calls # <<>>
    BY <1>2
  <2>2. written(plan.calls[i]) \in PieceLists
    BY <1>4, <2>1
  <2>3. joined(written(plan.calls[i]), Invention) \in PieceLists
    BY <2>2, OwnWords, JoinedType
  <2>4. piecesOf(i) \in PieceLists
    <3> HIDE DEF joined, glued
    <3> QED BY <2>2, <2>3
  <2>5. Some(plan.calls[i]) \in SUBSET Calls
    BY <2>1 DEF Some
  <2> HIDE DEF piecesOf
  <2>6. Segment(piecesOf(i), Some(plan.calls[i]), FALSE) \in Segments
    BY <2>4, <2>5, SegmentType
  <2> DEFINE s == Segment(piecesOf(i), Some(plan.calls[i]), FALSE)
             g == IF i = 1 THEN <<>> ELSE <<gap>>
  <2>7. g \in Seq(Segments) /\ <<s>> \in Seq(Segments)
    <3>1. s \in Segments
      BY <2>6
    <3> HIDE DEF s
    <3> QED BY ONLY <1>5, <1>6, <3>1
  <2>8. told(i) = g \o <<s>>
    OBVIOUS
  <2> HIDE DEF g, s, told
  <2> QED BY ONLY <2>7, <2>8, ConcatProperties
<1>8. FlattenSeq(f) \in Seq(Segments)
  <2> DEFINE n == Len(plan.calls)  A == Seq(Segments)
  <2>1. n \in Nat /\ DOMAIN plan.calls = 1..n
    BY <1>2
  <2> HIDE DEF told
  <2>2. f \in [1..n -> A]
    BY <1>7, <2>1
  <2> HIDE DEF f, n, A
  <2>3. f \in Seq(A)
    BY ONLY <2>1, <2>2
  <2> QED BY <2>3, FlattenType DEF A
<1>9. prose \in Seq(Segments)
  <2>1. Segment(<<Prose>>, None, FALSE) \in Segments
    <3>1. None \in SUBSET Calls
      BY DEF None
    <3> QED BY <3>1, OwnWords, SegmentType
  <2> QED BY ONLY <1>6, <2>1
<1>10. last \in Seq(Segments)
  <2>1. CASE plan.invents = "no"
    <3>1. last = <<>>
      BY <2>1
    <3> QED BY ONLY <1>5, <1>6, <3>1
  <2>2. CASE plan.invents # "no"
    <3>1. plan.calls # <<>> /\ Head(plan.calls) \in Calls
      BY <1>2, <2>2
    <3>2. made \in Segments
      <4>1. written(Head(plan.calls)) \in PieceLists
        BY <1>4, <3>1
      <4>2. Some(Head(plan.calls)) \in SUBSET Calls
        BY <3>1 DEF Some
      <4> QED BY <4>1, <4>2, SegmentType
    <3>3. Segment(<<Invention>>, None, TRUE) \in Segments
      <4>1. None \in SUBSET Calls
        BY DEF None
      <4> QED BY <4>1, OwnWords, SegmentType
    <3> DEFINE out == Segment(<<Invention>>, None, TRUE)
    <3>4. plan.invents = "glued" => last = <<made>>
      OBVIOUS
    <3>5. plan.invents = "after" => last = <<gap, out, made>>
      OBVIOUS
    <3> HIDE DEF made, last, out
    <3>6. made \in Segments /\ out \in Segments
      BY <3>2, <3>3 DEF out
    <3> QED BY ONLY <1>2, <1>5, <1>6, <2>2, <3>4, <3>5, <3>6
  <2> QED BY <2>1, <2>2
<1> HIDE DEF f, prose, last
<1>11. (prose \o FlattenSeq(f)) \o last \in Seq(Segments)
  <2>1. prose \o FlattenSeq(f) \in Seq(Segments)
    BY ONLY <1>8, <1>9, ConcatProperties
  <2> QED BY ONLY <1>10, <2>1, ConcatProperties
<1> QED BY ONLY <1>1, <1>11

---------------------------------------------------------------------------
(* The invariant                                                           *)

(* What the session is about in each phase.                                *)
Control ==
    /\ model \in Models
    /\ phase \in {"loaded", "refused", "idle", "begin", "reply", "snapshotted",
                  "embed", "answered"}
    /\ phase = "loaded" =>
        job.kind = "none" /\ transcript = <<>> /\ cache = <<>> /\ result = NoResult
    /\ phase = "refused" => job.kind \in {"none", "generate"}
    /\ phase \in {"idle", "snapshotted"} => job.kind \in {"none", "send", "results"}
    /\ phase \in {"begin", "reply"} => job.kind \in {"send", "results", "generate"}
    /\ phase = "embed" => job.kind = "embed"
    /\ phase = "answered" => job.kind \in {"generate", "embed"}
    /\ job.kind = "generate" => transcript = <<>>
    /\ (conv = None) <=> (phase \in {"loaded", "refused", "snapshotted"} \/
                         job.kind \in {"generate", "embed"})
    /\ (saved # None) <=> (phase = "snapshotted")

(* How far a reply got in what the model would write.                      *)
Progress ==
    /\ script \in Seq(Segments) /\ at \in [segment : Nat \ {0}, piece : Nat]
    /\ Remaining => at.piece < Len(script[at.segment].pieces)

(* What is said is text, without words of system texts but where it is     *)
(* told.                                                                   *)
Typed ==
    /\ transcript \in Seq(Said(STRING)) /\ cache \in Seq(STRING)
    /\ phase \in {"begin", "reply"} => job.prefill \in Seq(OtherWords)
    /\ phase = "reply" => reply.fed \in Seq(OtherWords) /\ Progress

(* A conversation can be opened with the model.                            *)
Known(m) == m.template # None /\ The(m.template).quirk = "none"

(* What was found in its chat template t is in the conversation.           *)
Sound(t, c) ==
    /\ c.shape = Shape(t)
    /\ c.tools \in ToolLists /\ c.system \in Systems /\ c.kept \in BOOLEAN
    /\ c.opening \in Seq(STRING) /\ IsOption(c.system_for_first_turn, Seq(STRING))
    /\ c.tool_result_spans \in {None, {RoleSpans(t)}}
    /\ c.tool_result_spans # None => t.results = "role"

(* It has yet to tell the model of system text and tools.                  *)
Fresh(t, c) ==
    /\ c.opening = OpeningOf(t, Block(t, c.system), c.tools)
    /\ c.system_for_first_turn = IF t.system = "block" THEN None ELSE c.system

(* What the template renders of the turns of conversation c.               *)
Rendering(t, c, turns) == Text(t, Block(t, c.system), c.tools, turns)

(* Between turns, the tokens are those of the turns but for what closes    *)
(* the last one.                                                           *)
Waiting(t, c, tokens, turns, calls) ==
    /\ turns = <<>> => calls = <<>>
    /\ turns # <<>> => RoleAt(turns, Len(turns)) = "assistant"
    /\ c.kept => IF turns = <<>> THEN tokens = <<>>
                 ELSE tokens \o Closed = Rendering(t, c, turns)

(* In a turn, they are followed by what was said of the answer.            *)
Answering(t, c, tokens, turns, said) ==
    /\ turns # <<>> /\ RoleAt(turns, Len(turns)) \in {"user", "tool"}
    /\ c.kept => tokens = Rendering(t, c, turns) \o (Begun(t) \o said)

(* Once there is a turn, the tokens carry the system text, among other     *)
(* words.                                                                  *)
Tells(c, tokens, turns) ==
    (c.kept /\ turns # <<>>) => \A s \in c.system : Carries(OtherWords, tokens, s)

(* What is in the context, by phase, as long as a turn carried the system  *)
(* text.                                                                   *)
InContext ==
    \A c \in conv :
        /\ conv = {c} /\ Known(model) /\ Sound(Template, c) /\ Tells(c, cache, transcript)
        /\ phase = "idle" =>
            /\ Waiting(Template, c, cache, transcript, result.tool_calls)
            /\ (c.kept /\ transcript = <<>>) => Fresh(Template, c)
        /\ phase = "begin" => Answering(Template, c, cache, transcript, job.prefill)
        /\ phase = "reply" =>
            Answering(Template, c, cache, transcript, job.prefill \o reply.fed)

(* What a snapshot keeps is what a conversation between turns has.         *)
Stored ==
    \A z \in saved :
        /\ saved = {z} /\ Known(model)
        /\ z.tokens \in Seq(STRING) /\ z.turns \in Seq(Said(STRING))
        /\ z.tools \in ToolLists /\ z.system \in Systems /\ z.kept \in BOOLEAN
        /\ Waiting(Template, z, z.tokens, z.turns, result.tool_calls)
        /\ z.kept => z.turns # <<>>
        /\ Tells(z, z.tokens, z.turns)

(* The inductive invariant.                                                *)
Talks == Control /\ Typed /\ InContext /\ Stored

---------------------------------------------------------------------------
(* Constants                                                               *)

(* The words no probe has, which is all the words of templates, tools and  *)
(* system texts.                                                           *)
Unprobed == STRING \ ProbeWords

(* No sentinel and no system text has a word of the markup.                *)
LEMMA WordSets ==
    /\ Marks \subseteq OtherWords /\ OtherWords \subseteq STRING /\ Marks \subseteq STRING
    /\ Probeable(Unprobed) /\ OtherWords \ ProbeWords \subseteq Unprobed
    /\ SystemWords \cap OtherWords = {} /\ Unprobed \subseteq STRING
<1>1. Marks \subseteq OtherWords /\ OtherWords \subseteq STRING
  BY OwnWords DEF OtherWords
<1>2. Marks \cap ProbeWords = {}
  BY DEF Marks, ProbeWords
<1>3. Probeable(Unprobed)
  BY <1>1, <1>2 DEF Probeable, Unprobed
<1> QED BY <1>1, <1>3 DEF Unprobed, OtherWords

(* A template of some words is one of more.                                *)
LEMMA TemplatesMore ==
    ASSUME NEW A, NEW S, A \subseteq S
    PROVE  Templates(A) \subseteq Templates(S)
<1>1. Seq(A) \subseteq Seq(S)
  BY SeqMonotonic
<1> QED BY <1>1 DEF Templates

(* Lists of texts of some words are lists of texts of more.                *)
LEMMA ListsMore ==
    ASSUME NEW A, NEW S, A \subseteq S
    PROVE  Lists(A) \subseteq Lists(S)
<1> DEFINE X == Seq(A)  Y == Seq(S)
<1>1. X \subseteq Y
  BY SeqMonotonic
<1> HIDE DEF X, Y
<1>2. Seq(X) \subseteq Seq(Y)
  BY <1>1, SeqMonotonic
<1> QED BY <1>2 DEF X, Y, Lists

(* A chat template has no word of a sentinel.                              *)
LEMMA TemplateIs ==
    ASSUME NEW m \in Models, m.template # None
    PROVE  LET t == The(m.template) IN
           /\ m.template = {t} /\ t \in Templates(Unprobed) /\ t \in Templates(OtherWords)
           /\ t \in Templates(STRING)
<1> DEFINE t == The(m.template)  W == OtherWords \ ProbeWords
<1>1. IsOption(m.template, Templates(W))
  BY TextAssumption
<1>2. m.template = {t} /\ t \in Templates(W)
  BY <1>1 DEF IsOption, The, None
<1>3. W \subseteq Unprobed /\ W \subseteq OtherWords /\ W \subseteq STRING
  BY WordSets
<1> HIDE DEF W, t
<1>4. t \in Templates(Unprobed) /\ t \in Templates(OtherWords) /\ t \in Templates(STRING)
  BY ONLY <1>2, <1>3, TemplatesMore
<1> QED BY <1>2, <1>4 DEF t

(* System text has no word of a sentinel, and words of its own.            *)
LEMMA SystemIs ==
    ASSUME NEW system \in Systems
    PROVE  /\ IsOption(system, Seq(Unprobed)) /\ IsOption(system, Seq(STRING))
           /\ \A s \in system : s \in Seq(SystemWords) /\ s # <<>> /\ s \in Seq(STRING)
<1>1. IsOption(system, Seq(STRING) \ {<<>>})
  BY TextAssumption
<1>2. ASSUME NEW s \in system
      PROVE  s \in Seq(SystemWords) /\ s # <<>> /\ s \in Seq(STRING) /\ s \in Seq(Unprobed)
  <2>1. s \in Seq(STRING) /\ s # <<>>
    BY <1>1 DEF IsOption
  <2>2. \A i \in DOMAIN s : s[i] \in SystemWords
    BY DEF SystemWords
  <2> DEFINE n == Len(s)
  <2>3. s \in [1..n -> SystemWords] /\ n \in Nat
    BY <2>1, <2>2
  <2> HIDE DEF n
  <2>4. s \in Seq(SystemWords)
    BY ONLY <2>3
  <2>5. SystemWords \subseteq Unprobed
    <3>1. SystemWords \cap ProbeWords = {}
      BY TextAssumption
    <3>2. \A i \in DOMAIN s : s[i] \in STRING
      BY <2>1
    <3>3. SystemWords \subseteq STRING
      <4> SUFFICES ASSUME NEW x \in UNION Systems, NEW i \in DOMAIN x PROVE x[i] \in STRING
        BY DEF SystemWords
      <4>1. x \in Seq(STRING)
        BY TextAssumption DEF IsOption
      <4> QED BY <4>1
    <3> QED BY <3>1, <3>3 DEF Unprobed
  <2>6. s \in Seq(Unprobed)
    BY ONLY <2>4, <2>5, SeqMonotonic
  <2> QED BY <2>1, <2>4, <2>6
<1> QED BY <1>1, <1>2 DEF IsOption

(* The descriptions of tools have no word of a sentinel.                   *)
LEMMA ToolsAre ==
    ASSUME NEW tools \in ToolLists
    PROVE  tools \in Lists(Unprobed) /\ tools \in Lists(OtherWords) /\ tools \in Lists(STRING)
<1> DEFINE W == OtherWords \ ProbeWords
<1>1. tools \in Lists(W)
  BY TextAssumption DEF Lists
<1>2. W \subseteq Unprobed /\ W \subseteq OtherWords /\ W \subseteq STRING
  BY WordSets
<1> HIDE DEF W
<1> QED BY ONLY <1>1, <1>2, ListsMore

(* The conversation template that is found for the model.                  *)
LEMMA ShapesAre ==
    ASSUME model \in Models
    PROVE  /\ (Shapes # None) <=> Known(model)
           /\ Known(model) => The(Shapes) = Shape(Template)
<1>1. CASE model.template = None
  BY <1>1 DEF Shapes, Known, None
<1>2. CASE model.template # None
  <2>1. model.template = {Template} /\ Template \in Templates(Unprobed)
    BY <1>2, TemplateIs DEF Template
  <2>2. Shapes = DeriveConversationTemplate(Template)
    BY <2>1 DEF Shapes
  <2>3. Marks \subseteq Unprobed /\ Unprobed \cap ProbeWords = {}
    BY WordSets DEF Probeable
  <2>4. DeriveConversationTemplate(Template) =
        IF Template.quirk = "none" THEN {Shape(Template)} ELSE {}
    BY ONLY <2>1, <2>3, ShapeIs
  <2>5. Known(model) <=> Template.quirk = "none"
    BY <1>2 DEF Known, Template
  <2>6. \A x : The({x}) = x
    BY DEF The
  <2> QED BY ONLY <2>2, <2>4, <2>5, <2>6 DEF None
<1> QED BY <1>1, <1>2

(* A conversation between turns is one for the lemmas about rendering.     *)
LEMMA Conversant ==
    ASSUME model \in Models, Known(model), NEW system \in Systems, NEW tools \in ToolLists,
           NEW turns \in Seq(Said(STRING))
    PROVE  Conversing(STRING, Template, Block(Template, system), tools, turns)
<1>1. Template \in Templates(STRING) /\ Template.quirk = "none"
  BY TemplateIs DEF Known, Template
<1>2. IsOption(Block(Template, system), Seq(STRING))
  BY SystemIs DEF Block, IsOption, None
<1> QED BY <1>1, <1>2, WordSets, ToolsAre DEF Conversing

(* What a conversation is opened with.                                     *)
Begins(t, c, system, tools) ==
    /\ c.shape = Shape(t) /\ c.tools = tools /\ c.system = system /\ c.kept = TRUE
    /\ c.opening = OpeningOf(t, Block(t, system), tools)
    /\ c.system_for_first_turn = IF t.system = "block" THEN None ELSE system
    /\ c.tool_result_spans \in {None, {RoleSpans(t)}}
    /\ c.tool_result_spans # None => t.results = "role"

(* NewConversation opens one so (prepare_tools).                           *)
LEMMA NewIs ==
    ASSUME model \in Models, Known(model), NEW tools \in ToolLists, NEW configured,
           NEW system, IsOption(system, Seq(Unprobed))
    PROVE  Begins(Template, NewConversation(The(Shapes), system, tools, configured),
                  system, tools)
<1> DEFINE setup == PrepareTools(Template, Shape(Template), system, tools, configured)
           c == NewConversation(The(Shapes), system, tools, configured)
<1>1. The(Shapes) = Shape(Template)
  BY ShapesAre
<1>2. Template \in Templates(Unprobed) /\ Template.quirk = "none"
  BY TemplateIs DEF Known, Template
<1>3. tools \in Lists(Unprobed) /\ Probeable(Unprobed)
  BY ToolsAre, WordSets
<1>4. Prepared(Template, system, tools, setup)
  BY ONLY <1>2, <1>3, IsOption(system, Seq(Unprobed)), PreparedIs
<1> HIDE DEF setup
<1>5. /\ c.shape = Shape(Template) /\ c.tools = tools /\ c.system = system /\ c.kept = TRUE
      /\ c.opening = setup.opening
      /\ c.system_for_first_turn = setup.system_for_first_turn
      /\ c.tool_result_spans = setup.tool_result_spans
  BY <1>1 DEF NewConversation, setup
<1> HIDE DEF c
<1>6. Begins(Template, c, system, tools)
  BY ONLY <1>4, <1>5 DEF Begins, Prepared
<1> QED BY <1>6 DEF c

(* What is known of a conversation with the model.                         *)
LEMMA ConversationIs ==
    ASSUME model \in Models, Known(model), NEW c, Sound(Template, c)
    PROVE  /\ Template \in Templates(STRING) /\ Template \in Templates(OtherWords)
           /\ c.shape = Shape(Template)
           /\ c.tools \in Lists(STRING) /\ c.tools \in Lists(OtherWords)
           /\ c.opening \in Seq(STRING)
           /\ c.shape.turn_transition \in Seq(OtherWords)
           /\ c.shape.generation_open \in Seq(OtherWords)
           /\ OpeningOf(Template, {}, c.tools) \in Seq(OtherWords)
           /\ <<"nl", "nl">> \in Seq(OtherWords)
<1>1. Template \in Templates(STRING) /\ Template \in Templates(OtherWords)
  BY TemplateIs DEF Known, Template
<1>2. c.shape = Shape(Template) /\ c.tools \in ToolLists /\ c.opening \in Seq(STRING)
  BY DEF Sound
<1>3. c.tools \in Lists(STRING) /\ c.tools \in Lists(OtherWords)
  BY <1>2, ToolsAre
<1>4. <<>> \in Lists(OtherWords)
  <2> DEFINE A == Seq(OtherWords)
  <2> HIDE DEF A
  <2>1. <<>> \in Seq(A)
    OBVIOUS
  <2> QED BY <2>1 DEF A, Lists
<1>5. Marks \subseteq OtherWords
  BY WordSets
<1>6. /\ OpeningOf(Template, {}, c.tools) \in Seq(OtherWords)
      /\ <<"nl", "nl">> \in Seq(OtherWords)
      /\ Shape(Template).turn_transition \in Seq(OtherWords)
      /\ Shape(Template).generation_open \in Seq(OtherWords)
  BY ONLY <1>1, <1>3, <1>4, <1>5, SaidTypes
<1> QED BY ONLY <1>1, <1>2, <1>3, <1>6

(* Other words are words.                                                  *)
LEMMA OthersAre ==
    /\ OtherWords \subseteq STRING
    /\ \A x \in Seq(OtherWords) : x \in Seq(STRING)
    /\ \A x, y \in Seq(STRING) : x \o y \in Seq(STRING)
    /\ \A x, y \in Seq(OtherWords) : x \o y \in Seq(OtherWords)
<1>1. OtherWords \subseteq STRING
  BY WordSets
<1>2. \A x \in Seq(OtherWords) : x \in Seq(STRING)
  BY <1>1, SeqMonotonic
<1> QED BY <1>1, <1>2, ConcatProperties

(* The first message of a conversation, with the system text the opening   *)
(* has no place for, and what is decoded with it.                          *)
FirstMessage(c, message) ==
    IF c.system_for_first_turn # None
    THEN The(c.system_for_first_turn) \o <<"nl", "nl">> \o message ELSE message

(* All that is decoded with it.                                            *)
FirstText(c, message, prefill) ==
    c.opening \o FirstMessage(c, message) \o c.shape.generation_open \o prefill

(* They are texts.                                                         *)
LEMMA FirstTexts ==
    ASSUME model \in Models, Known(model), NEW c, Sound(Template, c),
           NEW message \in Seq(OtherWords), NEW prefill \in Seq(OtherWords)
    PROVE  /\ FirstMessage(c, message) \in Seq(STRING)
           /\ FirstText(c, message, prefill) \in Seq(STRING)
<1>1. /\ c.opening \in Seq(STRING) /\ c.shape.generation_open \in Seq(OtherWords)
      /\ <<"nl", "nl">> \in Seq(OtherWords)
  BY ConversationIs
<1>2. c.system_for_first_turn # None => The(c.system_for_first_turn) \in Seq(STRING)
  <2>1. IsOption(c.system_for_first_turn, Seq(STRING))
    BY DEF Sound
  <2> QED BY ONLY <2>1 DEF IsOption, The, None
<1>3. FirstMessage(c, message) \in Seq(STRING)
  <2>1. CASE c.system_for_first_turn # None
    <3> DEFINE s == The(c.system_for_first_turn)
    <3>1. s \in Seq(STRING)
      BY <1>2, <2>1
    <3>2. FirstMessage(c, message) = (s \o <<"nl", "nl">>) \o message
      BY <2>1 DEF FirstMessage
    <3> HIDE DEF s
    <3>3. <<"nl", "nl">> \in Seq(STRING) /\ message \in Seq(STRING)
      BY ONLY <1>1, message \in Seq(OtherWords), OthersAre
    <3>4. s \o <<"nl", "nl">> \in Seq(STRING)
      BY ONLY <3>1, <3>3, OthersAre
    <3> QED BY ONLY <3>2, <3>3, <3>4, OthersAre
  <2>2. CASE c.system_for_first_turn = None
    <3>1. FirstMessage(c, message) = message
      BY <2>2 DEF FirstMessage
    <3> QED BY ONLY <3>1, message \in Seq(OtherWords), OthersAre
  <2> QED BY <2>1, <2>2
<1>4. FirstText(c, message, prefill) =
      ((c.opening \o FirstMessage(c, message)) \o c.shape.generation_open) \o prefill
  BY DEF FirstText
<1>5. c.shape.generation_open \in Seq(STRING) /\ prefill \in Seq(STRING)
  BY ONLY <1>1, prefill \in Seq(OtherWords), OthersAre
<1>6. (c.opening \o FirstMessage(c, message)) \o c.shape.generation_open \in Seq(STRING)
  <2>1. c.opening \o FirstMessage(c, message) \in Seq(STRING)
    BY ONLY <1>1, <1>3, OthersAre
  <2> QED BY ONLY <1>5, <2>1, OthersAre
<1>7. FirstText(c, message, prefill) \in Seq(STRING)
  BY ONLY <1>4, <1>5, <1>6, OthersAre
<1> QED BY <1>3, <1>7

(* It is what the template renders of the first turn, answer begun.        *)
LEMMA FirstAnswering ==
    ASSUME model \in Models, Known(model), NEW c, Sound(Template, c), Fresh(Template, c),
           NEW message \in Seq(OtherWords), NEW prefill \in Seq(OtherWords)
    PROVE  LET turns == Append(<<>>, Message("user", FirstMessage(c, message)))
           IN  FirstText(c, message, prefill) =
               Rendering(Template, c, turns) \o (Begun(Template) \o prefill)
<1> DEFINE m == FirstMessage(c, message)  b == Block(Template, c.system)
<1>1. c.shape = Shape(Template) /\ c.opening = OpeningOf(Template, b, c.tools)
  BY DEF Sound, Fresh
<1>2. m \in Seq(STRING)
  BY FirstTexts
<1>3. prefill \in Seq(STRING)
  BY OthersAre
<1>4. Conversing(STRING, Template, b, c.tools, <<>>)
  <2>1. <<>> \in Seq(Said(STRING))
    <3> DEFINE A == Said(STRING)
    <3> HIDE DEF A
    <3>1. <<>> \in Seq(A)
      OBVIOUS
    <3> QED BY <3>1 DEF A
  <2>2. c.system \in Systems /\ c.tools \in ToolLists
    BY DEF Sound
  <2> QED BY <2>1, <2>2, Conversant
<1> HIDE DEF m, b
<1>5. SaidFirst(Template, b, c.tools, m, prefill)
  BY ONLY <1>2, <1>3, <1>4, FirstSaid
<1>6. FirstText(c, message, prefill) =
      Text(Template, b, c.tools, Append(<<>>, Message("user", m))) \o
      (Begun(Template) \o prefill)
  BY ONLY <1>1, <1>5 DEF SaidFirst, FirstText, m
<1> QED BY ONLY <1>6 DEF Rendering, m, b

(* It carries the system text of the conversation.                         *)
LEMMA FirstTells ==
    ASSUME model \in Models, Known(model), NEW c, Sound(Template, c), Fresh(Template, c),
           NEW message \in Seq(OtherWords), NEW prefill \in Seq(OtherWords),
           NEW s \in c.system
    PROVE  Carries(OtherWords, FirstText(c, message, prefill), s)
<1> DEFINE A == OtherWords  m == FirstMessage(c, message)  nl == <<"nl", "nl">>
           g == c.shape.generation_open  o == c.opening
<1>1. /\ Template \in Templates(A) /\ c.tools \in Lists(A)
      /\ g \in Seq(A) /\ nl \in Seq(A) /\ OpeningOf(Template, {}, c.tools) \in Seq(A)
  BY ConversationIs
<1>2. c.system = {s} /\ s \in Seq(STRING) /\ s # <<>>
  <2>1. c.system \in Systems
    BY DEF Sound
  <2> QED BY <2>1, SystemIs DEF IsOption
<1>3. /\ o = OpeningOf(Template, Block(Template, c.system), c.tools)
      /\ c.system_for_first_turn = IF Template.system = "block" THEN None ELSE c.system
  BY DEF Fresh
<1>4. A \subseteq STRING /\ Marks \subseteq A
  BY WordSets
<1>5. Carries(A, s, s) /\ \A text, z : (Carries(A, text, s) /\ z \in Seq(A)) =>
                              /\ Carries(A, text \o z, s) /\ Carries(A, z \o text, s)
  BY ONLY <1>2, <1>4, CarriesMore
<1>6. message \in Seq(A) /\ prefill \in Seq(A)
  OBVIOUS
<1>7. FirstText(c, message, prefill) = ((o \o m) \o g) \o prefill
  BY DEF FirstText
<1>8. Carries(A, o \o m, s)
  <2>1. CASE Template.system = "block"
    <3>1. o = OpeningOf(Template, {s}, c.tools)
      BY <1>2, <1>3, <2>1 DEF Block
    <3>2. m = message
      BY <1>3, <2>1 DEF FirstMessage
    <3> HIDE DEF A, m, o
    <3>3. Carries(A, OpeningOf(Template, {s}, c.tools), s)
      BY ONLY <1>1, <1>2, <1>4, <2>1, OpeningCarries
    <3> QED BY ONLY <1>5, <1>6, <3>1, <3>2, <3>3
  <2>2. CASE Template.system # "block"
    <3>1. o = OpeningOf(Template, {}, c.tools)
      BY <1>3, <2>2 DEF Block, None
    <3>2. m = (s \o nl) \o message
      <4>1. c.system_for_first_turn = {s} /\ The({s}) = s /\ {s} # None
        BY <1>2, <1>3, <2>2 DEF The, None
      <4> QED BY ONLY <4>1 DEF FirstMessage, m, nl
    <3> HIDE DEF A, m, o, nl
    <3>3. Carries(A, s \o nl, s)
      BY ONLY <1>1, <1>5
    <3>4. Carries(A, (s \o nl) \o message, s)
      BY ONLY <1>5, <1>6, <3>3
    <3> QED BY ONLY <1>1, <1>5, <3>1, <3>2, <3>4
  <2> QED BY <2>1, <2>2
<1> HIDE DEF A, m, o, g
<1>9. Carries(A, (o \o m) \o g, s)
  BY ONLY <1>1, <1>5, <1>8
<1>10. Carries(A, ((o \o m) \o g) \o prefill, s)
  BY ONLY <1>5, <1>6, <1>9
<1> QED BY ONLY <1>7, <1>10 DEF A

(* What is decoded with a later message.                                   *)
NextText(c, message, prefill) ==
    c.shape.turn_transition \o message \o c.shape.generation_open \o prefill

(* It has no word of a system text.                                        *)
LEMMA NextTexts ==
    ASSUME model \in Models, Known(model), NEW c, Sound(Template, c),
           NEW message \in Seq(OtherWords), NEW prefill \in Seq(OtherWords)
    PROVE  NextText(c, message, prefill) \in Seq(OtherWords)
<1>1. /\ c.shape.turn_transition \in Seq(OtherWords)
      /\ c.shape.generation_open \in Seq(OtherWords)
  BY ConversationIs
<1>2. NextText(c, message, prefill) =
      ((c.shape.turn_transition \o message) \o c.shape.generation_open) \o prefill
  BY DEF NextText
<1>3. c.shape.turn_transition \o message \in Seq(OtherWords)
  BY ONLY <1>1, message \in Seq(OtherWords), OthersAre
<1>4. (c.shape.turn_transition \o message) \o c.shape.generation_open \in Seq(OtherWords)
  BY ONLY <1>1, <1>3, OthersAre
<1> QED BY ONLY <1>2, <1>4, prefill \in Seq(OtherWords), OthersAre

(* The tokens are the turns of c but for what closes the last one.         *)
StandsBy(c, tokens, turns) == tokens \o Closed = Rendering(Template, c, turns)

(* With the next message after them they are what the template renders.    *)
GoesOnSo(c, tokens, turns, message, prefill) ==
    tokens \o NextText(c, message, prefill) =
    Rendering(Template, c, Append(turns, Message("user", message))) \o
    (Begun(Template) \o prefill)

(* It is what the template goes on with, after what closes the answer.     *)
LEMMA NextAnswering ==
    ASSUME model \in Models, Known(model), NEW c, Sound(Template, c),
           NEW turns \in Seq(Said(STRING)), NEW tokens \in Seq(STRING),
           StandsBy(c, tokens, turns),
           NEW message \in Seq(OtherWords), NEW prefill \in Seq(OtherWords)
    PROVE  GoesOnSo(c, tokens, turns, message, prefill)
<1> DEFINE b == Block(Template, c.system)
<1>1. c.shape = Shape(Template) /\ c.system \in Systems /\ c.tools \in ToolLists
  BY DEF Sound
<1>2. message \in Seq(STRING) /\ prefill \in Seq(STRING)
  BY OthersAre
<1>3. Conversing(STRING, Template, b, c.tools, turns)
  BY <1>1, Conversant
<1>4. Stands(Template, b, c.tools, turns, tokens)
  BY DEF StandsBy, Rendering, Stands
<1> HIDE DEF b
<1>5. SaidNext(Template, b, c.tools, turns, tokens, message, prefill)
  BY ONLY <1>2, <1>3, <1>4, tokens \in Seq(STRING), NextSaid
<1> QED BY ONLY <1>1, <1>5 DEF GoesOnSo, SaidNext, NextText, Rendering, b

(* What was carried is carried by more of it.                              *)
LEMMA ToldStill ==
    ASSUME NEW c, c.system \in Systems, NEW tokens, NEW more \in Seq(OtherWords),
           \A s \in c.system : Carries(OtherWords, tokens, s)
    PROVE  \A s \in c.system : Carries(OtherWords, tokens \o more, s)
<1> SUFFICES ASSUME NEW s \in c.system PROVE Carries(OtherWords, tokens \o more, s)
  OBVIOUS
<1>1. s \in Seq(STRING)
  BY SystemIs
<1>2. OtherWords \subseteq STRING
  BY WordSets
<1> QED BY ONLY <1>1, <1>2, more \in Seq(OtherWords), CarriesMore,
               Carries(OtherWords, tokens, s)

(* A message more.                                                         *)
LEMMA Appended ==
    ASSUME NEW turns \in Seq(Said(STRING)), NEW role \in {"user", "assistant", "tool"},
           NEW content \in Seq(STRING)
    PROVE  LET m == Append(turns, Message(role, content)) IN
           m \in Seq(Said(STRING)) /\ m # <<>> /\ RoleAt(m, Len(m)) = role
<1> DEFINE A == Said(STRING)  x == Message(role, content)  n == Len(turns) + 1
<1>1. x \in A /\ x.role = role
  BY MessageIs
<1> HIDE DEF A, x
<1>2. turns \in Seq(A)
  BY DEF A
<1>3. /\ Append(turns, x) \in Seq(A) /\ Append(turns, x) # <<>>
      /\ Len(Append(turns, x)) = n /\ n \in DOMAIN Append(turns, x)
      /\ Append(turns, x)[n] = x
  <2>1. Len(turns) \in Nat /\ Append(turns, x) \in Seq(A)
    BY ONLY <1>1, <1>2
  <2>2. Len(Append(turns, x)) = n /\ Append(turns, x)[n] = x
    BY ONLY <1>1, <1>2
  <2>3. n \in Nat /\ n # 0
    BY ONLY <2>1
  <2> DEFINE y == Append(turns, x)
  <2> HIDE DEF y, n
  <2>4. y # <<>> /\ n \in DOMAIN y
    <3>1. y \in Seq(A) /\ Len(y) = n
      BY ONLY <2>1, <2>2 DEF y
    <3> QED BY ONLY <2>3, <3>1
  <2> QED BY ONLY <2>1, <2>2, <2>4 DEF y
<1> HIDE DEF n
<1>4. RoleAt(Append(turns, x), Len(Append(turns, x))) = role
  BY ONLY <1>1, <1>3 DEF RoleAt
<1> QED BY <1>3, <1>4 DEF A, x

(* Results are messages of a tool.                                         *)
LEMMA ResultMessages ==
    ASSUME NEW turns \in Seq(Said(STRING)), NEW results \in Lists(STRING), results # <<>>
    PROVE  LET m == turns \o ToolMessages(results) IN
           m \in Seq(Said(STRING)) /\ m # <<>> /\ RoleAt(m, Len(m)) = "tool"
<1> DEFINE A == Said(STRING)  S == Seq(STRING)  r == ToolMessages(results)  n == Len(results)
           f == [i \in 1..n |-> Message("tool", results[i])]
<1>1. results \in Seq(S)
  BY DEF Lists
<1>2. \A x \in S : Message("tool", x) \in A /\ Message("tool", x).role = "tool"
  BY MessageIs
<1> HIDE DEF A, S
<1>3. /\ n \in Nat /\ n # 0 /\ DOMAIN results = 1..n
      /\ \A i \in 1..n : results[i] \in S
  BY ONLY <1>1, results # <<>>
<1>4. r = f
  BY ONLY <1>3 DEF ToolMessages
<1>5. f \in [1..n -> A] /\ \A i \in 1..n : f[i].role = "tool"
  BY ONLY <1>2, <1>3
<1> HIDE DEF r, n, f
<1>6. f \in Seq(A) /\ Len(f) = n
  BY ONLY <1>3, <1>5
<1>7. turns \in Seq(A)
  BY DEF A
<1>8. /\ turns \o f \in Seq(A) /\ Len(turns \o f) = Len(turns) + n /\ Len(turns) \in Nat
      /\ (turns \o f)[Len(turns) + n] = f[n]
  BY ONLY <1>3, <1>6, <1>7
<1> DEFINE m == turns \o f  k == Len(turns) + n
<1>9. m \in Seq(A) /\ Len(m) = k /\ k \in Nat /\ k # 0 /\ m[k].role = "tool"
  BY ONLY <1>3, <1>5, <1>8
<1> HIDE DEF m, k
<1>10. m # <<>> /\ Len(m) \in DOMAIN m /\ m[Len(m)].role = "tool"
  BY ONLY <1>9
<1>11. RoleAt(m, Len(m)) = "tool"
  BY ONLY <1>10 DEF RoleAt
<1> QED BY ONLY <1>4, <1>9, <1>10, <1>11 DEF m, r, A

(* The conversation that is open.                                          *)
LEMMA OpenIs ==
    ASSUME Control, InContext, phase \in {"idle", "begin", "reply"}, job.kind # "generate"
    PROVE  /\ conv = {Conv} /\ Known(model) /\ Sound(Template, Conv)
           /\ Tells(Conv, cache, transcript)
           /\ phase = "idle" =>
                /\ Waiting(Template, Conv, cache, transcript, result.tool_calls)
                /\ (Conv.kept /\ transcript = <<>>) => Fresh(Template, Conv)
           /\ phase = "begin" => Answering(Template, Conv, cache, transcript, job.prefill)
           /\ phase = "reply" =>
                Answering(Template, Conv, cache, transcript, job.prefill \o reply.fed)
<1>1. conv # None
  BY DEF Control
<1>2. Conv \in conv
  BY <1>1 DEF Conv, The, None
<1> QED BY <1>2 DEF InContext

(* The invariant after a step that leaves nothing open.                    *)
LEMMA NoneOpen ==
    ASSUME conv' = None PROVE InContext'
BY DEF InContext, None

(* The invariant after a step that leaves nothing saved.                   *)
LEMMA NoneSaved ==
    ASSUME saved' = None PROVE Stored'
BY DEF Stored, None

(* The invariant after a step that leaves c open.                          *)
LEMMA OneOpen ==
    ASSUME model' = model, NEW c, conv' = {c}, Known(model), Sound(Template, c),
           Tells(c, cache', transcript'),
           phase' = "idle" =>
                /\ Waiting(Template, c, cache', transcript', result'.tool_calls)
                /\ (c.kept /\ transcript' = <<>>) => Fresh(Template, c),
           phase' = "begin" => Answering(Template, c, cache', transcript', job'.prefill),
           phase' = "reply" =>
                Answering(Template, c, cache', transcript', job'.prefill \o reply'.fed)
    PROVE  InContext'
<1>1. Template' = Template
  BY DEF Template
<1>2. SUFFICES ASSUME NEW x \in conv'
      PROVE  /\ conv' = {x} /\ Known(model') /\ Sound(Template', x)
             /\ Tells(x, cache', transcript')
             /\ phase' = "idle" =>
                /\ Waiting(Template', x, cache', transcript', result'.tool_calls)
                /\ (x.kept /\ transcript' = <<>>) => Fresh(Template', x)
             /\ phase' = "begin" => Answering(Template', x, cache', transcript', job'.prefill)
             /\ phase' = "reply" =>
                Answering(Template', x, cache', transcript', job'.prefill \o reply'.fed)
  BY DEF InContext
<1>3. x = c
  OBVIOUS
<1> QED BY <1>1, <1>3

---------------------------------------------------------------------------
(* Opening                                                                 *)

LEMMA BeginsSound ==
    ASSUME model \in Models, Known(model), NEW c, NEW system \in Systems,
           NEW tools \in ToolLists, Begins(Template, c, system, tools)
    PROVE  Sound(Template, c) /\ Fresh(Template, c) /\ c.kept = TRUE
<1>1. /\ c.shape = Shape(Template) /\ c.tools = tools /\ c.system = system /\ c.kept = TRUE
      /\ c.opening = OpeningOf(Template, Block(Template, system), tools)
      /\ c.system_for_first_turn = IF Template.system = "block" THEN None ELSE system
      /\ c.tool_result_spans \in {None, {RoleSpans(Template)}}
      /\ c.tool_result_spans # None => Template.results = "role"
  BY DEF Begins
<1>2. OpeningOf(Template, Block(Template, system), tools) \in Seq(STRING)
  <2>1. <<>> \in Seq(Said(STRING))
    <3> DEFINE A == Said(STRING)
    <3> HIDE DEF A
    <3>1. <<>> \in Seq(A)
      OBVIOUS
    <3> QED BY <3>1 DEF A
  <2>2. Conversing(STRING, Template, Block(Template, system), tools, <<>>)
    BY <2>1, Conversant
  <2>3. /\ Heading(Template, Block(Template, system), tools) \in Seq(STRING)
        /\ Opened("user") \in Seq(STRING)
    BY ONLY <2>2, ConversedTypes
  <2> QED BY ONLY <2>3, ConcatProperties DEF OpeningOf
<1>3. IsOption(c.system_for_first_turn, Seq(STRING))
  <2>1. IsOption(system, Seq(STRING))
    BY SystemIs
  <2> QED BY ONLY <1>1, <2>1 DEF IsOption, None
<1> QED BY ONLY <1>1, <1>2, <1>3, system \in Systems, tools \in ToolLists DEF Sound, Fresh

(* OpenConversation keeps the invariant.                                   *)
LEMMA OpenStep ==
    ASSUME Talks, NEW system \in Systems, NEW tools \in ToolLists, NEW configured,
           OpenConversation(system, tools, configured)
    PROVE  Talks'
<1> DEFINE c == NewConversation(The(Shapes), system, tools, configured)
<1>1. /\ phase = "loaded" /\ Shapes # None /\ phase' = "idle" /\ conv' = {c}
      /\ model' = model /\ transcript' = transcript /\ saved' = saved /\ cache' = cache
      /\ job' = job /\ reply' = reply /\ result' = result /\ script' = script /\ at' = at
  BY DEF OpenConversation, Some, writing
<1>2. /\ model \in Models /\ job.kind = "none" /\ transcript = <<>> /\ cache = <<>>
      /\ result = NoResult /\ saved = None
  BY <1>1 DEF Talks, Control
<1>3. Known(model)
  BY <1>1, <1>2, ShapesAre
<1>4. Begins(Template, c, system, tools)
  <2>1. IsOption(system, Seq(Unprobed))
    BY SystemIs
  <2> QED BY <1>2, <1>3, <2>1, NewIs
<1> HIDE DEF c
<1>5. Sound(Template, c) /\ Fresh(Template, c)
  BY <1>2, <1>3, <1>4, BeginsSound
<1>6. Control'
  BY <1>1, <1>2 DEF Control, None
<1>7. Typed'
  BY <1>1 DEF Talks, Typed
<1>8. Tells(c, cache', transcript') /\ Waiting(Template, c, cache', transcript', result'.tool_calls)
  BY <1>1, <1>2 DEF Tells, Waiting, NoResult
<1>9. InContext'
  BY ONLY <1>1, <1>3, <1>5, <1>8, OneOpen
<1>10. Stored'
  BY <1>1, <1>2, NoneSaved
<1> QED BY <1>6, <1>7, <1>9, <1>10 DEF Talks

(* A snapshot keeps the tokens and the turns of an open conversation.      *)
LEMMA SnapshotStep ==
    ASSUME Talks, Snapshot
    PROVE  Talks'
<1> DEFINE z == [tokens |-> cache, turns |-> transcript, tools |-> Conv.tools,
                 configured |-> Conv.configured, system |-> Conv.system,
                 kept |-> Conv.kept /\ transcript # <<>>]
<1>1. /\ phase = "idle" /\ phase' = "snapshotted" /\ saved' = {z} /\ conv' = None
      /\ cache' = <<>> /\ transcript' = <<>>
      /\ model' = model /\ job' = job /\ result' = result
  BY DEF Snapshot, GoesOn, Some
<1>2. /\ model \in Models /\ job.kind \in {"none", "send", "results"}
      /\ transcript \in Seq(Said(STRING)) /\ cache \in Seq(STRING)
  BY <1>1 DEF Talks, Control, Typed
<1>3. /\ Known(model) /\ Sound(Template, Conv) /\ Tells(Conv, cache, transcript)
      /\ Waiting(Template, Conv, cache, transcript, result.tool_calls)
  BY <1>1, <1>2, OpenIs DEF Talks
<1>4. Control'
  BY <1>1, <1>2 DEF Control, None
<1>5. Typed'
  <2>1. <<>> \in Seq(Said(STRING)) /\ <<>> \in Seq(STRING)
    <3> DEFINE A == Said(STRING)
    <3> HIDE DEF A
    <3>1. <<>> \in Seq(A)
      OBVIOUS
    <3> QED BY <3>1 DEF A
  <2> QED BY <1>1, <2>1 DEF Typed
<1>6. InContext'
  BY <1>1, NoneOpen
<1>7. /\ z.tokens = cache /\ z.turns = transcript /\ z.tools = Conv.tools
      /\ z.system = Conv.system /\ z.kept = (Conv.kept /\ transcript # <<>>)
  OBVIOUS
<1> HIDE DEF z
<1>8. Conv.kept \in BOOLEAN /\ Conv.tools \in ToolLists /\ Conv.system \in Systems
  BY <1>3 DEF Sound
<1>9. Waiting(Template, z, cache, transcript, result.tool_calls)
  BY ONLY <1>3, <1>7, <1>8 DEF Waiting, Rendering
<1>10. Tells(z, cache, transcript)
  BY ONLY <1>3, <1>7 DEF Tells
<1>11. Template' = Template
  BY <1>1 DEF Template
<1>12. Stored'
  <2> SUFFICES ASSUME NEW x \in saved'
               PROVE  /\ saved' = {x} /\ Known(model')
                      /\ x.tokens \in Seq(STRING) /\ x.turns \in Seq(Said(STRING))
                      /\ x.tools \in ToolLists /\ x.system \in Systems /\ x.kept \in BOOLEAN
                      /\ Waiting(Template', x, x.tokens, x.turns, result'.tool_calls)
                      /\ x.kept => x.turns # <<>>
                      /\ Tells(x, x.tokens, x.turns)
    BY DEF Stored
  <2>1. x = z
    BY <1>1
  <2> QED BY ONLY <1>1, <1>2, <1>3, <1>7, <1>8, <1>9, <1>10, <1>11, <2>1
<1> QED BY <1>4, <1>5, <1>6, <1>12 DEF Talks

(* A reopened conversation has them again, and nothing left to tell.       *)
LEMMA ReopenStep ==
    ASSUME Talks, Reopen
    PROVE  Talks'
<1> DEFINE z == The(saved)
           new == NewConversation(The(Shapes), None, z.tools, z.configured)
           c == [new EXCEPT !.opening = <<>>, !.system_for_first_turn = None,
                            !.system = z.system, !.kept = z.kept]
<1>1. /\ phase = "snapshotted" /\ phase' = "idle" /\ conv' = {c}
      /\ cache' = z.tokens /\ transcript' = z.turns /\ saved' = None
      /\ model' = model /\ job' = job /\ result' = result
  BY DEF Reopen, Some
<1>2. model \in Models /\ job.kind \in {"none", "send", "results"} /\ saved # None
  BY <1>1 DEF Talks, Control
<1>3. /\ Known(model)
      /\ z.tokens \in Seq(STRING) /\ z.turns \in Seq(Said(STRING))
      /\ z.tools \in ToolLists /\ z.system \in Systems /\ z.kept \in BOOLEAN
      /\ Waiting(Template, z, z.tokens, z.turns, result.tool_calls)
      /\ z.kept => z.turns # <<>>
      /\ Tells(z, z.tokens, z.turns)
  <2>1. z \in saved
    BY <1>2 DEF The, None
  <2> HIDE DEF z
  <2> QED BY <2>1 DEF Talks, Stored
<1> HIDE DEF z
<1>4. Begins(Template, new, None, z.tools)
  <2>1. IsOption(None, Seq(Unprobed))
    BY DEF IsOption, None
  <2> QED BY <1>2, <1>3, <2>1, NewIs
<1>5. /\ c.shape = new.shape /\ c.tools = new.tools /\ c.opening = <<>>
      /\ c.system_for_first_turn = None /\ c.system = z.system /\ c.kept = z.kept
      /\ c.tool_result_spans = new.tool_result_spans
  BY DEF NewConversation
<1> HIDE DEF new, c
<1>6. Sound(Template, c)
  <2>1. <<>> \in Seq(STRING) /\ IsOption(None, Seq(STRING))
    BY DEF IsOption, None
  <2> QED BY ONLY <1>3, <1>4, <1>5, <2>1 DEF Sound, Begins
<1>7. Waiting(Template, c, z.tokens, z.turns, result.tool_calls)
  <2>1. c.tools = z.tools
    BY ONLY <1>4, <1>5 DEF Begins
  <2> QED BY ONLY <1>3, <1>5, <2>1 DEF Waiting, Rendering
<1>8. Tells(c, z.tokens, z.turns)
  BY ONLY <1>3, <1>5 DEF Tells
<1>9. ~(c.kept /\ z.turns = <<>>)
  BY ONLY <1>3, <1>5
<1>10. InContext'
  BY ONLY <1>1, <1>3, <1>6, <1>7, <1>8, <1>9, OneOpen
<1>11. Control'
  BY <1>1, <1>2 DEF Control, None
<1>12. Typed'
  BY <1>1, <1>3 DEF Typed
<1> QED BY <1>1, <1>10, <1>11, <1>12, NoneSaved DEF Talks

(* A request to say something.                                             *)
LEMMA JobIs ==
    ASSUME NEW kind, NEW text, NEW prefill, NEW constrained
    PROVE  LET j == [NoJob EXCEPT !.kind = kind, !.prompt = text, !.prefill = prefill,
                                  !.constrained = constrained] IN
           j.kind = kind /\ j.prefill = prefill
BY DEF NoJob

(* The turn a message begins.                                              *)
LEMMA SayStep ==
    ASSUME Talks, NEW kind \in {"send", "results"}, NEW message \in Seq(OtherWords),
           NEW prefill \in Seq(OtherWords), NEW constrained,
           Say(kind, message, prefill, constrained)
    PROVE  Talks'
<1> DEFINE c == Conv  first == transcript = <<>>
           folded == IF first /\ c.system_for_first_turn # None
                     THEN The(c.system_for_first_turn) \o <<"nl", "nl">> \o message
                     ELSE message
           text == (IF first THEN c.opening ELSE c.shape.turn_transition) \o
                   folded \o c.shape.generation_open \o prefill
<1>1. /\ phase = "idle" /\ phase' = "begin"
      /\ job' = [NoJob EXCEPT !.kind = kind, !.prompt = text, !.prefill = prefill,
                              !.constrained = constrained]
      /\ cache' = cache \o text
      /\ transcript' = Append(transcript, Message("user", folded))
      /\ model' = model /\ conv' = conv /\ saved' = saved /\ result' = result
  BY SMTT(30) DEF Say, GoesOn
<1>2. job'.kind = kind /\ job'.prefill = prefill
  BY <1>1, JobIs, SMTT(30)
<1>3. /\ model \in Models /\ job.kind \in {"none", "send", "results"} /\ saved = None
      /\ transcript \in Seq(Said(STRING)) /\ cache \in Seq(STRING) /\ conv # None
  BY <1>1, SMTT(30) DEF Talks, Control, Typed
<1>4. /\ conv = {c} /\ Known(model) /\ Sound(Template, c) /\ Tells(c, cache, transcript)
      /\ Waiting(Template, c, cache, transcript, result.tool_calls)
      /\ (c.kept /\ transcript = <<>>) => Fresh(Template, c)
  BY <1>1, <1>3, OpenIs, SMTT(30) DEF Talks
<1>5. /\ first => text = FirstText(c, message, prefill) /\ folded = FirstMessage(c, message)
      /\ ~first => text = NextText(c, message, prefill) /\ folded = message
  BY DEF FirstText, FirstMessage, NextText
<1> HIDE DEF c, folded, text
<1>6. c.kept \in BOOLEAN /\ c.system \in Systems
  BY <1>4 DEF Sound
<1>7. folded \in Seq(STRING) /\ text \in Seq(STRING)
  <2>1. CASE first
    BY ONLY <1>3, <1>4, <1>5, <2>1, FirstTexts, message \in Seq(OtherWords),
            prefill \in Seq(OtherWords)
  <2>2. CASE ~first
    <3>1. NextText(c, message, prefill) \in Seq(OtherWords)
      BY ONLY <1>3, <1>4, NextTexts, message \in Seq(OtherWords), prefill \in Seq(OtherWords)
    <3> QED BY ONLY <1>5, <2>2, <3>1, message \in Seq(OtherWords), OthersAre
  <2> QED BY <2>1, <2>2
<1>8. /\ transcript' \in Seq(Said(STRING)) /\ transcript' # <<>>
      /\ RoleAt(transcript', Len(transcript')) = "user"
  <2>1. "user" \in {"user", "assistant", "tool"}
    OBVIOUS
  <2> QED BY ONLY <1>1, <1>3, <1>7, <2>1, Appended
<1>9. cache' \in Seq(STRING)
  BY ONLY <1>1, <1>3, <1>7, ConcatProperties
<1>10. c.kept => cache' = Rendering(Template, c, transcript') \o (Begun(Template) \o prefill)
  <2> SUFFICES ASSUME c.kept
               PROVE  cache' = Rendering(Template, c, transcript') \o (Begun(Template) \o prefill)
    BY <1>6
  <2>1. CASE first
    <3>1. cache = <<>>
      BY <1>4, <2>1 DEF Waiting
    <3>2. cache' = text
      BY ONLY <1>1, <1>7, <3>1, ConcatEmptySeq
    <3>3. Fresh(Template, c)
      BY <1>4, <2>1
    <3>4. FirstText(c, message, prefill) =
          Rendering(Template, c, Append(<<>>, Message("user", FirstMessage(c, message)))) \o
          (Begun(Template) \o prefill)
      BY <1>3, <1>4, <3>3, FirstAnswering
    <3>5. transcript' = Append(<<>>, Message("user", FirstMessage(c, message)))
      BY ONLY <1>1, <1>5, <2>1
    <3> QED BY ONLY <1>5, <2>1, <3>2, <3>4, <3>5
  <2>2. CASE ~first
    <3>1. StandsBy(c, cache, transcript)
      BY <1>4, <2>2 DEF Waiting, StandsBy
    <3>2. GoesOnSo(c, cache, transcript, message, prefill)
      BY ONLY <1>3, <1>4, <3>1, message \in Seq(OtherWords), prefill \in Seq(OtherWords),
              NextAnswering
    <3>3. transcript' = Append(transcript, Message("user", message))
      BY ONLY <1>1, <1>5, <2>2
    <3> QED BY ONLY <1>1, <1>5, <2>2, <3>2, <3>3 DEF GoesOnSo
  <2> QED BY <2>1, <2>2
<1>11. Tells(c, cache', transcript')
  <2> SUFFICES ASSUME c.kept PROVE \A s \in c.system : Carries(OtherWords, cache', s)
    BY DEF Tells
  <2>1. CASE first
    <3>1. cache = <<>>
      BY <1>4, <2>1 DEF Waiting
    <3>2. cache' = FirstText(c, message, prefill)
      BY ONLY <1>1, <1>5, <1>7, <2>1, <3>1, ConcatEmptySeq
    <3>3. Fresh(Template, c)
      BY <1>4, <2>1
    <3>4. \A s \in c.system : Carries(OtherWords, FirstText(c, message, prefill), s)
      BY <1>3, <1>4, <3>3, FirstTells
    <3> QED BY ONLY <3>2, <3>4
  <2>2. CASE ~first
    <3>1. \A s \in c.system : Carries(OtherWords, cache, s)
      BY <1>4, <2>2 DEF Tells
    <3>2. NextText(c, message, prefill) \in Seq(OtherWords)
      BY <1>3, <1>4, NextTexts
    <3>3. \A s \in c.system : Carries(OtherWords, cache \o NextText(c, message, prefill), s)
      BY ONLY <1>6, <3>1, <3>2, ToldStill
    <3> QED BY ONLY <1>1, <1>5, <2>2, <3>3
  <2> QED BY <2>1, <2>2
<1>12. Answering(Template, c, cache', transcript', job'.prefill)
  BY ONLY <1>2, <1>8, <1>10 DEF Answering
<1>13. conv' = {c} /\ phase' # "idle" /\ phase' # "reply"
  BY <1>1, <1>4
<1>14. InContext'
  BY ONLY <1>1, <1>4, <1>11, <1>12, <1>13, OneOpen
<1>15. Control'
  BY ONLY <1>1, <1>2, <1>3, kind \in {"send", "results"} DEF Control, None
<1>16. Typed'
  BY ONLY <1>1, <1>2, <1>8, <1>9, prefill \in Seq(OtherWords) DEF Typed
<1> QED BY <1>1, <1>3, <1>14, <1>15, <1>16, NoneSaved DEF Talks

(* Results as ordinary text.                                               *)
LEMMA ResultsType ==
    ASSUME NEW results \in ResultLists
    PROVE  /\ results \in Lists(OtherWords) /\ results \in Lists(STRING) /\ results # <<>>
           /\ Len(results) # 0 /\ Join(results, <<"nl">>) \in Seq(OtherWords)
<1>1. results \in Seq(Seq(OtherWords)) /\ results # <<>>
  BY TextAssumption
<1>2. results \in Lists(OtherWords)
  BY ONLY <1>1 DEF Lists
<1>3. results \in Lists(STRING)
  <2>1. OtherWords \subseteq STRING
    BY WordSets
  <2> QED BY ONLY <1>2, <2>1, ListsMore
<1>4. Len(results) # 0
  <2> DEFINE A == Seq(OtherWords)
  <2> HIDE DEF A
  <2>1. results \in Seq(A)
    BY <1>1 DEF A
  <2> QED BY ONLY <1>1, <2>1
<1>5. <<"nl">> \in Seq(OtherWords)
  <2>1. Marks \subseteq OtherWords
    BY WordSets
  <2> QED BY ONLY <2>1, MarkTypes
<1>6. Join(results, <<"nl">>) \in Seq(OtherWords)
  BY ONLY <1>1, <1>5, SeparatedType
<1> QED BY <1>1, <1>2, <1>3, <1>4, <1>6

(* Results between the markers that were found.                            *)
LEMMA MarkedStep ==
    ASSUME Talks, NEW results \in ResultLists, SendToolResults(results),
           Conv.tool_result_spans # None
    PROVE  Talks'
<1> DEFINE c == Conv  text == RenderResults(The(c.tool_result_spans), results)
           b == Block(Template, c.system)
<1>1. /\ phase = "idle" /\ phase' = "begin" /\ result.tool_calls # <<>>
      /\ job' = [NoJob EXCEPT !.kind = "results", !.prompt = text, !.marked = TRUE]
      /\ cache' = cache \o text
      /\ transcript' = transcript \o ToolMessages(results)
      /\ model' = model /\ conv' = conv /\ saved' = saved /\ result' = result
  BY DEF SendToolResults, GoesOn, ToolMessages
<1>2. job'.kind = "results" /\ job'.prefill = <<>>
  BY <1>1 DEF NoJob
<1>3. /\ model \in Models /\ job.kind \in {"none", "send", "results"} /\ saved = None
      /\ transcript \in Seq(Said(STRING)) /\ cache \in Seq(STRING) /\ conv # None
  BY <1>1 DEF Talks, Control, Typed
<1>4. /\ conv = {c} /\ Known(model) /\ Sound(Template, c) /\ Tells(c, cache, transcript)
      /\ Waiting(Template, c, cache, transcript, result.tool_calls)
  BY <1>1, <1>3, OpenIs DEF Talks
<1> HIDE DEF c, b
<1>5. /\ c.kept \in BOOLEAN /\ c.system \in Systems /\ c.tools \in ToolLists
      /\ text = RenderResults(RoleSpans(Template), results) /\ Template.results = "role"
  <2>1. c.tool_result_spans = {RoleSpans(Template)} /\ Template.results = "role"
    BY <1>4 DEF Sound, c
  <2>2. The(c.tool_result_spans) = RoleSpans(Template)
    BY ONLY <2>1 DEF The
  <2> QED BY <1>4, <2>1, <2>2 DEF Sound
<1> HIDE DEF text
<1>6. transcript # <<>> /\ RoleAt(transcript, Len(transcript)) = "assistant"
  BY <1>1, <1>4 DEF Waiting
<1>7. /\ results \in Lists(OtherWords) /\ results \in Lists(STRING) /\ results # <<>>
      /\ Len(results) # 0
  BY ResultsType
<1>8. text \in Seq(OtherWords) /\ text \in Seq(STRING)
  <2>1. /\ Template \in Templates(OtherWords) /\ c.tools \in Lists(OtherWords)
        /\ Marks \subseteq OtherWords
    BY <1>3, <1>4, ConversationIs, WordSets
  <2>2. RenderResults(RoleSpans(Template), results) \in Seq(OtherWords)
    BY ONLY <1>7, <2>1, SaidTypes
  <2> QED BY ONLY <1>5, <2>2, OthersAre
<1>9. /\ transcript' \in Seq(Said(STRING)) /\ transcript' # <<>>
      /\ RoleAt(transcript', Len(transcript')) = "tool"
  BY ONLY <1>1, <1>3, <1>7, ResultMessages
<1>10. cache' \in Seq(STRING)
  BY ONLY <1>1, <1>3, <1>8, ConcatProperties
<1>11. c.kept => cache' = Rendering(Template, c, transcript') \o (Begun(Template) \o <<>>)
  <2> SUFFICES ASSUME c.kept
               PROVE  cache' = Rendering(Template, c, transcript') \o (Begun(Template) \o <<>>)
    BY <1>5
  <2>1. Conversing(STRING, Template, b, c.tools, transcript)
    BY <1>3, <1>4, <1>5, Conversant DEF b
  <2>2. Stands(Template, b, c.tools, transcript, cache)
    BY <1>4, <1>6 DEF Waiting, Rendering, Stands, b
  <2>3. RoleAt(transcript, Len(transcript)) # "tool"
    BY <1>6
  <2>4. SaidResults(Template, b, c.tools, transcript, cache, results)
    BY ONLY <1>3, <1>5, <1>6, <1>7, <2>1, <2>2, <2>3, ResultsSaid
  <2>5. cache' = Rendering(Template, c, transcript') \o Begun(Template)
    BY ONLY <1>1, <1>5, <2>4 DEF SaidResults, Rendering, b
  <2>6. Begun(Template) \in Seq(STRING)
    BY ONLY <2>1, ConversedTypes
  <2>7. Begun(Template) \o <<>> = Begun(Template)
    BY ONLY <2>6, ConcatEmptySeq
  <2> QED BY ONLY <2>5, <2>7
<1>12. Tells(c, cache', transcript')
  <2> SUFFICES ASSUME c.kept PROVE \A s \in c.system : Carries(OtherWords, cache', s)
    BY DEF Tells
  <2>1. \A s \in c.system : Carries(OtherWords, cache, s)
    BY <1>4, <1>6 DEF Tells
  <2>2. \A s \in c.system : Carries(OtherWords, cache \o text, s)
    BY ONLY <1>5, <1>8, <2>1, ToldStill
  <2> QED BY ONLY <1>1, <2>2
<1>13. Answering(Template, c, cache', transcript', job'.prefill)
  BY ONLY <1>2, <1>9, <1>11 DEF Answering
<1>14. conv' = {c} /\ phase' # "idle" /\ phase' # "reply"
  BY <1>1, <1>4
<1>15. InContext'
  BY ONLY <1>1, <1>4, <1>12, <1>13, <1>14, OneOpen
<1>16. Control'
  BY ONLY <1>1, <1>2, <1>3 DEF Control, None
<1>17. Typed'
  <2>1. <<>> \in Seq(OtherWords)
    OBVIOUS
  <2> QED BY ONLY <1>1, <1>2, <1>9, <1>10, <2>1 DEF Typed
<1> QED BY <1>1, <1>3, <1>15, <1>16, <1>17, NoneSaved DEF Talks

(* SendToolResults keeps the invariant, with or without markers.           *)
LEMMA ResultsStep ==
    ASSUME Talks, NEW results \in ResultLists, SendToolResults(results)
    PROVE  Talks'
<1>1. CASE Conv.tool_result_spans = None
  <2>1. Say("results", Join(results, <<"nl">>), <<>>, FALSE)
    BY <1>1 DEF SendToolResults
  <2>2. Join(results, <<"nl">>) \in Seq(OtherWords) /\ <<>> \in Seq(OtherWords)
    BY ResultsType
  <2> QED BY <2>1, <2>2, SayStep
<1>2. CASE Conv.tool_result_spans # None
  BY <1>2, MarkedStep
<1> QED BY <1>1, <1>2

(* What is generated at once from a prompt.                                *)
LEMMA GenerateStep ==
    ASSUME Talks, NEW prompt \in UserMessages, NEW o \in Options,
           Generate(prompt, o.prefill, o.constrained)
    PROVE  Talks'
<1> DEFINE p == FormattedPrompt(model.template, model.native, model.wrap, prompt)
           text == p \o o.prefill
<1>1. /\ phase = "loaded" /\ model' = model /\ conv' = conv /\ transcript' = transcript
      /\ saved' = saved /\ result' = result
      /\ job' = [NoJob EXCEPT !.kind = "generate", !.prompt = text, !.prefill = o.prefill,
                              !.constrained = o.constrained]
      /\ \/ phase' = "refused" /\ cache' = cache
         \/ phase' = "begin" /\ cache' = text
  BY DEF Generate, talk
<1>2. job'.kind = "generate" /\ job'.prefill = o.prefill
  BY <1>1, JobIs
<1>3. /\ model \in Models /\ conv = None /\ saved = None /\ transcript = <<>>
      /\ transcript \in Seq(Said(STRING)) /\ cache \in Seq(STRING)
  BY <1>1 DEF Talks, Control, Typed
<1>4. o.prefill \in Seq(OtherWords) /\ prompt \in Seq(OtherWords)
  BY TextAssumption
<1>5. text \in Seq(STRING)
  <2>1. /\ IsOption(model.template, Templates(OtherWords \ ProbeWords))
        /\ IsOption(model.wrap, [prefix : Seq(STRING), suffix : Seq(STRING)])
    BY <1>3, TextAssumption
  <2>2. Templates(OtherWords \ ProbeWords) \subseteq Templates(STRING)
    BY WordSets, TemplatesMore
  <2>3. IsOption(model.template, Templates(STRING))
    BY ONLY <2>1, <2>2 DEF IsOption
  <2>4. Marks \subseteq STRING
    BY WordSets
  <2>5. prompt \in Seq(STRING) /\ o.prefill \in Seq(STRING)
    BY ONLY <1>4, OthersAre
  <2>6. p \in Seq(STRING)
    BY ONLY <2>1, <2>3, <2>4, <2>5, FormattedType
  <2> HIDE DEF p
  <2> QED BY ONLY <2>5, <2>6, ConcatProperties
<1> HIDE DEF p, text
<1>6. Control'
  BY <1>1, <1>2, <1>3 DEF Control, None
<1>7. Typed'
  BY <1>1, <1>2, <1>3, <1>4, <1>5 DEF Typed
<1> QED BY <1>1, <1>3, <1>6, <1>7, NoneOpen, NoneSaved DEF Talks

(* The steps between a request and its answer leave what was said alone.   *)
LEMMA SameOpen ==
    ASSUME Talks, model' = model, conv' = conv, cache' = cache, transcript' = transcript,
           job' = job, result' = result, phase = "begin", phase' = "reply",
           reply' = NoReply
    PROVE  InContext'
<1>1. CASE job.kind = "generate"
  <2>1. conv = None
    BY <1>1 DEF Talks, Control
  <2> QED BY <2>1, NoneOpen
<1>2. CASE job.kind # "generate"
  <2>1. /\ conv = {Conv} /\ Known(model) /\ Sound(Template, Conv)
        /\ Tells(Conv, cache, transcript)
        /\ Answering(Template, Conv, cache, transcript, job.prefill)
    BY <1>2, OpenIs DEF Talks
  <2> DEFINE c == Conv
  <2>2. job.prefill \o reply'.fed = job.prefill
    <3>1. reply'.fed = <<>> /\ job.prefill \in Seq(OtherWords)
      BY DEF NoReply, Talks, Typed
    <3> QED BY ONLY <3>1, ConcatEmptySeq
  <2>3. conv' = {c} /\ phase' # "idle" /\ phase' # "begin" /\ job'.prefill = job.prefill
    BY <2>1
  <2> HIDE DEF c
  <2>4. Answering(Template, c, cache', transcript', job'.prefill \o reply'.fed)
    BY <2>1, <2>2, <2>3 DEF c
  <2>5. Tells(c, cache', transcript') /\ Known(model) /\ Sound(Template, c)
    BY <2>1 DEF c
  <2> QED BY ONLY <2>3, <2>4, <2>5, model' = model, OneOpen
<1> QED BY <1>1, <1>2

(* What a model begins to write is its script, from the start.             *)
LEMMA BeginStep ==
    ASSUME Talks, NEW plan \in Plans, Begin(plan)
    PROVE  Talks'
<1>1. /\ phase = "begin" /\ phase' = "reply" /\ MayWrite(plan)
      /\ script' = ScriptOf(plan) /\ at' = Start /\ reply' = NoReply
      /\ model' = model /\ conv' = conv /\ transcript' = transcript /\ saved' = saved
      /\ cache' = cache /\ job' = job /\ result' = result
  BY DEF Begin, talk
<1>2. /\ model \in Models /\ saved = None /\ job.prefill \in Seq(OtherWords)
      /\ transcript \in Seq(Said(STRING)) /\ cache \in Seq(STRING)
  BY <1>1 DEF Talks, Control, Typed
<1>3. script' \in Seq(Segments)
  BY <1>1, <1>2, ScriptType
<1>4. Progress'
  <2>1. at' = [segment |-> 1, piece |-> 0]
    BY <1>1 DEF Start
  <2>2. at' \in [segment : Nat \ {0}, piece : Nat] /\ at'.segment = 1 /\ at'.piece = 0
    BY ONLY <2>1
  <2>3. 1 <= Len(script') => 0 < Len(script'[1].pieces)
    <3> SUFFICES ASSUME 1 <= Len(script') PROVE 0 < Len(script'[1].pieces)
      OBVIOUS
    <3>1. script'[1] \in Segments
      <4> DEFINE A == Segments
      <4> HIDE DEF A
      <4>1. script' \in Seq(A)
        BY <1>3 DEF A
      <4>2. script'[1] \in A
        BY ONLY <4>1, 1 <= Len(script')
      <4> QED BY <4>2 DEF A
    <3>2. script'[1].pieces \in PieceLists
      BY ONLY <3>1 DEF Segments
    <3> DEFINE A == Seq(OtherWords)  x == script'[1].pieces
    <3>3. x \in Seq(A) /\ x # <<>>
      BY ONLY <3>2 DEF PieceLists
    <3> HIDE DEF A, x
    <3>4. 0 < Len(x)
      BY ONLY <3>3
    <3> QED BY ONLY <3>4 DEF x
  <2>4. Remaining' => at'.piece < Len(script'[at'.segment].pieces)
    BY ONLY <2>2, <2>3 DEF Remaining
  <2> QED BY ONLY <1>3, <2>2, <2>4 DEF Progress
<1>5. InContext'
  BY <1>1, SameOpen
<1>6. Control'
  BY <1>1 DEF Talks, Control
<1>7. Typed'
  <2>1. reply'.fed \in Seq(OtherWords)
    BY <1>1 DEF NoReply
  <2> QED BY <1>1, <1>2, <1>4, <2>1 DEF Typed
<1> QED BY <1>1, <1>2, <1>5, <1>6, <1>7, NoneSaved DEF Talks

---------------------------------------------------------------------------
(* A reply                                                                 *)

(* What is sampled next is of other words, and there is more of the reply  *)
(* or another one.                                                         *)
LEMMA PieceType ==
    ASSUME Progress, Remaining
    PROVE  Piece \in Seq(OtherWords)
<1> DEFINE A == Segments  s == script[at.segment]  X == Seq(OtherWords)  n == at.piece + 1
           w == at.segment
<1>1. script \in Seq(A) /\ w \in Nat \ {0} /\ w <= Len(script) /\ at.piece \in Nat
      /\ at.piece < Len(s.pieces)
  BY DEF Progress, Remaining
<1> HIDE DEF A, w
<1>2. script[w] \in A
  BY ONLY <1>1
<1>3. s.pieces \in Seq(X)
  BY <1>2 DEF A, w, Segments, PieceLists
<1> HIDE DEF s, X
<1>4. Len(s.pieces) \in Nat
  BY ONLY <1>3
<1>5. n \in 1..Len(s.pieces)
  BY ONLY <1>1, <1>4
<1> HIDE DEF n
<1>6. s.pieces[n] \in X
  BY ONLY <1>3, <1>5
<1> QED BY ONLY <1>6 DEF Piece, s, n, X

(* The place in the reply after a piece.                                   *)
LEMMA AdvancedIs ==
    ASSUME Progress, Remaining, script' = script, at' = Advanced
    PROVE  Progress'
<1> DEFINE w == at.segment  n == at.piece
<1>1. script \in Seq(Segments) /\ w \in Nat \ {0} /\ n \in Nat
      /\ at \in [segment : Nat \ {0}, piece : Nat]
  BY DEF Progress
<1>2. CASE n + 1 < Len(script[w].pieces)
  <2>1. at' = [at EXCEPT !.piece = n + 1]
    BY <1>2 DEF Advanced
  <2>2. at'.segment = w /\ at'.piece = n + 1 /\ at' \in [segment : Nat \ {0}, piece : Nat]
    BY ONLY <1>1, <2>1
  <2>3. at'.piece < Len(script'[at'.segment].pieces)
    BY <1>2, <2>2
  <2> QED BY <1>1, <2>2, <2>3 DEF Progress
<1>3. CASE ~(n + 1 < Len(script[w].pieces))
  <2>1. at' = [segment |-> w + 1, piece |-> 0]
    BY <1>3 DEF Advanced
  <2>2. at'.segment = w + 1 /\ at'.piece = 0 /\ at' \in [segment : Nat \ {0}, piece : Nat]
    BY ONLY <1>1, <2>1
  <2>3. w + 1 <= Len(script) => 0 < Len(script[w + 1].pieces)
    <3> SUFFICES ASSUME w + 1 <= Len(script) PROVE 0 < Len(script[w + 1].pieces)
      OBVIOUS
    <3> DEFINE A == Segments  s == script[w + 1]
    <3> HIDE DEF A
    <3>1. script \in Seq(A) /\ w + 1 \in Nat \ {0}
      BY <1>1 DEF A
    <3>2. s \in A
      BY ONLY <3>1, w + 1 <= Len(script)
    <3>3. s.pieces \in PieceLists
      BY <3>2 DEF A, Segments
    <3> DEFINE B == Seq(OtherWords)  x == s.pieces
    <3>4. x \in Seq(B) /\ x # <<>>
      BY <3>3 DEF PieceLists
    <3> HIDE DEF B, x
    <3>5. 0 < Len(x)
      BY ONLY <3>4
    <3> QED BY ONLY <3>5 DEF x
  <2>4. Remaining' => at'.piece < Len(script'[at'.segment].pieces)
    BY <2>2, <2>3 DEF Remaining
  <2> QED BY <1>1, <2>2, <2>4 DEF Progress
<1> QED BY <1>2, <1>3

(* A piece that does not end the reply is decoded.                         *)
LEMMA ContinueStep ==
    ASSUME Talks, phase = "reply", Remaining, at' = Advanced,
           reply'.fed = reply.fed \o Piece, cache' = cache \o Piece,
           model' = model, phase' = phase, conv' = conv, transcript' = transcript,
           saved' = saved, job' = job, script' = script, result' = result
    PROVE  Talks'
<1> DEFINE p == job.prefill  f == reply.fed  x == Piece  k == cache
<1>1. /\ model \in Models /\ saved = None /\ p \in Seq(OtherWords) /\ f \in Seq(OtherWords)
      /\ transcript \in Seq(Said(STRING)) /\ k \in Seq(STRING) /\ Progress
  BY DEF Talks, Control, Typed
<1>2. x \in Seq(OtherWords)
  BY <1>1, PieceType
<1>3. Progress'
  BY <1>1, AdvancedIs
<1>4. f \o x \in Seq(OtherWords) /\ k \o x \in Seq(STRING)
  BY ONLY <1>1, <1>2, OthersAre
<1>5. Control'
  BY DEF Talks, Control
<1>6. Typed'
  BY <1>1, <1>3, <1>4 DEF Typed
<1>7. CASE job.kind = "generate"
  <2>1. conv = None
    BY <1>7 DEF Talks, Control
  <2> QED BY <1>1, <1>5, <1>6, <2>1, NoneOpen, NoneSaved DEF Talks
<1>8. CASE job.kind # "generate"
  <2> DEFINE c == Conv
  <2>1. /\ conv = {c} /\ Known(model) /\ Sound(Template, c) /\ Tells(c, k, transcript)
        /\ Answering(Template, c, k, transcript, p \o f)
    BY <1>8, OpenIs DEF Talks
  <2>2. /\ conv' = {c} /\ cache' = k \o x /\ transcript' = transcript /\ phase' = "reply"
        /\ job'.prefill \o reply'.fed = p \o (f \o x)
    BY <2>1
  <2> HIDE DEF c, p, f, x, k
  <2>3. c.kept \in BOOLEAN /\ c.system \in Systems /\ c.tools \in ToolLists
    BY <2>1 DEF Sound
  <2>4. c.kept => k \o x = Rendering(Template, c, transcript) \o (Begun(Template) \o (p \o (f \o x)))
    <3> SUFFICES ASSUME c.kept
                 PROVE  k \o x = Rendering(Template, c, transcript) \o
                                 (Begun(Template) \o (p \o (f \o x)))
      BY <2>3
    <3> DEFINE b == Begun(Template)  w == Rendering(Template, c, transcript)
    <3>1. Conversing(STRING, Template, Block(Template, c.system), c.tools, transcript)
      BY <1>1, <2>1, <2>3, Conversant
    <3>2. w \in Seq(STRING) /\ b \in Seq(STRING)
      BY ONLY <3>1, ConversedTypes DEF Rendering
    <3>3. k = w \o (b \o (p \o f))
      BY <2>1 DEF Answering
    <3> HIDE DEF b, w
    <3>4. SampledOf(STRING, w, b, p, f, x)
      BY ONLY <1>1, <1>2, <3>2, OthersAre DEF SampledOf
    <3>5. SampledSame(w, b, p, f, x)
      BY ONLY <3>4, SampledRegrouped
    <3>6. (w \o (b \o (p \o f))) \o x = w \o (b \o (p \o (f \o x)))
      BY ONLY <3>5 DEF SampledSame, Cat
    <3>7. k \o x = w \o (b \o (p \o (f \o x)))
      BY ONLY <3>3, <3>6
    <3> QED BY ONLY <3>7 DEF b, w
  <2>5. Answering(Template, c, k \o x, transcript, p \o (f \o x))
    BY ONLY <2>1, <2>4 DEF Answering
  <2>6. Tells(c, k \o x, transcript)
    <3> SUFFICES ASSUME c.kept PROVE \A s \in c.system : Carries(OtherWords, k \o x, s)
      BY DEF Tells
    <3>1. \A s \in c.system : Carries(OtherWords, k, s)
      BY <2>1 DEF Tells, Answering
    <3> QED BY ONLY <1>2, <2>3, <3>1, ToldStill
  <2>7. Answering(Template, c, cache', transcript', job'.prefill \o reply'.fed)
        /\ Tells(c, cache', transcript') /\ phase' # "idle" /\ phase' # "begin"
    BY ONLY <2>2, <2>5, <2>6
  <2>8. InContext'
    BY ONLY <2>1, <2>2, <2>7, model' = model, OneOpen
  <2> QED BY <1>1, <1>5, <1>6, <2>8, NoneSaved DEF Talks
<1> QED BY <1>7, <1>8

(* A reply that is over is a turn.                                         *)
LEMMA FinishStep ==
    ASSUME Talks, phase = "reply", NEW text, Finish(text, reply.fed), cache' = cache
    PROVE  Talks'
<1> DEFINE said == job.prefill \o reply.fed
<1>1. /\ phase' = IF job.kind = "generate" THEN "answered" ELSE "idle"
      /\ transcript' = IF job.kind = "generate" THEN transcript
                       ELSE Append(transcript, Message("assistant", said))
      /\ model' = model /\ conv' = conv /\ saved' = saved /\ job' = job
  BY DEF Finish
<1>2. /\ model \in Models /\ saved = None
      /\ job.prefill \in Seq(OtherWords) /\ reply.fed \in Seq(OtherWords)
      /\ transcript \in Seq(Said(STRING)) /\ cache \in Seq(STRING)
      /\ job.kind \in {"send", "results", "generate"}
  BY DEF Talks, Control, Typed
<1>3. said \in Seq(STRING)
  <2>1. said \in Seq(OtherWords)
    BY <1>2, ConcatProperties
  <2> QED BY <2>1, OthersAre
<1> HIDE DEF said
<1>4. CASE job.kind = "generate"
  <2>1. conv = None /\ phase' = "answered" /\ transcript' = transcript /\ transcript = <<>>
    BY <1>1, <1>4 DEF Talks, Control
  <2>2. Control'
    BY <1>1, <1>2, <1>4, <2>1 DEF Control, None
  <2>3. Typed'
    BY <1>2, <2>1 DEF Typed
  <2> QED BY <1>1, <1>2, <2>1, <2>2, <2>3, NoneOpen, NoneSaved DEF Talks
<1>5. CASE job.kind # "generate"
  <2> DEFINE c == Conv  turns == Append(transcript, Message("assistant", said))
  <2>1. /\ conv = {c} /\ Known(model) /\ Sound(Template, c) /\ Tells(c, cache, transcript)
        /\ Answering(Template, c, cache, transcript, said)
    BY <1>5, OpenIs DEF Talks, said
  <2>2. phase' = "idle" /\ transcript' = turns /\ conv' = {c}
    BY <1>1, <1>5, <2>1
  <2> HIDE DEF c
  <2>3. turns \in Seq(Said(STRING)) /\ turns # <<>> /\ RoleAt(turns, Len(turns)) = "assistant"
    <3>1. "assistant" \in {"user", "assistant", "tool"}
      OBVIOUS
    <3> QED BY ONLY <1>2, <1>3, <3>1, Appended
  <2>4. c.kept \in BOOLEAN /\ c.system \in Systems /\ c.tools \in ToolLists
    BY <2>1 DEF Sound
  <2>5. c.kept => cache \o Closed = Rendering(Template, c, turns)
    <3> SUFFICES ASSUME c.kept PROVE cache \o Closed = Rendering(Template, c, turns)
      BY <2>4
    <3> DEFINE b == Block(Template, c.system)
    <3>1. Conversing(STRING, Template, b, c.tools, transcript)
      BY <1>2, <2>1, <2>4, Conversant
    <3>2. RoleAt(transcript, Len(transcript)) # "assistant"
      BY <2>1 DEF Answering
    <3>3. cache = Text(Template, b, c.tools, transcript) \o (Begun(Template) \o said)
      BY <2>1 DEF Answering, Rendering
    <3> HIDE DEF b
    <3>4. SaidAnswer(Template, b, c.tools, transcript, said)
      BY ONLY <1>3, <3>1, <3>2, AnswerSaid
    <3>5. cache \o Closed = Text(Template, b, c.tools, turns)
      BY ONLY <3>3, <3>4 DEF SaidAnswer, turns
    <3> QED BY ONLY <3>5 DEF Rendering, b
  <2> HIDE DEF turns
  <2>6. Waiting(Template, c, cache', transcript', result'.tool_calls)
    BY ONLY <2>2, <2>3, <2>5, cache' = cache DEF Waiting
  <2>7. Tells(c, cache', transcript')
    <3>1. transcript # <<>>
      BY <2>1 DEF Answering
    <3> QED BY ONLY <2>1, <3>1, cache' = cache DEF Tells
  <2>8. phase' # "begin" /\ phase' # "reply" /\ transcript' # <<>>
    BY <2>2, <2>3
  <2>9. InContext'
    BY ONLY <1>1, <2>1, <2>2, <2>6, <2>7, <2>8, OneOpen
  <2>10. Control'
    BY <1>1, <1>2, <1>5, <2>2 DEF Control, None
  <2>11. Typed'
    BY <1>2, <2>2, <2>3 DEF Typed
  <2> QED BY <1>1, <1>2, <2>9, <2>10, <2>11, NoneSaved DEF Talks
<1> QED BY <1>4, <1>5

(* Sample decodes a piece or ends the reply.                               *)
LEMMA SampleStep ==
    ASSUME Talks, Sample
    PROVE  Talks'
<1> DEFINE text == reply.text \o Piece
<1>1. phase = "reply" /\ Remaining /\ at' = Advanced
  BY DEF Sample
<1>2. CASE \E x : Finish(x, reply.fed) /\ UNCHANGED cache
  BY <1>1, <1>2, FinishStep
<1>3. CASE /\ reply' = [text |-> text, fed |-> reply.fed \o Piece]
           /\ cache' = cache \o Piece
           /\ UNCHANGED <<model, phase, talk, job, script, result, vectors>>
  <2>1. reply'.fed = reply.fed \o Piece
    BY <1>3
  <2>2. /\ model' = model /\ phase' = phase /\ conv' = conv /\ transcript' = transcript
        /\ saved' = saved /\ job' = job /\ script' = script /\ result' = result
    BY <1>3 DEF talk
  <2> QED BY <1>1, <1>3, <2>1, <2>2, ContinueStep
<1> QED BY <1>2, <1>3 DEF Sample

(* Without a conversation template there is no conversation.               *)
LEMMA RefuseStep ==
    ASSUME Talks, RefuseConversation
    PROVE  Talks'
<1>1. /\ phase = "loaded" /\ phase' = "refused" /\ model' = model /\ conv' = conv
      /\ transcript' = transcript /\ saved' = saved /\ cache' = cache /\ job' = job
  BY DEF RefuseConversation, talk
<1>2. /\ model \in Models /\ job.kind = "none" /\ conv = None /\ saved = None
      /\ transcript \in Seq(Said(STRING)) /\ cache \in Seq(STRING)
  BY <1>1 DEF Talks, Control, Typed
<1>3. Control' /\ Typed'
  BY <1>1, <1>2 DEF Control, Typed, None
<1> QED BY <1>1, <1>2, <1>3, NoneOpen, NoneSaved DEF Talks

(* A request to embed opens nothing.                                       *)
LEMMA AskStep ==
    ASSUME Talks, NEW texts, NEW pooling, Embed(texts, pooling)
    PROVE  Talks'
<1>1. /\ phase = "loaded" /\ phase' \in {"answered", "embed"} /\ model' = model
      /\ conv' = conv /\ transcript' = transcript /\ saved' = saved /\ cache' = cache
      /\ job' = [NoJob EXCEPT !.kind = "embed", !.texts = texts, !.pooling = pooling]
  BY DEF Embed, talk
<1>2. job'.kind = "embed"
  BY <1>1 DEF NoJob
<1>3. /\ model \in Models /\ conv = None /\ saved = None
      /\ transcript \in Seq(Said(STRING)) /\ cache \in Seq(STRING)
  BY <1>1 DEF Talks, Control, Typed
<1>4. Control'
  BY <1>1, <1>2, <1>3 DEF Control, None
<1>5. Typed'
  BY <1>1, <1>3 DEF Typed
<1> QED BY <1>1, <1>3, <1>4, <1>5, NoneOpen, NoneSaved DEF Talks

(* Embedding a text leaves some of it in the context.                      *)
LEMMA EmbeddedStep ==
    ASSUME Talks, Embedding, EmbedText
    PROVE  Talks'
<1> DEFINE n == Len(vectors) + 1  text == job.texts[n]
<1>1. /\ phase = "embed" /\ phase' \in {"answered", "embed"} /\ cache' = Truncated(text)
      /\ model' = model /\ conv' = conv /\ transcript' = transcript /\ saved' = saved
      /\ job' = job
  BY DEF EmbedText, Decoded, talk
<1>2. /\ model \in Models /\ job.kind = "embed" /\ conv = None /\ saved = None
      /\ transcript \in Seq(Said(STRING))
  BY <1>1 DEF Talks, Control, Typed
<1>3. text \in Seq(STRING) \ {<<>>}
  <2>1. /\ job.texts \in Seq(Seq(STRING) \ {<<>>}) /\ Len(job.texts) \in Nat
        /\ Len(vectors) < Len(job.texts) /\ vectors \in Seq(Vector)
    BY <1>1, <1>2, TextsAre DEF Embedding, Asked, PooledInOrder
  <2>2. n \in 1..Len(job.texts)
    BY ONLY <2>1
  <2> QED BY ONLY <2>1, <2>2
<1> HIDE DEF text
<1>4. cache' \in Seq(STRING)
  BY <1>1, <1>2, <1>3, TruncatedIs
<1>5. Control' /\ Typed'
  BY <1>1, <1>2, <1>4 DEF Control, Typed, None
<1> QED BY <1>1, <1>2, <1>5, NoneOpen, NoneSaved DEF Talks

(* Neither does the fallback to the mean.                                  *)
LEMMA AskedAgainStep ==
    ASSUME Talks, Embedding, NoPooling
    PROVE  Talks'
<1>1. /\ phase = "embed" /\ phase' = phase /\ cache' = <<>>
      /\ model' = model /\ conv' = conv /\ transcript' = transcript /\ saved' = saved
      /\ job' = [job EXCEPT !.pooling = "mean"]
  BY DEF NoPooling, talk
<1>2. /\ model \in Models /\ job.kind = "embed" /\ conv = None /\ saved = None
      /\ transcript \in Seq(Said(STRING))
  BY <1>1 DEF Talks, Control, Typed
<1>3. job'.kind = "embed"
  BY <1>1, <1>2 DEF Embedding, JobFields
<1>4. <<>> \in Seq(STRING)
  OBVIOUS
<1>5. Control' /\ Typed'
  BY <1>1, <1>2, <1>3, <1>4 DEF Control, Typed, None
<1> QED BY <1>1, <1>2, <1>5, NoneOpen, NoneSaved DEF Talks

(* The invariant depends on what is said only.                             *)
LEMMA IdleStep ==
    ASSUME Talks, UNCHANGED vars
    PROVE  Talks'
<1>1. /\ model' = model /\ phase' = phase /\ conv' = conv /\ transcript' = transcript
      /\ saved' = saved /\ cache' = cache /\ job' = job /\ script' = script /\ at' = at
      /\ reply' = reply /\ result' = result
  BY DEF vars, talk, writing
<1>2. Template' = Template /\ Remaining' = Remaining
  BY <1>1 DEF Template, Remaining
<1>3. Control'
  BY <1>1 DEF Talks, Control
<1>4. Progress' = Progress
  BY <1>1, <1>2 DEF Progress
<1>5. Typed'
  BY <1>1, <1>4 DEF Talks, Typed
<1>6. InContext'
  BY <1>1, <1>2 DEF Talks, InContext
<1>7. Stored'
  BY <1>1, <1>2 DEF Talks, Stored
<1> QED BY <1>3, <1>5, <1>6, <1>7 DEF Talks

(* Talks holds at first.                                                   *)
LEMMA InitTalks == Init => Talks
<1> SUFFICES ASSUME Init PROVE Talks
  OBVIOUS
<1>1. /\ model \in Models /\ phase = "loaded" /\ conv = None /\ transcript = <<>>
      /\ saved = None /\ cache = <<>> /\ job.kind = "none" /\ result = NoResult
  BY DEF Init, NoJob
<1>2. Control
  BY <1>1 DEF Control, None
<1>3. Typed
  <2>1. <<>> \in Seq(Said(STRING)) /\ <<>> \in Seq(STRING)
    <3> DEFINE A == Said(STRING)
    <3> HIDE DEF A
    <3>1. <<>> \in Seq(A)
      OBVIOUS
    <3> QED BY <3>1 DEF A
  <2> QED BY <1>1, <2>1 DEF Typed
<1>4. InContext /\ Stored
  BY <1>1 DEF InContext, Stored, None
<1> QED BY <1>2, <1>3, <1>4 DEF Talks

(* Every step keeps Talks; a text is embedded of those that were asked for.*)
LEMMA NextTalks == Talks /\ Embedding /\ [Next]_vars => Talks'
<1> SUFFICES ASSUME Talks, Embedding, [Next]_vars PROVE Talks'
  OBVIOUS
<1>1. CASE UNCHANGED vars
  BY <1>1, IdleStep
<1>2. CASE \E s \in Systems, l \in ToolLists, c \in Configured : OpenConversation(s, l, c)
  BY <1>2, OpenStep
<1>3. CASE RefuseConversation
  BY <1>3, RefuseStep
<1>4. CASE \E m \in UserMessages, o \in Options : Send(m, o.prefill, o.constrained)
  <2> PICK m \in UserMessages, o \in Options : Send(m, o.prefill, o.constrained)
    BY <1>4
  <2>1. m \in Seq(OtherWords) /\ o.prefill \in Seq(OtherWords)
    BY TextAssumption
  <2> QED BY <2>1, SayStep DEF Send
<1>5. CASE \E r \in ResultLists : SendToolResults(r)
  BY <1>5, ResultsStep
<1>6. CASE \E m \in UserMessages, o \in Options : Generate(m, o.prefill, o.constrained)
  BY <1>6, GenerateStep
<1>7. CASE \E p \in Plans : Begin(p)
  BY <1>7, BeginStep
<1>8. CASE Sample
  BY <1>8, SampleStep
<1>9. CASE Stop
  BY <1>9, FinishStep DEF Stop
<1>10. CASE Snapshot
  BY <1>10, SnapshotStep
<1>11. CASE Reopen
  BY <1>11, ReopenStep
<1>12. CASE \E l \in TextLists, p \in Poolings : Embed(l, p)
  BY <1>12, AskStep
<1>13. CASE EmbedText
  BY <1>13, EmbeddedStep
<1>14. CASE NoPooling
  BY <1>14, AskedAgainStep
<1> QED BY <1>1, <1>2, <1>3, <1>4, <1>5, <1>6, <1>7, <1>8, <1>9, <1>10, <1>11, <1>12,
           <1>13, <1>14 DEF Next

(* The context of a conversation is always what its turns are, rendered,   *)
(* and all that is said keeps its type: Talks holds in every state.        *)
THEOREM TalksInvariance == Spec => []Talks
<1>1. Init => Talks /\ Embedding
  BY InitTalks, InitEmbedding
<1>2. (Talks /\ Embedding) /\ [Next]_vars => (Talks /\ Embedding)'
  BY NextTalks, NextEmbedding
<1> QED BY <1>1, <1>2, PTL DEF Spec

(* TypeOK holds for any models, templates, texts and bounds.               *)
THEOREM TypeCorrect == Spec => []TypeOK
<1>1. ASSUME Talks PROVE TypeOK
  <2>1. TurnMessage = Said(STRING)
    BY DEF TurnMessage, Said
  <2> QED BY <1>1, <2>1 DEF Talks, Control, Typed, TypeOK
<1> QED BY <1>1, TalksInvariance, PTL

(* The turns with the one in progress are the messages the lemmas speak of.*)
LEMMA ConversedIs ==
    ASSUME model \in Models, Known(model), NEW turns \in Seq(Said(STRING)),
           Conv.system \in Systems, Conv.tools \in ToolLists, transcript \in Seq(Said(STRING)),
           NEW m \in Said(STRING),
           phase = "begin" => m = Message("assistant", job.prefill),
           turns = IF phase = "begin" THEN Append(transcript, m) ELSE transcript
    PROVE  Conversed = Log(Block(Template, Conv.system), turns)
<1> DEFINE b == Block(Template, Conv.system)  n == Log(b, transcript)  P == Plain(STRING)
           sm == SystemMessages(b)
<1>1. sm = IF Template.system = "block"
           THEN Listed({Message("system", s) : s \in Conv.system}) ELSE <<>>
  <2>1. CASE Template.system = "block"
    BY <2>1 DEF Block, SystemMessages
  <2>2. CASE Template.system # "block"
    <3>1. b = {}
      BY <2>2 DEF Block, None
    <3>2. {Message("system", s) : s \in b} = {}
      BY <3>1
    <3>3. Listed({Message("system", s) : s \in b}) = <<>>
      BY ONLY <3>2, ListedIs
    <3> QED BY ONLY <2>2, <3>3 DEF SystemMessages, sm
  <2> QED BY <2>1, <2>2
<1>2. n = sm \o transcript
  BY DEF Log
<1>3. Conversing(STRING, Template, b, Conv.tools, transcript)
  BY Conversant
<1>4. n \in Seq(P) /\ \A x \in Said(STRING) : Log(b, Append(transcript, x)) = Append(n, x)
  <2>1. LogFacts(STRING, Template, b, Conv.tools, transcript)
    BY ONLY <1>3, LogIs
  <2> QED BY ONLY <2>1 DEF LogFacts, n, P
<1>5. m \in P
  BY DEF Said, Plain
<1> HIDE DEF b, n, P, sm
<1>6. Conversed = n \o (IF phase = "begin" THEN <<Message("assistant", job.prefill)>> ELSE <<>>)
  BY ONLY <1>1, <1>2 DEF Conversed
<1>7. CASE phase = "begin"
  <2>1. n \o <<m>> = Append(n, m)
    BY ONLY <1>4, <1>5, AppendOne
  <2>2. turns = Append(transcript, m) /\ Conversed = n \o <<m>>
    BY <1>6, <1>7
  <2>3. Log(b, Append(transcript, m)) = Append(n, m)
    BY ONLY <1>4, m \in Said(STRING)
  <2>4. Conversed = Log(b, turns)
    BY ONLY <2>1, <2>2, <2>3
  <2> QED BY ONLY <2>4 DEF b
<1>8. CASE phase # "begin"
  <2>1. turns = transcript /\ Conversed = n \o <<>>
    BY <1>6, <1>8
  <2>2. n \o <<>> = n
    BY ONLY <1>4, ConcatEmptySeq
  <2> QED BY ONLY <2>1, <2>2 DEF n, b
<1> QED BY <1>7, <1>8

(* The context in a turn and between turns is what the template renders.   *)
LEMMA ContextIs ==
    ASSUME Talks PROVE ContextIsTheTemplates
<1> DEFINE c == Conv  b == Block(Template, c.system)
<1>1. SUFFICES ASSUME phase \in {"idle", "begin"}, conv # None, c.kept
      PROVE  IF transcript = <<>> THEN cache = <<>>
             ELSE cache \o Closed \in Rendered(Template, Conversed, c.tools)
  BY DEF ContextIsTheTemplates
<1>2. /\ model \in Models /\ job.kind \in {"none", "send", "results"}
      /\ transcript \in Seq(Said(STRING)) /\ cache \in Seq(STRING)
      /\ phase = "begin" => job.prefill \in Seq(OtherWords)
  BY <1>1 DEF Talks, Control, Typed
<1>3. /\ Known(model) /\ Sound(Template, c)
      /\ phase = "idle" => Waiting(Template, c, cache, transcript, result.tool_calls)
      /\ phase = "begin" => Answering(Template, c, cache, transcript, job.prefill)
  BY <1>1, <1>2, OpenIs DEF Talks
<1>4. CASE transcript = <<>>
  <2>1. phase = "idle"
    BY <1>1, <1>3, <1>4 DEF Answering
  <2> QED BY <1>1, <1>3, <1>4, <2>1 DEF Waiting
<1>5. CASE transcript # <<>>
  <2> DEFINE p == IF phase = "begin" THEN job.prefill ELSE <<>>
             m == Message("assistant", p)
             turns == IF phase = "begin" THEN Append(transcript, m) ELSE transcript
  <2>1. c.system \in Systems /\ c.tools \in ToolLists
    BY <1>3 DEF Sound
  <2>2. p \in Seq(STRING)
    <3>1. CASE phase = "begin"
      BY <1>2, <3>1, OthersAre
    <3>2. CASE phase # "begin"
      BY <3>2
    <3> QED BY <3>1, <3>2
  <2>3. phase = "begin" => p = job.prefill
    OBVIOUS
  <2> HIDE DEF p
  <2>4. m \in Said(STRING)
    BY <2>2, MessageIs
  <2>5. Append(transcript, m) \in Seq(Said(STRING))
    BY <1>2, <2>2, Appended
  <2>6. turns \in Seq(Said(STRING))
    BY <1>2, <2>5
  <2>7. Conversing(STRING, Template, b, c.tools, transcript)
    BY <1>2, <1>3, <2>1, Conversant
  <2>8. Conversing(STRING, Template, b, c.tools, turns)
    BY <1>2, <1>3, <2>1, <2>6, Conversant
  <2>9. phase = "begin" => m = Message("assistant", job.prefill)
    BY <2>3
  <2>10. turns = IF phase = "begin" THEN Append(transcript, m) ELSE transcript
    OBVIOUS
  <2> HIDE DEF turns, m
  <2>11. Conversed = Log(b, turns)
    BY ONLY <1>2, <1>3, <2>1, <2>4, <2>6, <2>9, <2>10, ConversedIs DEF c, b
  <2>12. cache \o Closed = Text(Template, b, c.tools, turns)
    <3>1. CASE phase = "begin"
      <4>1. /\ RoleAt(transcript, Len(transcript)) # "assistant"
            /\ cache = Text(Template, b, c.tools, transcript) \o (Begun(Template) \o p)
        BY <1>1, <1>3, <2>3, <3>1 DEF Answering, Rendering
      <4> HIDE DEF b, c
      <4>2. SaidAnswer(Template, b, c.tools, transcript, p)
        BY ONLY <2>2, <2>7, <4>1, AnswerSaid
      <4>3. turns = Append(transcript, Message("assistant", p))
        BY ONLY <2>10, <3>1 DEF m
      <4> QED BY ONLY <4>1, <4>2, <4>3 DEF SaidAnswer
    <3>2. CASE phase # "begin"
      <4>1. Waiting(Template, c, cache, transcript, result.tool_calls) /\ turns = transcript
        BY <1>1, <1>3, <2>10, <3>2
      <4> QED BY <1>1, <1>5, <4>1 DEF Waiting, Rendering
    <3> QED BY <3>1, <3>2
  <2>13. Renders(Template, b)
    <3>1. Template.quirk = "none"
      BY <1>3 DEF Known, Template
    <3> QED BY <3>1 DEF Renders, Block, None
  <2> HIDE DEF b, c
  <2>14. Rendered(Template, Log(b, turns), c.tools) = {Text(Template, b, c.tools, turns)}
    <3>1. LogFacts(STRING, Template, b, c.tools, turns)
      BY ONLY <2>8, LogIs
    <3> QED BY ONLY <2>13, <3>1 DEF LogFacts
  <2>15. cache \o Closed \in Rendered(Template, Conversed, c.tools)
    BY ONLY <2>11, <2>12, <2>14
  <2> QED BY <1>5, <2>15 DEF c
<1> QED BY <1>4, <1>5

(* What a conversation has decoded, turn by turn from spans found by       *)
(* probing, is what the model's own template renders for those turns, for  *)
(* every template, message, reply and snapshot                             *)
(* (derive_conversation_template, render_opening, ToolResultSpans).        *)
THEOREM ContextRendered == Spec => []ContextIsTheTemplates
BY TalksInvariance, ContextIs, PTL

(* What is carried among other words occurs once.                          *)
LEMMA ToldIs ==
    ASSUME Talks PROVE SystemToldOnce
<1> SUFFICES ASSUME phase \in {"idle", "begin"}, transcript # <<>>, Conv.kept,
                    NEW s \in Conv.system
             PROVE  Cardinality(Places(cache, s)) = 1
  BY DEF SystemToldOnce
<1>1. job.kind \in {"none", "send", "results"}
  <2>1. Control /\ transcript # <<>>
    BY DEF Talks
  <2> QED BY ONLY <2>1, phase \in {"idle", "begin"} DEF Control
<1>2. Sound(Template, Conv) /\ Tells(Conv, cache, transcript)
  BY <1>1, OpenIs DEF Talks
<1>3. Carries(OtherWords, cache, s)
  BY <1>2 DEF Tells
<1>4. s \in Seq(SystemWords) /\ s # <<>>
  BY <1>2, SystemIs DEF Sound
<1>5. OtherWords \cap SystemWords = {}
  BY WordSets
<1>6. \E p : Places(cache, s) = {p}
  BY ONLY <1>3, <1>4, <1>5, CarriedOnce
<1>7. PICK p : Places(cache, s) = {p}
  BY <1>6
<1>8. Cardinality({p}) = 1
  BY FS_Singleton
<1> QED BY <1>7, <1>8

(* System text reaches the model exactly once, in the opening or folded    *)
(* into the first message, and a reopened conversation does not repeat it  *)
(* (prepare_tools, send).                                                  *)
THEOREM SystemTold == Spec => []SystemToldOnce
BY TalksInvariance, ToldIs, PTL

=============================================================================

----------------------------- MODULE ParserProofs -----------------------------
(***************************************************************************)
(* Proof that the events of the parser follow the grammar of events, and   *)
(* that its stacks follow the open collections, for every scanner: nothing *)
(* is assumed of the tokens, or of where the scanner fails.                *)
(***************************************************************************)
EXTENDS Parser, ProofLemmas, FiniteSetTheorems, TLAPS

AllFrames == [kind : {"sequence", "mapping"}, odd : BOOLEAN]

(* The collections that a state stands for.  On the stack, the node that   *)
(* the state waits for is already counted.                                 *)
SequenceFrame == [kind |-> "sequence", odd |-> FALSE]
EvenFrame == [kind |-> "mapping", odd |-> FALSE]
OddFrame == [kind |-> "mapping", odd |-> TRUE]

SequenceStates == {"BLOCK_SEQUENCE_FIRST_ENTRY", "BLOCK_SEQUENCE_ENTRY",
                   "INDENTLESS_SEQUENCE_ENTRY", "FLOW_SEQUENCE_FIRST_ENTRY",
                   "FLOW_SEQUENCE_ENTRY"}
EvenStates == {"BLOCK_MAPPING_FIRST_KEY", "BLOCK_MAPPING_KEY",
               "FLOW_MAPPING_FIRST_KEY", "FLOW_MAPPING_KEY"}
OddStates == {"BLOCK_MAPPING_VALUE", "FLOW_MAPPING_VALUE", "FLOW_MAPPING_EMPTY_VALUE"}
EvenPairStates == {"FLOW_SEQUENCE_ENTRY_MAPPING_KEY", "FLOW_SEQUENCE_ENTRY_MAPPING_END"}
OddPairStates == {"FLOW_SEQUENCE_ENTRY_MAPPING_VALUE"}

FramesOf(s) == CASE s \in SequenceStates -> <<SequenceFrame>>
                 [] s \in EvenStates     -> <<EvenFrame>>
                 [] s \in OddStates      -> <<OddFrame>>
                 [] s \in EvenPairStates -> <<SequenceFrame, EvenFrame>>
                 [] s \in OddPairStates  -> <<SequenceFrame, OddFrame>>
                 [] OTHER                -> <<>>

(* The collections and the marks that a stack of states stands for.        *)
FramesOfAll(stack) == FlattenSeq([i \in DOMAIN stack |-> FramesOf(stack[i])])
MarksOfAll(stack) == FlattenSeq([i \in DOMAIN stack |-> MarkOf(stack[i])])

(* The states that are pushed for what comes behind a node.                *)
Resumed == {"BLOCK_SEQUENCE_ENTRY", "INDENTLESS_SEQUENCE_ENTRY",
            "BLOCK_MAPPING_KEY", "BLOCK_MAPPING_VALUE", "FLOW_SEQUENCE_ENTRY",
            "FLOW_SEQUENCE_ENTRY_MAPPING_VALUE", "FLOW_SEQUENCE_ENTRY_MAPPING_END",
            "FLOW_MAPPING_KEY", "FLOW_MAPPING_VALUE", "FLOW_MAPPING_EMPTY_VALUE"}
FirstStates == {"BLOCK_SEQUENCE_FIRST_ENTRY", "BLOCK_MAPPING_FIRST_KEY",
                "FLOW_SEQUENCE_FIRST_ENTRY", "FLOW_MAPPING_FIRST_KEY"}

(* A stack inside a document: the state that ends the document, and above  *)
(* it those of collections.                                                *)
InDocument(stack) == /\ stack \in Seq(States)
                     /\ stack # <<>>
                     /\ stack[1] = "DOCUMENT_END"
                     /\ \A i \in 2..Len(stack) : stack[i] \in Resumed

CollectionStates == Resumed \cup FirstStates \cup {"FLOW_SEQUENCE_ENTRY_MAPPING_KEY"}
RootStates == {"DOCUMENT_CONTENT", "BLOCK_NODE"}
Between == {"IMPLICIT_DOCUMENT_START", "DOCUMENT_START"}

(* Where in the stream each state is.                                      *)
Where ==
    \/ state = "STREAM_START" /\ phase = "start" /\ states = <<>>
    \/ state \in Between /\ phase = "stream" /\ states = <<>>
    \/ state \in RootStates /\ phase = "document" /\ states = <<"DOCUMENT_END">>
    \/ state \in CollectionStates /\ phase = "document" /\ InDocument(states)
    \/ state = "DOCUMENT_END" /\ phase = "root" /\ states = <<>>
    \/ state = "END" /\ phase = "end" /\ states = <<>>

Distinct(s) == \A i, j \in DOMAIN s : s[i] = s[j] => i = j

Directives == /\ tagDirectives \in Seq(ToSet(tagDirectives))
              /\ phase \in {"start", "stream", "end"} => tagDirectives = <<>>
              /\ phase \in {"document", "root"} =>
                    {"!", "!!"} \subseteq Handles /\ Distinct(tagDirectives)

MarkTypes == FlowStarts \cup BlockStarts

(* The inductive invariant.  The grammar of events alone is not inductive: *)
(* that a pop finds the state behind the node that ends here, in a         *)
(* collection of the right kind, rests on the whole stack.                 *)
IInv == /\ TypeOK
        /\ ~error => /\ Where
                     /\ open = FramesOfAll(states) \o FramesOf(state)
                     /\ marks = MarksOfAll(states) \o MarkOf(state)
                     /\ FirstTokenIsThere
                     /\ Directives

-----------------------------------------------------------------------------
(* Stacks.                                                                 *)

(* The three frames are frames of the grammar.                             *)
LEMMA FrameKinds == {SequenceFrame, EvenFrame, OddFrame} \subseteq Grammar!Frames
BY DEF SequenceFrame, EvenFrame, OddFrame, Grammar!Frames, Grammar!Kinds

(* A state stands for a sequence of frames.                                *)
LEMMA FramesAreTyped ==
    ASSUME NEW s
    PROVE  FramesOf(s) \in Seq(Grammar!Frames)
<1>1. {SequenceFrame, EvenFrame, OddFrame} \subseteq Grammar!Frames
  BY FrameKinds
<1>2. FramesOf(s) \in {<<>>, <<SequenceFrame>>, <<EvenFrame>>, <<OddFrame>>,
                      <<SequenceFrame, EvenFrame>>, <<SequenceFrame, OddFrame>>}
  BY DEF FramesOf
<1>3. {<<>>, <<SequenceFrame>>, <<EvenFrame>>, <<OddFrame>>,
       <<SequenceFrame, EvenFrame>>, <<SequenceFrame, OddFrame>>}
         \subseteq Seq(Grammar!Frames)
  BY <1>1
<1>4. QED
  BY <1>2, <1>3

(* A state stands for at most one mark.                                    *)
LEMMA MarksAreTyped ==
    ASSUME NEW s
    PROVE  MarkOf(s) \in Seq(MarkTypes)
<1>1. MarkOf(s) \in {<<>>} \cup {<<m>> : m \in MarkTypes}
  BY DEF MarkOf, MarkTypes, FlowStarts, BlockStarts
<1>2. <<>> \in Seq(MarkTypes) /\ \A m \in MarkTypes : <<m>> \in Seq(MarkTypes)
  OBVIOUS
<1>3. QED
  BY <1>1, <1>2

(* What is pushed stands for its collections behind those below it.        *)
LEMMA FramesPushed ==
    ASSUME NEW stack \in Seq(States), NEW s \in States
    PROVE  /\ FramesOfAll(Append(stack, s)) = FramesOfAll(stack) \o FramesOf(s)
           /\ FramesOfAll(stack) \in Seq(Grammar!Frames)
<1> DEFINE g == [x \in States |-> FramesOf(x)]
           t == Append(stack, s)
<1>1. g \in [States -> Seq(Grammar!Frames)]
  BY FramesAreTyped
<1>2. t \in Seq(States)
  OBVIOUS
<1>3. ASSUME NEW u \in Seq(States)
      PROVE  FramesOfAll(u) = FlattenSeq(Mapped(g, u))
  <2>1. [i \in DOMAIN u |-> g[u[i]]] = [i \in DOMAIN u |-> FramesOf(u[i])]
    <3>1. \A i \in DOMAIN u : u[i] \in States
      OBVIOUS
    <3>2. QED
      BY <3>1
  <2>2. QED
    BY <2>1 DEF FramesOfAll, Mapped
<1>4. g[s] = FramesOf(s)
  OBVIOUS
<1> HIDE DEF g
<1>5. /\ FlattenSeq(Mapped(g, t)) = FlattenSeq(Mapped(g, stack)) \o g[s]
      /\ FlattenSeq(Mapped(g, stack)) \in Seq(Grammar!Frames)
  BY <1>1, FlattenPushed
<1>6. QED
  BY <1>2, <1>3, <1>4, <1>5, Zenon

(* And for its mark behind those below it.                                 *)
LEMMA MarksPushed ==
    ASSUME NEW stack \in Seq(States), NEW s \in States
    PROVE  /\ MarksOfAll(Append(stack, s)) = MarksOfAll(stack) \o MarkOf(s)
           /\ MarksOfAll(stack) \in Seq(MarkTypes)
<1> DEFINE g == [x \in States |-> MarkOf(x)]
           t == Append(stack, s)
<1>1. g \in [States -> Seq(MarkTypes)]
  BY MarksAreTyped
<1>2. t \in Seq(States)
  OBVIOUS
<1>3. ASSUME NEW u \in Seq(States)
      PROVE  MarksOfAll(u) = FlattenSeq(Mapped(g, u))
  <2>1. [i \in DOMAIN u |-> g[u[i]]] = [i \in DOMAIN u |-> MarkOf(u[i])]
    <3>1. \A i \in DOMAIN u : u[i] \in States
      OBVIOUS
    <3>2. QED
      BY <3>1
  <2>2. QED
    BY <2>1 DEF MarksOfAll, Mapped
<1>4. g[s] = MarkOf(s)
  OBVIOUS
<1> HIDE DEF g
<1>5. /\ FlattenSeq(Mapped(g, t)) = FlattenSeq(Mapped(g, stack)) \o g[s]
      /\ FlattenSeq(Mapped(g, stack)) \in Seq(MarkTypes)
  BY <1>1, FlattenPushed
<1>6. QED
  BY <1>2, <1>3, <1>4, <1>5, Zenon

(* A stack of states stands for frames and for marks.                      *)
LEMMA StacksAreTyped ==
    ASSUME NEW stack \in Seq(States)
    PROVE  /\ FramesOfAll(stack) \in Seq(Grammar!Frames)
           /\ MarksOfAll(stack) \in Seq(MarkTypes)
<1>1. "END" \in States
  BY DEF States
<1>2. QED
  BY <1>1, FramesPushed, MarksPushed

(* An empty stack stands for nothing, and so does the state that ends the  *)
(* document.                                                               *)
LEMMA NothingPushed ==
    /\ FramesOfAll(<<>>) = <<>> /\ MarksOfAll(<<>>) = <<>>
    /\ FramesOfAll(<<"DOCUMENT_END">>) = <<>>
    /\ MarksOfAll(<<"DOCUMENT_END">>) = <<>>
<1>1. FramesOfAll(<<>>) = <<>> /\ MarksOfAll(<<>>) = <<>>
  BY DEF FramesOfAll, MarksOfAll, FlattenSeq
<1>2. /\ <<"DOCUMENT_END">> = Append(<<>>, "DOCUMENT_END")
      /\ <<>> \in Seq(States) /\ "DOCUMENT_END" \in States
  BY DEF States
<1>3. FramesOf("DOCUMENT_END") = <<>> /\ MarkOf("DOCUMENT_END") = <<>>
  BY DEF FramesOf, MarkOf, SequenceStates, EvenStates, OddStates,
         EvenPairStates, OddPairStates
<1>4. /\ FramesOfAll(Append(<<>>, "DOCUMENT_END")) = <<>> \o <<>>
      /\ MarksOfAll(Append(<<>>, "DOCUMENT_END")) = <<>> \o <<>>
  BY <1>1, <1>2, <1>3, FramesPushed, MarksPushed, Zenon
<1>5. <<>> \o <<>> = <<>>
  OBVIOUS
<1>6. QED
  BY <1>1, <1>2, <1>4, <1>5

(* Pushing a state of a collection inside a document.                      *)
LEMMA InDocumentPushed ==
    ASSUME NEW stack, InDocument(stack), NEW s \in Resumed
    PROVE  InDocument(Append(stack, s)) /\ s \in States
<1>1. s \in States
  BY DEF Resumed, States
<1>2. stack \in Seq(States) /\ stack # <<>> /\ Len(stack) \in Nat \ {0}
  BY DEF InDocument
<1>3. /\ Append(stack, s) \in Seq(States) /\ Append(stack, s) # <<>>
      /\ Len(Append(stack, s)) = Len(stack) + 1
      /\ \A i \in 1..Len(stack) : Append(stack, s)[i] = stack[i]
      /\ Append(stack, s)[Len(stack) + 1] = s
  BY <1>1, <1>2, Appended
<1>4. ASSUME NEW i \in 2..(Len(stack) + 1) PROVE Append(stack, s)[i] \in Resumed
  <2>1. CASE i = Len(stack) + 1
    BY <1>3, <2>1
  <2>2. CASE i # Len(stack) + 1
    <3>1. i \in 1..Len(stack) /\ i \in 2..Len(stack)
      BY <1>2, <2>2
    <3>2. QED
      BY <1>3, <3>1 DEF InDocument
  <2>3. QED
    BY <2>1, <2>2
<1>5. Append(stack, s)[1] = "DOCUMENT_END"
  BY <1>2, <1>3 DEF InDocument
<1>6. QED
  BY <1>1, <1>3, <1>4, <1>5 DEF InDocument

(* Popping one: below it is the rest of a document, or nothing.            *)
LEMMA Popped ==
    ASSUME NEW stack, InDocument(stack)
    PROVE  /\ Front(stack) \in Seq(States) /\ Last(stack) \in States
           /\ \/ Front(stack) = <<>> /\ Last(stack) = "DOCUMENT_END"
              \/ InDocument(Front(stack)) /\ Last(stack) \in Resumed
           /\ FramesOfAll(stack) = FramesOfAll(Front(stack)) \o FramesOf(Last(stack))
           /\ MarksOfAll(stack) = MarksOfAll(Front(stack)) \o MarkOf(Last(stack))
<1> DEFINE n == Len(stack)
           rest == SubSeq(stack, 1, n - 1)
<1>1. stack \in Seq(States) /\ n \in Nat \ {0} /\ stack[n] \in States
  BY DEF InDocument
<1>2. /\ rest \in Seq(States) /\ Len(rest) = n - 1
      /\ \A i \in 1..(n - 1) : rest[i] = stack[i]
  BY <1>1, AllButLast
<1>3. stack = Append(rest, stack[n])
  BY <1>1
<1>4. \/ rest = <<>> /\ stack[n] = "DOCUMENT_END"
      \/ InDocument(rest) /\ stack[n] \in Resumed
  <2>1. CASE n = 1
    BY <1>1, <1>2, <2>1 DEF InDocument
  <2>2. CASE n # 1
    <3>1. /\ n \in 2..n /\ 1 \in 1..(n - 1)
          /\ \A i \in 2..(n - 1) : i \in 2..n /\ i \in 1..(n - 1)
      <4>1. n \in Nat \ {0}
        BY <1>1
      <4> HIDE DEF n
      <4>2. QED
        BY <2>2, <4>1
    <3>2. stack[n] \in Resumed
      BY <3>1 DEF InDocument
    <3>3. rest # <<>> /\ rest[1] = "DOCUMENT_END"
      <4>1. stack[1] = "DOCUMENT_END"
        BY DEF InDocument
      <4> HIDE DEF rest, n
      <4>2. QED
        BY <1>2, <3>1, <4>1
    <3> HIDE DEF rest, n
    <3>4. \A i \in 2..Len(rest) : rest[i] \in Resumed
      BY <1>2, <3>1 DEF InDocument, n
    <3>5. QED
      BY <1>2, <3>2, <3>3, <3>4 DEF InDocument
  <2>3. QED
    BY <2>1, <2>2
<1> HIDE DEF rest, n
<1>5. /\ FramesOfAll(Append(rest, stack[n])) = FramesOfAll(rest) \o FramesOf(stack[n])
      /\ MarksOfAll(Append(rest, stack[n])) = MarksOfAll(rest) \o MarkOf(stack[n])
  BY <1>1, <1>2, FramesPushed, MarksPushed
<1>6. QED
  BY <1>1, <1>2, <1>3, <1>4, <1>5 DEF Front, Last, rest, n

-----------------------------------------------------------------------------
(* A node in a collection.                                                 *)

(* The states in which a node of a collection begins, each with the state  *)
(* that is pushed for what comes behind it.                                *)
Behind ==
    {<<"BLOCK_SEQUENCE_FIRST_ENTRY", "BLOCK_SEQUENCE_ENTRY">>,
     <<"BLOCK_SEQUENCE_ENTRY", "BLOCK_SEQUENCE_ENTRY">>,
     <<"INDENTLESS_SEQUENCE_ENTRY", "INDENTLESS_SEQUENCE_ENTRY">>,
     <<"BLOCK_MAPPING_FIRST_KEY", "BLOCK_MAPPING_VALUE">>,
     <<"BLOCK_MAPPING_KEY", "BLOCK_MAPPING_VALUE">>,
     <<"BLOCK_MAPPING_VALUE", "BLOCK_MAPPING_KEY">>,
     <<"FLOW_SEQUENCE_FIRST_ENTRY", "FLOW_SEQUENCE_ENTRY">>,
     <<"FLOW_SEQUENCE_ENTRY", "FLOW_SEQUENCE_ENTRY">>,
     <<"FLOW_SEQUENCE_ENTRY_MAPPING_KEY", "FLOW_SEQUENCE_ENTRY_MAPPING_VALUE">>,
     <<"FLOW_SEQUENCE_ENTRY_MAPPING_VALUE", "FLOW_SEQUENCE_ENTRY_MAPPING_END">>,
     <<"FLOW_MAPPING_FIRST_KEY", "FLOW_MAPPING_VALUE">>,
     <<"FLOW_MAPPING_FIRST_KEY", "FLOW_MAPPING_EMPTY_VALUE">>,
     <<"FLOW_MAPPING_KEY", "FLOW_MAPPING_VALUE">>,
     <<"FLOW_MAPPING_KEY", "FLOW_MAPPING_EMPTY_VALUE">>,
     <<"FLOW_MAPPING_VALUE", "FLOW_MAPPING_KEY">>,
     <<"FLOW_MAPPING_EMPTY_VALUE", "FLOW_MAPPING_KEY">>}

(* The collection that the node counts for.                                *)
CountedFrame(f) == [f EXCEPT !.odd = f.kind = "mapping" /\ ~f.odd]

(* What a state of a collection and the one behind it have in common.      *)
LEMMA BehindStates ==
    ASSUME NEW s, NEW n, <<s, n>> \in Behind
    PROVE  /\ s \in CollectionStates /\ n \in Resumed
           /\ s \notin FirstStates => MarkOf(n) = MarkOf(s)
           /\ s \in FirstStates =>
                \E type \in MarkTypes : s = FirstState(type) /\ MarkOf(n) = <<type>>
           /\ s \in FirstStates => MarkOf(s) = <<>>
<1>1. s \in CollectionStates /\ n \in Resumed
  BY DEF Behind, CollectionStates, Resumed, FirstStates
<1>2. s \notin FirstStates => MarkOf(n) = MarkOf(s)
  BY DEF Behind, FirstStates, MarkOf
<1>3. s \in FirstStates => MarkOf(s) = <<>>
  BY DEF FirstStates, MarkOf
<1>4. ASSUME s \in FirstStates
      PROVE  \E type \in MarkTypes : s = FirstState(type) /\ MarkOf(n) = <<type>>
  <2>1. /\ FirstState("BLOCK-SEQUENCE-START") = "BLOCK_SEQUENCE_FIRST_ENTRY"
        /\ FirstState("BLOCK-MAPPING-START") = "BLOCK_MAPPING_FIRST_KEY"
        /\ FirstState("FLOW-SEQUENCE-START") = "FLOW_SEQUENCE_FIRST_ENTRY"
        /\ FirstState("FLOW-MAPPING-START") = "FLOW_MAPPING_FIRST_KEY"
    BY DEF FirstState
  <2>2. /\ s = "BLOCK_SEQUENCE_FIRST_ENTRY" => MarkOf(n) = <<"BLOCK-SEQUENCE-START">>
        /\ s = "BLOCK_MAPPING_FIRST_KEY" => MarkOf(n) = <<"BLOCK-MAPPING-START">>
        /\ s = "FLOW_SEQUENCE_FIRST_ENTRY" => MarkOf(n) = <<"FLOW-SEQUENCE-START">>
        /\ s = "FLOW_MAPPING_FIRST_KEY" => MarkOf(n) = <<"FLOW-MAPPING-START">>
    BY DEF Behind, MarkOf
  <2>3. QED
    BY <1>4, <2>1, <2>2 DEF FirstStates, MarkTypes, FlowStarts, BlockStarts
<1>5. QED
  BY <1>1, <1>2, <1>3, <1>4

(* A node counts for the innermost collection, as the state behind it does.*)
LEMMA BehindCounts ==
    ASSUME NEW s, NEW n, <<s, n>> \in Behind
    PROVE  \E h \in Seq(Grammar!Frames), f \in Grammar!Frames :
              /\ FramesOf(s) = Append(h, f)
              /\ FramesOf(n) = Append(h, CountedFrame(f))
              /\ CountedFrame(f) \in Grammar!Frames
<1>1. /\ <<>> \in Seq(Grammar!Frames) /\ <<SequenceFrame>> \in Seq(Grammar!Frames)
      /\ {SequenceFrame, EvenFrame, OddFrame} \subseteq Grammar!Frames
  BY FrameKinds
<1>2. /\ CountedFrame(SequenceFrame) = SequenceFrame
      /\ CountedFrame(EvenFrame) = OddFrame
      /\ CountedFrame(OddFrame) = EvenFrame
  <2>1. ASSUME NEW f, NEW b, (f.kind = "mapping" /\ ~f.odd) = b
        PROVE  CountedFrame(f) = [f EXCEPT !.odd = b]
    BY <2>1 DEF CountedFrame
  <2>2. /\ (SequenceFrame.kind = "mapping" /\ ~SequenceFrame.odd) = FALSE
        /\ (EvenFrame.kind = "mapping" /\ ~EvenFrame.odd) = TRUE
        /\ (OddFrame.kind = "mapping" /\ ~OddFrame.odd) = FALSE
    BY DEF SequenceFrame, EvenFrame, OddFrame
  <2>3. /\ CountedFrame(SequenceFrame) = [SequenceFrame EXCEPT !.odd = FALSE]
        /\ CountedFrame(EvenFrame) = [EvenFrame EXCEPT !.odd = TRUE]
        /\ CountedFrame(OddFrame) = [OddFrame EXCEPT !.odd = FALSE]
    BY <2>1, <2>2
  <2>4. QED
    BY <2>3 DEF SequenceFrame, EvenFrame, OddFrame
<1>3. \/ FramesOf(s) = <<SequenceFrame>> /\ FramesOf(n) = <<SequenceFrame>>
      \/ FramesOf(s) = <<EvenFrame>> /\ FramesOf(n) = <<OddFrame>>
      \/ FramesOf(s) = <<OddFrame>> /\ FramesOf(n) = <<EvenFrame>>
      \/ /\ FramesOf(s) = <<SequenceFrame, EvenFrame>>
         /\ FramesOf(n) = <<SequenceFrame, OddFrame>>
      \/ /\ FramesOf(s) = <<SequenceFrame, OddFrame>>
         /\ FramesOf(n) = <<SequenceFrame, EvenFrame>>
  BY DEF Behind, FramesOf, SequenceStates, EvenStates, OddStates,
         EvenPairStates, OddPairStates
<1>4. \A f, g : <<f>> = Append(<<>>, f) /\ <<f, g>> = Append(<<f>>, g)
  OBVIOUS
<1>5. \A f \in {SequenceFrame, EvenFrame, OddFrame} : CountedFrame(f) \in Grammar!Frames
  BY <1>1, <1>2
<1>6. CASE \E f \in {SequenceFrame, EvenFrame, OddFrame} :
              FramesOf(s) = <<f>> /\ FramesOf(n) = <<CountedFrame(f)>>
  BY <1>1, <1>4, <1>5, <1>6, Zenon
<1>7. CASE \E f \in {SequenceFrame, EvenFrame, OddFrame} :
              /\ FramesOf(s) = <<SequenceFrame, f>>
              /\ FramesOf(n) = <<SequenceFrame, CountedFrame(f)>>
  BY <1>1, <1>4, <1>5, <1>7, Zenon
<1>8. QED
  BY <1>2, <1>3, <1>6, <1>7, Zenon

(* What the collections are once a node has counted for the innermost one. *)
LEMMA OpenCounts ==
    ASSUME NEW p \in Seq(Grammar!Frames), NEW s, NEW n, <<s, n>> \in Behind,
           open = p \o FramesOf(s)
    PROVE  /\ Grammar!Counted = p \o FramesOf(n)
           /\ Grammar!Counted \in Seq(Grammar!Frames)
           /\ open # <<>>
<1>1. PICK h \in Seq(Grammar!Frames), f \in Grammar!Frames :
         /\ FramesOf(s) = Append(h, f)
         /\ FramesOf(n) = Append(h, CountedFrame(f))
         /\ CountedFrame(f) \in Grammar!Frames
  BY BehindCounts
<1> DEFINE z == p \o h
<1>2. z \in Seq(Grammar!Frames)
  BY <1>1
<1>3. \A g \in Grammar!Frames : p \o Append(h, g) = Append(z, g)
  BY <1>1
<1>4. open = Append(z, f) /\ p \o FramesOf(n) = Append(z, CountedFrame(f))
  BY <1>1, <1>3
<1> HIDE DEF z
<1>5. /\ open \in Seq(Grammar!Frames) /\ open # <<>>
      /\ Len(open) = Len(z) + 1 /\ open[Len(open)] = f
  BY <1>2, <1>4, Appended
<1>6. Grammar!Counted = [open EXCEPT ![Len(open)] = CountedFrame(f)]
  BY <1>5 DEF Grammar!Counted, CountedFrame
<1>7. [Append(z, f) EXCEPT ![Len(z) + 1] = CountedFrame(f)] = Append(z, CountedFrame(f))
  BY <1>1, <1>2, Overwritten
<1>8. Grammar!Counted = Append(z, CountedFrame(f))
  BY <1>4, <1>5, <1>6, <1>7
<1>9. QED
  BY <1>1, <1>2, <1>4, <1>5, <1>8, Appended

-----------------------------------------------------------------------------
(* What one call may do.                                                   *)

Lawful == IInv' /\ Grammar!Produces(event')

(* A call that is not at the end finds the stream open.                    *)
LEMMA StreamIsOpen ==
    ASSUME IInv, ~error, state # "END"
    PROVE  /\ phase \notin {"end", "failed"}
           /\ state \in States /\ states \in Seq(States)
           /\ marks \in Seq(MarkTypes)
           /\ phase \in Grammar!Phases /\ open \in Seq(Grammar!Frames)
BY DEF IInv, TypeOK, Where, Grammar!GrammarTypeOK, MarkTypes

(* A failure leaves the stacks typed, and the events end.                  *)
LEMMA FailIsLawful ==
    ASSUME IInv, ~error, state # "END", NEW r, NEW base \in Seq(States),
           Fail(r, base), marks' \in Seq(MarkTypes)
    PROVE  Lawful
<1>1. /\ error' = TRUE /\ event' = "NO-EVENT" /\ phase' = "failed"
      /\ states' = base /\ state' = state /\ open' = open
  BY DEF Fail
<1>2. /\ phase \notin {"end", "failed"} /\ state \in States
      /\ open \in Seq(Grammar!Frames)
  BY StreamIsOpen
<1>3. TypeOK'
  BY <1>1, <1>2 DEF TypeOK, Events, MarkTypes, Grammar!GrammarTypeOK,
                    Grammar!Phases, Grammar!Frames, Grammar!Kinds
<1>4. IInv'
  BY <1>1, <1>3 DEF IInv
<1>5. Grammar!Produces(event')
  BY <1>1, <1>2 DEF Grammar!Produces, Grammar!GiveUp
<1>6. QED
  BY <1>4, <1>5 DEF Lawful

(* The state behind a node stands for a collection; only a first state     *)
(* waits for the token that starts one.                                    *)
LEMMA CollectionFrames ==
    ASSUME NEW s \in CollectionStates
    PROVE  FramesOf(s) # <<>> /\ s \in States
BY DEF CollectionStates, Resumed, FirstStates, FramesOf, SequenceStates, EvenStates,
       OddStates, EvenPairStates, OddPairStates, States

(* The first states are those of collections that just began.              *)
LEMMA FirstStateIsFirst ==
    ASSUME NEW type \in MarkTypes
    PROVE  FirstState(type) \in FirstStates
BY DEF MarkTypes, FlowStarts, BlockStarts, FirstState, FirstStates

(* No state that waits behind a node is a first state.                     *)
LEMMA NotFirst == (Resumed \cup {"DOCUMENT_END"}) \cap FirstStates = {}
BY DEF Resumed, FirstStates

(* base is the stack with the state behind a node that begins now.         *)
Ready(base) == /\ phase = "document"
               /\ InDocument(base)
               /\ Grammar!Counted = FramesOfAll(base)
               /\ Grammar!Counted \in Seq(Grammar!Frames)

(* The state behind a node is popped, or the one that ends the document    *)
(* once its root is whole.                                                 *)
LEMMA ReturnKeepsStacks ==
    ASSUME IInv, ~error, NEW base, InDocument(base), marks' = MarksOfAll(base),
           tagDirectives' = tagDirectives, Return(base), error' = error,
           event' \in Events, phase = "document", open' = FramesOfAll(base),
           phase' = IF open' = <<>> THEN "root" ELSE "document"
    PROVE  IInv'
<1> DEFINE rest == Front(base)
           s == Last(base)
<1>1. /\ rest \in Seq(States) /\ s \in States
      /\ \/ rest = <<>> /\ s = "DOCUMENT_END"
         \/ InDocument(rest) /\ s \in Resumed
      /\ FramesOfAll(base) = FramesOfAll(rest) \o FramesOf(s)
      /\ MarksOfAll(base) = MarksOfAll(rest) \o MarkOf(s)
  BY Popped
<1>2. state' = s /\ states' = rest
  BY DEF Return
<1> HIDE DEF rest, s
<1>3. /\ FramesOfAll(rest) \in Seq(Grammar!Frames) /\ FramesOf(s) \in Seq(Grammar!Frames)
      /\ MarksOfAll(rest) \in Seq(MarkTypes) /\ MarkOf(s) \in Seq(MarkTypes)
  BY <1>1, FramesPushed, MarksPushed, FramesAreTyped, MarksAreTyped
<1>4. open' = <<>> <=> rest = <<>>
  <2>1. CASE rest = <<>> /\ s = "DOCUMENT_END"
    <3>1. FramesOf("DOCUMENT_END") = <<>>
      BY DEF FramesOf, SequenceStates, EvenStates, OddStates, EvenPairStates, OddPairStates
    <3>2. FramesOfAll(base) = <<>> \o <<>>
      BY <1>1, <2>1, <3>1, NothingPushed
    <3>3. QED
      BY <2>1, <3>2
  <2>2. CASE InDocument(rest) /\ s \in Resumed
    <3>1. FramesOf(s) # <<>> /\ rest # <<>>
      BY <2>2, CollectionFrames DEF CollectionStates, InDocument
    <3>2. FramesOfAll(rest) \o FramesOf(s) # <<>>
      BY <1>3, <3>1
    <3>3. QED
      BY <1>1, <3>1, <3>2
  <2>3. QED
    BY <1>1, <2>1, <2>2
<1>5. Where'
  <2>1. CASE rest = <<>>
    BY <1>1, <1>2, <1>4, <2>1 DEF Where, InDocument
  <2>2. CASE rest # <<>>
    BY <1>1, <1>2, <1>4, <2>2 DEF Where, CollectionStates
  <2>3. QED
    BY <2>1, <2>2
<1>6. FirstTokenIsThere'
  <2>1. state' \notin FirstStates
    BY <1>1, <1>2, NotFirst
  <2>2. QED
    BY <2>1, FirstStateIsFirst DEF FirstTokenIsThere, MarkTypes
<1>7. Directives'
  BY DEF IInv, Directives, Handles
<1>8. open' = FramesOfAll(states') \o FramesOf(state')
      /\ marks' = MarksOfAll(states') \o MarkOf(state')
  BY <1>1, <1>2
<1>9. TypeOK'
  <2>1. marks' \in Seq(MarkTypes)
    BY <1>1, <1>3
  <2>2. error' \in BOOLEAN /\ phase' \in Grammar!Phases
    BY DEF IInv, TypeOK, Grammar!Phases
  <2>3. open' \in Seq(Grammar!Frames)
    BY <1>1, <1>3
  <2>4. QED
    BY <1>1, <1>2, <2>1, <2>2, <2>3
       DEF TypeOK, MarkTypes, Grammar!GrammarTypeOK, Grammar!Frames, Grammar!Kinds,
           Grammar!Phases
<1>10. QED
  BY <1>5, <1>6, <1>7, <1>8, <1>9 DEF IInv

(* A whole node.                                                           *)
LEMMA LeafIsLawful ==
    ASSUME IInv, ~error, NEW base, Ready(base), marks' = MarksOfAll(base),
           tagDirectives' = tagDirectives, Return(base),
           NEW e \in {"ALIAS", "SCALAR"}, Emit(e)
    PROVE  Lawful
<1>1. error' = error /\ event' = e /\ open' = Grammar!Counted /\ phase = "document"
      /\ phase' = IF open = <<>> THEN "root" ELSE "document"
  BY DEF Emit, Ready, Grammar!OpenAfter, Grammar!PhaseAfter
<1>2. open = <<>> <=> open' = <<>>
  BY <1>1, StreamIsOpen DEF Grammar!Counted, IInv, TypeOK, Grammar!GrammarTypeOK
<1>3. IInv'
  BY <1>1, <1>2, ReturnKeepsStacks DEF Ready, Events
<1>4. Grammar!Produces(event')
  BY <1>1 DEF Grammar!Produces, Grammar!LeafEvent
<1>5. QED
  BY <1>3, <1>4 DEF Lawful

(* A collection: its first state finds the token that it takes.            *)
LEMMA StartIsLawful ==
    ASSUME IInv, ~error, NEW base, Ready(base), marks' = MarksOfAll(base),
           tagDirectives' = tagDirectives,
           NEW type \in MarkTypes \cup {"BLOCK-ENTRY"}, NEW r, r.token.type = type,
           state' = FirstState(type), states' = base, reader' = r,
           Emit(StartEvent(type))
    PROVE  Lawful
<1> DEFINE kind == IF type \in {"FLOW-MAPPING-START", "BLOCK-MAPPING-START"}
                   THEN "mapping" ELSE "sequence"
           s == FirstState(type)
<1>1. /\ error' = error /\ event' = StartEvent(type) /\ phase = "document"
      /\ phase' = "document"
      /\ open' = Append(Grammar!Counted, Grammar!Frame(kind))
  BY DEF Emit, Ready, Grammar!OpenAfter, Grammar!PhaseAfter, StartEvent
<1>2. /\ s \in CollectionStates /\ MarkOf(s) = <<>>
      /\ FramesOf(s) = <<Grammar!Frame(kind)>>
  BY DEF MarkTypes, FlowStarts, BlockStarts, FirstState, CollectionStates, Resumed,
         FirstStates, MarkOf, FramesOf, SequenceStates, EvenStates, OddStates,
         EvenPairStates, OddPairStates, SequenceFrame, EvenFrame, Grammar!Frame
<1>3. Grammar!Frame(kind) \in Grammar!Frames
  BY DEF Grammar!Frame, Grammar!Frames, Grammar!Kinds
<1>4. base \in Seq(States) /\ MarksOfAll(base) \in Seq(MarkTypes)
  BY <1>2, MarksPushed, CollectionFrames DEF Ready, InDocument
<1>5. open' = FramesOfAll(states') \o FramesOf(state')
  <2>1. \A o \in Seq(Grammar!Frames), f \in Grammar!Frames : Append(o, f) = o \o <<f>>
    OBVIOUS
  <2>2. QED
    BY <1>1, <1>2, <1>3, <2>1 DEF Ready
<1>6. marks' = MarksOfAll(states') \o MarkOf(state')
  <2>1. \A m \in Seq(MarkTypes) : m \o <<>> = m
    OBVIOUS
  <2>2. QED
    BY <1>2, <1>4, <2>1
<1>7. TypeOK'
  <2>1. open' \in Seq(Grammar!Frames)
    BY <1>1, <1>3, Appended DEF Ready
  <2>2. event' \in Events /\ error' \in BOOLEAN /\ state' \in States
    BY <1>1, <1>2, CollectionFrames DEF IInv, TypeOK, StartEvent, Events
  <2>3. QED
    BY <1>1, <1>4, <2>1, <2>2
       DEF TypeOK, MarkTypes, Grammar!GrammarTypeOK, Grammar!Frames, Grammar!Kinds,
           Grammar!Phases
<1>8. Where'
  BY <1>1, <1>2 DEF Where, Ready
<1>9. FirstTokenIsThere'
  <2>1. \A t \in MarkTypes : FirstState(t) = FirstState(type) => t = type
    BY DEF MarkTypes, FlowStarts, BlockStarts, FirstState
  <2>2. QED
    BY <2>1 DEF FirstTokenIsThere, MarkTypes, Token
<1>10. Directives'
  BY <1>1 DEF IInv, Directives, Handles
<1>11. Grammar!Produces(event')
  BY <1>1 DEF Grammar!Produces, Grammar!CollectionStartEvent, StartEvent
<1>12. QED
  BY <1>5, <1>6, <1>7, <1>8, <1>9, <1>10, <1>11 DEF Lawful, IInv

(* yaml_parser_parse_node, once the caller has pushed what comes behind it.*)
LEMMA NodeIsLawful ==
    ASSUME IInv, ~error, NEW base, Ready(base), marks' = MarksOfAll(base),
           NEW r, NEW block, NEW indentless, Node(r, base, block, indentless)
    PROVE  Lawful
<1>1. state # "END" /\ base \in Seq(States)
  BY DEF IInv, Where, RootStates, CollectionStates, Resumed, FirstStates, Ready, InDocument
<1>2. marks' \in Seq(MarkTypes)
  BY <1>1, StacksAreTyped
<1>3. tagDirectives' = tagDirectives
  BY DEF Node
<1>4. CASE r.token.type = "ALIAS"
  <2>1. Return(base) /\ Emit("ALIAS")
    BY <1>4 DEF Node
  <2>2. QED
    BY <1>3, <2>1, LeafIsLawful
<1>5. CASE r.token.type # "ALIAS"
  <2>1. PICK p \in Properties(r) :
          IF p.next.token.type = "NO-TOKEN" \/ ~Resolved(p.handles)
          THEN Fail(p.next, base)
          ELSE Content(p.next, r.token.type \in {"ANCHOR", "TAG"}, base, block, indentless)
    BY <1>5 DEF Node
  <2>2. CASE Fail(p.next, base)
    BY <1>1, <1>2, <2>2, FailIsLawful
  <2>3. CASE Content(p.next, r.token.type \in {"ANCHOR", "TAG"}, base, block, indentless)
    <3> DEFINE type == p.next.token.type
               Starts == FlowStarts \cup (IF block THEN BlockStarts ELSE {})
                             \cup (IF indentless THEN {"BLOCK-ENTRY"} ELSE {})
    <3>1. \/ /\ type \in Starts
             /\ state' = FirstState(type)
             /\ states' = base
             /\ reader' = p.next
             /\ Emit(StartEvent(type))
          \/ Return(base) /\ Emit("SCALAR")
          \/ Fail(p.next, base)
      BY <2>3 DEF Content
    <3>2. CASE Return(base) /\ Emit("SCALAR")
      BY <1>3, <3>2, LeafIsLawful
    <3>3. CASE Fail(p.next, base)
      BY <1>1, <1>2, <3>3, FailIsLawful
    <3>4. CASE /\ type \in Starts
               /\ state' = FirstState(type)
               /\ states' = base
               /\ reader' = p.next
               /\ Emit(StartEvent(type))
      <4>1. type \in MarkTypes \cup {"BLOCK-ENTRY"}
        BY <3>4 DEF MarkTypes
      <4>2. QED
        BY <1>3, <3>4, <4>1, StartIsLawful
    <3>5. QED
      BY <3>1, <3>2, <3>3, <3>4
  <2>4. QED
    BY <2>1, <2>2, <2>3
<1>6. QED
  BY <1>4, <1>5

(* The stacks that an entry of a collection finds, and those that it       *)
(* leaves to the node.                                                     *)
LEMMA EntryIsReady ==
    ASSUME IInv, ~error, NEW n, <<state, n>> \in Behind
    PROVE  LET base == Append(states, n)
               marked == Marked(state \in FirstStates)
           IN  /\ Ready(base)
               /\ InDocument(states) /\ state # "END" /\ n \in Resumed
               /\ marked = MarksOfAll(base)
               /\ marked = MarksOfAll(states) \o MarkOf(n)
               /\ marked \in Seq(MarkTypes)
               /\ Grammar!Counted = FramesOfAll(states) \o FramesOf(n)
<1> DEFINE base == Append(states, n)
           marked == Marked(state \in FirstStates)
<1>1. /\ state \in CollectionStates /\ n \in Resumed
      /\ state \notin FirstStates => MarkOf(n) = MarkOf(state)
      /\ state \in FirstStates =>
           \E type \in MarkTypes : state = FirstState(type) /\ MarkOf(n) = <<type>>
      /\ state \in FirstStates => MarkOf(state) = <<>>
  BY BehindStates
<1>2. phase = "document" /\ InDocument(states) /\ state # "END"
  BY <1>1 DEF IInv, Where, Between, RootStates, CollectionStates, Resumed, FirstStates
<1>3. InDocument(base) /\ n \in States /\ states \in Seq(States)
  BY <1>1, <1>2, InDocumentPushed DEF InDocument
<1>4. /\ FramesOfAll(base) = FramesOfAll(states) \o FramesOf(n)
      /\ FramesOfAll(states) \in Seq(Grammar!Frames)
      /\ MarksOfAll(base) = MarksOfAll(states) \o MarkOf(n)
      /\ MarksOfAll(states) \in Seq(MarkTypes)
  BY <1>3, FramesPushed, MarksPushed
<1>5. /\ Grammar!Counted = FramesOfAll(states) \o FramesOf(n)
      /\ Grammar!Counted \in Seq(Grammar!Frames)
  <2>1. open = FramesOfAll(states) \o FramesOf(state)
    BY DEF IInv
  <2>2. QED
    BY <1>4, <2>1, OpenCounts
<1>6. marked = MarksOfAll(states) \o MarkOf(n)
  <2>1. marks = MarksOfAll(states) \o MarkOf(state) /\ FirstTokenIsThere
    BY DEF IInv
  <2>2. CASE state \notin FirstStates
    BY <1>1, <2>1, <2>2 DEF Marked
  <2>3. CASE state \in FirstStates
    <3>1. PICK type \in MarkTypes : state = FirstState(type) /\ MarkOf(n) = <<type>>
      BY <1>1, <2>3
    <3>2. Token = type
      BY <2>1, <3>1 DEF FirstTokenIsThere, MarkTypes
    <3>3. \A m \in Seq(MarkTypes) : m \o <<>> = m /\ Append(m, type) = m \o <<type>>
      OBVIOUS
    <3>4. marks = MarksOfAll(states)
      BY <1>1, <1>4, <2>1, <2>3, <3>3
    <3>5. QED
      BY <1>4, <2>3, <3>1, <3>2, <3>3, <3>4 DEF Marked
  <2>4. QED
    BY <2>2, <2>3
<1>7. marked \in Seq(MarkTypes)
  <2>1. MarkOf(n) \in Seq(MarkTypes)
    BY MarksAreTyped
  <2> HIDE DEF marked
  <2>2. QED
    BY <1>4, <1>6, <2>1
<1>8. QED
  BY <1>1, <1>2, <1>3, <1>4, <1>5, <1>6, <1>7 DEF Ready

(* The node of an entry.                                                   *)
LEMMA EntryNodeIsLawful ==
    ASSUME IInv, ~error, NEW n, <<state, n>> \in Behind,
           marks' = Marked(state \in FirstStates),
           NEW r, NEW block, NEW indentless, Node(r, Append(states, n), block, indentless)
    PROVE  Lawful
<1>1. Ready(Append(states, n)) /\ marks' = MarksOfAll(Append(states, n))
  BY EntryIsReady
<1>2. QED
  BY <1>1, NodeIsLawful

(* An entry that fails before its node.                                    *)
LEMMA EntryFailIsLawful ==
    ASSUME IInv, ~error, NEW n, <<state, n>> \in Behind, NEW r, Fail(r, states),
           marks' = Marked(state \in FirstStates)
    PROVE  Lawful
<1>1. state # "END" /\ states \in Seq(States) /\ marks' \in Seq(MarkTypes)
  BY EntryIsReady DEF InDocument
<1>2. QED
  BY <1>1, FailIsLawful

(* An entry whose node is empty, in the state behind it.                   *)
LEMMA EmptyIsLawful ==
    ASSUME IInv, ~error, NEW n, <<state, n>> \in Behind,
           marks' = Marked(state \in FirstStates),
           NEW r, EmptyScalar(r, n), tagDirectives' = tagDirectives
    PROVE  Lawful
<1>1. /\ phase = "document" /\ InDocument(states) /\ n \in Resumed
      /\ marks' = MarksOfAll(states) \o MarkOf(n) /\ marks' \in Seq(MarkTypes)
      /\ Grammar!Counted = FramesOfAll(states) \o FramesOf(n)
      /\ Grammar!Counted \in Seq(Grammar!Frames)
  BY EntryIsReady DEF Ready
<1>2. open # <<>>
  <2>1. states \in Seq(States) /\ n \in States /\ open = FramesOfAll(states) \o FramesOf(state)
    BY <1>1, InDocumentPushed DEF IInv, InDocument
  <2>2. FramesOfAll(states) \in Seq(Grammar!Frames)
    BY <2>1, FramesPushed
  <2>3. QED
    BY <2>1, <2>2, OpenCounts
<1>3. /\ state' = n /\ states' = states /\ error' = error /\ event' = "SCALAR"
      /\ open' = Grammar!Counted /\ phase' = "document"
  BY <1>1, <1>2 DEF EmptyScalar, Emit, Grammar!OpenAfter, Grammar!PhaseAfter
<1>4. TypeOK'
  <2>1. n \in States /\ states \in Seq(States)
    BY <1>1, InDocumentPushed DEF InDocument
  <2>2. QED
    BY <1>1, <1>3, <2>1
       DEF IInv, TypeOK, Events, MarkTypes, Grammar!GrammarTypeOK, Grammar!Frames,
           Grammar!Kinds, Grammar!Phases
<1>5. Where'
  BY <1>1, <1>3 DEF Where, CollectionStates
<1>6. FirstTokenIsThere'
  <2>1. state' \notin FirstStates
    BY <1>1, <1>3, NotFirst
  <2>2. QED
    BY <2>1, FirstStateIsFirst DEF FirstTokenIsThere, MarkTypes
<1>7. Directives'
  BY <1>1, <1>3 DEF IInv, Directives, Handles
<1>8. Grammar!Produces(event')
  BY <1>1, <1>2, <1>3 DEF Grammar!Produces, Grammar!LeafEvent
<1>9. open' = FramesOfAll(states') \o FramesOf(state')
      /\ marks' = MarksOfAll(states') \o MarkOf(state')
  BY <1>1, <1>3
<1>10. QED
  BY <1>4, <1>5, <1>6, <1>7, <1>8, <1>9 DEF Lawful, IInv

(* The node of an entry, or none.                                          *)
LEMMA NodeUnlessIsLawful ==
    ASSUME IInv, ~error, NEW n, <<state, n>> \in Behind,
           marks' = Marked(state \in FirstStates),
           NEW r, NEW enders, NEW block, NEW indentless,
           NodeUnless(r, enders, n, block, indentless)
    PROVE  Lawful
<1>1. CASE Fail(r, states)
  BY <1>1, EntryFailIsLawful
<1>2. CASE EmptyScalar(r, n) /\ UNCHANGED tagDirectives
  BY <1>2, EmptyIsLawful
<1>3. CASE Node(r, Append(states, n), block, indentless)
  BY <1>3, EntryNodeIsLawful
<1>4. QED
  BY <1>1, <1>2, <1>3 DEF NodeUnless

(* The end of a collection whose nodes are whole.                          *)
EndOf(f) == IF f = SequenceFrame THEN "SEQUENCE-END" ELSE "MAPPING-END"

(* The end of a collection takes the last state, frame and mark.           *)
LEMMA EndIsLawful ==
    ASSUME IInv, ~error, phase = "document", InDocument(states),
           NEW f \in {SequenceFrame, EvenFrame}, FramesOf(state) = <<f>>,
           Return(states), Emit(EndOf(f)), marks' = MarksOfAll(states),
           tagDirectives' = tagDirectives
    PROVE  Lawful
<1> DEFINE p == FramesOfAll(states)
<1>1. p \in Seq(Grammar!Frames) /\ f \in Grammar!Frames
  <2>1. p \in Seq(Grammar!Frames)
    BY StacksAreTyped DEF InDocument
  <2>2. f \in Grammar!Frames
    BY FrameKinds
  <2>3. QED
    BY <2>1, <2>2
<1> HIDE DEF p
<1>2. open = Append(p, f)
  <2>1. open = p \o <<f>>
    BY DEF IInv, p
  <2>2. QED
    BY <1>1, <2>1
<1>3. /\ Len(open) \in Nat /\ open # <<>> /\ open[Len(open)] = f
      /\ SubSeq(open, 1, Len(open) - 1) = p
      /\ Len(open) = 1 <=> p = <<>>
  BY <1>1, <1>2
<1>4. SequenceFrame # EvenFrame
  BY DEF SequenceFrame, EvenFrame
<1>5. /\ event' = EndOf(f) /\ error' = error /\ open' = p
      /\ phase' = IF open' = <<>> THEN "root" ELSE "document"
  BY <1>3 DEF Emit, EndOf, Grammar!OpenAfter, Grammar!PhaseAfter
<1>6. IInv'
  BY <1>5, ReturnKeepsStacks DEF EndOf, Events, p
<1>7. Grammar!Produces(event')
  BY <1>3, <1>4, <1>5
     DEF Grammar!Produces, Grammar!CollectionEndEvent, EndOf, SequenceFrame, EvenFrame
<1>8. QED
  BY <1>6, <1>7 DEF Lawful

(* Leaving a collection that has pushed a mark takes the mark off.         *)
LEMMA MarkTaken ==
    ASSUME IInv, ~error, NEW n, <<state, n>> \in Behind, MarkOf(n) # <<>>
    PROVE  /\ Front(Marked(state \in FirstStates)) = MarksOfAll(states)
           /\ MarksOfAll(states) \in Seq(MarkTypes)
<1>1. PICK m \in MarkTypes : MarkOf(n) = <<m>>
  BY DEF MarkOf, MarkTypes, FlowStarts, BlockStarts
<1>2. MarksOfAll(states) \in Seq(MarkTypes)
  BY EntryIsReady, StacksAreTyped DEF InDocument
<1>3. Marked(state \in FirstStates) = MarksOfAll(states) \o <<m>>
  BY <1>1, EntryIsReady
<1>4. \A q \in Seq(MarkTypes) : Front(q \o <<m>>) = q
  BY DEF Front
<1>5. QED
  BY <1>2, <1>3, <1>4

(* A collection that ends in the state in which its next node would begin. *)
LEMMA CloseIsLawful ==
    ASSUME IInv, ~error, NEW n, <<state, n>> \in Behind, MarkOf(n) # <<>>,
           NEW f \in {SequenceFrame, EvenFrame}, FramesOf(state) = <<f>>,
           NEW r, Close(r, state \in FirstStates, EndOf(f))
    PROVE  Lawful
<1>1. phase = "document" /\ InDocument(states)
  BY EntryIsReady DEF Ready
<1>2. marks' = MarksOfAll(states)
  BY MarkTaken DEF Close
<1>3. Return(states) /\ Emit(EndOf(f)) /\ tagDirectives' = tagDirectives
  BY DEF Close, EndCollection
<1>4. QED
  BY <1>1, <1>2, <1>3, EndIsLawful

(* The two failures of a collection.                                       *)
LEMMA RefuseIsLawful ==
    ASSUME IInv, ~error, NEW n, <<state, n>> \in Behind, MarkOf(n) # <<>>,
           NEW r, Refuse(r, state \in FirstStates)
    PROVE  Lawful
<1>1. state # "END" /\ states \in Seq(States) /\ marks' \in Seq(MarkTypes)
  BY EntryIsReady, MarkTaken DEF InDocument, Refuse
<1>2. QED
  BY <1>1, FailIsLawful DEF Refuse

(* A collection may end in an error for want of a token.                   *)
LEMMA StarveIsLawful ==
    ASSUME IInv, ~error, NEW n, <<state, n>> \in Behind,
           NEW r, Starve(r, state \in FirstStates)
    PROVE  Lawful
BY EntryFailIsLawful DEF Starve

-----------------------------------------------------------------------------
(* The collections.                                                        *)

(* An entry of a block sequence, or its end.                               *)
LEMMA BlockSequenceIsLawful ==
    ASSUME IInv, NEW first \in BOOLEAN, ParseBlockSequenceEntry(first)
    PROVE  Lawful
<1> DEFINE n == "BLOCK_SEQUENCE_ENTRY"
<1>1. /\ ~error /\ <<state, n>> \in Behind /\ first = (state \in FirstStates)
      /\ FramesOf(state) = <<SequenceFrame>> /\ MarkOf(n) # <<>>
  BY DEF ParseBlockSequenceEntry, InState, Behind, FirstStates, FramesOf,
         SequenceStates, EvenStates, OddStates, EvenPairStates, OddPairStates, MarkOf
<1>2. PICK r :
        \/ Starve(r, first)
        \/ /\ marks' = Marked(first)
           /\ \E q \in Skip(r) : NodeUnless(q, {"BLOCK-ENTRY", "BLOCK-END"}, n, TRUE, FALSE)
        \/ Close(r, first, "SEQUENCE-END")
        \/ Refuse(r, first)
  BY DEF ParseBlockSequenceEntry
<1>3. CASE Starve(r, first)
  BY <1>1, <1>3, StarveIsLawful
<1>4. CASE /\ marks' = Marked(first)
           /\ \E q \in Skip(r) : NodeUnless(q, {"BLOCK-ENTRY", "BLOCK-END"}, n, TRUE, FALSE)
  BY <1>1, <1>4, NodeUnlessIsLawful
<1>5. CASE Close(r, first, "SEQUENCE-END")
  <2>1. EndOf(SequenceFrame) = "SEQUENCE-END"
    BY DEF EndOf
  <2>2. QED
    BY <1>1, <1>5, <2>1, CloseIsLawful
<1>6. CASE Refuse(r, first)
  BY <1>1, <1>6, RefuseIsLawful
<1>7. QED
  BY <1>2, <1>3, <1>4, <1>5, <1>6

(* A key of a block mapping, or its end.                                   *)
LEMMA BlockMappingKeyIsLawful ==
    ASSUME IInv, NEW first \in BOOLEAN, ParseBlockMappingKey(first)
    PROVE  Lawful
<1> DEFINE n == "BLOCK_MAPPING_VALUE"
<1>1. /\ ~error /\ <<state, n>> \in Behind /\ first = (state \in FirstStates)
      /\ FramesOf(state) = <<EvenFrame>> /\ MarkOf(n) # <<>>
  BY DEF ParseBlockMappingKey, InState, Behind, FirstStates, FramesOf,
         SequenceStates, EvenStates, OddStates, EvenPairStates, OddPairStates, MarkOf
<1>2. PICK r :
        \/ Starve(r, first)
        \/ /\ marks' = Marked(first)
           /\ \E q \in Skip(r) :
                NodeUnless(q, {"KEY", "VALUE", "BLOCK-END"}, n, TRUE, TRUE)
        \/ Close(r, first, "MAPPING-END")
        \/ Refuse(r, first)
  BY DEF ParseBlockMappingKey
<1>3. CASE Starve(r, first)
  BY <1>1, <1>3, StarveIsLawful
<1>4. CASE /\ marks' = Marked(first)
           /\ \E q \in Skip(r) :
                NodeUnless(q, {"KEY", "VALUE", "BLOCK-END"}, n, TRUE, TRUE)
  BY <1>1, <1>4, NodeUnlessIsLawful
<1>5. CASE Close(r, first, "MAPPING-END")
  <2>1. EndOf(EvenFrame) = "MAPPING-END"
    BY DEF EndOf, SequenceFrame, EvenFrame
  <2>2. QED
    BY <1>1, <1>5, <2>1, CloseIsLawful
<1>6. CASE Refuse(r, first)
  BY <1>1, <1>6, RefuseIsLawful
<1>7. QED
  BY <1>2, <1>3, <1>4, <1>5, <1>6

(* A state that is not the first of its collection leaves the marks alone. *)
LEMMA MarksStay ==
    ASSUME state \notin FirstStates, UNCHANGED marks
    PROVE  marks' = Marked(state \in FirstStates)
BY DEF Marked

(* A value of a block mapping.                                             *)
LEMMA BlockMappingValueIsLawful ==
    ASSUME IInv, ParseBlockMappingValue
    PROVE  Lawful
<1> DEFINE n == "BLOCK_MAPPING_KEY"
<1>1. ~error /\ <<state, n>> \in Behind /\ FALSE = (state \in FirstStates)
  BY DEF ParseBlockMappingValue, InState, Behind, FirstStates
<1>2. marks' = Marked(state \in FirstStates)
  BY <1>1, MarksStay DEF ParseBlockMappingValue
<1>3. \/ Starve(reader, FALSE)
      \/ \E q \in Skip(reader) :
           NodeUnless(q, {"KEY", "VALUE", "BLOCK-END"}, n, TRUE, TRUE)
      \/ EmptyScalar(reader, n) /\ UNCHANGED tagDirectives
  BY DEF ParseBlockMappingValue
<1>4. CASE Starve(reader, FALSE)
  BY <1>1, <1>4, StarveIsLawful
<1>5. CASE \E q \in Skip(reader) :
             NodeUnless(q, {"KEY", "VALUE", "BLOCK-END"}, n, TRUE, TRUE)
  BY <1>1, <1>2, <1>5, NodeUnlessIsLawful
<1>6. CASE EmptyScalar(reader, n) /\ UNCHANGED tagDirectives
  BY <1>1, <1>2, <1>6, EmptyIsLawful
<1>7. QED
  BY <1>3, <1>4, <1>5, <1>6

(* An indentless sequence has no mark, and ends with a token of its parent.*)
LEMMA IndentlessSequenceIsLawful ==
    ASSUME IInv, ParseIndentlessSequenceEntry
    PROVE  Lawful
<1> DEFINE n == "INDENTLESS_SEQUENCE_ENTRY"
<1>1. /\ ~error /\ <<state, n>> \in Behind /\ FALSE = (state \in FirstStates)
      /\ FramesOf(state) = <<SequenceFrame>> /\ MarkOf(state) = <<>>
  BY DEF ParseIndentlessSequenceEntry, InState, Behind, FirstStates, FramesOf,
         SequenceStates, EvenStates, OddStates, EvenPairStates, OddPairStates, MarkOf
<1>2. marks' = Marked(state \in FirstStates)
  BY <1>1, MarksStay DEF ParseIndentlessSequenceEntry
<1>3. \/ Starve(reader, FALSE)
      \/ \E q \in Skip(reader) :
           NodeUnless(q, {"BLOCK-ENTRY", "KEY", "VALUE", "BLOCK-END"}, n, TRUE, FALSE)
      \/ Return(states) /\ Emit("SEQUENCE-END") /\ UNCHANGED tagDirectives
  BY DEF ParseIndentlessSequenceEntry
<1>4. CASE Starve(reader, FALSE)
  BY <1>1, <1>4, StarveIsLawful
<1>5. CASE \E q \in Skip(reader) :
             NodeUnless(q, {"BLOCK-ENTRY", "KEY", "VALUE", "BLOCK-END"}, n, TRUE, FALSE)
  BY <1>1, <1>2, <1>5, NodeUnlessIsLawful
<1>6. CASE Return(states) /\ Emit("SEQUENCE-END") /\ UNCHANGED tagDirectives
  <2>1. phase = "document" /\ InDocument(states)
    BY <1>1, EntryIsReady DEF Ready
  <2>2. marks' = MarksOfAll(states)
    <3>1. MarksOfAll(states) \in Seq(MarkTypes)
      BY <2>1, StacksAreTyped DEF InDocument
    <3>2. marks = MarksOfAll(states) \o <<>>
      BY <1>1 DEF IInv
    <3>3. \A m \in Seq(MarkTypes) : m \o <<>> = m
      OBVIOUS
    <3>4. QED
      BY <3>1, <3>2, <3>3 DEF ParseIndentlessSequenceEntry
  <2>3. EndOf(SequenceFrame) = "SEQUENCE-END"
    BY DEF EndOf
  <2>4. QED
    BY <1>1, <1>6, <2>1, <2>2, <2>3, EndIsLawful
<1>7. QED
  BY <1>3, <1>4, <1>5, <1>6

(* A pair inside a flow sequence is a mapping of its own without a state   *)
(* on the stack.  KEY starts it.                                           *)
LEMMA PairStartIsLawful ==
    ASSUME IInv, ~error, <<state, "FLOW_SEQUENCE_ENTRY">> \in Behind,
           state' = "FLOW_SEQUENCE_ENTRY_MAPPING_KEY", states' = states,
           Emit("MAPPING-START"), marks' = Marked(state \in FirstStates),
           tagDirectives' = tagDirectives
    PROVE  Lawful
<1> DEFINE n == "FLOW_SEQUENCE_ENTRY"
           k == "FLOW_SEQUENCE_ENTRY_MAPPING_KEY"
<1>1. /\ phase = "document" /\ InDocument(states) /\ states \in Seq(States)
      /\ marks' = MarksOfAll(states) \o MarkOf(n) /\ marks' \in Seq(MarkTypes)
      /\ Grammar!Counted = FramesOfAll(states) \o FramesOf(n)
      /\ Grammar!Counted \in Seq(Grammar!Frames)
  BY EntryIsReady DEF Ready, InDocument
<1>2. /\ FramesOf(n) = <<SequenceFrame>> /\ FramesOf(k) = <<SequenceFrame, EvenFrame>>
      /\ MarkOf(k) = MarkOf(n) /\ k \in CollectionStates /\ k \notin FirstStates
      /\ k \in States
  BY DEF FramesOf, SequenceStates, EvenStates, OddStates, EvenPairStates, OddPairStates,
         MarkOf, CollectionStates, FirstStates, States
<1>3. /\ error' = error /\ event' = "MAPPING-START" /\ phase' = "document"
      /\ open' = Append(Grammar!Counted, EvenFrame)
  BY <1>1 DEF Emit, Grammar!OpenAfter, Grammar!PhaseAfter, Grammar!Frame, EvenFrame
<1>4. /\ FramesOfAll(states) \in Seq(Grammar!Frames)
      /\ SequenceFrame \in Grammar!Frames /\ EvenFrame \in Grammar!Frames
  BY <1>1, StacksAreTyped, FrameKinds
<1>5. open' = FramesOfAll(states) \o FramesOf(k)
  <2>1. \A p \in Seq(Grammar!Frames), f, g \in Grammar!Frames :
           Append(p \o <<f>>, g) = p \o <<f, g>>
    OBVIOUS
  <2>2. QED
    BY <1>1, <1>2, <1>3, <1>4, <2>1
<1>6. TypeOK'
  <2>1. open' \in Seq(Grammar!Frames)
    BY <1>1, <1>3, <1>4, Appended
  <2>2. QED
    BY <1>1, <1>2, <1>3, <2>1
       DEF IInv, TypeOK, Events, MarkTypes, Grammar!GrammarTypeOK, Grammar!Frames,
           Grammar!Kinds, Grammar!Phases
<1>7. Where'
  BY <1>1, <1>2, <1>3 DEF Where
<1>8. FirstTokenIsThere'
  BY <1>2, FirstStateIsFirst DEF FirstTokenIsThere, MarkTypes
<1>9. Directives'
  BY <1>1, <1>3 DEF IInv, Directives, Handles
<1>10. Grammar!Produces(event')
  BY <1>1, <1>3
     DEF Grammar!Produces, Grammar!CollectionStartEvent, Grammar!Frame, EvenFrame
<1>11. QED
  BY <1>1, <1>2, <1>5, <1>6, <1>7, <1>8, <1>9, <1>10 DEF Lawful, IInv

(* The pair ends behind its value, with the sequence still open.           *)
LEMMA PairEndIsLawful ==
    ASSUME IInv, ParseFlowSequenceEntryMappingEnd
    PROVE  Lawful
<1> DEFINE s == "FLOW_SEQUENCE_ENTRY_MAPPING_END"
           n == "FLOW_SEQUENCE_ENTRY"
<1>1. ~error /\ state = s /\ UNCHANGED marks
  BY DEF ParseFlowSequenceEntryMappingEnd, InState
<1>2. /\ FramesOf(s) = <<SequenceFrame, EvenFrame>> /\ FramesOf(n) = <<SequenceFrame>>
      /\ MarkOf(n) = MarkOf(s) /\ n \in CollectionStates /\ n \notin FirstStates
      /\ n \in States
  BY DEF FramesOf, SequenceStates, EvenStates, OddStates, EvenPairStates, OddPairStates,
         MarkOf, CollectionStates, Resumed, FirstStates, States
<1>3. /\ phase = "document" /\ InDocument(states) /\ states \in Seq(States)
      /\ state # "END" /\ marks \in Seq(MarkTypes)
  BY <1>1 DEF IInv, TypeOK, MarkTypes, Where, Between, RootStates, InDocument
<1>4. CASE Fail(reader, states)
  BY <1>1, <1>3, <1>4, FailIsLawful
<1>5. CASE /\ state' = n /\ Emit("MAPPING-END")
           /\ UNCHANGED <<states, tagDirectives, reader>>
  <2> DEFINE p == FramesOfAll(states)
  <2>1. /\ p \in Seq(Grammar!Frames)
        /\ SequenceFrame \in Grammar!Frames /\ EvenFrame \in Grammar!Frames
    BY <1>3, StacksAreTyped, FrameKinds
  <2>2. open = p \o <<SequenceFrame, EvenFrame>>
    BY <1>1, <1>2 DEF IInv
  <2> HIDE DEF p
  <2>3. /\ Len(open) \in Nat /\ Len(open) # 1 /\ open # <<>>
        /\ open[Len(open)] = EvenFrame
        /\ SubSeq(open, 1, Len(open) - 1) = p \o <<SequenceFrame>>
    BY <2>1, <2>2
  <2>4. /\ error' = error /\ event' = "MAPPING-END" /\ phase' = "document"
        /\ open' = p \o <<SequenceFrame>>
    BY <1>3, <1>5, <2>3 DEF Emit, Grammar!OpenAfter, Grammar!PhaseAfter
  <2>5. TypeOK'
    <3>1. open' \in Seq(Grammar!Frames)
      BY <2>1, <2>4
    <3>2. QED
      BY <1>1, <1>2, <1>3, <1>5, <2>4, <3>1
         DEF IInv, TypeOK, Events, MarkTypes, Grammar!GrammarTypeOK, Grammar!Frames,
             Grammar!Kinds, Grammar!Phases
  <2>6. Where'
    BY <1>2, <1>3, <1>5, <2>4 DEF Where
  <2>7. FirstTokenIsThere'
    BY <1>2, <1>5, FirstStateIsFirst DEF FirstTokenIsThere, MarkTypes
  <2>8. Directives'
    BY <1>1, <1>3, <1>5, <2>4 DEF IInv, Directives, Handles
  <2>9. Grammar!Produces(event')
    BY <1>3, <2>3, <2>4
       DEF Grammar!Produces, Grammar!CollectionEndEvent, EvenFrame
  <2>10. open' = FramesOfAll(states') \o FramesOf(state')
         /\ marks' = MarksOfAll(states') \o MarkOf(state')
    BY <1>1, <1>2, <1>5, <2>4 DEF IInv, p
  <2>11. QED
    BY <2>5, <2>6, <2>7, <2>8, <2>9, <2>10 DEF Lawful, IInv
<1>6. QED
  BY <1>4, <1>5 DEF ParseFlowSequenceEntryMappingEnd, Starve

(* An entry of a flow sequence, or its end.                                *)
LEMMA FlowSequenceIsLawful ==
    ASSUME IInv, NEW first \in BOOLEAN, ParseFlowSequenceEntry(first)
    PROVE  Lawful
<1> DEFINE n == "FLOW_SEQUENCE_ENTRY"
<1>1. /\ ~error /\ <<state, n>> \in Behind /\ first = (state \in FirstStates)
      /\ FramesOf(state) = <<SequenceFrame>> /\ MarkOf(n) # <<>>
  BY DEF ParseFlowSequenceEntry, InState, Behind, FirstStates, FramesOf,
         SequenceStates, EvenStates, OddStates, EvenPairStates, OddPairStates, MarkOf
<1>2. PICK r, q :
        \/ Refuse(r, first)
        \/ Starve(q, first)
        \/ /\ state' = "FLOW_SEQUENCE_ENTRY_MAPPING_KEY"
           /\ Emit("MAPPING-START")
           /\ marks' = Marked(first)
           /\ UNCHANGED <<states, tagDirectives>>
        \/ Close(q, first, "SEQUENCE-END")
        \/ /\ marks' = Marked(first)
           /\ Node(q, Append(states, n), FALSE, FALSE)
  BY DEF ParseFlowSequenceEntry
<1>3. CASE Refuse(r, first)
  BY <1>1, <1>3, RefuseIsLawful
<1>4. CASE Starve(q, first)
  BY <1>1, <1>4, StarveIsLawful
<1>5. CASE /\ state' = "FLOW_SEQUENCE_ENTRY_MAPPING_KEY"
           /\ Emit("MAPPING-START")
           /\ marks' = Marked(first)
           /\ UNCHANGED <<states, tagDirectives>>
  BY <1>1, <1>5, PairStartIsLawful
<1>6. CASE Close(q, first, "SEQUENCE-END")
  <2>1. EndOf(SequenceFrame) = "SEQUENCE-END"
    BY DEF EndOf
  <2>2. QED
    BY <1>1, <1>6, <2>1, CloseIsLawful
<1>7. CASE marks' = Marked(first) /\ Node(q, Append(states, n), FALSE, FALSE)
  BY <1>1, <1>7, EntryNodeIsLawful
<1>8. QED
  BY <1>2, <1>3, <1>4, <1>5, <1>6, <1>7

(* The key of a single pair in a flow sequence.                            *)
LEMMA PairKeyIsLawful ==
    ASSUME IInv, ParseFlowSequenceEntryMappingKey
    PROVE  Lawful
<1> DEFINE n == "FLOW_SEQUENCE_ENTRY_MAPPING_VALUE"
<1>1. ~error /\ <<state, n>> \in Behind /\ FALSE = (state \in FirstStates)
  BY DEF ParseFlowSequenceEntryMappingKey, InState, Behind, FirstStates
<1>2. marks' = Marked(state \in FirstStates)
  BY <1>1, MarksStay DEF ParseFlowSequenceEntryMappingKey
<1>3. \/ Starve(reader, FALSE)
      \/ (\E q \in Skip(reader) : EmptyScalar(q, n)) /\ UNCHANGED tagDirectives
      \/ Node(reader, Append(states, n), FALSE, FALSE)
  BY DEF ParseFlowSequenceEntryMappingKey
<1>4. CASE Starve(reader, FALSE)
  BY <1>1, <1>4, StarveIsLawful
<1>5. CASE (\E q \in Skip(reader) : EmptyScalar(q, n)) /\ UNCHANGED tagDirectives
  BY <1>1, <1>2, <1>5, EmptyIsLawful
<1>6. CASE Node(reader, Append(states, n), FALSE, FALSE)
  BY <1>1, <1>2, <1>6, EntryNodeIsLawful
<1>7. QED
  BY <1>3, <1>4, <1>5, <1>6

(* Its value.                                                              *)
LEMMA PairValueIsLawful ==
    ASSUME IInv, ParseFlowSequenceEntryMappingValue
    PROVE  Lawful
<1> DEFINE n == "FLOW_SEQUENCE_ENTRY_MAPPING_END"
<1>1. ~error /\ <<state, n>> \in Behind /\ FALSE = (state \in FirstStates)
  BY DEF ParseFlowSequenceEntryMappingValue, InState, Behind, FirstStates
<1>2. marks' = Marked(state \in FirstStates)
  BY <1>1, MarksStay DEF ParseFlowSequenceEntryMappingValue
<1>3. \/ Starve(reader, FALSE)
      \/ \E q \in Skip(reader) :
           NodeUnless(q, {"FLOW-ENTRY", "FLOW-SEQUENCE-END"}, n, FALSE, FALSE)
      \/ EmptyScalar(reader, n) /\ UNCHANGED tagDirectives
  BY DEF ParseFlowSequenceEntryMappingValue
<1>4. CASE Starve(reader, FALSE)
  BY <1>1, <1>4, StarveIsLawful
<1>5. CASE \E q \in Skip(reader) :
             NodeUnless(q, {"FLOW-ENTRY", "FLOW-SEQUENCE-END"}, n, FALSE, FALSE)
  BY <1>1, <1>2, <1>5, NodeUnlessIsLawful
<1>6. CASE EmptyScalar(reader, n) /\ UNCHANGED tagDirectives
  BY <1>1, <1>2, <1>6, EmptyIsLawful
<1>7. QED
  BY <1>3, <1>4, <1>5, <1>6

(* A key of a flow mapping, or its end.                                    *)
LEMMA FlowMappingKeyIsLawful ==
    ASSUME IInv, NEW first \in BOOLEAN, ParseFlowMappingKey(first)
    PROVE  Lawful
<1> DEFINE n == "FLOW_MAPPING_VALUE"
           e == "FLOW_MAPPING_EMPTY_VALUE"
<1>1. /\ ~error /\ <<state, n>> \in Behind /\ <<state, e>> \in Behind
      /\ first = (state \in FirstStates)
      /\ FramesOf(state) = <<EvenFrame>> /\ MarkOf(n) # <<>>
  BY DEF ParseFlowMappingKey, InState, Behind, FirstStates, FramesOf,
         SequenceStates, EvenStates, OddStates, EvenPairStates, OddPairStates, MarkOf
<1>2. PICK r, q :
        \/ Refuse(r, first)
        \/ Starve(q, first)
        \/ /\ marks' = Marked(first)
           /\ \E k \in Skip(q) :
                NodeUnless(k, {"VALUE", "FLOW-ENTRY", "FLOW-MAPPING-END"}, n, FALSE, FALSE)
        \/ Close(q, first, "MAPPING-END")
        \/ /\ marks' = Marked(first)
           /\ Node(q, Append(states, e), FALSE, FALSE)
  BY DEF ParseFlowMappingKey
<1>3. CASE Refuse(r, first)
  BY <1>1, <1>3, RefuseIsLawful
<1>4. CASE Starve(q, first)
  BY <1>1, <1>4, StarveIsLawful
<1>5. CASE /\ marks' = Marked(first)
           /\ \E k \in Skip(q) :
                NodeUnless(k, {"VALUE", "FLOW-ENTRY", "FLOW-MAPPING-END"}, n, FALSE, FALSE)
  BY <1>1, <1>5, NodeUnlessIsLawful
<1>6. CASE Close(q, first, "MAPPING-END")
  <2>1. EndOf(EvenFrame) = "MAPPING-END"
    BY DEF EndOf, SequenceFrame, EvenFrame
  <2>2. QED
    BY <1>1, <1>6, <2>1, CloseIsLawful
<1>7. CASE marks' = Marked(first) /\ Node(q, Append(states, e), FALSE, FALSE)
  BY <1>1, <1>7, EntryNodeIsLawful
<1>8. QED
  BY <1>2, <1>3, <1>4, <1>5, <1>6, <1>7

(* A value of a flow mapping.                                              *)
LEMMA FlowMappingValueIsLawful ==
    ASSUME IInv, NEW empty \in BOOLEAN, ParseFlowMappingValue(empty)
    PROVE  Lawful
<1> DEFINE n == "FLOW_MAPPING_KEY"
<1>1. ~error /\ <<state, n>> \in Behind /\ FALSE = (state \in FirstStates)
  BY DEF ParseFlowMappingValue, InState, Behind, FirstStates
<1>2. marks' = Marked(state \in FirstStates)
  BY <1>1, MarksStay DEF ParseFlowMappingValue
<1>3. \/ Starve(reader, FALSE)
      \/ \E q \in Skip(reader) :
           NodeUnless(q, {"FLOW-ENTRY", "FLOW-MAPPING-END"}, n, FALSE, FALSE)
      \/ EmptyScalar(reader, n) /\ UNCHANGED tagDirectives
  BY DEF ParseFlowMappingValue
<1>4. CASE Starve(reader, FALSE)
  BY <1>1, <1>4, StarveIsLawful
<1>5. CASE \E q \in Skip(reader) :
             NodeUnless(q, {"FLOW-ENTRY", "FLOW-MAPPING-END"}, n, FALSE, FALSE)
  BY <1>1, <1>2, <1>5, NodeUnlessIsLawful
<1>6. CASE EmptyScalar(reader, n) /\ UNCHANGED tagDirectives
  BY <1>1, <1>2, <1>6, EmptyIsLawful
<1>7. QED
  BY <1>3, <1>4, <1>5, <1>6

-----------------------------------------------------------------------------
(* The directives of a document.                                           *)

OnceEach(handles) == handles \in Seq(ToSet(handles)) /\ Distinct(handles)

(* A handle that is not there yet leaves the handles different.            *)
LEMMA OneMoreHandle ==
    ASSUME NEW handles, OnceEach(handles), NEW h, h \notin ToSet(handles)
    PROVE  /\ OnceEach(Append(handles, h))
           /\ ToSet(Append(handles, h)) = ToSet(handles) \cup {h}
<1> DEFINE S == ToSet(handles) \cup {h}
           n == Len(handles)
           a == Append(handles, h)
<1>1. handles \in Seq(S) /\ h \in S
  BY DEF OnceEach
<1>2. /\ n \in Nat /\ DOMAIN handles = 1..n
      /\ a \in Seq(S) /\ DOMAIN a = 1..(n + 1)
      /\ \A i \in 1..n : a[i] = handles[i]
      /\ a[n + 1] = h
  <2> HIDE DEF S
  <2>1. QED
    BY <1>1
<1> HIDE DEF a, n
<1>3. ToSet(a) = S
  <2>1. ASSUME NEW x \in ToSet(a) PROVE x \in S
    BY <1>2, <2>1 DEF ToSet
  <2>2. ASSUME NEW x \in ToSet(handles) PROVE x \in ToSet(a)
    <3>1. PICK i \in 1..n : handles[i] = x
      BY <1>2, <2>2 DEF ToSet
    <3>2. a[i] = x /\ i \in DOMAIN a
      BY <1>2, <3>1
    <3>3. QED
      BY <3>2 DEF ToSet
  <2>3. h \in ToSet(a)
    BY <1>2 DEF ToSet
  <2>4. QED
    BY <2>1, <2>2, <2>3
<1>4. Distinct(a)
  <2>1. \A i \in 1..n : handles[i] # h
    BY <1>2 DEF ToSet
  <2>2. ASSUME NEW i \in 1..(n + 1), NEW j \in 1..(n + 1), a[i] = a[j] PROVE i = j
    <3>1. i \in 1..n \/ i = n + 1
      BY <1>2
    <3>2. j \in 1..n \/ j = n + 1
      BY <1>2
    <3>3. QED
      BY <1>2, <2>1, <2>2, <3>1, <3>2 DEF OnceEach, Distinct
  <2>3. QED
    BY <1>2, <2>2 DEF Distinct
<1>5. QED
  BY <1>2, <1>3, <1>4 DEF OnceEach, a

(* A default handle is added only when it is missing.                      *)
LEMMA DefaultHandle ==
    ASSUME NEW handles, OnceEach(handles), NEW h
    PROVE  /\ OnceEach(WithDefault(handles, h))
           /\ ToSet(WithDefault(handles, h)) = ToSet(handles) \cup {h}
BY OneMoreHandle DEF WithDefault

(* After both the handles are still different, and both are there.         *)
LEMMA DefaultHandles ==
    ASSUME NEW handles, OnceEach(handles)
    PROVE  OnceEach(Defaulted(handles)) /\ {"!", "!!"} \subseteq ToSet(Defaulted(handles))
<1> DEFINE one == WithDefault(handles, "!")
<1>1. OnceEach(one) /\ "!" \in ToSet(one)
  BY DefaultHandle
<1> HIDE DEF one
<1>2. OnceEach(WithDefault(one, "!!")) /\ {"!", "!!"} \subseteq ToSet(WithDefault(one, "!!"))
  BY <1>1, DefaultHandle
<1>3. QED
  BY <1>2 DEF Defaulted, one

(* What yaml_parser_process_directives knows behind each directive.        *)
Processed(d) == /\ DOMAIN d = {"next", "version", "fails", "handles"}
                /\ OnceEach(d.handles)

(* One directive keeps the handles different, or fails.                    *)
LEMMA DirectiveProcessed ==
    ASSUME NEW d, Processed(d), NEW e \in ProcessDirective(d)
    PROVE  Processed(e)
<1> DEFINE token == d.next.token
<1>1. \/ e = d
      \/ e = [d EXCEPT !.fails = TRUE]
      \/ \E q : e = [d EXCEPT !.version = TRUE, !.next = q]
      \/ /\ token.text \notin ToSet(d.handles)
         /\ \E q : e = [d EXCEPT !.handles = Append(@, token.text), !.next = q]
  BY DEF ProcessDirective
<1>2. CASE e = [d EXCEPT !.fails = TRUE]
  BY <1>2 DEF Processed
<1>3. CASE \E q : e = [d EXCEPT !.version = TRUE, !.next = q]
  BY <1>3 DEF Processed
<1>4. CASE /\ token.text \notin ToSet(d.handles)
           /\ \E q : e = [d EXCEPT !.handles = Append(@, token.text), !.next = q]
  <2>1. PICK q : e = [d EXCEPT !.handles = Append(@, token.text), !.next = q]
    BY <1>4
  <2>2. /\ DOMAIN e = DOMAIN d
        /\ e.handles = Append(d.handles, token.text)
    BY <2>1 DEF Processed
  <2>3. OnceEach(Append(d.handles, token.text))
    BY <1>4, OneMoreHandle DEF Processed
  <2>4. QED
    BY <2>2, <2>3 DEF Processed
<1>5. QED
  BY <1>1, <1>2, <1>3, <1>4

(* The run of directives, as the function that ProcessDirectives takes its *)
(* last value of.                                                          *)
Runs(f, r, m) ==
    f = [n \in 0..m |->
           IF n = 0 THEN {[next |-> r, version |-> FALSE, fails |-> FALSE,
                           handles |-> tagDirectives]}
           ELSE UNION {ProcessDirective(d) : d \in f[n - 1]}]

(* There is a function of what each run of directives leaves behind.       *)
LEMMA RunsExist ==
    ASSUME NEW r
    PROVE  \E f : Runs(f, r, MaxRun)
<1> DEFINE start == {[next |-> r, version |-> FALSE, fails |-> FALSE,
                      handles |-> tagDirectives]}
           G == {m \in 0..MaxRun : \E f : Runs(f, r, m)}
<1> USE ParserAssumption
<1>1. 0 \in G
  <2> DEFINE f == [n \in 0..0 |-> start]
  <2>1. Runs(f, r, 0)
    BY DEF Runs
  <2>2. 0 \in 0..MaxRun
    OBVIOUS
  <2> HIDE DEF f
  <2>3. QED
    BY <2>1, <2>2
<1>2. ASSUME NEW m \in 0..(MaxRun - 1), m \in G PROVE m + 1 \in G
  <2>1. PICK f : Runs(f, r, m)
    BY <1>2
  <2> DEFINE g == [n \in 0..(m + 1) |->
                     IF n = 0 THEN start ELSE UNION {ProcessDirective(d) : d \in f[n - 1]}]
             h == [n \in 0..m |->
                     IF n = 0 THEN start ELSE UNION {ProcessDirective(d) : d \in f[n - 1]}]
  <2>2. \A n \in 0..m : g[n] = f[n]
    <3>1. f = h
      BY <2>1 DEF Runs
    <3>2. \A n \in 0..m : g[n] = h[n]
      BY SMT
    <3>3. QED
      BY <3>1, <3>2, Zenon
  <2>3. ASSUME NEW n \in 0..(m + 1), n # 0 PROVE g[n - 1] = f[n - 1]
    <3>1. n - 1 \in 0..m
      BY <2>3
    <3> HIDE DEF g
    <3>2. QED
      BY <2>2, <3>1
  <2>4. Runs(g, r, m + 1)
    BY <2>3 DEF Runs
  <2>5. m + 1 \in 0..MaxRun
    OBVIOUS
  <2> HIDE DEF g
  <2>6. QED
    BY <2>4, <2>5
<1>3. MaxRun \in Nat /\ MaxRun \in 0..MaxRun
  OBVIOUS
<1> HIDE DEF G
<1>4. \A m \in 0..MaxRun : m \in G
  BY <1>1, <1>2, <1>3, UpTo
<1>5. QED
  BY <1>3, <1>4 DEF G

(* Behind the directives each handle is there once.                        *)
LEMMA RunsAreProcessed ==
    ASSUME OnceEach(tagDirectives), NEW r, NEW f, Runs(f, r, MaxRun)
    PROVE  \A d \in f[MaxRun] : Processed(d)
<1> DEFINE start == {[next |-> r, version |-> FALSE, fails |-> FALSE,
                      handles |-> tagDirectives]}
           h == [n \in 0..MaxRun |->
                   IF n = 0 THEN start ELSE UNION {ProcessDirective(d) : d \in f[n - 1]}]
           G == {n \in 0..MaxRun : \A d \in f[n] : Processed(d)}
<1>1. MaxRun \in Nat /\ 0 \in 0..MaxRun /\ MaxRun \in 0..MaxRun
  BY ParserAssumption
<1>2. \A n \in 0..MaxRun :
         f[n] = IF n = 0 THEN start ELSE UNION {ProcessDirective(d) : d \in f[n - 1]}
  <2>1. \A n \in 0..MaxRun :
           h[n] = IF n = 0 THEN start ELSE UNION {ProcessDirective(d) : d \in f[n - 1]}
    OBVIOUS
  <2>2. f = h
    BY DEF Runs
  <2>3. QED
    BY <2>1, <2>2, Zenon
<1>3. 0 \in G
  <2>1. f[0] = start
    BY <1>1, <1>2
  <2>2. \A d \in start : Processed(d)
    BY DEF Processed
  <2>3. QED
    BY <1>1, <2>1, <2>2
<1>4. ASSUME NEW n \in 0..(MaxRun - 1), n \in G PROVE n + 1 \in G
  <2>1. n + 1 \in 0..MaxRun /\ n + 1 # 0 /\ (n + 1) - 1 = n
    BY <1>1
  <2>2. f[n + 1] = UNION {ProcessDirective(d) : d \in f[n]}
    BY <1>2, <2>1
  <2>3. \A d \in f[n + 1] : Processed(d)
    BY <1>4, <2>2, DirectiveProcessed
  <2>4. QED
    BY <2>1, <2>3
<1> HIDE DEF G
<1>5. \A n \in 0..MaxRun : n \in G
  BY <1>1, <1>3, <1>4, UpTo
<1>6. QED
  BY <1>1, <1>5 DEF G

(* So the directives of a document leave different handles.                *)
LEMMA DirectivesProcessed ==
    ASSUME OnceEach(tagDirectives), NEW r, NEW d \in ProcessDirectives(r), ~d.fails
    PROVE  OnceEach(d.handles) /\ {"!", "!!"} \subseteq ToSet(d.handles)
<1> DEFINE c == CHOOSE f : Runs(f, r, MaxRun)
           Outcome(e) == IF e.fails THEN e
                         ELSE IF e.next.token.type = "NO-TOKEN" THEN [e EXCEPT !.fails = TRUE]
                         ELSE [e EXCEPT !.handles = Defaulted(@)]
<1>1. Runs(c, r, MaxRun)
  BY RunsExist
<1>2. ProcessDirectives(r) =
        {Outcome(e) : e \in {x \in c[MaxRun] :
                               x.fails \/ x.next.token.type \notin DirectiveTypes}}
  BY DEF ProcessDirectives, Runs
<1> HIDE DEF c
<1>3. PICK e \in c[MaxRun] : d = Outcome(e)
  BY <1>2
<1>4. Processed(e)
  BY <1>1, RunsAreProcessed
<1>5. d = [e EXCEPT !.handles = Defaulted(@)]
  <2>1. [e EXCEPT !.fails = TRUE].fails = TRUE
    BY <1>4 DEF Processed
  <2>2. QED
    BY <1>3, <2>1
<1>6. d.handles = Defaulted(e.handles)
  BY <1>4, <1>5 DEF Processed
<1>7. QED
  BY <1>4, <1>6, DefaultHandles DEF Processed

-----------------------------------------------------------------------------
(* Streams and documents.                                                  *)

(* The states outside the collections stand for nothing.                   *)
LEMMA PlainStates ==
    ASSUME NEW s \in {"STREAM_START", "END", "DOCUMENT_END"} \cup Between \cup RootStates
    PROVE  /\ FramesOf(s) = <<>> /\ MarkOf(s) = <<>>
           /\ s \notin FirstStates /\ s \in States
BY DEF Between, RootStates, FramesOf, SequenceStates, EvenStates, OddStates,
       EvenPairStates, OddPairStates, MarkOf, FirstStates, States

(* A call between two such states.                                         *)
LEMMA PlainStepIsLawful ==
    ASSUME TypeOK, ~error, open = <<>>, marks = <<>>, UNCHANGED <<marks, error, open>>,
           state' \in {"STREAM_START", "END", "DOCUMENT_END"} \cup Between \cup RootStates,
           states' \in {<<>>, <<"DOCUMENT_END">>}, Where', Directives',
           event' \in Events, Grammar!Produces(event')
    PROVE  Lawful
<1>1. FramesOf(state') = <<>> /\ MarkOf(state') = <<>> /\ state' \notin FirstStates
      /\ state' \in States
  BY PlainStates
<1>2. FramesOfAll(states') = <<>> /\ MarksOfAll(states') = <<>>
  BY NothingPushed
<1>3. <<>> \o <<>> = <<>>
  OBVIOUS
<1>4. FirstTokenIsThere'
  BY <1>1, FirstStateIsFirst DEF FirstTokenIsThere, MarkTypes
<1>5. TypeOK'
  <2>1. states' \in Seq(States)
    <3>1. "DOCUMENT_END" \in States
      BY DEF States
    <3>2. <<>> \in Seq(States) /\ <<"DOCUMENT_END">> \in Seq(States)
      BY <3>1
    <3>3. QED
      BY <3>2
  <2>2. phase' \in Grammar!Phases
    BY DEF Where, Grammar!Phases
  <2>3. QED
    BY <1>1, <2>1, <2>2
       DEF TypeOK, Grammar!GrammarTypeOK, Grammar!Frames, Grammar!Kinds, Grammar!Phases
<1>6. QED
  BY <1>1, <1>2, <1>3, <1>4, <1>5 DEF Lawful, IInv

(* Outside the collections nothing is open and nothing is marked.          *)
LEMMA NothingOpen ==
    ASSUME IInv, ~error,
           state \in {"STREAM_START", "END", "DOCUMENT_END"} \cup Between \cup RootStates
    PROVE  /\ open = <<>> /\ marks = <<>> /\ TypeOK
           /\ state = "STREAM_START" => phase = "start" /\ states = <<>>
           /\ state \in Between => phase = "stream" /\ states = <<>>
           /\ state = "DOCUMENT_END" => phase = "root" /\ states = <<>>
           /\ state \in RootStates => phase = "document" /\ states = <<"DOCUMENT_END">>
<1>1. /\ state = "STREAM_START" => phase = "start" /\ states = <<>>
      /\ state \in Between => phase = "stream" /\ states = <<>>
      /\ state = "DOCUMENT_END" => phase = "root" /\ states = <<>>
      /\ state \in RootStates => phase = "document" /\ states = <<"DOCUMENT_END">>
      /\ state = "END" => states = <<>>
  BY DEF IInv, Where, Between, RootStates, CollectionStates, Resumed, FirstStates
<1>2. FramesOfAll(states) = <<>> /\ MarksOfAll(states) = <<>>
  <2>1. states \in {<<>>, <<"DOCUMENT_END">>}
    BY <1>1
  <2>2. QED
    BY <2>1, NothingPushed
<1>3. FramesOf(state) = <<>> /\ MarkOf(state) = <<>>
  BY PlainStates
<1>4. <<>> \o <<>> = <<>>
  OBVIOUS
<1>5. QED
  BY <1>1, <1>2, <1>3, <1>4 DEF IInv

(* The start of the stream.                                                *)
LEMMA StreamStartIsLawful ==
    ASSUME IInv, ParseStreamStart
    PROVE  Lawful
<1>1. /\ ~error /\ state = "STREAM_START" /\ UNCHANGED <<marks, tagDirectives>>
  BY DEF ParseStreamStart, InState
<1>2. /\ open = <<>> /\ marks = <<>> /\ TypeOK /\ phase = "start" /\ states = <<>>
  BY <1>1, NothingOpen
<1>3. CASE Fail(reader, states)
  BY <1>1, <1>3, StreamIsOpen, FailIsLawful DEF IInv
<1>4. CASE /\ state' = "IMPLICIT_DOCUMENT_START"
           /\ Emit("STREAM-START")
           /\ UNCHANGED states
  <2>1. /\ phase' = "stream" /\ UNCHANGED <<open, error>> /\ event' = "STREAM-START"
    BY <1>4 DEF Emit, Grammar!PhaseAfter, Grammar!OpenAfter
  <2>2. Where'
    BY <1>2, <1>4, <2>1 DEF Where, Between
  <2>3. Directives'
    BY <1>1, <1>2, <2>1 DEF IInv, Directives, Handles
  <2>4. Grammar!Produces(event')
    BY <1>2, <2>1 DEF Grammar!Produces, Grammar!StreamStartEvent
  <2>5. QED
    BY <1>1, <1>2, <1>4, <2>1, <2>2, <2>3, <2>4, PlainStepIsLawful DEF Between, Events
<1>5. QED
  BY <1>3, <1>4 DEF ParseStreamStart

(* The start of a document, or the end of the stream.                      *)
LEMMA DocumentStartIsLawful ==
    ASSUME IInv, NEW implicit \in BOOLEAN, ParseDocumentStart(implicit)
    PROVE  Lawful
<1>1. /\ ~error /\ state \in Between /\ UNCHANGED marks
  BY DEF ParseDocumentStart, InState, Between
<1>2. /\ open = <<>> /\ marks = <<>> /\ TypeOK /\ phase = "stream" /\ states = <<>>
  BY <1>1, NothingOpen
<1>3. tagDirectives = <<>>
  BY <1>1, <1>2 DEF IInv, Directives
<1>4. OnceEach(tagDirectives)
  BY <1>3 DEF OnceEach, Distinct, ToSet
<1>5. /\ state # "END" /\ states \in Seq(States) /\ marks' \in Seq(MarkTypes)
  BY <1>1, <1>2 DEF Between, TypeOK, MarkTypes
<1>6. ASSUME NEW h, OnceEach(h), {"!", "!!"} \subseteq ToSet(h), tagDirectives' = h,
             states' = Append(states, "DOCUMENT_END"), state' \in RootStates,
             Emit("DOCUMENT-START")
      PROVE  Lawful
  <2>1. phase' = "document" /\ UNCHANGED <<open, error>> /\ event' = "DOCUMENT-START"
    BY <1>6 DEF Emit, Grammar!PhaseAfter, Grammar!OpenAfter
  <2>2. states' = <<"DOCUMENT_END">>
    BY <1>2, <1>6
  <2>3. Where'
    BY <1>6, <2>1, <2>2 DEF Where
  <2>4. Directives'
    BY <1>6, <2>1 DEF Directives, Handles, OnceEach
  <2>5. Grammar!Produces(event')
    BY <1>2, <2>1 DEF Grammar!Produces, Grammar!DocumentStartEvent
  <2>6. QED
    BY <1>1, <1>2, <1>6, <2>1, <2>2, <2>3, <2>4, <2>5, PlainStepIsLawful DEF Events
<1>7. PICK r : \/ Fail(r, states)
               \/ ParseStreamEnd(r)
               \/ ParseImplicitDocument(r)
               \/ ParseDocument(r)
  BY DEF ParseDocumentStart
<1>8. CASE Fail(r, states)
  BY <1>1, <1>5, <1>8, FailIsLawful
<1>9. CASE ParseStreamEnd(r)
  <2>1. /\ phase' = "end" /\ UNCHANGED <<open, error>> /\ event' = "STREAM-END"
        /\ state' = "END" /\ UNCHANGED <<states, tagDirectives>>
    BY <1>9 DEF ParseStreamEnd, Emit, Grammar!PhaseAfter, Grammar!OpenAfter
  <2>2. Where'
    BY <1>2, <2>1 DEF Where
  <2>3. Directives'
    BY <1>1, <1>3, <2>1 DEF IInv, Directives, Handles
  <2>4. Grammar!Produces(event')
    BY <1>2, <2>1 DEF Grammar!Produces, Grammar!StreamEndEvent
  <2>5. QED
    BY <1>1, <1>2, <2>1, <2>2, <2>3, <2>4, PlainStepIsLawful DEF Events
<1>10. CASE ParseImplicitDocument(r)
  <2>1. OnceEach(Defaulted(tagDirectives)) /\ {"!", "!!"} \subseteq ToSet(Defaulted(tagDirectives))
    BY <1>4, DefaultHandles
  <2>2. QED
    BY <1>6, <1>10, <2>1 DEF ParseImplicitDocument, RootStates
<1>11. CASE ParseDocument(r)
  <2>1. PICK d \in ProcessDirectives(r) :
           /\ tagDirectives' = d.handles
           /\ \/ Fail(d.next, states)
              \/ /\ ~d.fails
                 /\ states' = Append(states, "DOCUMENT_END")
                 /\ state' = "DOCUMENT_CONTENT"
                 /\ Emit("DOCUMENT-START")
    BY <1>11 DEF ParseDocument
  <2>2. CASE Fail(d.next, states)
    BY <1>1, <1>5, <2>2, FailIsLawful
  <2>3. CASE /\ ~d.fails
             /\ states' = Append(states, "DOCUMENT_END")
             /\ state' = "DOCUMENT_CONTENT"
             /\ Emit("DOCUMENT-START")
    <3>1. OnceEach(d.handles) /\ {"!", "!!"} \subseteq ToSet(d.handles)
      BY <1>4, <2>3, DirectivesProcessed
    <3>2. QED
      BY <1>6, <2>1, <2>3, <3>1 DEF RootStates
  <2>4. QED
    BY <2>1, <2>2, <2>3
<1>12. QED
  BY <1>7, <1>8, <1>9, <1>10, <1>11

(* The root of a document.                                                 *)
LEMMA RootIsReady ==
    ASSUME IInv, ~error, state \in RootStates
    PROVE  Ready(states) /\ marks = MarksOfAll(states)
<1>1. /\ open = <<>> /\ marks = <<>> /\ phase = "document"
      /\ states = <<"DOCUMENT_END">>
  BY NothingOpen
<1>2. InDocument(states)
  <2>1. "DOCUMENT_END" \in States
    BY DEF States
  <2>2. states \in Seq(States) /\ Len(states) = 1 /\ states # <<>> /\ states[1] = "DOCUMENT_END"
    BY <1>1, <2>1
  <2>3. QED
    BY <2>2 DEF InDocument
<1>3. Grammar!Counted = <<>> /\ <<>> \in Seq(Grammar!Frames)
  BY <1>1 DEF Grammar!Counted
<1>4. QED
  BY <1>1, <1>2, <1>3, NothingPushed DEF Ready

(* The root node of a document.                                            *)
LEMMA RootNodeIsLawful ==
    ASSUME IInv, ParseDocumentContent \/ ParseBlockNode
    PROVE  Lawful
<1>1. ~error /\ state \in RootStates /\ UNCHANGED marks
  BY DEF ParseDocumentContent, ParseBlockNode, InState, RootStates
<1>2. Ready(states) /\ marks' = MarksOfAll(states)
  BY <1>1, RootIsReady
<1>3. /\ state # "END" /\ states \in Seq(States) /\ marks' \in Seq(MarkTypes)
  BY <1>1 DEF RootStates, IInv, TypeOK, MarkTypes
<1>4. \/ Fail(reader, states)
      \/ Return(states) /\ Emit("SCALAR") /\ UNCHANGED tagDirectives
      \/ Node(reader, states, TRUE, FALSE)
  BY DEF ParseDocumentContent, ParseBlockNode
<1>5. CASE Fail(reader, states)
  BY <1>1, <1>3, <1>5, FailIsLawful
<1>6. CASE Return(states) /\ Emit("SCALAR") /\ UNCHANGED tagDirectives
  BY <1>1, <1>2, <1>6, LeafIsLawful
<1>7. CASE Node(reader, states, TRUE, FALSE)
  BY <1>1, <1>2, <1>7, NodeIsLawful
<1>8. QED
  BY <1>4, <1>5, <1>6, <1>7

(* The end of a document.                                                  *)
LEMMA DocumentEndIsLawful ==
    ASSUME IInv, ParseDocumentEnd
    PROVE  Lawful
<1>1. ~error /\ state = "DOCUMENT_END" /\ UNCHANGED marks
  BY DEF ParseDocumentEnd, InState
<1>2. /\ open = <<>> /\ marks = <<>> /\ TypeOK /\ phase = "root" /\ states = <<>>
  BY <1>1, NothingOpen
<1>3. CASE Fail(reader, states)
  BY <1>1, <1>2, <1>3, FailIsLawful DEF TypeOK, MarkTypes
<1>4. CASE /\ tagDirectives' = <<>>
           /\ state' = "DOCUMENT_START"
           /\ Emit("DOCUMENT-END")
           /\ UNCHANGED states
  <2>1. phase' = "stream" /\ UNCHANGED <<open, error>> /\ event' = "DOCUMENT-END"
    BY <1>4 DEF Emit, Grammar!PhaseAfter, Grammar!OpenAfter
  <2>2. Where'
    BY <1>2, <1>4, <2>1 DEF Where, Between
  <2>3. Directives'
    BY <1>4, <2>1 DEF Directives, Handles
  <2>4. Grammar!Produces(event')
    BY <1>2, <2>1 DEF Grammar!Produces, Grammar!DocumentEndEvent
  <2>5. QED
    BY <1>1, <1>2, <1>4, <2>1, <2>2, <2>3, <2>4, PlainStepIsLawful DEF Between, Events
<1>5. QED
  BY <1>3, <1>4 DEF ParseDocumentEnd

-----------------------------------------------------------------------------
(* Every step.                                                             *)

(* The invariant holds before the first call.                              *)
LEMMA InitIsLawful == Init => IInv
<1> SUFFICES ASSUME Init PROVE IInv
  OBVIOUS
<1>1. /\ state = "STREAM_START" /\ states = <<>> /\ marks = <<>>
      /\ tagDirectives = <<>> /\ error = FALSE /\ event = "NO-EVENT"
      /\ phase = "start" /\ open = <<>>
  BY DEF Init, Grammar!GrammarInit
<1>2. FramesOf(state) = <<>> /\ MarkOf(state) = <<>> /\ state \notin FirstStates
      /\ state \in States
  BY <1>1, PlainStates
<1>3. FramesOfAll(states) = <<>> /\ MarksOfAll(states) = <<>> /\ <<>> \o <<>> = <<>>
  BY <1>1, NothingPushed
<1>4. TypeOK
  <2>1. <<>> \in Seq(States) /\ <<>> \in Seq(FlowStarts \cup BlockStarts)
        /\ <<>> \in Seq(Grammar!Frames)
    OBVIOUS
  <2>2. Grammar!GrammarTypeOK
    BY <1>1, <2>1 DEF Grammar!GrammarTypeOK, Grammar!Phases
  <2>3. QED
    BY <1>1, <1>2, <2>1, <2>2 DEF TypeOK, Events
<1>5. Where
  BY <1>1 DEF Where
<1>6. FirstTokenIsThere
  BY <1>2, FirstStateIsFirst DEF FirstTokenIsThere, MarkTypes
<1>7. Directives
  BY <1>1 DEF Directives, Handles, ToSet
<1>8. QED
  BY <1>1, <1>2, <1>3, <1>4, <1>5, <1>6, <1>7 DEF IInv

(* A call after an error or after the end changes nothing.                 *)
LEMMA NoEventIsLawful ==
    ASSUME IInv, NoEvent
    PROVE  Lawful
<1>1. /\ event' = "NO-EVENT"
      /\ UNCHANGED <<state, states, marks, tagDirectives, reader, error, phase, open>>
  BY DEF NoEvent
<1>2. TypeOK'
  BY <1>1 DEF IInv, TypeOK, Events, Grammar!GrammarTypeOK, Grammar!Phases,
              Grammar!Frames, Grammar!Kinds
<1>3. IInv'
  BY <1>1, <1>2 DEF IInv, Where, FirstTokenIsThere, Token, Directives, Handles
<1>4. QED
  BY <1>1, <1>3 DEF Lawful, Grammar!Produces

(* Every call keeps the invariant.                                         *)
LEMMA NextIsLawful ==
    ASSUME IInv, Next
    PROVE  Lawful
<1>1. CASE NoEvent
  BY <1>1, NoEventIsLawful
<1>2. CASE ParseStreamStart
  BY <1>2, StreamStartIsLawful
<1>3. CASE \E implicit \in BOOLEAN : ParseDocumentStart(implicit)
  BY <1>3, DocumentStartIsLawful
<1>4. CASE ParseDocumentContent \/ ParseBlockNode
  BY <1>4, RootNodeIsLawful
<1>5. CASE ParseDocumentEnd
  BY <1>5, DocumentEndIsLawful
<1>6. CASE \E first \in BOOLEAN : ParseBlockSequenceEntry(first)
  BY <1>6, BlockSequenceIsLawful
<1>7. CASE \E first \in BOOLEAN : ParseBlockMappingKey(first)
  BY <1>7, BlockMappingKeyIsLawful
<1>8. CASE \E first \in BOOLEAN : ParseFlowSequenceEntry(first)
  BY <1>8, FlowSequenceIsLawful
<1>9. CASE \E first \in BOOLEAN : ParseFlowMappingKey(first)
  BY <1>9, FlowMappingKeyIsLawful
<1>10. CASE ParseIndentlessSequenceEntry
  BY <1>10, IndentlessSequenceIsLawful
<1>11. CASE ParseBlockMappingValue
  BY <1>11, BlockMappingValueIsLawful
<1>12. CASE ParseFlowSequenceEntryMappingKey
  BY <1>12, PairKeyIsLawful
<1>13. CASE ParseFlowSequenceEntryMappingValue
  BY <1>13, PairValueIsLawful
<1>14. CASE ParseFlowSequenceEntryMappingEnd
  BY <1>14, PairEndIsLawful
<1>15. CASE \E empty \in BOOLEAN : ParseFlowMappingValue(empty)
  BY <1>15, FlowMappingValueIsLawful
<1>16. QED
  BY <1>1, <1>2, <1>3, <1>4, <1>5, <1>6, <1>7, <1>8, <1>9, <1>10, <1>11, <1>12, <1>13,
     <1>14, <1>15 DEF Next

(* So does no call at all.                                                 *)
LEMMA StutterKeeps ==
    ASSUME IInv, UNCHANGED vars
    PROVE  IInv'
<1>1. TypeOK'
  BY DEF vars, IInv, TypeOK, Grammar!GrammarTypeOK, Grammar!Phases, Grammar!Frames,
         Grammar!Kinds
<1>2. QED
  BY <1>1 DEF vars, IInv, Where, FirstTokenIsThere, Token, Directives, Handles

(* The stacks of the parser follow the collections that its events have    *)
(* opened, whatever tokens the scanner delivers and wherever it fails.     *)
THEOREM ParserInvariant == Spec => []IInv
<1>1. IInv /\ [Next]_vars => IInv'
  BY NextIsLawful, StutterKeeps DEF Lawful
<1>2. QED
  BY InitIsLawful, <1>1, PTL DEF Spec

(* Types.                                                                  *)
THEOREM ParserTypes == Spec => []TypeOK
<1>1. IInv => TypeOK
  BY DEF IInv
<1>2. QED
  BY <1>1, ParserInvariant, PTL

(* Whatever the tokens, the events follow the grammar of events: the       *)
(* parser never pops a state of another collection, never ends a mapping   *)
(* behind a key without a value, and a document has exactly one root.      *)
THEOREM EventsFollowGrammar == Spec => ProducesGrammar
<1>1. Init => Grammar!GrammarInit
  BY DEF Init
<1>2. IInv /\ [Next]_vars => IInv' /\ [Grammar!Produces(event')]_vars
  BY NextIsLawful, StutterKeeps DEF Lawful
<1>3. QED
  BY InitIsLawful, <1>1, <1>2, PTL DEF Spec, ProducesGrammar

(* The first call in a collection skips a token without looking at it: it  *)
(* is always the token that started the collection.                        *)
THEOREM FirstTokens == Spec => []FirstTokenIsThere
<1>1. IInv => FirstTokenIsThere
  BY DEF IInv, FirstTokenIsThere
<1>2. QED
  BY <1>1, ParserInvariant, PTL

(* No document leaves a state on the stack, so no call pops an empty one.  *)
THEOREM DocumentsBalanceStates == Spec => []StatesMatchDocument
<1>1. IInv => StatesMatchDocument
  BY DEF IInv, Where, StatesMatchDocument, InDocument, RootStates, Between
<1>2. QED
  BY <1>1, ParserInvariant, PTL

(* The mark on top belongs to the innermost collection that reports one.   *)
THEOREM MarksBalance == Spec => []MarksFollowStates
<1>1. ASSUME IInv, ~error PROVE MarksFollowStates
  <2> DEFINE t == Append(states, state)
  <2>1. states \in Seq(States) /\ state \in States
    BY <1>1 DEF IInv, TypeOK
  <2>2. DOMAIN t = 1..(Len(states) + 1)
    BY <2>1
  <2>3. marks = MarksOfAll(t)
    BY <1>1, <2>1, MarksPushed DEF IInv
  <2> HIDE DEF t
  <2>4. marks = FlattenSeq([i \in 1..(Len(states) + 1) |-> MarkOf(t[i])])
    BY <2>2, <2>3 DEF MarksOfAll
  <2>5. QED
    BY <2>4 DEF MarksFollowStates, t
<1>2. IInv => MarksFollowStates
  BY <1>1 DEF MarksFollowStates
<1>3. QED
  BY <1>2, ParserInvariant, PTL

(* A sequence without repetitions has as many elements as places.          *)
LEMMA DistinctCount ==
    ASSUME NEW s, OnceEach(s)
    PROVE  Cardinality(ToSet(s)) = Len(s)
<1> DEFINE n == Len(s)
           S == ToSet(s)
<1>1. n \in Nat /\ DOMAIN s = 1..n /\ s \in [1..n -> S]
  BY DEF OnceEach
<1>2. s \in Injection(1..n, S)
  BY <1>1 DEF OnceEach, Distinct, Injection, IsInjective
<1>3. s \in Surjection(1..n, S)
  BY <1>1 DEF Surjection, ToSet
<1>4. ExistsBijection(1..n, S)
  BY <1>2, <1>3 DEF ExistsBijection, Bijection
<1>5. QED
  BY <1>1, <1>4, FS_CountingElements

(* The handles of %TAG belong to one document, and none is there twice.    *)
THEOREM DirectivesStayLocal == Spec => []DirectivesAreLocal
<1>1. ASSUME IInv, ~error PROVE DirectivesAreLocal
  <2>1. Directives
    BY <1>1 DEF IInv
  <2>2. Distinct(tagDirectives) => Cardinality(ToSet(tagDirectives)) = Len(tagDirectives)
    BY <2>1, DistinctCount DEF Directives, OnceEach
  <2>3. QED
    BY <2>1, <2>2 DEF Directives, DirectivesAreLocal, Handles
<1>2. IInv => DirectivesAreLocal
  BY <1>1 DEF DirectivesAreLocal
<1>3. QED
  BY <1>2, ParserInvariant, PTL
=============================================================================
